-------------------------- MODULE ServeWatchProofs --------------------------
(***************************************************************************)
(* The serve host's watch path, for any number of connections and files.   *)
(*                                                                         *)
(* Typing and PushedOnce hold of every host.  What a client may conclude   *)
(* from a watermark does not: the hub and the scan number their batches    *)
(* apart (README, "Divergences"), so the theorems on watermarks assume the *)
(* host before its hub has started, which is the case the runs check.      *)
(***************************************************************************)
EXTENDS ServeWatch, FilesSinceJournalProofs, FiniteSetTheorems

(* The list of a finite set of events names each of them once.             *)
LEMMA ListedOnce ==
  ASSUME NEW events, IsFiniteSet(events)
  PROVE  /\ Cardinality(events) \in Nat
         /\ Listed(events) \in [1 .. Cardinality(events) -> events]
         /\ \A e \in events : \E i \in 1 .. Cardinality(events) :
              Listed(events)[i] = e
         /\ \A i, k \in 1 .. Cardinality(events) :
              Listed(events)[i] = Listed(events)[k] => i = k
<1>. DEFINE n == Cardinality(events)
            s == Listed(events)
            Full(f) == \A e \in events : \E i \in DOMAIN f : f[i] = e
<1>1. n \in Nat /\ ExistsBijection(1 .. n, events)
  BY FS_CardinalityType
<1>2. PICK f \in [1 .. n -> events] : Full(f)
  <2>1. PICK f \in Bijection(1 .. n, events) : TRUE
    BY <1>1 DEF ExistsBijection
  <2>2. f \in [1 .. n -> events] /\ \A e \in events : \E i \in 1 .. n : f[i] = e
    BY <2>1 DEF Bijection, Surjection
  <2>. QED
    BY <2>2
<1>3. s \in [1 .. n -> events] /\ Full(s)
  <2>1. s = CHOOSE g \in [1 .. n -> events] : Full(g)
    BY DEF Listed
  <2>. HIDE DEF s, Full
  <2>. QED
    BY <1>2, <2>1
<1>3a. \A e \in events : \E i \in 1 .. n : s[i] = e
  BY <1>3
<1>4. s \in Surjection(1 .. n, events)
  BY <1>3, <1>3a DEF Surjection
<1>5. IsFiniteSet(1 .. n) /\ Cardinality(1 .. n) = n
  <2>1. Cardinality(1 .. n) = IF 1 > n THEN 0 ELSE n - 1 + 1
    BY <1>1, FS_Interval
  <2>. QED
    BY <1>1, <2>1, FS_Interval
<1>. HIDE DEF n, s
<1>6. s \in Injection(1 .. n, events)
  BY <1>4, <1>5, FS_SurjSameCardinalityImpliesInj DEF n
<1>7. /\ n \in Nat /\ s \in [1 .. n -> events]
      /\ \A e \in events : \E i \in 1 .. n : s[i] = e
      /\ \A i, k \in 1 .. n : s[i] = s[k] => i = k
  BY <1>1, <1>3, <1>3a, <1>6 DEF Injection, IsInjective
<1>. QED
  BY <1>7 DEF n, s

(* So it is a list of changes, and its paths are the events' paths.        *)
LEMMA ListedType ==
  ASSUME NEW events \in SUBSET Change, IsFiniteSet(events)
  PROVE  /\ Cardinality(events) \in Nat
         /\ Listed(events) \in Seq(Change)
         /\ Len(Listed(events)) = Cardinality(events)
         /\ ListedPaths(events) \in Seq(Paths)
         /\ Len(ListedPaths(events)) = Cardinality(events)
         /\ \A i \in 1 .. Cardinality(events) :
              /\ Listed(events)[i] \in events
              /\ ListedPaths(events)[i] = Listed(events)[i].path
         /\ events # {} => Cardinality(events) > 0
<1>. DEFINE n == Cardinality(events)
<1>1. n \in Nat /\ Listed(events) \in [1 .. n -> events]
  BY ListedOnce
<1>2. \A i \in 1 .. n : Listed(events)[i] \in events /\ Listed(events)[i].path \in Paths
  BY <1>1 DEF Change
<1>3. events # {} => n > 0
  BY <1>1, FS_EmptySet
<1>. QED
  BY <1>1, <1>2, <1>3 DEF ListedPaths

(* What journaling a batch leaves of the journal's type.                   *)
LEMMA JournalBatchType ==
  ASSUME NEW j \in Journal, NEW events \in SUBSET Change, IsFiniteSet(events),
         NEW g \in Nat, NEW overflow \in BOOLEAN
  PROVE  JournalBatch(j, events, g, overflow) \in Journal
<1>. DEFINE base == IF overflow THEN MarkOverflow(j, g) ELSE j
            ps == ListedPaths(events)
<1>1. base \in Journal
  BY DEF MarkOverflow, Journal
<1>2. ps \in Seq(Paths)
  BY ListedType
<1>3. JournalBatch(j, events, g, overflow) = RecordAll(base, ps, g, 0)
  BY DEF JournalBatch
<1>. HIDE DEF base, ps
<1>4. CASE ps = << >>
  BY <1>1, <1>3, <1>4 DEF RecordAll
<1>5. CASE ps # << >>
  <2>1. \E drop \in 0 .. (Len(base.entries) + Len(ps) - 1) :
          Recorded(base, ps, g, 0, drop)
    BY <1>1, <1>2, <1>5, RecordAllResult
  <2>. QED
    BY <1>3, <2>1 DEF Recorded
<1>. QED
  BY <1>4, <1>5

-----------------------------------------------------------------------------
(***************************************************************************)
(* Typing.  The events under way are finitely many, which is what makes    *)
(* the list of a batch exist.                                              *)
(***************************************************************************)
FiniteEvents ==
  /\ IsFiniteSet(hub.batch.events)
  /\ \A c \in Conns : IsFiniteSet(conn[c].events)

Typed == TypeOK /\ FiniteEvents

(* The host's start is typed.                                              *)
LEMMA InitTyped == Init => Typed
<1>. SUFFICES ASSUME Init  PROVE Typed
  OBVIOUS
<1>1. NoBatch \in Batch /\ NoBatch.events = {}
  BY DEF NoBatch, Batch, Change
<1>2. HubIdle \in HubState /\ HubIdle.batch = NoBatch
  BY <1>1 DEF HubIdle, HubState
<1>3. ConnIdle \in ConnState /\ ConnIdle.events = {}
  BY <1>1 DEF ConnIdle, ConnState, Absent
<1>4. EmptyJournal \in Journal
  BY DEF EmptyJournal, Journal
<1>5. TypeOK
  <2>1. /\ disk \in [Paths -> Nat] /\ snapshot \in [Paths -> Nat]
        /\ writes \in Nat /\ edits \in Nat
    BY DEF Init, Absent
  <2>2. /\ conn \in [Conns -> ConnState]
        /\ \A c \in Conns : conn[c].pc = "idle" => conn[c] = ConnIdle
    BY <1>3 DEF Init
  <2>3. /\ pending_batches \in Seq(Batch) /\ history \in Seq(Change)
        /\ received \in [Conns -> Seq(Batch)]
        /\ pending_batches # << >> => subscribed
    BY DEF Init
  <2>4. /\ hub \in HubState /\ journal \in Journal /\ subscribed \in BOOLEAN
        /\ subscribers \in SUBSET Conns /\ handed \in SUBSET Watermark
    BY <1>2, <1>4 DEF Init
  <2>. QED
    BY <2>1, <2>2, <2>3, <2>4 DEF TypeOK
<1>6. FiniteEvents
  BY <1>1, <1>2, <1>3, FS_EmptySet DEF Init, FiniteEvents
<1>. QED
  BY <1>5, <1>6 DEF Typed

(* The start and end states of the threads, and what TypeOK says of one.   *)
LEMMA IdleTypes ==
  /\ NoBatch \in Batch /\ NoBatch.events = {}
  /\ ConnIdle \in ConnState /\ ConnIdle.events = {} /\ ConnIdle.pc = "idle"
  /\ ConnIdle.batch = NoBatch
<1>1. NoBatch \in Batch /\ NoBatch.events = {}
  BY DEF NoBatch, Batch, Change
<1>. QED
  BY <1>1 DEF ConnIdle, ConnState, Absent

(* A step of one connection keeps the connections typed if it leaves that  *)
(* one typed.                                                              *)
LEMMA ConnTyped ==
  ASSUME Typed, NEW c \in Conns, NEW s \in ConnState,
         conn' = [conn EXCEPT ![c] = s],
         s.pc = "idle" => s = ConnIdle, IsFiniteSet(s.events)
  PROVE  /\ conn' \in [Conns -> ConnState]
         /\ \A d \in Conns : conn'[d].pc = "idle" => conn'[d] = ConnIdle
         /\ \A d \in Conns : IsFiniteSet(conn'[d].events)
BY DEF Typed, TypeOK, FiniteEvents

(* The elements of a list that was lengthened.                             *)
LEMMA JoinedList ==
  ASSUME NEW S, NEW s \in Seq(S), NEW t \in Seq(S)
  PROVE  /\ Len(s) \in Nat /\ Len(t) \in Nat
         /\ DOMAIN s = 1 .. Len(s)
         /\ Len(s \o t) = Len(s) + Len(t)
         /\ DOMAIN (s \o t) = 1 .. Len(s) + Len(t)
         /\ \A k \in 1 .. Len(s) : (s \o t)[k] = s[k]
         /\ \A k \in 1 .. Len(t) : (s \o t)[Len(s) + k] = t[k]
         /\ \A k \in 1 .. Len(s) + Len(t) :
              \/ k \in 1 .. Len(s) /\ (s \o t)[k] = s[k]
              \/ /\ k > Len(s)
                 /\ k - Len(s) \in 1 .. Len(t)
                 /\ (s \o t)[k] = t[k - Len(s)]
OBVIOUS

(* What the hub gathers from its channel: finitely many changes.           *)
LEMMA GatheredType ==
  ASSUME Typed
  PROVE  LET events == {[path |-> hub.chan[i], kind |-> "modify",
                         stamp |-> disk[hub.chan[i]]] : i \in DOMAIN hub.chan}
         IN  events \in SUBSET Change /\ IsFiniteSet(events)
<1>. DEFINE e(i) == [path |-> hub.chan[i], kind |-> "modify",
                     stamp |-> disk[hub.chan[i]]]
            events == {e(i) : i \in DOMAIN hub.chan}
            f == [i \in DOMAIN hub.chan |-> e(i)]
<1>1. hub.chan \in Seq(Paths) /\ disk \in [Paths -> Nat]
  BY DEF Typed, TypeOK, HubState
<1>2. DOMAIN hub.chan = 1 .. Len(hub.chan) /\ Len(hub.chan) \in Nat
  BY <1>1
<1>3. \A i \in DOMAIN hub.chan : e(i) \in Change
  <2>1. \A i \in DOMAIN hub.chan : hub.chan[i] \in Paths
    BY <1>1
  <2>2. \A i \in DOMAIN hub.chan : disk[hub.chan[i]] \in Nat
    BY <1>1, <2>1
  <2>. QED
    BY <2>1, <2>2 DEF Change, Kinds
<1>. HIDE DEF e
<1>4. IsFiniteSet(DOMAIN hub.chan)
  BY <1>2, FS_Interval
<1>5. f \in Surjection(DOMAIN hub.chan, events)
  BY DEF Surjection
<1>6. IsFiniteSet(events)
  BY <1>4, <1>5, FS_Surjection
<1>7. events \in SUBSET Change
  BY <1>3
<1>. QED
  BY <1>6, <1>7 DEF e

(* What a scan finds: finitely many changes, at most one of each path.     *)
LEMMA DiffType ==
  ASSUME Typed, NEW now \in [Paths -> Nat]
  PROVE  /\ Diff(now) \in SUBSET Change /\ IsFiniteSet(Diff(now))
         /\ \A e \in Diff(now) :
              /\ e.path \in Paths /\ e.kind = KindOf(snapshot[e.path], now[e.path])
              /\ now[e.path] # snapshot[e.path]
         /\ \A e1, e2 \in Diff(now) : e1.path = e2.path => e1 = e2
         /\ \A p \in Paths : now[p] # snapshot[p] =>
              \E e \in Diff(now) : e.path = p
<1>. DEFINE changed == {p \in Paths : now[p] # snapshot[p]}
            e(p) == [path |-> p, kind |-> KindOf(snapshot[p], now[p]),
                     stamp |-> now[p]]
            f == [p \in changed |-> e(p)]
<1>1. Diff(now) = {e(p) : p \in changed}
  BY DEF Diff, DiffOf
<1>2. \A p \in Paths : /\ e(p) \in Change /\ e(p).path = p
                       /\ e(p).kind = KindOf(snapshot[p], now[p])
  <2>1. \A p \in Paths : KindOf(snapshot[p], now[p]) \in Kinds
    BY DEF KindOf, Kinds
  <2>. QED
    BY <2>1 DEF Change
<1>3. IsFiniteSet(changed)
  BY FiniteAssumption, FS_Subset
<1>. HIDE DEF e
<1>4. f \in Surjection(changed, {e(p) : p \in changed})
  BY DEF Surjection
<1>5. IsFiniteSet(Diff(now))
  BY <1>1, <1>3, <1>4, FS_Surjection
<1>6. ASSUME NEW d \in Diff(now)
      PROVE  /\ d \in Change /\ d.path \in Paths /\ d = e(d.path)
             /\ d.kind = KindOf(snapshot[d.path], now[d.path])
             /\ now[d.path] # snapshot[d.path]
  BY <1>1, <1>2
<1>7. ASSUME NEW p \in Paths, now[p] # snapshot[p]
      PROVE  \E d \in Diff(now) : d.path = p
  BY <1>1, <1>2, <1>7
<1>8. ASSUME NEW d1 \in Diff(now), NEW d2 \in Diff(now), d1.path = d2.path
      PROVE  d1 = d2
  BY <1>6, <1>8
<1>. QED
  BY <1>5, <1>6, <1>7, <1>8

(* A batch that was journaled for one scan.                                *)
LEMMA ScannedBatch ==
  ASSUME Typed, NEW c \in Conns, ScanJournal(c)
  PROVE  \E kept \in SUBSET conn[c].events : \E overflow \in BOOLEAN :
           LET g == journal.current_generation + 1
               b == [events |-> kept, overflow |-> overflow, generation |-> g,
                     upto |-> Len(history')]
           IN  /\ overflow => kept # {}
               /\ ~overflow => kept = conn[c].events
               /\ kept \in SUBSET Change /\ IsFiniteSet(kept)
               /\ g \in Nat
               /\ journal' = JournalBatch(journal, kept, g, overflow)
               /\ history' = Remember(conn[c].events)
               /\ history' \in Seq(Change)
               /\ b \in Batch
               /\ conn' = [conn EXCEPT ![c] = [ConnIdle EXCEPT !.pc = "push",
                                                              !.batch = b]]
<1>. DEFINE all == conn[c].events
            g == journal.current_generation + 1
            overflow == Cardinality(all) > ScanLimit
<1>1. /\ all \in SUBSET Change /\ IsFiniteSet(all)
      /\ Cardinality(all) \in Nat /\ g \in Nat /\ history \in Seq(Change)
      /\ Listed(all) \in Seq(Change)
  <2>1. all \in SUBSET Change /\ IsFiniteSet(all)
    BY DEF Typed, TypeOK, ConnState, FiniteEvents
  <2>. QED
    BY <2>1, ListedType DEF Typed, TypeOK, Journal
<1>2. PICK kept \in SUBSET all :
        /\ Cardinality(kept) = IF overflow THEN ScanLimit ELSE Cardinality(all)
        /\ journal' = JournalBatch(journal, kept, g, overflow)
        /\ history' = Remember(all)
        /\ conn' = [conn EXCEPT ![c] = [ConnIdle EXCEPT
                !.pc = "push",
                !.batch = [events |-> kept, overflow |-> overflow,
                           generation |-> g, upto |-> Len(history')]]]
  BY DEF ScanJournal
<1>3. kept \in SUBSET Change /\ IsFiniteSet(kept)
  BY <1>1, FS_Subset
<1>4. overflow => kept # {}
  <2>1. Cardinality({}) = 0 /\ ScanLimit \in Nat \ {0}
    BY FS_EmptySet, ServeBounds
  <2>. QED
    BY <1>2, <2>1
<1>5. ~overflow => kept = all
  BY <1>1, <1>2, FS_Subset
<1>6. history' \in Seq(Change) /\ Len(history') \in Nat
  BY <1>1, <1>2 DEF Remember
<1>7. overflow \in BOOLEAN
  OBVIOUS
<1>8. [events |-> kept, overflow |-> overflow, generation |-> g,
       upto |-> Len(history')] \in Batch
  BY <1>1, <1>3, <1>6, <1>7 DEF Batch
<1>. HIDE DEF g, overflow
<1>9. /\ overflow => kept # {}
      /\ ~overflow => kept = all
      /\ kept \in SUBSET Change /\ IsFiniteSet(kept)
      /\ g \in Nat
      /\ journal' = JournalBatch(journal, kept, g, overflow)
      /\ history' = Remember(all)
      /\ history' \in Seq(Change)
      /\ [events |-> kept, overflow |-> overflow, generation |-> g,
          upto |-> Len(history')] \in Batch
      /\ conn' = [conn EXCEPT ![c] = [ConnIdle EXCEPT !.pc = "push",
                    !.batch = [events |-> kept, overflow |-> overflow,
                               generation |-> g, upto |-> Len(history')]]]
  BY <1>1, <1>2, <1>3, <1>4, <1>5, <1>6, <1>8
<1>. QED
  BY <1>7, <1>9 DEF g

(* A host step that leaves the tree, the readers and the counts alone.     *)
LEMMA HubTyped ==
  ASSUME Typed, HubStep
  PROVE  Typed'
<1>1. /\ hub \in HubState /\ disk \in [Paths -> Nat] /\ journal \in Journal
      /\ history \in Seq(Change) /\ IsFiniteSet(hub.batch.events)
      /\ pending_batches \in Seq(Batch) /\ subscribed \in BOOLEAN
      /\ pending_batches # << >> => subscribed
  BY DEF Typed, TypeOK, FiniteEvents
<1>2. /\ hub.batch \in Batch /\ hub.generation \in Nat /\ hub.chan \in Seq(Paths)
      /\ hub.on \in BOOLEAN
  BY <1>1 DEF HubState
<1>3. CASE HubFlush
  <2>. DEFINE events == {[path |-> hub.chan[i], kind |-> "modify",
                          stamp |-> disk[hub.chan[i]]] : i \in DOMAIN hub.chan}
              g == hub.generation + 1
              b == [NoBatch EXCEPT !.events = events, !.generation = g]
  <2>1. events \in SUBSET Change /\ IsFiniteSet(events)
    BY GatheredType
  <2>2. hub' = [hub EXCEPT !.generation = g, !.chan = << >>,
                           !.pc = "journal", !.batch = b]
    BY <1>3 DEF HubFlush
  <2>. HIDE DEF events
  <2>3. b \in Batch /\ b.events = events
    <3>1. NoBatch \in Batch /\ g \in Nat
      BY <1>2, IdleTypes
    <3>. QED
      BY <2>1, <3>1 DEF Batch
  <2>. HIDE DEF b
  <2>4. hub' \in HubState /\ hub'.batch = b
    <3>1. g \in Nat /\ << >> \in Seq(Paths)
      BY <1>2
    <3>. HIDE DEF g
    <3>. QED
      BY <1>1, <2>2, <2>3, <3>1 DEF HubState
  <2>5. TypeOK'
    BY <1>3, <2>4 DEF HubFlush, host, seen, env, Typed, TypeOK
  <2>6. FiniteEvents'
    BY <1>3, <2>1, <2>3, <2>4 DEF HubFlush, Typed, FiniteEvents
  <2>. QED
    BY <2>5, <2>6 DEF Typed
<1>4. CASE HubJournal
  <2>. DEFINE b == hub.batch
  <2>1. b.events \in SUBSET Change /\ IsFiniteSet(b.events) /\ b.generation \in Nat
    BY <1>1, <1>2 DEF Batch
  <2>2. journal' \in Journal /\ history' \in Seq(Change)
    <3>1. journal' = JournalBatch(journal, b.events, b.generation, FALSE)
          /\ history' = Remember(b.events)
      BY <1>4 DEF HubJournal
    <3>2. journal' \in Journal
      BY <1>1, <2>1, <3>1, JournalBatchType
    <3>3. Listed(b.events) \in Seq(Change)
      BY <2>1, ListedType
    <3>4. history' \in Seq(Change)
      BY <1>1, <3>1, <3>3 DEF Remember
    <3>. QED
      BY <3>2, <3>4
  <2>3. hub' = [hub EXCEPT !.pc = "push", !.batch = [b EXCEPT !.upto = Len(history')]]
    BY <1>4 DEF HubJournal
  <2>4. hub' \in HubState /\ hub'.batch.events = b.events
    <3>. DEFINE b2 == [b EXCEPT !.upto = Len(history')]
    <3>1. b2 \in Batch /\ b2.events = b.events
      <4>1. Len(history') \in Nat
        BY <2>2
      <4>. QED
        BY <1>2, <4>1 DEF Batch
    <3>. HIDE DEF b2
    <3>2. hub' = [hub EXCEPT !.pc = "push", !.batch = b2]
      BY <2>3 DEF b2
    <3>. QED
      BY <1>1, <3>1, <3>2 DEF HubState
  <2>5. TypeOK'
    BY <1>4, <2>2, <2>4 DEF HubJournal, env, Typed, TypeOK
  <2>6. FiniteEvents'
    BY <1>4, <2>1, <2>4 DEF HubJournal, Typed, FiniteEvents
  <2>. QED
    BY <2>5, <2>6 DEF Typed
<1>5. CASE HubPush
  <2>1. NoBatch \in Batch /\ IsFiniteSet(NoBatch.events)
    BY IdleTypes, FS_EmptySet
  <2>2. hub' \in HubState /\ hub'.batch = NoBatch
    BY <1>1, <1>5, <2>1 DEF HubPush, HubState
  <2>3. /\ pending_batches' \in Seq(Batch)
        /\ pending_batches' # << >> => subscribed
    BY <1>1, <1>2, <1>5 DEF HubPush, PushIfSubscribed
  <2>4. TypeOK'
    BY <1>5, <2>2, <2>3 DEF HubPush, seen, env, Typed, TypeOK
  <2>5. FiniteEvents'
    BY <1>5, <2>1, <2>2 DEF HubPush, Typed, FiniteEvents
  <2>. QED
    BY <2>4, <2>5 DEF Typed
<1>. QED
  BY <1>3, <1>4, <1>5 DEF HubStep

(* What a connection takes out of the list and hands to its client.        *)
LEMMA WrittenType ==
  ASSUME Typed, NEW n \in 0 .. Len(pending_batches)
  PROVE  LET sent == SubSeq(pending_batches, 1, n)
         IN  /\ sent \in Seq(Batch) /\ Len(sent) = n
             /\ \A i \in 1 .. n : sent[i] = pending_batches[i]
             /\ DOMAIN sent = 1 .. n
             /\ {[generation |-> sent[i].generation, upto |-> sent[i].upto] :
                   i \in DOMAIN sent} \in SUBSET Watermark
<1>1. pending_batches \in Seq(Batch) /\ Len(pending_batches) \in Nat /\ n \in Nat
  BY DEF Typed, TypeOK
<1>. DEFINE sent == SubSeq(pending_batches, 1, n)
<1>2. /\ sent \in Seq(Batch) /\ Len(sent) = n
      /\ \A i \in 1 .. n : sent[i] = pending_batches[i]
      /\ DOMAIN sent = 1 .. n
  BY <1>1
<1>. HIDE DEF sent
<1>3. \A i \in 1 .. n : sent[i].generation \in Nat /\ sent[i].upto \in Nat
  <2>1. \A i \in 1 .. n : sent[i] \in Batch
    BY <1>2
  <2>. QED
    BY <2>1 DEF Batch
<1>4. {[generation |-> sent[i].generation, upto |-> sent[i].upto] :
         i \in DOMAIN sent} \in SUBSET Watermark
  BY <1>2, <1>3 DEF Watermark
<1>. QED
  BY <1>2, <1>4 DEF sent

(* A connection's own steps.                                               *)
LEMMA ConnStepTyped ==
  ASSUME Typed, NEW c \in Conns, ConnStep(c)
  PROVE  Typed'
<1>1. /\ conn \in [Conns -> ConnState] /\ conn[c] \in ConnState
      /\ disk \in [Paths -> Nat] /\ snapshot \in [Paths -> Nat]
      /\ journal \in Journal /\ history \in Seq(Change)
      /\ pending_batches \in Seq(Batch) /\ subscribed \in BOOLEAN
      /\ pending_batches # << >> => subscribed
      /\ received \in [Conns -> Seq(Batch)] /\ handed \in SUBSET Watermark
      /\ IsFiniteSet(conn[c].events) /\ IsFiniteSet(hub.batch.events)
      /\ ConnIdle \in ConnState /\ ConnIdle.events = {} /\ IsFiniteSet({})
  BY IdleTypes, FS_EmptySet DEF Typed, TypeOK, FiniteEvents
<1>2. ASSUME NEW s \in ConnState, conn' = [conn EXCEPT ![c] = s],
             s.pc = "idle" => s = ConnIdle, IsFiniteSet(s.events),
             hub' = hub, subscribed' = subscribed, subscribers' = subscribers,
             writes' = writes, edits' = edits, disk' = disk,
             snapshot' \in [Paths -> Nat], journal' \in Journal,
             history' \in Seq(Change), received' \in [Conns -> Seq(Batch)],
             handed' \in SUBSET Watermark, pending_batches' \in Seq(Batch),
             pending_batches' # << >> => subscribed
      PROVE  Typed'
  <2>1. /\ conn' \in [Conns -> ConnState]
        /\ \A d \in Conns : conn'[d].pc = "idle" => conn'[d] = ConnIdle
        /\ \A d \in Conns : IsFiniteSet(conn'[d].events)
    BY <1>2, ConnTyped
  <2>2. TypeOK'
    BY <1>2, <2>1 DEF Typed, TypeOK
  <2>3. FiniteEvents'
    BY <1>1, <1>2, <2>1 DEF FiniteEvents
  <2>. QED
    BY <2>2, <2>3 DEF Typed
<1>3. CASE PollBegins(c)
  <2>1. PICK s \in {[conn[c] EXCEPT !.pc = "drain"],
                    [conn[c] EXCEPT !.pc = "diff", !.now = disk]} :
          conn' = [conn EXCEPT ![c] = s]
    <3>1. CASE hub.on
      <4>1. conn' = [conn EXCEPT ![c].pc = "drain"]
        BY <1>3, <3>1 DEF PollBegins, Goto
      <4>. QED
        BY <4>1
    <3>2. CASE ~hub.on
      <4>1. conn' = [conn EXCEPT ![c].pc = "diff", ![c].now = disk]
        BY <1>3, <3>2 DEF PollBegins
      <4>. QED
        BY <1>1, <4>1
    <3>. QED
      BY <3>1, <3>2
  <2>2. s \in ConnState /\ s.pc # "idle" /\ s.events = conn[c].events
    BY <1>1 DEF ConnState
  <2>. QED
    BY <1>1, <1>2, <1>3, <2>1, <2>2 DEF PollBegins, host, seen, env
<1>4. CASE ScanDiff(c)
  <2>. DEFINE first == \A p \in Paths : snapshot[p] = Absent
              found == IF first THEN {} ELSE Diff(conn[c].now)
              news == {e \in found : e.path \notin Denied}
              s == [ConnIdle EXCEPT
                      !.pc = IF found = {} THEN "drain" ELSE "journal",
                      !.events = news]
  <2>1. conn[c].now \in [Paths -> Nat]
    BY <1>1 DEF ConnState
  <2>2. found \in SUBSET Change /\ IsFiniteSet(found)
    BY <1>1, <2>1, DiffType
  <2>3. news \in SUBSET Change /\ IsFiniteSet(news)
    BY <2>2, FS_Subset
  <2>4. snapshot' = conn[c].now /\ conn' = [conn EXCEPT ![c] = s]
    BY <1>4 DEF ScanDiff
  <2>. HIDE DEF news, found
  <2>5. s \in ConnState /\ s.pc # "idle" /\ s.events = news
    BY <1>1, <2>3 DEF ConnState
  <2>. HIDE DEF s
  <2>. QED
    BY <1>1, <1>2, <1>4, <2>1, <2>3, <2>4, <2>5 DEF ScanDiff, host, seen, env
<1>5. CASE ScanJournal(c)
  <2>1. PICK kept \in SUBSET conn[c].events, overflow \in BOOLEAN :
          LET g == journal.current_generation + 1
              b == [events |-> kept, overflow |-> overflow, generation |-> g,
                    upto |-> Len(history')]
          IN  /\ kept \in SUBSET Change /\ IsFiniteSet(kept)
              /\ g \in Nat
              /\ journal' = JournalBatch(journal, kept, g, overflow)
              /\ history' \in Seq(Change)
              /\ b \in Batch
              /\ conn' = [conn EXCEPT ![c] = [ConnIdle EXCEPT !.pc = "push",
                                                             !.batch = b]]
    BY <1>5, ScannedBatch
  <2>2. journal' \in Journal
    BY <1>1, <2>1, JournalBatchType
  <2>. DEFINE b == [events |-> kept, overflow |-> overflow,
                    generation |-> journal.current_generation + 1,
                    upto |-> Len(history')]
              s == [ConnIdle EXCEPT !.pc = "push", !.batch = b]
  <2>3. b \in Batch /\ conn' = [conn EXCEPT ![c] = s]
    BY <2>1
  <2>. HIDE DEF b
  <2>4. s \in ConnState /\ s.pc # "idle" /\ s.events = {}
    BY <1>1, <2>3 DEF ConnState
  <2>. HIDE DEF s
  <2>. QED
    BY <1>1, <1>2, <1>5, <2>1, <2>2, <2>3, <2>4 DEF ScanJournal, env
<1>6. CASE ScanPush(c)
  <2>. DEFINE s == [ConnIdle EXCEPT !.pc = "drain"]
  <2>1. s \in ConnState /\ s.pc # "idle" /\ s.events = {}
    BY <1>1 DEF ConnState
  <2>2. conn[c].batch \in Batch
    BY <1>1 DEF ConnState
  <2>3. /\ pending_batches' \in Seq(Batch)
        /\ pending_batches' # << >> => subscribed
    BY <1>1, <1>6, <2>2 DEF ScanPush, PushIfSubscribed
  <2>4. conn' = [conn EXCEPT ![c] = s]
    BY <1>6 DEF ScanPush
  <2>. HIDE DEF s
  <2>. QED
    BY <1>1, <1>2, <1>6, <2>1, <2>3, <2>4 DEF ScanPush, seen, env
<1>7. CASE WritePushes(c)
  <2>1. PICK n \in 0 .. Len(pending_batches) :
          LET sent == SubSeq(pending_batches, 1, n)
          IN  /\ received' = [received EXCEPT ![c] = @ \o sent]
              /\ handed' = handed \union
                   {[generation |-> sent[i].generation, upto |-> sent[i].upto] :
                      i \in DOMAIN sent}
              /\ conn' = [conn EXCEPT ![c] =
                   IF n = Len(pending_batches) THEN ConnIdle
                   ELSE [ConnIdle EXCEPT !.pc = "closed"]]
    BY <1>7 DEF WritePushes
  <2>. DEFINE sent == SubSeq(pending_batches, 1, n)
              s == IF n = Len(pending_batches) THEN ConnIdle
                   ELSE [ConnIdle EXCEPT !.pc = "closed"]
  <2>2. /\ sent \in Seq(Batch)
        /\ {[generation |-> sent[i].generation, upto |-> sent[i].upto] :
              i \in DOMAIN sent} \in SUBSET Watermark
    BY WrittenType
  <2>. HIDE DEF sent
  <2>3. received' \in [Conns -> Seq(Batch)]
    BY <1>1, <2>1, <2>2 DEF sent
  <2>4. handed' \in SUBSET Watermark
    BY <1>1, <2>1, <2>2 DEF sent
  <2>5. s \in ConnState /\ s.pc = "idle" => s = ConnIdle
    BY <1>1 DEF ConnState
  <2>5a. s \in ConnState /\ s.events = {}
    BY <1>1 DEF ConnState
  <2>6. conn' = [conn EXCEPT ![c] = s]
    BY <2>1
  <2>7. pending_batches' = << >> /\ << >> \in Seq(Batch)
    BY <1>7 DEF WritePushes, TakeWatchBatches
  <2>. HIDE DEF s
  <2>. QED
    BY <1>1, <1>2, <1>7, <2>3, <2>4, <2>5, <2>5a, <2>6, <2>7
    DEF WritePushes, env
<1>. QED
  BY <1>3, <1>4, <1>5, <1>6, <1>7 DEF ConnStep

(* Every step of the host, its clients and its environment.                *)
LEMMA NextTyped ==
  ASSUME Typed, [Next]_vars
  PROVE  Typed'
<1>1. ASSUME NEW p \in Paths, WriteFile(p) \/ DeleteFile(p)
      PROVE  Typed'
  <2>1. disk' \in [Paths -> Nat] /\ writes' \in Nat
    <3>1. disk \in [Paths -> Nat] /\ writes \in Nat
      BY DEF Typed, TypeOK
    <3>2. /\ writes' = writes + 1
          /\ \/ disk' = [disk EXCEPT ![p] = writes + 2]
             \/ disk' = [disk EXCEPT ![p] = Absent]
      BY <1>1 DEF WriteFile, DeleteFile
    <3>. QED
      BY <3>1, <3>2 DEF Absent
  <2>2. UNCHANGED << snapshot, hub, host, conn, seen, edits >>
    BY <1>1 DEF WriteFile, DeleteFile
  <2>. QED
    BY <2>1, <2>2 DEF Typed, TypeOK, FiniteEvents, host, seen
<1>2. ASSUME NEW p \in Paths, DidChange(p)
      PROVE  Typed'
  <2>1. /\ hub' = [hub EXCEPT !.chan = Append(@, p)] /\ hub \in HubState
        /\ edits' \in Nat
    BY <1>2 DEF DidChange, Typed, TypeOK
  <2>2. hub' \in HubState /\ hub'.batch = hub.batch
    <3>. DEFINE ch == Append(hub.chan, p)
    <3>1. ch \in Seq(Paths)
      BY <2>1 DEF HubState
    <3>2. hub' = [hub EXCEPT !.chan = ch]
      BY <2>1
    <3>. HIDE DEF ch
    <3>. QED
      BY <2>1, <3>1, <3>2 DEF HubState
  <2>3. UNCHANGED << disk, snapshot, host, conn, seen, writes >>
    BY <1>2 DEF DidChange
  <2>. QED
    BY <2>1, <2>2, <2>3 DEF Typed, TypeOK, FiniteEvents, host, seen
<1>3. CASE StartHub
  <2>1. hub' \in HubState /\ hub'.batch = hub.batch
    BY <1>3 DEF StartHub, Typed, TypeOK, HubState
  <2>2. UNCHANGED << disk, snapshot, host, conn, seen, env >>
    BY <1>3 DEF StartHub
  <2>. QED
    BY <2>1, <2>2 DEF Typed, TypeOK, FiniteEvents, host, seen, env
<1>4. CASE HubStep
  BY <1>4, HubTyped
<1>5. ASSUME NEW c \in Conns, ConnStep(c)
      PROVE  Typed'
  BY <1>5, ConnStepTyped
<1>6. ASSUME NEW c \in Conns, WatchSubscribe(c)
      PROVE  Typed'
  BY <1>6 DEF WatchSubscribe, env, Typed, TypeOK, FiniteEvents
<1>7. ASSUME NEW c \in Conns, FilesSince(c)
      PROVE  Typed'
  <2>1. handed' \in SUBSET Watermark
    BY <1>7 DEF FilesSince, Typed, TypeOK, Watermark, Journal
  <2>2. UNCHANGED << disk, snapshot, hub, host, conn, received, subscribers,
                  history, env >>
    BY <1>7 DEF FilesSince
  <2>. QED
    BY <2>1, <2>2 DEF host, env, Typed, TypeOK, FiniteEvents
<1>8. CASE UNCHANGED vars
  BY <1>8 DEF vars, Typed, TypeOK, FiniteEvents
<1>. QED
  BY <1>1, <1>2, <1>3, <1>4, <1>5, <1>6, <1>7, <1>8 DEF Next

(***************************************************************************)
(* Every host keeps its watch state typed: in particular a push is queued  *)
(* only once someone subscribed, and a thread between two requests holds   *)
(* no half of an earlier one.                                              *)
(***************************************************************************)
THEOREM ServeWatchTypeCorrect == Spec => []TypeOK
<1>1. Init => Typed
  BY InitTyped
<1>2. Typed /\ [Next]_vars => Typed'
  BY NextTyped
<1>3. Typed => TypeOK
  BY DEF Typed
<1>. QED
  BY <1>1, <1>2, <1>3, PTL DEF Spec

-----------------------------------------------------------------------------
(***************************************************************************)
(* Where a batch is on its way: with the thread that journaled it, in the  *)
(* list, or with a connection.  What the list and the connections hold     *)
(* after a step is what they held, moved on.                               *)
(***************************************************************************)
LEMMA QueuedAfterPush ==
  ASSUME Typed, NEW b \in Batch, PushIfSubscribed(b)
  PROVE  \A i \in DOMAIN pending_batches' :
           \/ i \in DOMAIN pending_batches /\ pending_batches'[i] = pending_batches[i]
           \/ /\ pending_batches'[i] = b
              /\ i = Len(pending_batches) + 1
              /\ i \notin DOMAIN pending_batches
<1>1. pending_batches \in Seq(Batch)
  BY DEF Typed, TypeOK
<1>. QED
  BY <1>1 DEF PushIfSubscribed

(* write_pushes appends what was pending to what one connection received.  *)
LEMMA ReceivedAfterWrite ==
  ASSUME Typed, NEW c \in Conns, WritePushes(c)
  PROVE  /\ pending_batches' = << >> /\ DOMAIN pending_batches' = {}
         /\ \A d \in Conns : \A i \in DOMAIN received'[d] :
              \/ i \in DOMAIN received[d] /\ received'[d][i] = received[d][i]
              \/ /\ d = c /\ i > Len(received[c]) /\ i \in Nat
                 /\ i - Len(received[c]) \in DOMAIN pending_batches
                 /\ received'[d][i] = pending_batches[i - Len(received[c])]
         /\ \A w \in handed' : w \in handed \/ \E i \in DOMAIN pending_batches :
              w = [generation |-> pending_batches[i].generation,
                   upto |-> pending_batches[i].upto]
         /\ \A d \in Conns : conn'[d] = conn[d] \/ (d = c /\ conn'[d].pc # "push"
                                                    /\ conn'[d].pc # "journal")
<1>1. PICK n \in 0 .. Len(pending_batches) :
        LET sent == SubSeq(pending_batches, 1, n)
        IN  /\ received' = [received EXCEPT ![c] = @ \o sent]
            /\ handed' = handed \union
                 {[generation |-> sent[i].generation, upto |-> sent[i].upto] :
                    i \in DOMAIN sent}
            /\ conn' = [conn EXCEPT ![c] =
                 IF n = Len(pending_batches) THEN ConnIdle
                 ELSE [ConnIdle EXCEPT !.pc = "closed"]]
  BY DEF WritePushes
<1>. DEFINE sent == SubSeq(pending_batches, 1, n)
<1>2. /\ sent \in Seq(Batch) /\ Len(sent) = n
      /\ \A i \in 1 .. n : sent[i] = pending_batches[i]
      /\ DOMAIN sent = 1 .. n
  BY WrittenType
<1>3. /\ pending_batches \in Seq(Batch) /\ Len(pending_batches) \in Nat
      /\ DOMAIN pending_batches = 1 .. Len(pending_batches)
      /\ n \in Nat /\ 1 .. n \subseteq DOMAIN pending_batches
      /\ received \in [Conns -> Seq(Batch)]
      /\ conn \in [Conns -> ConnState]
  BY DEF Typed, TypeOK
<1>4. pending_batches' = << >> /\ DOMAIN pending_batches' = {}
  BY DEF WritePushes, TakeWatchBatches
<1>. DEFINE s == IF n = Len(pending_batches) THEN ConnIdle
                 ELSE [ConnIdle EXCEPT !.pc = "closed"]
<1>4a. s.pc # "push" /\ s.pc # "journal"
  BY DEF ConnIdle
<1>4b. conn' = [conn EXCEPT ![c] = s]
  BY <1>1
<1>. HIDE DEF sent, s
<1>5. ASSUME NEW d \in Conns, NEW i \in DOMAIN received'[d]
      PROVE  \/ i \in DOMAIN received[d] /\ received'[d][i] = received[d][i]
             \/ /\ d = c /\ i > Len(received[c]) /\ i \in Nat
                /\ i - Len(received[c]) \in DOMAIN pending_batches
                /\ received'[d][i] = pending_batches[i - Len(received[c])]
  <2>1. CASE d # c
    BY <1>1, <1>3, <2>1
  <2>2. CASE d = c
    <3>1. received'[c] = received[c] \o sent /\ received[c] \in Seq(Batch)
      BY <1>1, <1>3 DEF sent
    <3>2. /\ Len(received[c]) \in Nat
          /\ DOMAIN received[c] = 1 .. Len(received[c])
          /\ DOMAIN received'[c] = 1 .. Len(received[c]) + n
          /\ \A k \in 1 .. Len(received[c]) + n :
               \/ k \in 1 .. Len(received[c]) /\ received'[c][k] = received[c][k]
               \/ /\ k > Len(received[c])
                  /\ k - Len(received[c]) \in 1 .. n
                  /\ received'[c][k] = sent[k - Len(received[c])]
      <4>. DEFINE r == received[c]
      <4>1. r \in Seq(Batch) /\ received'[c] = r \o sent /\ Len(sent) = n
        BY <1>2, <3>1
      <4>. HIDE DEF r
      <4>2. /\ Len(r) \in Nat
            /\ DOMAIN r = 1 .. Len(r)
            /\ DOMAIN (r \o sent) = 1 .. Len(r) + Len(sent)
            /\ \A k \in 1 .. Len(r) + Len(sent) :
                 \/ k \in 1 .. Len(r) /\ (r \o sent)[k] = r[k]
                 \/ /\ k > Len(r)
                    /\ k - Len(r) \in 1 .. Len(sent)
                    /\ (r \o sent)[k] = sent[k - Len(r)]
        BY <1>2, <4>1, JoinedList
      <4>. QED
        BY <4>1, <4>2, Zenon DEF r
    <3>. QED
      BY <1>2, <1>3, <2>2, <3>2
  <2>. QED
    BY <2>1, <2>2
<1>6. \A w \in handed' : w \in handed \/ \E i \in DOMAIN pending_batches :
        w = [generation |-> pending_batches[i].generation,
             upto |-> pending_batches[i].upto]
  <2>1. handed' = handed \union
          {[generation |-> sent[i].generation, upto |-> sent[i].upto] :
             i \in DOMAIN sent}
    BY <1>1 DEF sent
  <2>. QED
    BY <1>2, <1>3, <2>1
<1>7. \A d \in Conns : conn'[d] = conn[d] \/ (d = c /\ conn'[d].pc # "push"
                                              /\ conn'[d].pc # "journal")
  BY <1>3, <1>4a, <1>4b
<1>. QED
  BY <1>4, <1>5, <1>6, <1>7

(* The history after a batch that holds an event has grown.                *)
LEMMA HistoryGrows ==
  ASSUME Typed, NEW events \in SUBSET Change, IsFiniteSet(events),
         history' = Remember(events)
  PROVE  /\ Len(history') = Len(history) + Cardinality(events)
         /\ Len(history) \in Nat /\ Cardinality(events) \in Nat
         /\ Len(history') >= Len(history)
         /\ events # {} => Len(history') > Len(history)
         /\ \A k \in 1 .. Len(history) : history'[k] = history[k]
         /\ \A k \in 1 .. Cardinality(events) :
              history'[Len(history) + k] = Listed(events)[k]
<1>1. /\ history \in Seq(Change) /\ Listed(events) \in Seq(Change)
      /\ Len(Listed(events)) = Cardinality(events)
      /\ Cardinality(events) \in Nat
      /\ events # {} => Cardinality(events) > 0
  BY ListedType DEF Typed, TypeOK
<1>. DEFINE t == Listed(events)
<1>2. history' = history \o t /\ t \in Seq(Change) /\ Len(t) = Cardinality(events)
  BY <1>1 DEF Remember
<1>. HIDE DEF t
<1>3. /\ Len(history) \in Nat
      /\ Len(history') = Len(history) + Len(t)
      /\ \A k \in 1 .. Len(history) : history'[k] = history[k]
      /\ \A k \in 1 .. Len(t) : history'[Len(history) + k] = t[k]
  <2>1. /\ Len(history) \in Nat
        /\ Len(history \o t) = Len(history) + Len(t)
        /\ \A k \in 1 .. Len(history) : (history \o t)[k] = history[k]
        /\ \A k \in 1 .. Len(t) : (history \o t)[Len(history) + k] = t[k]
    <3>1. history \in Seq(Change) /\ t \in Seq(Change)
      BY <1>1, <1>2
    <3>. QED
      BY <3>1, JoinedList
  <2>. QED
    BY <1>2, <2>1, Zenon
<1>. QED
  BY <1>1, <1>2, <1>3 DEF t

-----------------------------------------------------------------------------
(***************************************************************************)
(* Why no batch is pushed twice.  Batches that hold events are told apart  *)
(* by the length of the history after them, so it is enough that no two    *)
(* places hold the same one; a batch only moves from one to the next.      *)
(***************************************************************************)
Apart(a, b) == a.upto = b.upto => a.events = {} \/ b.events = {}

Journaled(b) ==
  /\ b.upto <= Len(history)
  /\ \A i \in DOMAIN pending_batches : Apart(b, pending_batches[i])
  /\ \A d \in Conns : \A i \in DOMAIN received[d] : Apart(b, received[d][i])

ListOnce ==
  /\ \A i \in DOMAIN pending_batches : pending_batches[i].upto <= Len(history)
  /\ \A c \in Conns : \A i \in DOMAIN received[c] :
       received[c][i].upto <= Len(history)
  /\ \A i, j \in DOMAIN pending_batches :
       i # j => Apart(pending_batches[i], pending_batches[j])
  /\ \A c \in Conns : \A i \in DOMAIN received[c], j \in DOMAIN pending_batches :
       Apart(received[c][i], pending_batches[j])
  /\ PushedOnce

ThreadsOnce ==
  /\ hub.pc = "push" => Journaled(hub.batch)
  /\ \A c \in Conns : conn[c].pc = "push" =>
       /\ Journaled(conn[c].batch)
       /\ hub.pc = "push" => Apart(conn[c].batch, hub.batch)
  /\ \A c, d \in Conns :
       c # d /\ conn[c].pc = "push" /\ conn[d].pc = "push" =>
         Apart(conn[c].batch, conn[d].batch)

Once == ListOnce /\ ThreadsOnce

(* Steps that move no batch and write no history.                          *)
LEMMA StillOnce ==
  ASSUME Once, UNCHANGED << received, pending_batches, history >>,
         hub'.pc = "push" => hub' = hub,
         \A c \in Conns : conn'[c].pc = "push" => conn'[c] = conn[c]
  PROVE  Once'
<1>1. ListOnce'
  BY DEF Once, ListOnce, PushedOnce, Apart
<1>2. ThreadsOnce'
  BY DEF Once, ThreadsOnce, Journaled, Apart
<1>. QED
  BY <1>1, <1>2 DEF Once

(* Once a batch is journaled its thread holds it apart from all others: it *)
(* has no events, or the history has grown by them.                        *)
LEMMA NewIsJournaled ==
  ASSUME Typed, Once, NEW events \in SUBSET Change, IsFiniteSet(events),
         history' = Remember(events),
         UNCHANGED << received, pending_batches >>,
         NEW b \in Batch, b.upto = Len(history'), b.events # {} => events # {}
  PROVE  /\ ListOnce' /\ Journaled(b)'
         /\ \A a \in Batch : Journaled(a) => Journaled(a)' /\ Apart(a, b) /\ Apart(b, a)
<1>1. /\ Len(history) \in Nat /\ Len(history') >= Len(history)
      /\ Len(history') \in Nat
      /\ events # {} => Len(history') > Len(history)
  BY HistoryGrows
<1>2. /\ pending_batches \in Seq(Batch) /\ received \in [Conns -> Seq(Batch)]
  BY DEF Typed, TypeOK
<1>3. \A a \in Batch : a.upto \in Nat
  BY DEF Batch
<1>4. /\ \A i \in DOMAIN pending_batches : pending_batches[i].upto \in Nat
      /\ \A c \in Conns : \A i \in DOMAIN received[c] : received[c][i].upto \in Nat
  <2>1. \A i \in DOMAIN pending_batches : pending_batches[i] \in Batch
    BY <1>2
  <2>2. \A c \in Conns : \A i \in DOMAIN received[c] : received[c][i] \in Batch
    BY <1>2
  <2>. QED
    BY <1>3, <2>1, <2>2
<1>5. /\ \A i \in DOMAIN pending_batches :
           pending_batches[i].upto <= Len(history') /\ Apart(b, pending_batches[i])
      /\ \A c \in Conns : \A i \in DOMAIN received[c] :
           received[c][i].upto <= Len(history') /\ Apart(b, received[c][i])
  BY <1>1, <1>4 DEF Once, ListOnce, Apart
<1>6. ListOnce'
  BY <1>5 DEF Once, ListOnce, PushedOnce, Apart
<1>7. Journaled(b)'
  BY <1>1, <1>5 DEF Journaled, Apart
<1>8. ASSUME NEW a \in Batch, Journaled(a)
      PROVE  Journaled(a)' /\ Apart(a, b) /\ Apart(b, a)
  <2>1. a.upto \in Nat /\ a.upto <= Len(history)
    BY <1>3, <1>8 DEF Journaled
  <2>. QED
    BY <1>1, <1>8, <2>1 DEF Journaled, Apart
<1>. QED
  BY <1>6, <1>7, <1>8

(* A batch its thread queues, or drops, is still in one place.             *)
LEMMA QueuedOnce ==
  ASSUME Typed, Once, NEW b \in Batch, Journaled(b), PushIfSubscribed(b),
         UNCHANGED << received, history >>
  PROVE  /\ ListOnce'
         /\ \A a \in Batch : Journaled(a) /\ Apart(a, b) => Journaled(a)'
<1>1. \A i \in DOMAIN pending_batches' :
        \/ i \in DOMAIN pending_batches /\ pending_batches'[i] = pending_batches[i]
        \/ /\ pending_batches'[i] = b
           /\ i = Len(pending_batches) + 1
           /\ i \notin DOMAIN pending_batches
  BY QueuedAfterPush
<1>2. ListOnce'
  <2>1. ASSUME NEW i \in DOMAIN pending_batches'
        PROVE  pending_batches'[i].upto <= Len(history)
    BY <1>1 DEF Once, ListOnce, Journaled
  <2>2. ASSUME NEW i \in DOMAIN pending_batches', NEW j \in DOMAIN pending_batches',
               i # j
        PROVE  Apart(pending_batches'[i], pending_batches'[j])
    BY <1>1, <2>2 DEF Once, ListOnce, Journaled, Apart
  <2>3. ASSUME NEW c \in Conns, NEW i \in DOMAIN received[c],
               NEW j \in DOMAIN pending_batches'
        PROVE  Apart(received[c][i], pending_batches'[j])
    BY <1>1 DEF Once, ListOnce, Journaled, Apart
  <2>. QED
    BY <2>1, <2>2, <2>3 DEF Once, ListOnce, PushedOnce, Apart
<1>3. ASSUME NEW a \in Batch, Journaled(a), Apart(a, b)
      PROVE  Journaled(a)'
  BY <1>1, <1>3 DEF Journaled, Apart
<1>. QED
  BY <1>2, <1>3

(* What a connection takes is nowhere else afterwards.                     *)
LEMMA WrittenOnce ==
  ASSUME Typed, Once, NEW c \in Conns, WritePushes(c)
  PROVE  Once'
<1>1. /\ DOMAIN pending_batches' = {}
      /\ \A d \in Conns : \A i \in DOMAIN received'[d] :
           \/ i \in DOMAIN received[d] /\ received'[d][i] = received[d][i]
           \/ /\ d = c /\ i > Len(received[c]) /\ i \in Nat
              /\ i - Len(received[c]) \in DOMAIN pending_batches
              /\ received'[d][i] = pending_batches[i - Len(received[c])]
      /\ \A d \in Conns : conn'[d].pc = "push" => conn'[d] = conn[d]
      /\ UNCHANGED << hub, history >>
  BY ReceivedAfterWrite DEF WritePushes
<1>2. /\ DOMAIN pending_batches = 1 .. Len(pending_batches)
      /\ Len(received[c]) \in Nat
      /\ DOMAIN received[c] = 1 .. Len(received[c])
  BY DEF Typed, TypeOK
<1>3. ASSUME NEW d \in Conns, NEW i \in DOMAIN received'[d]
      PROVE  received'[d][i].upto <= Len(history)
  BY <1>1 DEF Once, ListOnce
<1>4. PushedOnce'
  <2>. SUFFICES ASSUME NEW d1 \in Conns, NEW d2 \in Conns,
                       NEW i \in DOMAIN received'[d1],
                       NEW j \in DOMAIN received'[d2],
                       received'[d1][i].upto = received'[d2][j].upto,
                       received'[d1][i].events # {},
                       received'[d2][j].events # {}
                PROVE  d1 = d2 /\ i = j
    BY DEF PushedOnce
  <2>1. CASE /\ i \in DOMAIN received[d1] /\ received'[d1][i] = received[d1][i]
             /\ j \in DOMAIN received[d2] /\ received'[d2][j] = received[d2][j]
    BY <2>1 DEF Once, ListOnce, PushedOnce
  <2>2. CASE /\ i \in DOMAIN received[d1] /\ received'[d1][i] = received[d1][i]
             /\ j - Len(received[c]) \in DOMAIN pending_batches
             /\ received'[d2][j] = pending_batches[j - Len(received[c])]
    BY <2>2 DEF Once, ListOnce, Apart
  <2>3. CASE /\ j \in DOMAIN received[d2] /\ received'[d2][j] = received[d2][j]
             /\ i - Len(received[c]) \in DOMAIN pending_batches
             /\ received'[d1][i] = pending_batches[i - Len(received[c])]
    BY <2>3 DEF Once, ListOnce, Apart
  <2>4. CASE /\ d1 = c /\ d2 = c /\ i \in Nat /\ j \in Nat
             /\ i - Len(received[c]) \in DOMAIN pending_batches
             /\ received'[d1][i] = pending_batches[i - Len(received[c])]
             /\ j - Len(received[c]) \in DOMAIN pending_batches
             /\ received'[d2][j] = pending_batches[j - Len(received[c])]
    <3>1. i - Len(received[c]) = j - Len(received[c])
      BY <2>4 DEF Once, ListOnce, Apart
    <3>. QED
      BY <1>2, <2>4, <3>1
  <2>. QED
    BY <1>1, <2>1, <2>2, <2>3, <2>4
<1>5. ListOnce'
  BY <1>1, <1>3, <1>4 DEF ListOnce, Apart
<1>6. ASSUME NEW b, Journaled(b)
      PROVE  Journaled(b)'
  BY <1>1, <1>6 DEF Journaled, Apart
<1>7. ThreadsOnce'
  <2>1. hub.pc = "push" => Journaled(hub.batch)'
    BY <1>1, <1>6 DEF Once, ThreadsOnce, Journaled, Apart
  <2>2. \A d \in Conns : conn'[d].pc = "push" =>
          conn[d].pc = "push" /\ conn'[d] = conn[d]
    BY <1>1
  <2>3. ASSUME NEW d \in Conns, conn'[d].pc = "push"
        PROVE  Journaled(conn[d].batch)'
    BY <1>1, <2>2, <2>3 DEF Once, ThreadsOnce, Journaled, Apart
  <2>. QED
    BY <1>1, <2>1, <2>2, <2>3 DEF Once, ThreadsOnce, Journaled, Apart
<1>. QED
  BY <1>5, <1>7 DEF Once

(* Every step keeps the batches apart.                                     *)
LEMMA NextOnce ==
  ASSUME Typed, Once, [Next]_vars
  PROVE  Once'
<1>0. /\ hub \in HubState /\ hub.batch \in Batch
      /\ hub.batch.events \in SUBSET Change /\ IsFiniteSet(hub.batch.events)
      /\ conn \in [Conns -> ConnState]
      /\ \A c \in Conns : conn[c].batch \in Batch
  BY DEF Typed, TypeOK, FiniteEvents, HubState, ConnState, Batch
<1>1. CASE HubJournal
  <2>0. PICK b : b = [hub.batch EXCEPT !.upto = Len(history')]
    OBVIOUS
  <2>1. /\ hub'.batch = b /\ conn' = conn
        /\ history' = Remember(hub.batch.events)
        /\ UNCHANGED << received, pending_batches >>
    BY <1>0, <1>1, <2>0 DEF HubJournal, HubState
  <2>2. b \in Batch /\ b.upto = Len(history') /\ b.events = hub.batch.events
    <3>1. Len(history') \in Nat
      BY <1>0, <2>1, HistoryGrows
    <3>. QED
      BY <1>0, <2>0, <3>1 DEF Batch
  <2>9. b.events # {} => hub.batch.events # {}
    BY <2>2
  <2>3. /\ ListOnce' /\ Journaled(b)'
        /\ \A a \in Batch : Journaled(a) => Journaled(a)' /\ Apart(a, b) /\ Apart(b, a)
    <3>. DEFINE E == hub.batch.events
    <3>1. /\ E \in SUBSET Change /\ IsFiniteSet(E) /\ history' = Remember(E)
          /\ b \in Batch /\ b.upto = Len(history') /\ (b.events # {} => E # {})
      BY <1>0, <2>1, <2>2, <2>9
    <3>. HIDE DEF E
    <3>. QED
      BY <2>1, <3>1, NewIsJournaled
  <2>4. ASSUME NEW c \in Conns, conn[c].pc = "push"
        PROVE  Journaled(conn[c].batch)' /\ Apart(conn[c].batch, b)
    <3>1. conn[c].batch \in Batch /\ Journaled(conn[c].batch)
      BY <1>0, <2>4 DEF Once, ThreadsOnce
    <3>2. PICK a \in Batch : a = conn[c].batch
      BY <3>1
    <3>3. Journaled(a)' /\ Apart(a, b)
      BY <2>3, <3>1, <3>2
    <3>. QED
      BY <2>1, <3>2, <3>3 DEF Journaled
  <2>5. ThreadsOnce'
    <3>1. Journaled(hub.batch)'
      BY <2>1, <2>3 DEF Journaled
    <3>2. ASSUME NEW c \in Conns, conn'[c].pc = "push"
          PROVE  Journaled(conn[c].batch)' /\ Apart(conn'[c].batch, hub'.batch)
      BY <2>1, <2>4, <3>2
    <3>3. ASSUME NEW c \in Conns, NEW d \in Conns, c # d,
                 conn'[c].pc = "push", conn'[d].pc = "push"
          PROVE  Apart(conn'[c].batch, conn'[d].batch)
      BY <2>1, <3>3 DEF Once, ThreadsOnce
    <3>. QED
      BY <3>1, <3>2, <3>3 DEF ThreadsOnce, Apart
  <2>. QED
    BY <2>3, <2>5 DEF Once
<1>2. CASE HubPush
  <2>1. /\ PushIfSubscribed(hub.batch) /\ hub.pc = "push" /\ conn' = conn
        /\ hub'.pc = "idle" /\ UNCHANGED << received, history >>
    BY <1>0, <1>2 DEF HubPush, seen, HubState
  <2>2. Journaled(hub.batch)
    BY <2>1 DEF Once, ThreadsOnce
  <2>3. /\ ListOnce'
        /\ \A a \in Batch : Journaled(a) /\ Apart(a, hub.batch) => Journaled(a)'
    BY <1>0, <2>1, <2>2, QueuedOnce
  <2>4. ASSUME NEW c \in Conns, conn[c].pc = "push"
        PROVE  Journaled(conn[c].batch)'
    BY <1>0, <2>1, <2>3, <2>4 DEF Once, ThreadsOnce, Journaled
  <2>5. ThreadsOnce'
    BY <2>1, <2>4 DEF Once, ThreadsOnce, Journaled, Apart
  <2>. QED
    BY <2>3, <2>5 DEF Once
<1>3. ASSUME NEW c \in Conns, ScanJournal(c)
      PROVE  Once'
  <2>1. PICK kept \in SUBSET conn[c].events, overflow \in BOOLEAN :
          LET g == journal.current_generation + 1
              b == [events |-> kept, overflow |-> overflow, generation |-> g,
                    upto |-> Len(history')]
          IN  /\ history' = Remember(conn[c].events)
              /\ b \in Batch
              /\ conn' = [conn EXCEPT ![c] = [ConnIdle EXCEPT !.pc = "push",
                                                             !.batch = b]]
    BY <1>3, ScannedBatch
  <2>0. PICK b, s : /\ b = [events |-> kept, overflow |-> overflow,
                           generation |-> journal.current_generation + 1,
                           upto |-> Len(history')]
                   /\ s = [ConnIdle EXCEPT !.pc = "push", !.batch = b]
    OBVIOUS
  <2>2. b \in Batch /\ b.upto = Len(history') /\ b.events = kept
        /\ s.batch = b /\ s.pc = "push"
    BY <2>0, <2>1 DEF ConnIdle
  <2>3. /\ history' = Remember(conn[c].events)
        /\ conn[c].events \in SUBSET Change /\ IsFiniteSet(conn[c].events)
        /\ UNCHANGED << received, pending_batches, hub >>
    BY <1>0, <1>3, <2>1 DEF ScanJournal, Typed, FiniteEvents, ConnState
  <2>4. conn' = [conn EXCEPT ![c] = s]
    BY <2>0, <2>1
  <2>5. /\ ListOnce' /\ Journaled(b)'
        /\ \A a \in Batch : Journaled(a) => Journaled(a)' /\ Apart(a, b) /\ Apart(b, a)
    <3>. DEFINE E == conn[c].events
    <3>1. /\ E \in SUBSET Change /\ IsFiniteSet(E) /\ history' = Remember(E)
          /\ b \in Batch /\ b.upto = Len(history') /\ (b.events # {} => E # {})
      BY <2>1, <2>2, <2>3
    <3>. HIDE DEF E
    <3>. QED
      BY <2>3, <3>1, NewIsJournaled
  <2>6. conn'[c].batch = b /\ \A d \in Conns : d # c => conn'[d] = conn[d]
    BY <1>0, <2>2, <2>4
  <2>7. ASSUME NEW d \in Conns, d # c, conn[d].pc = "push"
        PROVE  /\ Journaled(conn[d].batch)'
               /\ Apart(conn[d].batch, b) /\ Apart(b, conn[d].batch)
    <3>1. Journaled(conn[d].batch) /\ conn[d].batch \in Batch
      BY <1>0, <2>7 DEF Once, ThreadsOnce
    <3>2. PICK a \in Batch : a = conn[d].batch
      BY <3>1
    <3>3. Journaled(a)' /\ Apart(a, b) /\ Apart(b, a)
      BY <2>5, <3>1, <3>2
    <3>. QED
      BY <2>6, <2>7, <3>2, <3>3 DEF Journaled
  <2>8. hub.pc = "push" => Journaled(hub.batch)' /\ Apart(b, hub.batch)
    <3>. SUFFICES ASSUME hub.pc = "push"
                  PROVE  Journaled(hub.batch)' /\ Apart(b, hub.batch)
      OBVIOUS
    <3>1. PICK a \in Batch : a = hub.batch /\ Journaled(a)
      BY <1>0 DEF Once, ThreadsOnce
    <3>2. Journaled(a)' /\ Apart(a, b) /\ Apart(b, a)
      BY <2>5, <3>1
    <3>. QED
      BY <2>3, <3>1, <3>2 DEF Journaled
  <2>9. ThreadsOnce'
    <3>1. hub'.pc = "push" => Journaled(hub.batch)'
      BY <2>3, <2>8
    <3>2. ASSUME NEW d \in Conns, conn'[d].pc = "push"
          PROVE  /\ Journaled(conn[d].batch)'
                 /\ hub'.pc = "push" => Apart(conn'[d].batch, hub'.batch)
      <4>1. CASE d = c
        BY <2>3, <2>5, <2>6, <2>8, <4>1 DEF Journaled
      <4>2. CASE d # c
        BY <2>3, <2>6, <2>7, <3>2, <4>2 DEF Once, ThreadsOnce
      <4>. QED
        BY <4>1, <4>2
    <3>3. ASSUME NEW d \in Conns, NEW e \in Conns, d # e,
                 conn'[d].pc = "push", conn'[e].pc = "push"
          PROVE  Apart(conn'[d].batch, conn'[e].batch)
      <4>1. CASE d # c /\ e # c
        BY <2>6, <3>3, <4>1 DEF Once, ThreadsOnce
      <4>2. CASE d = c \/ e = c
        BY <2>6, <2>7, <3>3, <4>2
      <4>. QED
        BY <4>1, <4>2
    <3>. QED
      BY <3>1, <3>2, <3>3 DEF ThreadsOnce, Apart
  <2>. QED
    BY <2>5, <2>9 DEF Once
<1>4. ASSUME NEW c \in Conns, ScanPush(c)
      PROVE  Once'
  <2>. DEFINE b == conn[c].batch
  <2>1. /\ PushIfSubscribed(b) /\ conn[c].pc = "push" /\ b \in Batch
        /\ conn'[c].pc = "drain" /\ \A d \in Conns : d # c => conn'[d] = conn[d]
        /\ UNCHANGED << received, history, hub >>
    BY <1>0, <1>4 DEF ScanPush, seen, ConnIdle
  <2>2. Journaled(b)
    BY <2>1 DEF Once, ThreadsOnce
  <2>3. /\ ListOnce'
        /\ \A a \in Batch : Journaled(a) /\ Apart(a, b) => Journaled(a)'
    BY <2>1, <2>2, QueuedOnce
  <2>4. ASSUME NEW d \in Conns, d # c, conn[d].pc = "push"
        PROVE  Journaled(conn[d].batch)'
    BY <1>0, <2>1, <2>3, <2>4 DEF Once, ThreadsOnce, Journaled
  <2>5. hub.pc = "push" => Journaled(hub.batch)'
    BY <1>0, <2>1, <2>3 DEF Once, ThreadsOnce, Journaled, Apart
  <2>6. ThreadsOnce'
    BY <2>1, <2>4, <2>5 DEF Once, ThreadsOnce, Journaled, Apart
  <2>. QED
    BY <2>3, <2>6 DEF Once
<1>5. ASSUME NEW c \in Conns, WritePushes(c)
      PROVE  Once'
  BY <1>5, WrittenOnce
<1>6. ASSUME NEW c \in Conns, PollBegins(c) \/ ScanDiff(c)
      PROVE  Once'
  <2>1. \A d \in Conns : conn'[d].pc = "push" => conn'[d] = conn[d]
    <3>1. conn'[c].pc # "push"
      <4>1. CASE PollBegins(c)
        BY <1>0, <4>1 DEF PollBegins, Goto, ConnState
      <4>2. CASE ScanDiff(c)
        BY <1>0, <4>2 DEF ScanDiff, ConnIdle
      <4>. QED
        BY <1>6, <4>1, <4>2
    <3>2. \A d \in Conns : d # c => conn'[d] = conn[d]
      BY <1>0, <1>6 DEF PollBegins, ScanDiff, Goto
    <3>. QED
      BY <3>1, <3>2
  <2>. QED
    BY <1>6, <2>1, StillOnce DEF PollBegins, ScanDiff, host, seen
<1>7. ASSUME NEW c \in Conns, WatchSubscribe(c) \/ FilesSince(c)
      PROVE  Once'
  BY <1>7, StillOnce DEF WatchSubscribe, FilesSince, host
<1>8. ASSUME NEW p \in Paths, WriteFile(p) \/ DeleteFile(p)
      PROVE  Once'
  BY <1>8, StillOnce DEF WriteFile, DeleteFile, host, seen
<1>9. ASSUME StartHub \/ \E p \in Paths : DidChange(p)
      PROVE  Once'
  <2>1. /\ hub'.pc = hub.pc /\ hub'.batch = hub.batch
        /\ UNCHANGED << received, pending_batches, history, conn >>
    BY <1>0, <1>9 DEF StartHub, DidChange, host, seen, HubState
  <2>. QED
    BY <2>1 DEF Once, ListOnce, ThreadsOnce, Journaled, Apart, PushedOnce
<1>10. CASE HubFlush
  <2>1. /\ hub'.pc = "journal"
        /\ UNCHANGED << received, pending_batches, history, conn >>
    BY <1>0, <1>10 DEF HubFlush, host, seen, HubState
  <2>. QED
    BY <2>1, StillOnce
<1>11. CASE UNCHANGED vars
  BY <1>11, StillOnce DEF vars
<1>. QED
  BY <1>1, <1>2, <1>3, <1>4, <1>5, <1>6, <1>7, <1>8, <1>9, <1>10, <1>11
  DEF Next, HubStep, ConnStep

(***************************************************************************)
(* A batch that holds events reaches one connection only, and only once,   *)
(* however many connections poll and whichever writer journaled it.        *)
(***************************************************************************)
THEOREM AlwaysPushedOnce == Spec => []PushedOnce
<1>1. Init => Typed /\ Once
  <2>. SUFFICES ASSUME Init  PROVE Typed /\ Once
    OBVIOUS
  <2>1. Typed
    BY InitTyped
  <2>2. /\ hub.pc = "idle" /\ \A c \in Conns : conn[c].pc = "idle"
        /\ DOMAIN pending_batches = {} /\ \A c \in Conns : DOMAIN received[c] = {}
    BY DEF Init, HubIdle, ConnIdle
  <2>. QED
    BY <2>1, <2>2 DEF Once, ListOnce, ThreadsOnce, PushedOnce
<1>2. Typed /\ Once /\ [Next]_vars => Typed' /\ Once'
  BY NextTyped, NextOnce
<1>3. Once => PushedOnce
  BY DEF Once, ListOnce
<1>. QED
  BY <1>1, <1>2, <1>3, PTL DEF Spec

-----------------------------------------------------------------------------
(***************************************************************************)
(* What a client may conclude from a generation it was given, on a host    *)
(* whose hub has not started.                                              *)
(***************************************************************************)

(* Journaling a scan: the journal then remembers every change the scan     *)
(* found, under the scan's generation, although an overflowing scan is cut *)
(* to ScanLimit events: the overflow forgets the others' generation.       *)
LEMMA BatchRemembered ==
  ASSUME NEW j \in Journal, NEW H, Remembers(j, H),
         NEW all \in SUBSET Change, NEW kept \in SUBSET all,
         IsFiniteSet(kept), kept # {},
         NEW overflow \in BOOLEAN, ~overflow => kept = all
  PROVE  LET g == j.current_generation + 1
             N == {[path |-> e.path, generation |-> g] : e \in all}
             r == JournalBatch(j, kept, g, overflow)
         IN  /\ Remembers(r, H \union N)
             /\ r.current_generation = g
<1>. DEFINE g == j.current_generation + 1
            N == {[path |-> e.path, generation |-> g] : e \in all}
            K == {[path |-> e.path, generation |-> g] : e \in kept}
            base == IF overflow THEN MarkOverflow(j, g) ELSE j
            H1 == IF overflow THEN H \union N ELSE H
            ps == ListedPaths(kept)
            r == JournalBatch(j, kept, g, overflow)
<1>1. g \in Nat /\ g > j.current_generation
  BY DEF Journal
<1>2. /\ ps \in Seq(Paths) /\ Len(ps) = Cardinality(kept)
      /\ Cardinality(kept) \in Nat /\ Cardinality(kept) > 0
      /\ \A i \in 1 .. Len(ps) : \E e \in kept : ps[i] = e.path
      /\ \A e \in kept : \E i \in 1 .. Len(ps) : ps[i] = e.path
  <2>1. kept \in SUBSET Change
    OBVIOUS
  <2>2. /\ ps \in Seq(Paths) /\ Len(ps) = Cardinality(kept)
        /\ Cardinality(kept) \in Nat /\ Cardinality(kept) > 0
        /\ \A i \in 1 .. Cardinality(kept) :
             Listed(kept)[i] \in kept /\ ps[i] = Listed(kept)[i].path
    BY <2>1, ListedType
  <2>3. \A e \in kept : \E i \in 1 .. Cardinality(kept) : Listed(kept)[i] = e
    BY ListedOnce
  <2>. HIDE DEF ps
  <2>. QED
    BY <2>2, <2>3
<1>3. ps # << >>
  BY <1>2
<1>4. /\ base \in Journal
      /\ g >= base.current_generation
  BY <1>1 DEF MarkOverflow, Journal
<1>5. r = RecordAll(base, ps, g, 0)
  BY DEF JournalBatch
<1>. HIDE DEF g, ps, r
<1>6. Remembers(base, H1)
  <2>1. CASE overflow
    <3>1. \A c \in N : c.generation = g
      OBVIOUS
    <3>. HIDE DEF N
    <3>2. Remembers(MarkOverflow(j, g), H \union N)
      BY <1>1, <3>1, RemembersOverflow
    <3>. QED
      BY <2>1, <3>2
  <2>2. CASE ~overflow
    BY <2>2
  <2>. QED
    BY <2>1, <2>2
<1>7. /\ \A c \in K : c.generation = g /\ \E i \in 1 .. Len(ps) : c.path = ps[i]
      /\ \A i \in 1 .. Len(ps) : \E c \in K : c.path = ps[i] /\ c.generation = g
  <2>1. ASSUME NEW c \in K
        PROVE  c.generation = g /\ \E i \in 1 .. Len(ps) : c.path = ps[i]
    <3>1. PICK e \in kept : c = [path |-> e.path, generation |-> g]
      OBVIOUS
    <3>2. PICK i \in 1 .. Len(ps) : ps[i] = e.path
      BY <1>2
    <3>. QED
      BY <3>1, <3>2
  <2>2. ASSUME NEW i \in 1 .. Len(ps)
        PROVE  \E c \in K : c.path = ps[i] /\ c.generation = g
    <3>1. PICK e \in kept : ps[i] = e.path
      BY <1>2
    <3>2. [path |-> e.path, generation |-> g] \in K
      OBVIOUS
    <3>. QED
      BY <3>1, <3>2
  <2>. QED
    BY <2>1, <2>2
<1>8. H1 \union K = H \union N
  <2>1. K \subseteq N /\ (~overflow => K = N)
    OBVIOUS
  <2>. HIDE DEF K, N
  <2>. QED
    BY <2>1
<1>9. Remembers(r, H \union N)
  <2>. HIDE DEF K, base, H1, N
  <2>1. Remembers(RecordAll(base, ps, g, 0), H1 \union K)
    BY <1>1, <1>2, <1>3, <1>4, <1>6, <1>7, RemembersRecordAll
  <2>. QED
    BY <1>5, <1>8, <2>1
<1>10. r.current_generation = g
  <2>1. base.current_generation \in Nat
    BY <1>4 DEF Journal
  <2>. HIDE DEF base
  <2>2. PICK drop \in 0 .. (Len(base.entries) + Len(ps) - 1) :
          Recorded(base, ps, g, 0, drop)
    BY <1>1, <1>2, <1>3, <1>4, RecordAllResult
  <2>. QED
    BY <1>1, <1>4, <1>5, <2>1, <2>2 DEF Recorded
<1>. QED
  BY <1>9, <1>10 DEF g, r

(* A hub that has not started does nothing.                                *)
HubOff == ~hub.on /\ hub.pc = "idle"

(* A hub that never starts takes no step.                                  *)
LEMMA HubStaysOff ==
  ASSUME ~HubStarts, Typed, HubOff, [Next]_vars
  PROVE  HubOff' /\ ~HubStep /\ ~StartHub /\ \A p \in Paths : ~DidChange(p)
<1>1. ~HubStep /\ ~StartHub /\ \A p \in Paths : ~DidChange(p)
  BY DEF HubOff, HubStep, HubFlush, HubJournal, HubPush, StartHub, DidChange
<1>2. hub' = hub
  BY <1>1 DEF Next, WriteFile, DeleteFile, ConnStep, PollBegins, ScanDiff,
              ScanJournal, ScanPush, WritePushes, WatchSubscribe, FilesSince, vars
<1>. QED
  BY <1>1, <1>2 DEF HubOff

(* The batches that a thread, the list or a client holds.                  *)
Held(b) ==
  \/ \E c \in Conns : conn[c].pc = "push" /\ b = conn[c].batch
  \/ \E i \in DOMAIN pending_batches : b = pending_batches[i]
  \/ \E c \in Conns : \E i \in DOMAIN received[c] : b = received[c][i]

MarkOf(b) == [generation |-> b.generation, upto |-> b.upto]

(***************************************************************************)
(* No state records under which generation a change was journaled, but     *)
(* there is one for each: g lists them, in the order of the history, such  *)
(* that the journal remembers the numbered changes, a batch's events are   *)
(* there under its generation, and what follows a client's watermark has a *)
(* later number.  The last needs that a scan has something to journal: one *)
(* whose events are all denied gets a generation that the next scan uses   *)
(* again.                                                                  *)
(***************************************************************************)
Numbering(g) ==
  {[path |-> history[k].path, generation |-> g[k]] : k \in 1 .. Len(history)}

Numbered(b, g) ==
  /\ b.generation \in Nat \ {0}
  /\ \A e \in b.events : \E k \in 1 .. Len(history) :
       history[k].path = e.path /\ g[k] = b.generation

Passed(w, g) ==
  /\ w.generation <= journal.current_generation
  /\ w.upto <= Len(history)
  /\ \A k \in 1 .. Len(history) : k > w.upto => g[k] > w.generation

Explains(g) ==
  /\ g \in Seq(Nat) /\ Len(g) = Len(history)
  /\ Remembers(journal, Numbering(g))
  /\ \A b \in Batch : Held(b) => Numbered(b, g)
  /\ Denied = {} =>
       /\ \A w \in handed : Passed(w, g)
       /\ \A b \in Batch : Held(b) => Passed(MarkOf(b), g)

Watermarks ==
  /\ HubOff
  /\ Denied = {} => \A c \in Conns : conn[c].pc = "journal" => conn[c].events # {}
  /\ \E g \in Seq(Nat) : Explains(g)

(* Steps that journal nothing, and at most hand on what is held.           *)
LEMMA StillExplained ==
  ASSUME NEW g, Typed, Explains(g), UNCHANGED << journal, history >>,
         \A b \in Batch : Held(b)' => Held(b),
         \A w \in handed' :
           \/ w \in handed
           \/ \E b \in Batch : Held(b) /\ w = MarkOf(b)
           \/ w = [generation |-> journal.current_generation, upto |-> Len(history)]
  PROVE  Explains(g)'
<1>1. \A b \in Batch : Held(b)' => Numbered(b, g)'
  BY DEF Explains, Numbered
<1>2. Remembers(journal, Numbering(g))'
  BY DEF Explains, Numbering
<1>3. journal.current_generation \in Nat /\ Len(history) \in Nat
  BY DEF Typed, TypeOK, Journal
<1>4. ASSUME Denied = {}
      PROVE  /\ \A w \in handed' : Passed(w, g)'
             /\ \A b \in Batch : Held(b)' => Passed(MarkOf(b), g)'
  <2>1. ASSUME NEW w, Passed(w, g)
        PROVE  Passed(w, g)'
    BY <2>1 DEF Passed
  <2>2. \A b \in Batch : Held(b) => Passed(MarkOf(b), g)
    BY <1>4 DEF Explains
  <2>3. ASSUME NEW b \in Batch, Held(b)
        PROVE  Passed(MarkOf(b), g)'
    BY <2>1, <2>2, <2>3 DEF MarkOf
  <2>4. ASSUME NEW w \in handed'
        PROVE  Passed(w, g)'
    <3>1. CASE w \in handed
      BY <1>4, <2>1, <3>1 DEF Explains
    <3>2. CASE \E b \in Batch : Held(b) /\ w = MarkOf(b)
      BY <2>1, <2>2, <3>2
    <3>3. CASE w = [generation |-> journal.current_generation, upto |-> Len(history)]
      BY <1>3, <2>1, <3>3 DEF Passed
    <3>. QED
      BY <2>4, <3>1, <3>2, <3>3
  <2>. QED
    BY <2>3, <2>4
<1>5. g \in Seq(Nat) /\ Len(g) = Len(history')
  BY DEF Explains
<1>. QED
  BY <1>1, <1>2, <1>4, <1>5 DEF Explains

(* A connection's push and write, and every step that is not a scan's,     *)
(* hold no batch that was not held.                                        *)
LEMMA HeldMoves ==
  ASSUME Typed, NEW b \in Batch, Held(b)',
         \/ /\ \A d \in Conns : conn'[d].pc = "push" => conn'[d] = conn[d]
            /\ UNCHANGED << received, pending_batches >>
         \/ \E c \in Conns : ScanPush(c)
         \/ \E c \in Conns : WritePushes(c)
  PROVE  Held(b)
<1>1. CASE /\ \A d \in Conns : conn'[d].pc = "push" => conn'[d] = conn[d]
           /\ UNCHANGED << received, pending_batches >>
  BY <1>1 DEF Held
<1>2. ASSUME NEW c \in Conns, ScanPush(c)
      PROVE  Held(b)
  <2>1. /\ conn \in [Conns -> ConnState] /\ conn[c].batch \in Batch
    BY DEF Typed, TypeOK, ConnState
  <2>2. /\ conn[c].pc = "push" /\ received' = received
        /\ conn'[c].pc # "push" /\ \A d \in Conns : d # c => conn'[d] = conn[d]
        /\ PushIfSubscribed(conn[c].batch)
    BY <1>2, <2>1 DEF ScanPush, seen, ConnIdle
  <2>3. \A i \in DOMAIN pending_batches' :
          \/ i \in DOMAIN pending_batches /\ pending_batches'[i] = pending_batches[i]
          \/ pending_batches'[i] = conn[c].batch
    BY <2>1, <2>2, QueuedAfterPush
  <2>. QED
    BY <2>2, <2>3 DEF Held
<1>3. ASSUME NEW c \in Conns, WritePushes(c)
      PROVE  Held(b)
  <2>1. /\ DOMAIN pending_batches' = {}
        /\ \A d \in Conns : \A i \in DOMAIN received'[d] :
             \/ i \in DOMAIN received[d] /\ received'[d][i] = received[d][i]
             \/ \E k \in DOMAIN pending_batches : received'[d][i] = pending_batches[k]
        /\ \A d \in Conns : conn'[d].pc = "push" => conn'[d] = conn[d]
    BY <1>3, ReceivedAfterWrite
  <2>. QED
    BY <2>1 DEF Held
<1>. QED
  BY <1>1, <1>2, <1>3

(* After a scan is journaled, what was held is held, and its own batch.    *)
LEMMA HeldAfterScan ==
  ASSUME Typed, NEW c \in Conns, NEW b, conn' = [conn EXCEPT ![c] = b],
         UNCHANGED << received, pending_batches >>,
         NEW a, Held(a)'
  PROVE  Held(a) \/ a = b.batch
BY DEF Held, Typed, TypeOK

(* Journaling a scan numbers its changes with the scan's generation.       *)
LEMMA ScanExplained ==
  ASSUME NEW g, Typed, Explains(g), NEW c \in Conns, ScanJournal(c),
         Denied = {} => conn[c].events # {}
  PROVE  \E h \in Seq(Nat) : Explains(h)'
<1>1. PICK all, kept, overflow, b, G :
        /\ all = conn[c].events /\ kept \in SUBSET all /\ overflow \in BOOLEAN
        /\ G = journal.current_generation + 1 /\ G \in Nat
        /\ b = [events |-> kept, overflow |-> overflow, generation |-> G,
                upto |-> Len(history')]
        /\ overflow => kept # {}
        /\ ~overflow => kept = all
        /\ kept \in SUBSET Change /\ IsFiniteSet(kept)
        /\ journal' = JournalBatch(journal, kept, G, overflow)
        /\ history' = Remember(all)
        /\ b \in Batch
        /\ conn' = [conn EXCEPT ![c] = [ConnIdle EXCEPT !.pc = "push", !.batch = b]]
  <2>1. PICK kept \in SUBSET conn[c].events, overflow \in BOOLEAN :
          LET g1 == journal.current_generation + 1
              b1 == [events |-> kept, overflow |-> overflow, generation |-> g1,
                     upto |-> Len(history')]
          IN  /\ overflow => kept # {}
              /\ ~overflow => kept = conn[c].events
              /\ kept \in SUBSET Change /\ IsFiniteSet(kept)
              /\ g1 \in Nat
              /\ journal' = JournalBatch(journal, kept, g1, overflow)
              /\ history' = Remember(conn[c].events)
              /\ b1 \in Batch
              /\ conn' = [conn EXCEPT ![c] = [ConnIdle EXCEPT !.pc = "push",
                                                             !.batch = b1]]
    BY ScannedBatch
  <2>2. PICK all, G, b :
          /\ all = conn[c].events /\ G = journal.current_generation + 1
          /\ b = [events |-> kept, overflow |-> overflow, generation |-> G,
                  upto |-> Len(history')]
    OBVIOUS
  <2>3. /\ all = conn[c].events /\ kept \in SUBSET all /\ overflow \in BOOLEAN
        /\ G = journal.current_generation + 1 /\ G \in Nat
        /\ b = [events |-> kept, overflow |-> overflow, generation |-> G,
                upto |-> Len(history')]
        /\ overflow => kept # {}
        /\ ~overflow => kept = all
        /\ kept \in SUBSET Change /\ IsFiniteSet(kept)
        /\ journal' = JournalBatch(journal, kept, G, overflow)
        /\ history' = Remember(all)
        /\ b \in Batch
        /\ conn' = [conn EXCEPT ![c] = [ConnIdle EXCEPT !.pc = "push", !.batch = b]]
    BY <2>1, <2>2
  <2>. QED
    BY <2>3
<1>2. /\ all \in SUBSET Change /\ IsFiniteSet(all)
      /\ journal \in Journal /\ history \in Seq(Change)
      /\ journal.current_generation \in Nat /\ G > journal.current_generation
  BY <1>1 DEF Typed, TypeOK, FiniteEvents, ConnState, Journal
<1>3a. PICK n, m, t : /\ n = Len(history) /\ m = Cardinality(all)
                      /\ t = Listed(all)
  OBVIOUS
<1>3b. /\ n \in Nat /\ m \in Nat /\ Len(history') = n + m
       /\ \A k \in 1 .. n : history'[k] = history[k]
       /\ \A k \in 1 .. m : history'[n + k] = t[k]
  BY <1>1, <1>2, <1>3a, HistoryGrows
<1>3c. /\ t \in Seq(Change) /\ \A k \in 1 .. m : t[k] \in all
       /\ all # {} => m > 0
  BY <1>2, <1>3a, ListedType
<1>3d. \A e \in all : \E k \in 1 .. m : t[k] = e
  BY <1>2, <1>3a, ListedOnce
<1>3e. all = {} => m = 0
  BY <1>3a, FS_EmptySet
<1>3. /\ n = Len(history) /\ m = Cardinality(all) /\ t = Listed(all)
      /\ Len(history') = n + m
      /\ \A k \in 1 .. n : history'[k] = history[k]
      /\ \A k \in 1 .. m : history'[n + k] = t[k]
      /\ \A k \in 1 .. m : t[k] \in all
      /\ \A e \in all : \E k \in 1 .. m : t[k] = e
      /\ all # {} => m > 0
      /\ all = {} => m = 0
  BY <1>3a, <1>3b, <1>3c, <1>3d, <1>3e
<1>3t. n \in Nat /\ m \in Nat
  BY <1>3b
<1>. USE <1>3t
<1>4. PICK h : h = [k \in 1 .. n + m |-> IF k <= n THEN g[k] ELSE G]
  OBVIOUS
<1>5. /\ h \in Seq(Nat) /\ Len(h) = Len(history')
      /\ \A k \in 1 .. n : h[k] = g[k]
      /\ \A k \in 1 .. n + m : k > n => h[k] = G
  <2>1. g \in Seq(Nat) /\ Len(g) = n
    BY <1>3 DEF Explains
  <2>2. \A k \in 1 .. n + m : (IF k <= n THEN g[k] ELSE G) \in Nat
    BY <1>1, <2>1
  <2>3. h \in Seq(Nat) /\ Len(h) = n + m
    BY <1>4, <2>2
  <2>. QED
    BY <1>3, <1>4, <2>3
<1>6. UNCHANGED << received, pending_batches, handed >>
  BY DEF ScanJournal
<1>7. \A a \in Batch : Held(a)' => Held(a) \/ a = b
  <2>1. [ConnIdle EXCEPT !.pc = "push", !.batch = b].batch = b
    BY DEF ConnIdle
  <2>. QED
    BY <1>1, <1>6, <2>1, HeldAfterScan
<1>8. Numbering(h)' = Numbering(g) \union {[path |-> e.path, generation |-> G] : e \in all}
  <2>1. ASSUME NEW x \in Numbering(h)'
        PROVE  x \in Numbering(g) \union {[path |-> e.path, generation |-> G] : e \in all}
    <3>1. PICK k \in 1 .. n + m : x = [path |-> history'[k].path, generation |-> h[k]]
      BY <1>3 DEF Numbering
    <3>2. CASE k <= n
      <4>1. k \in 1 .. n /\ history'[k] = history[k] /\ h[k] = g[k]
        BY <1>3, <1>5, <3>2
      <4>. QED
        BY <1>3, <3>1, <4>1 DEF Numbering
    <3>3. CASE k > n
      <4>1. k - n \in 1 .. m /\ k = n + (k - n)
        BY <3>3
      <4>2. history'[k] = t[k - n] /\ t[k - n] \in all
        BY <1>3, <4>1
      <4>. QED
        BY <1>5, <3>1, <3>3, <4>2
    <3>. QED
      BY <3>2, <3>3
  <2>2. ASSUME NEW x \in Numbering(g)
        PROVE  x \in Numbering(h)'
    <3>1. PICK k \in 1 .. n : x = [path |-> history[k].path, generation |-> g[k]]
      BY <1>3 DEF Numbering
    <3>2. k \in 1 .. n + m /\ history'[k] = history[k] /\ h[k] = g[k]
      BY <1>3, <1>5
    <3>. QED
      BY <1>3, <3>1, <3>2 DEF Numbering
  <2>3. ASSUME NEW e \in all
        PROVE  [path |-> e.path, generation |-> G] \in Numbering(h)'
    <3>1. PICK k \in 1 .. m : t[k] = e
      BY <1>3
    <3>2. n + k \in 1 .. n + m /\ n + k > n
      OBVIOUS
    <3>3. history'[n + k] = e /\ h[n + k] = G
      BY <1>3, <1>5, <3>1, <3>2
    <3>. QED
      BY <1>3, <3>2, <3>3 DEF Numbering
  <2>. QED
    BY <2>1, <2>2, <2>3
<1>9. Remembers(journal, Numbering(h))' /\ journal'.current_generation >= journal.current_generation
      /\ (all # {} => journal'.current_generation = G)
  <2>1. CASE all = {}
    <3>1. kept = {} /\ ~overflow
      BY <1>1, <2>1
    <3>2. ListedPaths(kept) = << >>
      <4>1. ListedPaths(kept) \in Seq(Paths) /\ Len(ListedPaths(kept)) = Cardinality(kept)
        BY <1>1, ListedType
      <4>2. Cardinality(kept) = 0
        BY <3>1, FS_EmptySet
      <4>. QED
        BY <4>1, <4>2
    <3>3. journal' = journal
      BY <1>1, <3>1, <3>2 DEF JournalBatch, RecordAll
    <3>4. Numbering(h)' = Numbering(g)
      BY <1>8, <2>1
    <3>. QED
      BY <1>2, <2>1, <3>3, <3>4 DEF Explains, Remembers, Bounded, EntriesAreChanges, ChangesAreEntries
  <2>2. CASE all # {}
    <3>1. kept # {}
      BY <1>1, <2>2
    <3>2. Remembers(journal, Numbering(g))
      BY DEF Explains
    <3>. DEFINE N == {[path |-> e.path, generation |-> G] : e \in all}
    <3>3. /\ Remembers(JournalBatch(journal, kept, G, overflow), Numbering(g) \union N)
          /\ JournalBatch(journal, kept, G, overflow).current_generation = G
      <4>1. LET r == JournalBatch(journal, kept, journal.current_generation + 1, overflow)
                M == {[path |-> e.path, generation |-> journal.current_generation + 1] :
                        e \in all}
            IN  /\ Remembers(r, Numbering(g) \union M)
                /\ r.current_generation = journal.current_generation + 1
        BY <1>1, <1>2, <3>1, <3>2, BatchRemembered
      <4>. QED
        BY <1>1, <4>1
    <3>4. Numbering(h)' = Numbering(g) \union N
      BY <1>8
    <3>. HIDE DEF N
    <3>5. journal'.current_generation = G
      BY <1>1, <3>3
    <3>6. Remembers(journal', Numbering(h)')
      BY <1>1, <3>3, <3>4
    <3>7. Remembers(journal, Numbering(h))'
      BY <3>6 DEF Remembers, Ordered, Bounded, EntriesAreChanges, ChangesAreEntries
    <3>8. journal'.current_generation >= journal.current_generation
      BY <1>1, <1>2, <3>5
    <3>. QED
      BY <3>5, <3>7, <3>8
  <2>. QED
    BY <2>1, <2>2
<1>10. ASSUME NEW a \in Batch, Numbered(a, g)
       PROVE  Numbered(a, h)'
  <2>1. a.generation \in Nat \ {0} /\ \A e \in a.events : \E k \in 1 .. n :
          history[k].path = e.path /\ g[k] = a.generation
    BY <1>3, <1>10 DEF Numbered
  <2>2. \A e \in a.events : \E k \in 1 .. n + m :
          history'[k].path = e.path /\ h[k] = a.generation
    <3>1. \A k \in 1 .. n : k \in 1 .. n + m /\ history'[k] = history[k] /\ h[k] = g[k]
      BY <1>3, <1>5
    <3>. QED
      BY <2>1, <3>1
  <2>. QED
    BY <1>3, <2>1, <2>2 DEF Numbered
<1>11. Numbered(b, h)'
  <2>1. b.generation = G /\ b.events = kept /\ G \in Nat \ {0}
    BY <1>1, <1>2
  <2>2. \A e \in kept : \E k \in 1 .. n + m : history'[k].path = e.path /\ h[k] = G
    <3>1. ASSUME NEW e \in kept
          PROVE  \E k \in 1 .. n + m : history'[k].path = e.path /\ h[k] = G
      <4>1. PICK k \in 1 .. m : t[k] = e
        BY <1>1, <1>3
      <4>2. n + k \in 1 .. n + m /\ n + k > n
        OBVIOUS
      <4>. QED
        BY <1>3, <1>5, <4>1, <4>2
    <3>. QED
      BY <3>1
  <2>. QED
    BY <1>3, <2>1, <2>2 DEF Numbered
<1>12. ASSUME NEW w, Passed(w, g), w.generation \in Nat, w.upto \in Nat
       PROVE  Passed(w, h)'
  <2>1. /\ w.generation <= journal.current_generation /\ w.upto <= n
        /\ \A k \in 1 .. n : k > w.upto => g[k] > w.generation
    BY <1>3, <1>12 DEF Passed
  <2>2. ASSUME NEW k \in 1 .. n + m, k > w.upto
        PROVE  h[k] > w.generation
    <3>1. CASE k <= n
      BY <1>5, <2>1, <2>2, <3>1
    <3>2. CASE k > n
      BY <1>1, <1>2, <1>5, <1>12, <2>1, <3>2
    <3>. QED
      BY <3>1, <3>2
  <2>3. journal'.current_generation \in Nat
    <3>1. journal' \in Journal
      BY <1>1, <1>2, JournalBatchType
    <3>. QED
      BY <3>1 DEF Journal
  <2>4. w.generation <= journal'.current_generation
    BY <1>2, <1>9, <1>12, <2>1, <2>3
  <2>5. Len(history') = n + m /\ w.upto <= n
    BY <1>3, <2>1
  <2>6. w.upto <= Len(history')
    BY <1>3, <1>12, <2>5
  <2>. QED
    BY <2>2, <2>4, <2>5, <2>6 DEF Passed
<1>13. ASSUME Denied = {}
       PROVE  Passed(MarkOf(b), h)'
  <2>1. journal'.current_generation = G
    BY <1>1, <1>9, <1>13
  <2>2. MarkOf(b).generation = G /\ MarkOf(b).upto = n + m
    BY <1>1, <1>3 DEF MarkOf
  <2>3. \A k \in 1 .. n + m : ~(k > n + m)
    OBVIOUS
  <2>4. Len(history') = n + m /\ n + m \in Nat /\ G \in Nat
    BY <1>1, <1>3
  <2>. QED
    BY <2>1, <2>2, <2>3, <2>4 DEF Passed
<1>14. Denied = {} => /\ \A w \in handed' : Passed(w, h)'
                      /\ \A a \in Batch : Held(a)' => Passed(MarkOf(a), h)'
  <2>. SUFFICES ASSUME Denied = {}
                PROVE  /\ \A w \in handed' : Passed(w, h)'
                       /\ \A a \in Batch : Held(a)' => Passed(MarkOf(a), h)'
    OBVIOUS
  <2>1. \A w \in handed : Passed(w, g) /\ w.generation \in Nat /\ w.upto \in Nat
    BY DEF Explains, Typed, TypeOK, Watermark
  <2>2. \A a \in Batch : Held(a) => Passed(MarkOf(a), g)
    BY DEF Explains
  <2>3. \A a \in Batch : MarkOf(a).generation \in Nat /\ MarkOf(a).upto \in Nat
    BY DEF MarkOf, Batch
  <2>. QED
    BY <1>6, <1>7, <1>12, <1>13, <2>1, <2>2, <2>3
<1>15. \A a \in Batch : Held(a)' => Numbered(a, h)'
  BY <1>7, <1>10, <1>11 DEF Explains
<1>16. Explains(h)'
  BY <1>5, <1>9, <1>14, <1>15 DEF Explains
<1>. QED
  BY <1>5, <1>16

(* A scan that is about to journal has something to, unless some of what   *)
(* it found is denied.                                                     *)
LEMMA SomethingToJournal ==
  ASSUME Typed, HubOff, [Next]_vars, ~HubStep,
         \A p \in Paths : ~DidChange(p),
         Denied = {}, \A c \in Conns : conn[c].pc = "journal" => conn[c].events # {}
  PROVE  \A c \in Conns : conn'[c].pc = "journal" => conn'[c].events # {}
<1>1. conn \in [Conns -> ConnState]
  BY DEF Typed, TypeOK
<1>2. ASSUME NEW c \in Conns, ConnStep(c)
      PROVE  /\ \A d \in Conns : d # c => conn'[d] = conn[d]
             /\ conn'[c].pc = "journal" => conn'[c].events # {}
  <2>1. CASE PollBegins(c)
    BY <1>1, <2>1 DEF PollBegins, Goto, ConnState
  <2>2. CASE ScanDiff(c)
    <3>. DEFINE first == \A p \in Paths : snapshot[p] = Absent
                found == IF first THEN {} ELSE Diff(conn[c].now)
    <3>1. conn' = [conn EXCEPT ![c] =
            [ConnIdle EXCEPT !.pc = IF found = {} THEN "drain" ELSE "journal",
                             !.events = {e \in found : e.path \notin Denied}]]
      BY <2>2 DEF ScanDiff
    <3>. HIDE DEF found
    <3>2. {e \in found : e.path \notin Denied} = found
      OBVIOUS
    <3>. QED
      BY <1>1, <3>1, <3>2 DEF ConnIdle
  <2>3. CASE ScanJournal(c)
    <3>1. PICK b : conn' = [conn EXCEPT ![c] = [ConnIdle EXCEPT !.pc = "push",
                                                              !.batch = b]]
      BY <2>3, ScannedBatch
    <3>. QED
      BY <1>1, <3>1 DEF ConnIdle
  <2>4. CASE ScanPush(c)
    BY <1>1, <2>4 DEF ScanPush, ConnIdle
  <2>5. CASE WritePushes(c)
    <3>1. \A d \in Conns : conn'[d] = conn[d] \/ (d = c /\ conn'[d].pc # "journal")
      BY <2>5, ReceivedAfterWrite
    <3>. QED
      BY <3>1
  <2>. QED
    BY <1>2, <2>1, <2>2, <2>3, <2>4, <2>5 DEF ConnStep
<1>3. ASSUME ~\E c \in Conns : ConnStep(c)
      PROVE  conn' = conn
  BY <1>3 DEF Next, WriteFile, DeleteFile, StartHub, WatchSubscribe, FilesSince, vars
<1>. QED
  BY <1>2, <1>3

(* Every step of a host without hub keeps an explaining numbering.         *)
LEMMA NextWatermarks ==
  ASSUME ~HubStarts, Typed, Watermarks, [Next]_vars
  PROVE  Watermarks'
<1>1. /\ HubOff' /\ ~HubStep /\ ~StartHub /\ \A p \in Paths : ~DidChange(p)
      /\ HubOff
  BY HubStaysOff DEF Watermarks
<1>2. Denied = {} => \A c \in Conns : conn'[c].pc = "journal" => conn'[c].events # {}
  BY <1>1, SomethingToJournal DEF Watermarks
<1>3. PICK g \in Seq(Nat) : Explains(g)
  BY DEF Watermarks
<1>4. conn \in [Conns -> ConnState]
  BY DEF Typed, TypeOK
<1>5. \E h \in Seq(Nat) : Explains(h)'
  <2>1. ASSUME NEW c \in Conns, ScanJournal(c)
        PROVE  \E h \in Seq(Nat) : Explains(h)'
    <3>1. Denied = {} => conn[c].events # {}
      BY <2>1 DEF ScanJournal, Watermarks
    <3>. QED
      BY <1>3, <2>1, <3>1, ScanExplained
  <2>2. ASSUME NEW c \in Conns, ScanPush(c)
        PROVE  Explains(g)'
    <3>1. UNCHANGED << journal, history, handed >>
      BY <2>2 DEF ScanPush, seen
    <3>2. \A b \in Batch : Held(b)' => Held(b)
      BY <2>2, HeldMoves
    <3>. QED
      BY <1>3, <3>1, <3>2, StillExplained
  <2>3. ASSUME NEW c \in Conns, WritePushes(c)
        PROVE  Explains(g)'
    <3>1. UNCHANGED << journal, history >>
      BY <2>3 DEF WritePushes
    <3>2. \A b \in Batch : Held(b)' => Held(b)
      BY <2>3, HeldMoves
    <3>3. \A w \in handed' : w \in handed \/ \E b \in Batch : Held(b) /\ w = MarkOf(b)
      <4>1. \A i \in DOMAIN pending_batches :
              pending_batches[i] \in Batch /\ Held(pending_batches[i])
        BY DEF Typed, TypeOK, Held
      <4>2. \A w \in handed' : w \in handed \/ \E i \in DOMAIN pending_batches :
              w = MarkOf(pending_batches[i])
        BY <2>3, ReceivedAfterWrite DEF MarkOf
      <4>. QED
        BY <4>1, <4>2
    <3>. QED
      BY <1>3, <3>1, <3>2, <3>3, StillExplained
  <2>4. ASSUME NEW c \in Conns, PollBegins(c) \/ ScanDiff(c)
        PROVE  Explains(g)'
    <3>1. UNCHANGED << journal, history, handed, received, pending_batches >>
      BY <2>4 DEF PollBegins, ScanDiff, host, seen
    <3>2. \A d \in Conns : conn'[d].pc = "push" => conn'[d] = conn[d]
      <4>1. conn'[c].pc # "push"
        <5>1. CASE PollBegins(c)
          BY <1>4, <5>1 DEF PollBegins, Goto, ConnState
        <5>2. CASE ScanDiff(c)
          BY <1>4, <5>2 DEF ScanDiff, ConnIdle
        <5>. QED
          BY <2>4, <5>1, <5>2
      <4>2. \A d \in Conns : d # c => conn'[d] = conn[d]
        BY <1>4, <2>4 DEF PollBegins, ScanDiff, Goto
      <4>. QED
        BY <4>1, <4>2
    <3>3. \A b \in Batch : Held(b)' => Held(b)
      BY <3>1, <3>2, HeldMoves
    <3>. QED
      BY <1>3, <3>1, <3>3, StillExplained
  <2>5. ASSUME UNCHANGED << journal, history, conn, received, pending_batches >>,
               \A w \in handed' : w \in handed \/
                 w = [generation |-> journal.current_generation, upto |-> Len(history)]
        PROVE  Explains(g)'
    <3>1. \A b \in Batch : Held(b)' => Held(b)
      BY <2>5, HeldMoves
    <3>. QED
      BY <1>3, <2>5, <3>1, StillExplained
  <2>6. ASSUME NEW c \in Conns, WatchSubscribe(c) \/ FilesSince(c)
        PROVE  Explains(g)'
    <3>1. /\ UNCHANGED << journal, history, conn, received, pending_batches >>
          /\ \A w \in handed' : w \in handed \/
               w = [generation |-> journal.current_generation, upto |-> Len(history)]
      BY <2>6 DEF WatchSubscribe, FilesSince, host
    <3>. QED
      BY <2>5, <3>1
  <2>7. ASSUME NEW p \in Paths, WriteFile(p) \/ DeleteFile(p)
        PROVE  Explains(g)'
    <3>1. UNCHANGED << journal, history, conn, received, pending_batches, handed >>
      BY <2>7 DEF WriteFile, DeleteFile, host, seen
    <3>. QED
      BY <2>5, <3>1
  <2>8. ASSUME UNCHANGED vars
        PROVE  Explains(g)'
    BY <2>5, <2>8 DEF vars
  <2>9. ASSUME ~\E c \in Conns : ScanJournal(c)
        PROVE  Explains(g)'
    <3>1. \/ \E c \in Conns : ScanPush(c)
          \/ \E c \in Conns : WritePushes(c)
          \/ \E c \in Conns : PollBegins(c) \/ ScanDiff(c)
          \/ \E c \in Conns : WatchSubscribe(c) \/ FilesSince(c)
          \/ \E p \in Paths : WriteFile(p) \/ DeleteFile(p)
          \/ UNCHANGED vars
      BY <1>1, <2>9 DEF Next, ConnStep
    <3>2. CASE \E c \in Conns : ScanPush(c)
      BY <2>2, <3>2
    <3>3. CASE \E c \in Conns : WritePushes(c)
      BY <2>3, <3>3
    <3>4. CASE \E c \in Conns : PollBegins(c) \/ ScanDiff(c)
      BY <2>4, <3>4
    <3>5. CASE \E c \in Conns : WatchSubscribe(c) \/ FilesSince(c)
      BY <2>6, <3>5
    <3>6. CASE \E p \in Paths : WriteFile(p) \/ DeleteFile(p)
      BY <2>7, <3>6
    <3>. QED
      BY <2>8, <3>1, <3>2, <3>3, <3>4, <3>5, <3>6
  <2>10. CASE \E c \in Conns : ScanJournal(c)
    BY <2>1, <2>10
  <2>11. CASE ~\E c \in Conns : ScanJournal(c)
    <3>1. Explains(g)'
      BY <2>9, <2>11
    <3>. QED
      BY <1>3, <3>1
  <2>. QED
    BY <2>10, <2>11
<1>. QED
  BY <1>1, <1>2, <1>5 DEF Watermarks

(* An empty journal and history explain each other.                        *)
LEMMA InitWatermarks == Init => Watermarks
<1>. SUFFICES ASSUME Init  PROVE Watermarks
  OBVIOUS
<1>1. HubOff /\ \A c \in Conns : conn[c].pc = "idle"
  BY DEF Init, HubOff, HubIdle, ConnIdle
<1>2a. PICK g : g = << >>
  OBVIOUS
<1>2. g \in Seq(Nat) /\ Len(g) = 0
  BY <1>2a
<1>3. Len(history) = 0 /\ 1 .. Len(history) = {}
  BY DEF Init
<1>4. Numbering(g) = {}
  BY <1>3 DEF Numbering
<1>5. Remembers(journal, Numbering(g))
  BY <1>4, RemembersEmpty DEF Init
<1>6. \A b \in Batch : ~Held(b)
  BY <1>1 DEF Held, Init
<1>7. handed = {}
  BY DEF Init
<1>8. Explains(g)
  BY <1>2, <1>3, <1>5, <1>6, <1>7 DEF Explains
<1>. QED
  BY <1>1, <1>2, <1>8 DEF Watermarks

(* What an answer to FilesSince names, in terms of the numbering.          *)
LEMMA AnswerNames ==
  ASSUME NEW g, Explains(g), journal \in Journal, NEW since \in Nat,
         ~SinceGeneration(journal, since).truncated,
         NEW k \in 1 .. Len(history), g[k] > since
  PROVE  history[k].path \in SinceGeneration(journal, since).paths
<1>1. SinceGeneration(journal, since).paths
        = {h.path : h \in {x \in Numbering(g) : x.generation > since}}
  BY RemembersCatchUp DEF Explains
<1>2. [path |-> history[k].path, generation |-> g[k]] \in Numbering(g)
  BY DEF Numbering
<1>. QED
  BY <1>1, <1>2

(***************************************************************************)
(* FilesSince from any generation a client was given names every path      *)
(* that was journaled since, or says that it is truncated: for any number  *)
(* of connections and files and any sizes of the journal and of a scan,    *)
(* before the hub starts and when on_watch denies no path.                 *)
(***************************************************************************)
THEOREM WatermarkAlwaysSound ==
  ASSUME ~HubStarts, Denied = {}
  PROVE  Spec => []WatermarkSound
<1>1. Init => Typed /\ Watermarks
  BY InitTyped, InitWatermarks
<1>2. Typed /\ Watermarks /\ [Next]_vars => Typed' /\ Watermarks'
  BY NextTyped, NextWatermarks
<1>3. Typed /\ Watermarks => WatermarkSound
  <2>. SUFFICES ASSUME Typed, Watermarks, NEW w \in handed,
                       ~SinceGeneration(journal, w.generation).truncated,
                       NEW k \in (w.upto + 1) .. Len(history)
                PROVE  history[k].path \in SinceGeneration(journal, w.generation).paths
    BY DEF WatermarkSound
  <2>1. PICK g \in Seq(Nat) : Explains(g)
    BY DEF Watermarks
  <2>2. /\ journal \in Journal /\ Len(history) \in Nat
        /\ w.generation \in Nat /\ w.upto \in Nat
    BY DEF Typed, TypeOK, Watermark
  <2>3. Passed(w, g)
    BY <2>1 DEF Explains
  <2>4. k \in 1 .. Len(history) /\ g[k] > w.generation
    BY <2>2, <2>3 DEF Passed
  <2>. QED
    BY <2>1, <2>2, <2>4, AnswerNames
<1>. QED
  BY <1>1, <1>2, <1>3, PTL DEF Spec

(***************************************************************************)
(* A batch that reached a client is in the journal: FilesSince from the    *)
(* generation before it names its paths, or says truncated, whatever       *)
(* on_watch denies, before the hub starts.                                 *)
(***************************************************************************)
THEOREM PushAlwaysJournaled ==
  ASSUME ~HubStarts
  PROVE  Spec => []PushIsJournaled
<1>1. Init => Typed /\ Watermarks
  BY InitTyped, InitWatermarks
<1>2. Typed /\ Watermarks /\ [Next]_vars => Typed' /\ Watermarks'
  BY NextTyped, NextWatermarks
<1>3. Typed /\ Watermarks => PushIsJournaled
  <2>. SUFFICES ASSUME Typed, Watermarks,
                       NEW c \in Conns, NEW i \in DOMAIN received[c],
                       ~SinceGeneration(journal, received[c][i].generation - 1).truncated,
                       NEW e \in received[c][i].events
                PROVE  e.path \in
                         SinceGeneration(journal, received[c][i].generation - 1).paths
    BY DEF PushIsJournaled
  <2>1. PICK g \in Seq(Nat) : Explains(g)
    BY DEF Watermarks
  <2>2. PICK b \in Batch : b = received[c][i]
    BY DEF Typed, TypeOK
  <2>3. Held(b)
    BY <2>2 DEF Held
  <2>4. Numbered(b, g)
    BY <2>1, <2>3 DEF Explains
  <2>5. PICK k \in 1 .. Len(history) : history[k].path = e.path /\ g[k] = b.generation
    BY <2>2, <2>4 DEF Numbered
  <2>6. b.generation - 1 \in Nat /\ g[k] > b.generation - 1
    BY <2>4, <2>5 DEF Numbered
  <2>7. history[k].path \in SinceGeneration(journal, b.generation - 1).paths
    BY <2>1, <2>2, <2>6, AnswerNames DEF Typed, TypeOK
  <2>. QED
    BY <2>2, <2>5, <2>7
<1>. QED
  BY <1>1, <1>2, <1>3, PTL DEF Spec

-----------------------------------------------------------------------------
(***************************************************************************)
(* The order of what one connection receives, on a host without hub.       *)
(***************************************************************************)

(* Journaling a scan never lowers the journal's generation.                *)
LEMMA ScanRaises ==
  ASSUME Typed, NEW c \in Conns, ScanJournal(c)
  PROVE  /\ journal'.current_generation \in Nat
         /\ journal.current_generation \in Nat
         /\ journal'.current_generation >= journal.current_generation
<1>1. PICK kept \in SUBSET conn[c].events, overflow \in BOOLEAN :
        LET g == journal.current_generation + 1
        IN  /\ overflow => kept # {}
            /\ kept \in SUBSET Change /\ IsFiniteSet(kept)
            /\ g \in Nat
            /\ journal' = JournalBatch(journal, kept, g, overflow)
  BY ScannedBatch
<1>2. PICK g : g = journal.current_generation + 1
  OBVIOUS
<1>3. /\ journal \in Journal /\ g \in Nat
      /\ journal.current_generation \in Nat
      /\ g > journal.current_generation
      /\ journal' = JournalBatch(journal, kept, g, overflow)
  BY <1>1, <1>2 DEF Typed, TypeOK, Journal
<1>. DEFINE base == IF overflow THEN MarkOverflow(journal, g) ELSE journal
            ps == ListedPaths(kept)
<1>4. /\ base \in Journal /\ base.current_generation \in Nat
      /\ base.current_generation >= journal.current_generation
  BY <1>3 DEF MarkOverflow, Journal
<1>5. ps \in Seq(Paths)
  BY <1>1, ListedType
<1>6. journal' = RecordAll(base, ps, g, 0)
  BY <1>3 DEF JournalBatch
<1>. HIDE DEF base, ps
<1>7. CASE ps = << >>
  BY <1>3, <1>4, <1>6, <1>7 DEF RecordAll
<1>8. CASE ps # << >>
  <2>1. PICK drop \in 0 .. (Len(base.entries) + Len(ps) - 1) :
          Recorded(base, ps, g, 0, drop)
    BY <1>3, <1>4, <1>5, <1>8, RecordAllResult
  <2>. QED
    BY <1>3, <1>4, <1>6, <2>1 DEF Recorded
<1>. QED
  BY <1>7, <1>8

(***************************************************************************)
(* Why the generations one connection receives rise: the batches it holds, *)
(* those in the list and the one its thread is about to queue are in the   *)
(* order of their generations, and none is past the journal's next one.    *)
(***************************************************************************)
Rising ==
  /\ \A b \in Batch : Held(b) => b.generation <= journal.current_generation + 1
  /\ PushesMonotonic
  /\ \A c \in Conns : \A i \in DOMAIN received[c], k \in DOMAIN pending_batches :
       received[c][i].generation <= pending_batches[k].generation
  /\ \A i, k \in DOMAIN pending_batches :
       i < k => pending_batches[i].generation <= pending_batches[k].generation
  /\ \A c \in Conns : conn[c].pc = "push" =>
       /\ \A k \in DOMAIN pending_batches :
            pending_batches[k].generation <= conn[c].batch.generation
       /\ \A i \in DOMAIN received[c] :
            received[c][i].generation <= conn[c].batch.generation

(* Steps that move no batch and journal nothing.                           *)
LEMMA StillRising ==
  ASSUME Rising, UNCHANGED << received, pending_batches, journal >>,
         \A d \in Conns : conn'[d].pc = "push" => conn'[d] = conn[d]
  PROVE  Rising'
<1>1. \A b : Held(b)' => Held(b)
  BY DEF Held
<1>. QED
  BY <1>1 DEF Rising, PushesMonotonic

(* A scanned batch takes a generation that no batch had.                   *)
LEMMA ScanJournalRising ==
  ASSUME Typed, Rising, \A c, d \in Conns : c = d,
         NEW c \in Conns, ScanJournal(c)
  PROVE  Rising'
<1>1. PICK s : /\ conn' = [conn EXCEPT ![c] = s]
               /\ s.batch.generation = journal.current_generation + 1
               /\ s.batch \in Batch /\ s.pc = "push"
  <2>1. PICK kept \in SUBSET conn[c].events, overflow \in BOOLEAN :
          LET b == [events |-> kept, overflow |-> overflow,
                    generation |-> journal.current_generation + 1,
                    upto |-> Len(history')]
          IN  /\ b \in Batch
              /\ conn' = [conn EXCEPT ![c] = [ConnIdle EXCEPT !.pc = "push",
                                                             !.batch = b]]
    BY ScannedBatch
  <2>2. PICK b : b = [events |-> kept, overflow |-> overflow,
                    generation |-> journal.current_generation + 1,
                    upto |-> Len(history')]
    OBVIOUS
  <2>3. PICK s : s = [ConnIdle EXCEPT !.pc = "push", !.batch = b]
    OBVIOUS
  <2>4. /\ conn' = [conn EXCEPT ![c] = s] /\ b \in Batch
        /\ b.generation = journal.current_generation + 1
        /\ s.batch = b /\ s.pc = "push"
    BY <2>1, <2>2, <2>3 DEF ConnIdle
  <2>. QED
    BY <2>4
<1>2. /\ UNCHANGED << received, pending_batches >>
      /\ conn \in [Conns -> ConnState]
  BY DEF ScanJournal, Typed, TypeOK
<1>3. /\ journal'.current_generation \in Nat /\ journal.current_generation \in Nat
      /\ journal'.current_generation >= journal.current_generation
  BY ScanRaises
<1>4. \A b : Held(b)' => Held(b) \/ b = s.batch
  BY <1>1, <1>2, HeldAfterScan
<1>5. ASSUME NEW b \in Batch, Held(b)'
      PROVE  b.generation <= journal'.current_generation + 1
  <2>1. b.generation <= journal.current_generation + 1 /\ b.generation \in Nat
    BY <1>1, <1>3, <1>4, <1>5 DEF Rising, Batch
  <2>. QED
    BY <1>3, <2>1
<1>6. /\ \A k \in DOMAIN pending_batches :
           pending_batches[k].generation <= s.batch.generation
      /\ \A i \in DOMAIN received[c] : received[c][i].generation <= s.batch.generation
  <2>1. \A k \in DOMAIN pending_batches : pending_batches[k] \in Batch
                                          /\ Held(pending_batches[k])
    BY DEF Typed, TypeOK, Held
  <2>2. \A i \in DOMAIN received[c] : received[c][i] \in Batch /\ Held(received[c][i])
    BY DEF Typed, TypeOK, Held
  <2>. QED
    BY <1>1, <2>1, <2>2 DEF Rising
<1>7. \A d \in Conns : d = c /\ conn'[d] = s
  BY <1>1, <1>2
<1>. QED
  BY <1>2, <1>5, <1>6, <1>7 DEF Rising, PushesMonotonic

(* A scanned batch goes behind the pending ones.                           *)
LEMMA ScanPushRising ==
  ASSUME Typed, Rising, \A c, d \in Conns : c = d,
         NEW c \in Conns, ScanPush(c)
  PROVE  Rising'
<1>1. /\ conn \in [Conns -> ConnState] /\ conn[c].batch \in Batch
      /\ pending_batches \in Seq(Batch) /\ Len(pending_batches) \in Nat
      /\ DOMAIN pending_batches = 1 .. Len(pending_batches)
  BY DEF Typed, TypeOK, ConnState
<1>2. /\ conn[c].pc = "push" /\ UNCHANGED << received, journal >>
      /\ conn'[c].pc # "push" /\ PushIfSubscribed(conn[c].batch)
  BY <1>1 DEF ScanPush, seen, ConnIdle
<1>3. \A i \in DOMAIN pending_batches' :
        \/ i \in DOMAIN pending_batches /\ pending_batches'[i] = pending_batches[i]
        \/ /\ pending_batches'[i] = conn[c].batch
           /\ i = Len(pending_batches) + 1
           /\ i \notin DOMAIN pending_batches
  BY <1>1, <1>2, QueuedAfterPush
<1>4. \A b \in Batch : Held(b)' => Held(b)
  BY HeldMoves
<1>5. \A i, k \in DOMAIN pending_batches' :
        i < k => pending_batches'[i].generation <= pending_batches'[k].generation
  BY <1>1, <1>2, <1>3 DEF Rising
<1>6. \A d \in Conns : \A i \in DOMAIN received[d], k \in DOMAIN pending_batches' :
        received[d][i].generation <= pending_batches'[k].generation
  BY <1>2, <1>3 DEF Rising
<1>7. \A d \in Conns : conn'[d].pc # "push"
  BY <1>2
<1>. QED
  BY <1>2, <1>4, <1>5, <1>6, <1>7 DEF Rising, PushesMonotonic

(* Writing the pending batches keeps their order.                          *)
LEMMA WriteRising ==
  ASSUME Typed, Rising, \A c, d \in Conns : c = d,
         NEW c \in Conns, WritePushes(c)
  PROVE  Rising'
<1>1. /\ DOMAIN pending_batches' = {}
      /\ \A d \in Conns : \A i \in DOMAIN received'[d] :
           \/ i \in DOMAIN received[d] /\ received'[d][i] = received[d][i]
           \/ /\ d = c /\ i > Len(received[c]) /\ i \in Nat
              /\ i - Len(received[c]) \in DOMAIN pending_batches
              /\ received'[d][i] = pending_batches[i - Len(received[c])]
      /\ \A d \in Conns : conn'[d].pc # "push" \/ conn'[d] = conn[d]
      /\ journal' = journal
  BY ReceivedAfterWrite DEF WritePushes
<1>2. /\ DOMAIN pending_batches = 1 .. Len(pending_batches)
      /\ Len(received[c]) \in Nat
      /\ DOMAIN received[c] = 1 .. Len(received[c])
      /\ conn[c].pc = "drain" /\ \A d \in Conns : d = c
  BY DEF Typed, TypeOK, WritePushes
<1>3. \A b \in Batch : Held(b)' => Held(b)
  BY HeldMoves
<1>4. \A d \in Conns : conn'[d].pc # "push"
  BY <1>1, <1>2
<1>5. ASSUME NEW i \in DOMAIN received'[c], NEW j \in DOMAIN received'[c], i < j
      PROVE  received'[c][i].generation <= received'[c][j].generation
  <2>1. CASE /\ i \in DOMAIN received[c] /\ received'[c][i] = received[c][i]
             /\ j \in DOMAIN received[c] /\ received'[c][j] = received[c][j]
    BY <1>5, <2>1 DEF Rising, PushesMonotonic
  <2>2. CASE /\ i \in DOMAIN received[c] /\ received'[c][i] = received[c][i]
             /\ j - Len(received[c]) \in DOMAIN pending_batches
             /\ received'[c][j] = pending_batches[j - Len(received[c])]
    BY <2>2 DEF Rising
  <2>3. CASE /\ i > Len(received[c]) /\ i \in Nat
             /\ j \in DOMAIN received[c]
    BY <1>2, <1>5, <2>3
  <2>4. CASE /\ i \in Nat /\ j \in Nat
             /\ i - Len(received[c]) \in DOMAIN pending_batches
             /\ received'[c][i] = pending_batches[i - Len(received[c])]
             /\ j - Len(received[c]) \in DOMAIN pending_batches
             /\ received'[c][j] = pending_batches[j - Len(received[c])]
    <3>1. i - Len(received[c]) < j - Len(received[c])
      BY <1>2, <1>5, <2>4
    <3>. QED
      BY <2>4, <3>1 DEF Rising
  <2>. QED
    BY <1>1, <2>1, <2>2, <2>3, <2>4
<1>. QED
  BY <1>1, <1>2, <1>3, <1>4, <1>5 DEF Rising, PushesMonotonic

(* Every step keeps the generations rising.                                *)
LEMMA NextRising ==
  ASSUME ~HubStarts, \A c, d \in Conns : c = d, Typed, HubOff, Rising, [Next]_vars
  PROVE  Rising'
<1>1. ~HubStep /\ ~StartHub /\ \A p \in Paths : ~DidChange(p)
  BY HubStaysOff
<1>2. conn \in [Conns -> ConnState]
  BY DEF Typed, TypeOK
<1>3. ASSUME NEW c \in Conns, PollBegins(c) \/ ScanDiff(c)
      PROVE  Rising'
  <2>1. conn'[c].pc # "push"
    <3>1. CASE PollBegins(c)
      BY <1>2, <3>1 DEF PollBegins, Goto, ConnState
    <3>2. CASE ScanDiff(c)
      BY <1>2, <3>2 DEF ScanDiff, ConnIdle
    <3>. QED
      BY <1>3, <3>1, <3>2
  <2>2. \A d \in Conns : d # c => conn'[d] = conn[d]
    BY <1>2, <1>3 DEF PollBegins, ScanDiff, Goto
  <2>. QED
    BY <1>3, <2>1, <2>2, StillRising DEF PollBegins, ScanDiff, host, seen
<1>4. ASSUME NEW c \in Conns, WatchSubscribe(c) \/ FilesSince(c)
      PROVE  Rising'
  BY <1>4, StillRising DEF WatchSubscribe, FilesSince, host
<1>5. ASSUME NEW p \in Paths, WriteFile(p) \/ DeleteFile(p)
      PROVE  Rising'
  BY <1>5, StillRising DEF WriteFile, DeleteFile, host, seen
<1>6. CASE UNCHANGED vars
  BY <1>6, StillRising DEF vars
<1>. QED
  BY <1>1, <1>3, <1>4, <1>5, <1>6, ScanJournalRising, ScanPushRising, WriteRising
  DEF Next, ConnStep

(***************************************************************************)
(* With one connection, and before the hub starts, the generations of the  *)
(* pushes never go back, whatever on_watch denies and wherever the poll    *)
(* or the write is interrupted.                                            *)
(***************************************************************************)
THEOREM PushesAlwaysMonotonic ==
  ASSUME ~HubStarts, \A c, d \in Conns : c = d
  PROVE  Spec => []PushesMonotonic
<1>1. Init => Typed /\ HubOff /\ Rising
  <2>. SUFFICES ASSUME Init  PROVE Typed /\ HubOff /\ Rising
    OBVIOUS
  <2>1. Typed
    BY InitTyped
  <2>2. HubOff /\ (\A c \in Conns : conn[c].pc = "idle")
        /\ DOMAIN pending_batches = {} /\ \A c \in Conns : DOMAIN received[c] = {}
    BY DEF Init, HubOff, HubIdle, ConnIdle
  <2>. QED
    BY <2>1, <2>2 DEF Rising, PushesMonotonic, Held
<1>2. Typed /\ HubOff /\ Rising /\ [Next]_vars => Typed' /\ HubOff' /\ Rising'
  BY NextTyped, HubStaysOff, NextRising
<1>3. Rising => PushesMonotonic
  BY DEF Rising
<1>. QED
  BY <1>1, <1>2, <1>3, PTL DEF Spec

-----------------------------------------------------------------------------
(***************************************************************************)
(* Why no client is left with a file that is gone, on a host without hub   *)
(* and with one connection: a path whose last journaled change left it in  *)
(* the tree is in the snapshot, or the scan that missed it is about to     *)
(* journal an event for it.  That event's kind is what the snapshot says.  *)
(***************************************************************************)
LastAt(p, k) ==
  /\ k \in 1 .. Len(history)
  /\ history[k].path = p
  /\ \A m \in 1 .. Len(history) : history[m].path = p => m <= k

EventsTrue(events) ==
  /\ \A e \in events :
       /\ e.path \notin Denied
       /\ e.kind # "delete" => snapshot[e.path] # Absent
  /\ \A e1, e2 \in events : e1.path = e2.path => e1 = e2

Followed ==
  /\ \A c \in Conns : EventsTrue(conn[c].events)
  /\ \A c \in Conns : conn[c].pc # "journal" => conn[c].events = {}
  /\ \A k \in 1 .. Len(history) :
       /\ history[k].path \notin Denied
       /\ \E m \in 1 .. Len(history) : LastAt(history[k].path, m)
  /\ \A p \in Paths : \A k \in 1 .. Len(history) :
       LastAt(p, k) /\ history[k].kind # "delete" =>
         \/ snapshot[p] # Absent
         \/ \E c \in Conns : \E e \in conn[c].events : e.path = p

(* Steps that neither scan nor journal.                                    *)
LEMMA StillFollowed ==
  ASSUME Followed, UNCHANGED << history, snapshot >>,
         \A c \in Conns : conn'[c].events = conn[c].events,
         \A c \in Conns : conn'[c].pc = "journal" <=> conn[c].pc = "journal"
  PROVE  Followed'
<1>1. \A p, k : LastAt(p, k)' <=> LastAt(p, k)
  BY DEF LastAt
<1>2. \A c \in Conns : EventsTrue(conn[c].events)'
  BY DEF Followed, EventsTrue
<1>3. \A k \in 1 .. Len(history) : \E m \in 1 .. Len(history) :
        LastAt(history[k].path, m)'
  BY <1>1 DEF Followed
<1>4. \A p \in Paths : \A k \in 1 .. Len(history) :
        LastAt(p, k)' /\ history[k].kind # "delete" =>
          \/ snapshot[p] # Absent
          \/ \E c \in Conns : \E e \in conn'[c].events : e.path = p
  BY <1>1 DEF Followed
<1>. QED
  BY <1>2, <1>3, <1>4 DEF Followed, LastAt

(* A scan reports what it missed.                                          *)
LEMMA ScanDiffFollowed ==
  ASSUME Typed, Followed, \A c, d \in Conns : c = d,
         NEW c \in Conns, ScanDiff(c)
  PROVE  Followed'
<1>1. PICK now, found, news :
        /\ now = conn[c].now
        /\ found = IF \A p \in Paths : snapshot[p] = Absent THEN {} ELSE Diff(now)
        /\ news = {e \in found : e.path \notin Denied}
  OBVIOUS
<1>2. /\ conn \in [Conns -> ConnState] /\ now \in [Paths -> Nat]
      /\ snapshot' = now /\ history' = history /\ conn[c].pc = "diff"
      /\ conn' = [conn EXCEPT ![c] =
           [ConnIdle EXCEPT !.pc = IF found = {} THEN "drain" ELSE "journal",
                            !.events = news]]
  BY <1>1 DEF ScanDiff, seen, Typed, TypeOK, ConnState
<1>3. /\ conn'[c].events = news /\ (conn'[c].pc # "journal" => found = {})
      /\ \A d \in Conns : d = c
  BY <1>2 DEF ConnIdle
<1>4. /\ \A e \in found : /\ e.path \in Paths
                          /\ e.kind # "delete" => now[e.path] # Absent
      /\ \A e1, e2 \in found : e1.path = e2.path => e1 = e2
      /\ \A p \in Paths : snapshot[p] # Absent /\ now[p] # snapshot[p] =>
           \E e \in found : e.path = p
  <2>1. /\ \A e \in Diff(now) :
             /\ e.path \in Paths /\ e.kind = KindOf(snapshot[e.path], now[e.path])
             /\ now[e.path] # snapshot[e.path]
        /\ \A e1, e2 \in Diff(now) : e1.path = e2.path => e1 = e2
        /\ \A p \in Paths : now[p] # snapshot[p] => \E e \in Diff(now) : e.path = p
    BY <1>2, DiffType
  <2>2. found \subseteq Diff(now)
    BY <1>1
  <2>3. \A e \in found : e.kind # "delete" => now[e.path] # Absent
    BY <2>1, <2>2 DEF KindOf
  <2>4. ASSUME NEW p \in Paths, snapshot[p] # Absent, now[p] # snapshot[p]
        PROVE  \E e \in found : e.path = p
    BY <1>1, <2>1, <2>4
  <2>. QED
    BY <2>1, <2>2, <2>3, <2>4
<1>5. EventsTrue(news)'
  BY <1>1, <1>2, <1>4 DEF EventsTrue
<1>6. \A d \in Conns : EventsTrue(conn[d].events)'
  BY <1>3, <1>5 DEF EventsTrue
<1>7. \A d \in Conns : conn'[d].pc # "journal" => conn'[d].events = {}
  BY <1>1, <1>3
<1>8. \A p, k : LastAt(p, k)' <=> LastAt(p, k)
  BY <1>2 DEF LastAt
<1>9. ASSUME NEW p \in Paths, NEW k \in 1 .. Len(history),
             LastAt(p, k), history[k].kind # "delete"
      PROVE  now[p] # Absent \/ \E e \in news : e.path = p
  <2>1. conn[c].events = {}
    BY <1>2 DEF Followed
  <2>2. snapshot[p] # Absent
    BY <1>3, <1>9, <2>1 DEF Followed
  <2>3. p \notin Denied
    BY <1>9 DEF LastAt, Followed
  <2>4. CASE now[p] = snapshot[p]
    BY <2>2, <2>4
  <2>5. CASE now[p] # snapshot[p]
    BY <1>1, <1>4, <2>2, <2>3, <2>5
  <2>. QED
    BY <2>4, <2>5
<1>10. \A k \in 1 .. Len(history') :
         /\ history'[k].path \notin Denied
         /\ \E m \in 1 .. Len(history') : LastAt(history[k].path, m)'
  BY <1>2, <1>8 DEF Followed
<1>11. \A p \in Paths : \A k \in 1 .. Len(history') :
         LastAt(p, k)' /\ history'[k].kind # "delete" =>
           \/ snapshot'[p] # Absent
           \/ \E d \in Conns : \E e \in conn'[d].events : e.path = p
  BY <1>2, <1>3, <1>8, <1>9
<1>. QED
  BY <1>6, <1>7, <1>10, <1>11 DEF Followed

(* Journaling a scan makes its events the last of their paths.             *)
LEMMA ScanJournalFollowed ==
  ASSUME Typed, Followed, \A c, d \in Conns : c = d,
         NEW c \in Conns, ScanJournal(c)
  PROVE  Followed'
<1>1. PICK all, n, m, t : /\ all = conn[c].events /\ n = Len(history)
                          /\ m = Cardinality(all) /\ t = Listed(all)
  OBVIOUS
<1>2. /\ all \in SUBSET Change /\ IsFiniteSet(all) /\ history' = Remember(all)
      /\ snapshot' = snapshot /\ conn \in [Conns -> ConnState]
      /\ EventsTrue(all)
  BY <1>1 DEF ScanJournal, Typed, TypeOK, ConnState, FiniteEvents, Followed
<1>3. /\ n \in Nat /\ m \in Nat /\ Len(history') = n + m
      /\ \A k \in 1 .. n : history'[k] = history[k]
      /\ \A k \in 1 .. m : history'[n + k] = t[k]
  BY <1>1, <1>2, HistoryGrows
<1>4. /\ \A k \in 1 .. m : t[k] \in all
      /\ \A e \in all : \E k \in 1 .. m : t[k] = e
      /\ \A i, k \in 1 .. m : t[i] = t[k] => i = k
  <2>1. \A k \in 1 .. m : t[k] \in all
    BY <1>1, <1>2, ListedType
  <2>2. /\ \A e \in all : \E k \in 1 .. Cardinality(all) : Listed(all)[k] = e
        /\ \A i, k \in 1 .. Cardinality(all) :
             Listed(all)[i] = Listed(all)[k] => i = k
    BY <1>2, ListedOnce
  <2>3. /\ \A e \in all : \E k \in 1 .. m : t[k] = e
        /\ \A i, k \in 1 .. m : t[i] = t[k] => i = k
    BY <1>1, <2>2
  <2>. QED
    BY <2>1, <2>3
<1>5. \A d \in Conns : d = c /\ conn'[d].events = {} /\ conn'[d].pc # "journal"
  <2>1. PICK b : conn' = [conn EXCEPT ![c] = [ConnIdle EXCEPT !.pc = "push",
                                                            !.batch = b]]
    BY ScannedBatch
  <2>. QED
    BY <1>2, <2>1, IdleTypes DEF ConnIdle
<1>6. \A d \in Conns : EventsTrue(conn[d].events)'
  BY <1>5 DEF EventsTrue
<1>7. ASSUME NEW k \in n + 1 .. n + m
      PROVE  /\ history'[k] \in all
             /\ LastAt(history[k].path, k)'
  <2>1. /\ k - n \in 1 .. m /\ k = n + (k - n) /\ k \in 1 .. n + m
    BY <1>3
  <2>2. history'[k] = t[k - n] /\ t[k - n] \in all
    BY <1>3, <1>4, <2>1
  <2>3. ASSUME NEW q \in 1 .. n + m, history'[q].path = history'[k].path, q > k
        PROVE  FALSE
    <3>1. q - n \in 1 .. m /\ q = n + (q - n)
      BY <1>3, <2>1, <2>3
    <3>2. history'[q] = t[q - n] /\ t[q - n] \in all
      BY <1>3, <1>4, <3>1
    <3>3. t[q - n] = t[k - n]
      BY <1>2, <2>2, <2>3, <3>2 DEF EventsTrue
    <3>. QED
      BY <1>3, <1>4, <2>1, <2>3, <3>1, <3>3
  <2>4. \A q \in 1 .. n + m : history'[q].path = history'[k].path => q <= k
    BY <1>3, <2>1, <2>3
  <2>. QED
    BY <1>3, <2>1, <2>2, <2>4 DEF LastAt
<1>8. ASSUME NEW p, NEW k \in 1 .. n, LastAt(p, k)'
      PROVE  LastAt(p, k) /\ ~\E e \in all : e.path = p
  <2>1. /\ history[k].path = p
        /\ \A q \in 1 .. n + m : history'[q].path = p => q <= k
    BY <1>3, <1>8 DEF LastAt
  <2>2. LastAt(p, k)
    BY <1>1, <1>3, <2>1 DEF LastAt
  <2>3. ASSUME NEW e \in all, e.path = p
        PROVE  FALSE
    <3>1. PICK i \in 1 .. m : t[i] = e
      BY <1>4
    <3>2. n + i \in 1 .. n + m /\ n + i > k /\ history'[n + i] = e
      BY <1>3, <3>1
    <3>. QED
      BY <1>3, <2>1, <2>3, <3>2
  <2>. QED
    BY <2>2, <2>3
<1>9. ASSUME NEW k \in 1 .. n + m
      PROVE  /\ history'[k].path \notin Denied
             /\ \E q \in 1 .. n + m : LastAt(history[k].path, q)'
  <2>1. CASE k \in n + 1 .. n + m
    BY <1>2, <1>7, <2>1 DEF EventsTrue
  <2>2. CASE k \in 1 .. n
    <3>1. history'[k] = history[k] /\ history[k].path \notin Denied
      BY <1>1, <1>3, <2>2 DEF Followed
    <3>2. CASE \E q \in n + 1 .. n + m : history'[q].path = history[k].path
      <4>1. PICK q \in n + 1 .. n + m : history'[q].path = history[k].path
        BY <3>2
      <4>2. LastAt(history[q].path, q)'
        BY <1>7
      <4>3. q \in 1 .. n + m
        BY <1>3
      <4>. QED
        BY <3>1, <4>1, <4>2, <4>3 DEF LastAt
    <3>3. CASE ~\E q \in n + 1 .. n + m : history'[q].path = history[k].path
      <4>1. PICK q \in 1 .. n : LastAt(history[k].path, q)
        BY <1>1, <2>2 DEF Followed
      <4>2. q \in 1 .. n + m
        BY <1>3
      <4>3. ASSUME NEW r \in 1 .. n + m, history'[r].path = history[k].path
            PROVE  r <= q
        <5>1. r \in 1 .. n
          BY <1>3, <3>3, <4>3
        <5>. QED
          BY <1>1, <1>3, <4>1, <4>3, <5>1 DEF LastAt
      <4>4. history'[q].path = history[k].path
        BY <1>1, <1>3, <4>1 DEF LastAt
      <4>5. LastAt(history[k].path, q)'
        BY <1>3, <3>1, <4>2, <4>3, <4>4 DEF LastAt
      <4>. QED
        BY <3>1, <4>2, <4>5
    <3>. QED
      BY <3>2, <3>3
  <2>. QED
    BY <1>3, <2>1, <2>2
<1>10. ASSUME NEW p \in Paths, NEW k \in 1 .. n + m,
              LastAt(p, k)', history'[k].kind # "delete"
       PROVE  snapshot'[p] # Absent
  <2>1. CASE k \in n + 1 .. n + m
    <3>1. history'[k] \in all /\ history'[k].path = p
      BY <1>7, <1>10, <2>1 DEF LastAt
    <3>. QED
      BY <1>2, <1>10, <3>1 DEF EventsTrue
  <2>2. CASE k \in 1 .. n
    <3>1. LastAt(p, k) /\ ~\E e \in all : e.path = p
      BY <1>8, <1>10, <2>2
    <3>2. history[k].kind # "delete"
      BY <1>3, <1>10, <2>2
    <3>. QED
      BY <1>1, <1>2, <1>5, <2>2, <3>1, <3>2 DEF Followed
  <2>. QED
    BY <1>3, <2>1, <2>2
<1>. QED
  BY <1>3, <1>5, <1>6, <1>9, <1>10 DEF Followed

(* Every step keeps the pushes of a path in step with the disk.            *)
LEMMA NextFollowed ==
  ASSUME ~HubStarts, \A c, d \in Conns : c = d, Typed, HubOff, Followed, [Next]_vars
  PROVE  Followed'
<1>1. ~HubStep /\ ~StartHub /\ \A p \in Paths : ~DidChange(p)
  BY HubStaysOff
<1>2. conn \in [Conns -> ConnState]
  BY DEF Typed, TypeOK
<1>3. ASSUME NEW c \in Conns, PollBegins(c)
      PROVE  Followed'
  <2>1. /\ UNCHANGED << history, snapshot >> /\ conn[c].pc = "idle"
        /\ conn'[c].pc \in {"drain", "diff"} /\ conn'[c].events = conn[c].events
        /\ \A d \in Conns : d # c => conn'[d] = conn[d]
    BY <1>2, <1>3 DEF PollBegins, Goto, seen, ConnState
  <2>2. /\ \A d \in Conns : conn'[d].events = conn[d].events
        /\ \A d \in Conns : conn'[d].pc = "journal" <=> conn[d].pc = "journal"
    BY <2>1
  <2>. QED
    BY <2>1, <2>2, StillFollowed
<1>4. ASSUME NEW c \in Conns, ScanPush(c) \/ WritePushes(c)
      PROVE  Followed'
  <2>1. /\ UNCHANGED << history, snapshot >>
        /\ conn'[c].pc # "journal" /\ conn'[c].events = {}
        /\ conn[c].pc # "journal"
        /\ \A d \in Conns : d # c => conn'[d] = conn[d]
    BY <1>2, <1>4, IdleTypes DEF ScanPush, WritePushes, seen, ConnIdle
  <2>2. conn[c].events = {}
    BY <2>1 DEF Followed
  <2>3. /\ \A d \in Conns : conn'[d].events = conn[d].events
        /\ \A d \in Conns : conn'[d].pc = "journal" <=> conn[d].pc = "journal"
    BY <2>1, <2>2
  <2>. QED
    BY <2>1, <2>3, StillFollowed
<1>5. ASSUME NEW c \in Conns, WatchSubscribe(c) \/ FilesSince(c)
      PROVE  Followed'
  BY <1>5, StillFollowed DEF WatchSubscribe, FilesSince
<1>6. ASSUME NEW p \in Paths, WriteFile(p) \/ DeleteFile(p)
      PROVE  Followed'
  BY <1>6, StillFollowed DEF WriteFile, DeleteFile, seen
<1>7. CASE UNCHANGED vars
  BY <1>7, StillFollowed DEF vars
<1>. QED
  BY <1>1, <1>3, <1>4, <1>5, <1>6, <1>7, ScanDiffFollowed, ScanJournalFollowed
  DEF Next, ConnStep

(***************************************************************************)
(* With one connection, and before the hub starts, no client that replays  *)
(* the journal is left with a file that is gone, however the tree changes  *)
(* between two scans and whatever on_watch denies.                         *)
(***************************************************************************)
THEOREM NeverPhantomFile ==
  ASSUME ~HubStarts, \A c, d \in Conns : c = d
  PROVE  Spec => []NoPhantomFile
<1>1. Init => Typed /\ HubOff /\ Followed
  <2>. SUFFICES ASSUME Init  PROVE Typed /\ HubOff /\ Followed
    OBVIOUS
  <2>1. Typed
    BY InitTyped
  <2>2. /\ HubOff /\ 1 .. Len(history) = {}
        /\ \A c \in Conns : conn[c].events = {}
    BY IdleTypes DEF Init, HubOff, HubIdle
  <2>. QED
    BY <2>1, <2>2 DEF Followed, EventsTrue
<1>2. Typed /\ HubOff /\ Followed /\ [Next]_vars => Typed' /\ HubOff' /\ Followed'
  BY NextTyped, HubStaysOff, NextFollowed
<1>3. Typed /\ Followed => NoPhantomFile
  <2>. SUFFICES ASSUME Typed, Followed, NEW p \in Paths,
                       \A c \in Conns : conn[c].pc \in {"idle", "drain", "closed"},
                       NEW k \in DOMAIN history, history[k].path = p,
                       LastChange(p).kind # "delete"
                PROVE  snapshot[p] # Absent
    BY DEF NoPhantomFile
  <2>1. DOMAIN history = 1 .. Len(history) /\ Len(history) \in Nat
    BY DEF Typed, TypeOK
  <2>2. PICK m \in 1 .. Len(history) : LastAt(p, m)
    BY <2>1 DEF Followed
  <2>3. LastChange(p) = history[m]
    <3>. DEFINE at == {q \in DOMAIN history : history[q].path = p}
    <3>1. m \in at /\ \A q \in at : q <= m
      BY <2>1, <2>2 DEF LastAt
    <3>2. \A x \in at : (\A q \in at : q <= x) => x = m
      BY <2>1, <3>1
    <3>. HIDE DEF at
    <3>3. (CHOOSE x \in at : \A q \in at : q <= x) = m
      BY <3>1, <3>2
    <3>. QED
      BY <3>3 DEF LastChange, at
  <2>4. \A c \in Conns : conn[c].events = {}
    BY DEF Followed
  <2>. QED
    BY <2>2, <2>3, <2>4 DEF Followed
<1>. QED
  BY <1>1, <1>2, <1>3, PTL DEF Spec
=============================================================================
