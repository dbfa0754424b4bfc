--------------------------- MODULE TypesTierProofs ---------------------------
(***************************************************************************)
(* What holds of the types tier for every number of packages, connections, *)
(* files, edits, queries and reindexed files: first how the tiers are      *)
(* announced (TierReadiness), then the cache that answers in the tier once *)
(* it is up (TypesCache).  The two share no variable.                      *)
(*                                                                         *)
(* Tiers.  The tier a thread has read may be outdated when it marks the    *)
(* package, and the push is queued after the mark: the inductive invariant *)
(* says what each thread still knows between these steps, and that         *)
(* everything on its way to a client has been reached.  A client that is   *)
(* alone on the host agrees in the end because the pushes of one package   *)
(* form one line, from those it got to those still pending, whose last     *)
(* names the tier reached (SoleInv).                                       *)
(*                                                                         *)
(* Cache.  A worker reads a generation, asks the engine and stores the     *)
(* answer, and the hub may be anywhere in a batch meanwhile.  The hub      *)
(* marks a batch before it forwards it and takes the next batch after      *)
(* that, so the engine lacks at most the batch under way (Marked); an      *)
(* answer therefore has every batch before the one that gave the worker    *)
(* its generation, and the stored entry keeps that (Filled).               *)
(***************************************************************************)
EXTENDS TierReadiness, TypesCache, SequenceTheorems, TLAPS

Threads == Conns \union {Mux}

Knows(t) ==
  /\ thread[t].pc \in {"ask", "mark"} =>
       tiers[thread[t].next] \in {"graph", "types"}
  /\ thread[t].pc = "note" => tiers[thread[t].next] = "types"

Reached(m) == Rank(m.tier) <= Rank(StatusOf(m.package))

TierInv ==
  /\ TypeOK
  /\ \A t \in Threads : Knows(t)
  /\ \A k \in DOMAIN ingested : tiers[ingested[k]] # "none"
  /\ \A k \in DOMAIN pending : Reached(pending[k])
  /\ PushIsReached

(* What a step may do to the tiers.                                        *)
Risen ==
  \A p \in Packages :
    \/ tiers'[p] = tiers[p]
    \/ tiers[p] = "none" /\ tiers'[p] = "graph"
    \/ tiers[p] \in {"graph", "types"} /\ tiers'[p] = "types"

(* The ranks as numbers.                                                   *)
LEMMA RankValues ==
  /\ Rank("none") = 0 /\ Rank("syntax") = 1
  /\ Rank("graph") = 2 /\ Rank("types") = 3
BY DEF Rank

(* A tier that was reached stays reached while the tiers rise.             *)
LEMMA ReachedStays ==
  ASSUME TypeOK, TypeOK', Risen, NEW m \in TierReady, Reached(m)
  PROVE  Reached(m)'
<1>1. /\ m.package \in Packages /\ m.tier \in Tiers
      /\ tiers[m.package] \in {"none", "graph", "types"}
  BY DEF TypeOK, Tiers, TierReady
<1>2. Rank(StatusOf(m.package)) <= Rank(StatusOf(m.package)')
  BY <1>1, RankValues DEF Risen, StatusOf
<1>3. /\ Rank(m.tier) \in Nat /\ Rank(StatusOf(m.package)) \in Nat
      /\ Rank(StatusOf(m.package)') \in Nat
  BY <1>1, RankValues DEF Risen, StatusOf, Tiers
<1>. QED
  BY <1>2, <1>3 DEF Reached

(* The moves of a thread.                                                  *)
LEMMA GotoMoves ==
  ASSUME TypeOK, NEW t \in Threads, NEW pc, Goto(t, pc),
         pc \in {"start", "spawn", "syntax", "ingest", "drain_index", "up",
                 "absent", "idle", "closed", "read", "ask", "mark", "note", "drain"}
  PROVE  /\ thread' \in [Threads -> ThreadState]
         /\ thread'[t].pc = pc /\ thread'[t].next = thread[t].next
         /\ \A u \in Threads : u # t => thread'[u] = thread[u]
BY DEF TypeOK, Goto, Threads, ThreadState

(* A thread at a place, before its first package.                          *)
LEMMA AtState ==
  ASSUME NEW pc \in {"start", "spawn", "syntax", "ingest", "drain_index", "up",
                 "absent", "idle", "closed", "read", "ask", "mark", "note", "drain"}
  PROVE  /\ At(pc) \in ThreadState /\ At(pc).pc = pc /\ At(pc).next = 1
BY TierAssumption DEF At, ThreadState, Packages

(* The mux goes on to the next package, or to the next place.              *)
LEMMA NextPackageMoves ==
  ASSUME TypeOK, NEW pc \in {"ingest", "drain_index"}, NextPackage(pc)
  PROVE  /\ thread' \in [Threads -> ThreadState]
         /\ \/ thread'[Mux].pc = pc /\ thread'[Mux].next = 1
               /\ thread[Mux].next = NumPackages
            \/ thread'[Mux].pc = thread[Mux].pc
               /\ thread'[Mux].next = thread[Mux].next + 1
         /\ \A u \in Threads : u # Mux => thread'[u] = thread[u]
<1>. DEFINE old == thread[Mux]
            new == IF old.next = NumPackages THEN At(pc)
                   ELSE [old EXCEPT !.next = old.next + 1]
<1>1. thread \in [Threads -> ThreadState] /\ old \in ThreadState /\ Mux \in Threads
  BY DEF TypeOK, Threads
<1>3. thread' = [thread EXCEPT ![Mux] = new]
  BY DEF NextPackage
<1>2. /\ new \in ThreadState
      /\ \/ new.pc = pc /\ new.next = 1 /\ old.next = NumPackages
         \/ new.pc = old.pc /\ new.next = old.next + 1
  <2>1. CASE old.next = NumPackages
    BY <2>1, AtState
  <2>2. CASE old.next # NumPackages
    BY <1>1, <2>2, TierAssumption DEF ThreadState, Packages
  <2>. QED
    BY <2>1, <2>2
<1>. HIDE DEF new
<1>. QED
  BY <1>1, <1>2, <1>3

(* An observer goes on to the next package, or on its way.                 *)
LEMMA AdvanceMoves ==
  ASSUME TypeOK, NEW t \in Threads, Advance(t)
  PROVE  /\ thread' \in [Threads -> ThreadState]
         /\ thread'[t].pc \in {"read", "drain", "up"}
         /\ \A u \in Threads : u # t => thread'[u] = thread[u]
<1>. DEFINE old == thread[t]
            new == IF old.next >= packages THEN Synced(t)
                   ELSE [old EXCEPT !.pc = "read", !.next = old.next + 1]
<1>1. /\ thread \in [Threads -> ThreadState] /\ old \in ThreadState
      /\ packages \in {0, NumPackages}
  BY DEF TypeOK, Threads
<1>3. thread' = [thread EXCEPT ![t] = new]
  BY DEF Advance
<1>2. new \in ThreadState /\ new.pc \in {"read", "drain", "up"}
  <2>1. CASE old.next >= packages
    <3>1. Synced(t) \in {At("drain"), At("read"), At("up")}
      BY DEF Synced
    <3>. QED
      BY <2>1, <3>1, AtState
  <2>2. CASE ~(old.next >= packages)
    <3>1. old.next \in Packages
      BY <1>1 DEF ThreadState
    <3>2. old.next + 1 \in Packages
      BY <1>1, <2>2, <3>1, TierAssumption DEF Packages
    <3>. QED
      BY <1>1, <2>2, <3>2 DEF ThreadState
  <2>. QED
    BY <2>1, <2>2
<1>. HIDE DEF new
<1>. QED
  BY <1>1, <1>2, <1>3

(* The first state.                                                        *)
LEMMA InitTierInv == Init => TierInv
<1>. SUFFICES ASSUME Init  PROVE TierInv
  OBVIOUS
<1>1. \A t \in Threads : thread[t] \in {At("start"), At("absent")}
  BY DEF Init, Threads
<1>2. thread \in [Threads -> ThreadState]
  <2>1. thread = [t \in Threads |-> thread[t]]
    BY DEF Init, Threads
  <2>. QED
    BY <1>1, <2>1, AtState
<1>3. thread[Mux].pc = "start" /\ \A t \in Threads : thread[t].pc \in {"start", "absent"}
  BY <1>1, AtState DEF Init, Mux
<1>4. TypeOK
  BY <1>2, <1>3, TierAssumption DEF Init, TypeOK, Threads, Tiers, NoStatus
<1>5. /\ DOMAIN ingested = {} /\ DOMAIN pending = {}
      /\ \A c \in Conns : DOMAIN got[c] = {}
  BY DEF Init
<1>. QED
  BY <1>3, <1>4, <1>5 DEF TierInv, Knows, PushIsReached
-----------------------------------------------------------------------------
(* What stays when the tiers rise: what another thread knows, and that the *)
(* pushes on their way and those that were written have been reached.      *)
LEMMA KnowsStays ==
  ASSUME TypeOK, Risen, NEW u \in Threads, Knows(u), thread'[u] = thread[u]
  PROVE  Knows(u)'
<1>1. thread[u].next \in Packages
  BY DEF TypeOK, Threads, ThreadState
<1>. QED
  BY <1>1 DEF Knows, Risen

(* Risen tiers keep what was queued and pushed true.                       *)
LEMMA PushesStay ==
  ASSUME TierInv, TypeOK', Risen
  PROVE  /\ ingested' = ingested =>
              \A k \in DOMAIN ingested' : tiers'[ingested'[k]] # "none"
         /\ pending' = pending =>
              (\A k \in DOMAIN pending : Reached(pending[k]))'
         /\ got' = got => PushIsReached'
<1>1. TypeOK /\ ingested \in Seq(Packages) /\ pending \in Seq(TierReady)
      /\ got \in [Conns -> Seq(TierReady)]
  BY DEF TierInv, TypeOK
<1>2. ASSUME ingested' = ingested
      PROVE  \A k \in DOMAIN ingested' : tiers'[ingested'[k]] # "none"
  <2>1. \A k \in DOMAIN ingested : ingested[k] \in Packages
    BY <1>1
  <2>. QED
    BY <1>2, <2>1 DEF TierInv, Risen
<1>3. ASSUME pending' = pending
      PROVE  (\A k \in DOMAIN pending : Reached(pending[k]))'
  <2>1. \A k \in DOMAIN pending : pending[k] \in TierReady /\ Reached(pending[k])
    BY <1>1 DEF TierInv
  <2>. SUFFICES ASSUME NEW k \in DOMAIN pending
                PROVE  Reached(pending[k])'
    BY <1>3
  <2>2. PICK m \in TierReady : m = pending[k] /\ Reached(m)
    BY <2>1
  <2>3. Reached(m)'
    BY <1>1, <2>2, ReachedStays
  <2>. QED
    BY <1>3, <2>2, <2>3 DEF Reached
<1>4. ASSUME got' = got
      PROVE  PushIsReached'
  <2>1. \A c \in Conns : \A k \in DOMAIN got[c] :
          got[c][k] \in TierReady /\ Reached(got[c][k])
    BY <1>1 DEF TierInv, PushIsReached, Reached
  <2>. SUFFICES ASSUME NEW c \in Conns, NEW k \in DOMAIN got[c]
                PROVE  Reached(got[c][k])'
    BY <1>4 DEF PushIsReached, Reached
  <2>2. PICK m \in TierReady : m = got[c][k] /\ Reached(m)
    BY <2>1
  <2>3. Reached(m)'
    BY <1>1, <2>2, ReachedStays
  <2>. QED
    BY <1>4, <2>2, <2>3 DEF Reached
<1>. QED
  BY <1>2, <1>3, <1>4

(* A step that moves one thread and queues at most one push.               *)
LEMMA StepInv ==
  ASSUME TierInv, TypeOK', Risen, NEW t \in Threads,
         \A u \in Threads : u # t => thread'[u] = thread[u],
         Knows(t)',
         \A k \in DOMAIN ingested' : tiers'[ingested'[k]] # "none",
         \/ pending' = pending
         \/ \E m \in TierReady : pending' = Append(pending, m) /\ Reached(m)',
         got' = got
  PROVE  TierInv'
<1>1. \A u \in Threads : Knows(u)'
  BY KnowsStays DEF TierInv
<1>2. (\A k \in DOMAIN pending : Reached(pending[k]))'
  <2>1. CASE pending' = pending
    BY <2>1, PushesStay
  <2>2. ASSUME NEW m \in TierReady, pending' = Append(pending, m), Reached(m)'
        PROVE  (\A k \in DOMAIN pending : Reached(pending[k]))'
    <3>1. pending \in Seq(TierReady)
      BY DEF TierInv, TypeOK
    <3>2. ASSUME NEW k \in DOMAIN pending'
          PROVE  Reached(pending[k])'
      <4>1. CASE k \in DOMAIN pending
        <5>1. PICK n \in TierReady : n = pending[k] /\ Reached(n)
          BY <3>1, <4>1 DEF TierInv
        <5>2. Reached(n)'
          BY <5>1, ReachedStays DEF TierInv
        <5>3. pending'[k] = n
          BY <2>2, <3>1, <4>1, <5>1
        <5>. QED
          BY <5>2, <5>3 DEF Reached
      <4>2. CASE k \notin DOMAIN pending
        <5>1. pending'[k] = m
          BY <2>2, <3>1, <3>2, <4>2
        <5>. QED
          BY <2>2, <5>1 DEF Reached
      <4>. QED
        BY <4>1, <4>2
    <3>. QED
      BY <3>2
  <2>. QED
    BY <2>1, <2>2
<1>. QED
  BY <1>1, <1>2, PushesStay DEF TierInv

(* A step that leaves the tiers alone.                                     *)
LEMMA SameTiers == UNCHANGED tiers => Risen
BY DEF Risen
(* initialize: each package is ingested once, before anybody promotes it.  *)
LEMMA InitializeInv ==
  ASSUME TierInv, Initialize
  PROVE  TierInv' /\ Risen
<1>1. /\ TypeOK /\ Mux \in Threads /\ Knows(Mux)
      /\ thread[Mux].next \in Packages /\ NumPackages \in Nat \ {0}
      /\ thread[Mux] \in ThreadState
  BY TierAssumption DEF TierInv, TypeOK, Threads, ThreadState
<1>2. CASE Discover
  <2>1. /\ thread' \in [Threads -> ThreadState] /\ thread'[Mux].pc = "spawn"
        /\ \A u \in Threads : u # Mux => thread'[u] = thread[u]
    BY <1>1, <1>2, GotoMoves DEF Discover
  <2>2. TypeOK'
    BY <1>1, <1>2, <2>1 DEF Discover, TypeOK, Threads, clients
  <2>3. Risen /\ Knows(Mux)'
    BY <1>2, <2>1, SameTiers DEF Discover, Knows
  <2>. QED
    BY <1>1, <1>2, <2>1, <2>2, <2>3, StepInv, PushesStay DEF Discover, clients
<1>3. CASE SpawnEngines
  <2>1. /\ thread' \in [Threads -> ThreadState] /\ thread'[Mux].pc = "syntax"
        /\ \A u \in Threads : u # Mux => thread'[u] = thread[u]
    BY <1>1, <1>3, GotoMoves DEF SpawnEngines
  <2>2. TypeOK'
    BY <1>1, <1>3, <2>1 DEF SpawnEngines, TypeOK, Threads, clients
  <2>3. Risen /\ Knows(Mux)'
    BY <1>3, <2>1, SameTiers DEF SpawnEngines, Knows
  <2>. QED
    BY <1>1, <1>3, <2>1, <2>2, <2>3, StepInv, PushesStay DEF SpawnEngines, clients
<1>4. CASE NoteSyntax
  <2>1. /\ thread' \in [Threads -> ThreadState]
        /\ \/ thread'[Mux].pc = "ingest" /\ thread'[Mux].next = 1
           \/ thread'[Mux].pc = "syntax"
        /\ \A u \in Threads : u # Mux => thread'[u] = thread[u]
    BY <1>1, <1>4, NextPackageMoves DEF NoteSyntax
  <2>2. PICK m \in TierReady : m.tier = "syntax" /\ pending' = Append(pending, m)
    <3>1. [package |-> thread[Mux].next, tier |-> "syntax"] \in TierReady
      BY <1>1 DEF TierReady, Tiers
    <3>. QED
      BY <1>4, <3>1 DEF NoteSyntax, Push
  <2>3. pending' \in Seq(TierReady)
    BY <1>1, <2>2 DEF TypeOK
  <2>4. \A p \in Packages : tiers'[p] = "none"
    BY <1>1, <1>4 DEF NoteSyntax, TypeOK
  <2>5. TypeOK'
    BY <1>1, <1>4, <2>1, <2>3, <2>4 DEF NoteSyntax, TypeOK, Threads, clients
  <2>6. Risen /\ Knows(Mux)'
    BY <1>4, <2>1, SameTiers DEF NoteSyntax, Knows
  <2>7. Reached(m)'
    BY <2>2, <2>4, RankValues DEF Reached, StatusOf, TierReady
  <2>. QED
    BY <1>1, <1>4, <2>1, <2>2, <2>5, <2>6, <2>7, StepInv, PushesStay
       DEF NoteSyntax, clients
<1>5. CASE IngestPackage
  <2>. DEFINE p == thread[Mux].next
  <2>1. /\ thread' \in [Threads -> ThreadState]
        /\ \/ /\ thread'[Mux].pc = "drain_index" /\ thread'[Mux].next = 1
              /\ thread[Mux].next = NumPackages
           \/ thread'[Mux].pc = "ingest" /\ thread'[Mux].next = p + 1
        /\ \A u \in Threads : u # Mux => thread'[u] = thread[u]
    BY <1>1, <1>5, NextPackageMoves DEF IngestPackage
  <2>2. /\ tiers[p] = "none" /\ tiers'[p] = "graph"
        /\ \A q \in Packages : q # p => tiers'[q] = tiers[q]
        /\ tiers' \in [Packages -> Tiers \ {"syntax"}]
        /\ ingested' = Append(ingested, p)
    BY <1>1, <1>5 DEF IngestPackage, TypeOK, Packages, Tiers
  <2>3. Risen
    BY <2>2 DEF Risen
  <2>4. ingested' \in Seq(Packages)
    BY <1>1, <2>2 DEF TypeOK
  <2>5. \A q \in Packages : tiers'[q] # "none" =>
          /\ thread'[Mux].pc \notin {"start", "spawn", "syntax"}
          /\ thread'[Mux].pc = "ingest" => q < thread'[Mux].next
    <3>1. \A q \in Packages : tiers'[q] # "none" => q = p \/ q < p
      BY <1>1, <1>5, <2>2 DEF IngestPackage, TypeOK
    <3>. QED
      BY <1>1, <2>1, <3>1 DEF Packages
  <2>6. TypeOK'
    BY <1>1, <1>5, <2>1, <2>2, <2>4, <2>5 DEF IngestPackage, TypeOK, Threads, clients
  <2>7. \A k \in DOMAIN ingested' : tiers'[ingested'[k]] # "none"
    <3>1. ingested \in Seq(Packages) /\ \A k \in DOMAIN ingested : tiers[ingested[k]] # "none"
      BY DEF TierInv, TypeOK
    <3>2. ASSUME NEW k \in DOMAIN ingested'
          PROVE  \/ ingested'[k] = p
                 \/ k \in DOMAIN ingested /\ ingested'[k] = ingested[k]
      BY <1>1, <2>2, <3>1, <3>2
    <3>3. \A k \in DOMAIN ingested : ingested[k] \in Packages
      BY <3>1
    <3>. QED
      BY <2>2, <3>1, <3>2, <3>3
  <2>8. Knows(Mux)'
    BY <2>1 DEF Knows
  <2>. HIDE DEF p
  <2>. QED
    BY <1>1, <1>5, <2>1, <2>3, <2>6, <2>7, <2>8, StepInv DEF IngestPackage, clients
<1>6. CASE SkipPackage
  <2>. DEFINE p == thread[Mux].next
  <2>1. /\ thread' \in [Threads -> ThreadState]
        /\ \/ thread'[Mux].pc = "drain_index"
           \/ thread'[Mux].pc = "ingest" /\ thread'[Mux].next = p + 1
        /\ \A u \in Threads : u # Mux => thread'[u] = thread[u]
    BY <1>1, <1>6, NextPackageMoves DEF SkipPackage
  <2>2. \A q \in Packages : tiers'[q] # "none" =>
          /\ thread'[Mux].pc \notin {"start", "spawn", "syntax"}
          /\ thread'[Mux].pc = "ingest" => q < thread'[Mux].next
    <3>1. \A q \in Packages : tiers'[q] # "none" => q < p
      BY <1>1, <1>6 DEF SkipPackage, TypeOK
    <3>. QED
      BY <1>1, <2>1, <3>1 DEF Packages
  <2>3. TypeOK'
    BY <1>1, <1>6, <2>1, <2>2 DEF SkipPackage, TypeOK, Threads, clients
  <2>4. Risen /\ Knows(Mux)'
    BY <1>6, <2>1, SameTiers DEF SkipPackage, Knows
  <2>. QED
    BY <1>1, <1>6, <2>1, <2>3, <2>4, StepInv, PushesStay DEF SkipPackage, clients
<1>7. CASE NoteGraph
  <2>1. CASE ingested = << >>
    <3>. DEFINE new == [At("read") EXCEPT !.again = TRUE]
    <3>1. new \in ThreadState /\ new.pc = "read"
      <4>. DEFINE yes == TRUE
      <4>1. yes \in BOOLEAN /\ At("read") \in ThreadState /\ At("read").pc = "read"
            /\ new = [At("read") EXCEPT !.again = yes]
        BY AtState
      <4>. HIDE DEF yes, new
      <4>. QED
        BY <4>1 DEF ThreadState
    <3>2. thread' = [thread EXCEPT ![Mux] = new] /\ UNCHANGED << ingested, pending >>
      BY <1>7, <2>1 DEF NoteGraph
    <3>. HIDE DEF new
    <3>3. /\ thread' \in [Threads -> ThreadState] /\ thread'[Mux].pc = "read"
          /\ \A u \in Threads : u # Mux => thread'[u] = thread[u]
      BY <1>1, <3>1, <3>2 DEF TypeOK, Threads
    <3>4. TypeOK'
      BY <1>1, <1>7, <3>2, <3>3 DEF NoteGraph, TypeOK, Threads, clients
    <3>5. Risen /\ Knows(Mux)'
      BY <1>7, <3>3, SameTiers DEF NoteGraph, Knows
    <3>. QED
      BY <1>1, <1>7, <3>2, <3>3, <3>4, <3>5, StepInv, PushesStay DEF NoteGraph, clients
  <2>2. CASE ingested # << >>
    <3>1. /\ ingested \in Seq(Packages) /\ Head(ingested) \in Packages
          /\ tiers[Head(ingested)] \in {"graph", "types"}
      <4>1. ingested \in Seq(Packages) /\ 1 \in DOMAIN ingested /\ Head(ingested) = ingested[1]
        BY <1>1, <2>2 DEF TypeOK
      <4>2. ingested[1] \in Packages /\ tiers[ingested[1]] # "none"
        BY <4>1 DEF TierInv
      <4>. QED
        BY <1>1, <4>1, <4>2 DEF TypeOK, Tiers
    <3>2. ingested' = Tail(ingested) /\ UNCHANGED << thread, tiers >>
      BY <1>7, <2>2 DEF NoteGraph, Push
    <3>3. PICK m \in TierReady :
            /\ m.package = Head(ingested) /\ m.tier = "graph"
            /\ pending' = Append(pending, m)
      <4>1. [package |-> Head(ingested), tier |-> "graph"] \in TierReady
        BY <3>1 DEF TierReady, Tiers
      <4>. QED
        BY <1>7, <2>2, <4>1 DEF NoteGraph, Push
    <3>4. Reached(m)'
      BY <3>1, <3>2, <3>3, RankValues DEF Reached, StatusOf
    <3>5. pending' \in Seq(TierReady) /\ ingested' \in Seq(Packages)
      BY <1>1, <2>2, <3>1, <3>2, <3>3 DEF TypeOK
    <3>6. TypeOK'
      BY <1>1, <1>7, <3>2, <3>5 DEF NoteGraph, TypeOK, clients
    <3>7. Risen /\ Knows(Mux)'
      BY <1>1, <3>2, SameTiers DEF Knows
    <3>8. \A k \in DOMAIN ingested' : tiers'[ingested'[k]] # "none"
      <4>1. \A k \in DOMAIN ingested' : k + 1 \in DOMAIN ingested /\ ingested'[k] = ingested[k + 1]
        BY <2>2, <3>1, <3>2
      <4>. QED
        BY <3>2, <4>1 DEF TierInv
    <3>. QED
      BY <1>1, <1>7, <3>2, <3>3, <3>4, <3>6, <3>7, <3>8, StepInv DEF NoteGraph, clients
  <2>. QED
    BY <2>1, <2>2
<1>. QED
  BY <1>2, <1>3, <1>4, <1>5, <1>6, <1>7 DEF Initialize
(* Promotion: what a thread read may be outdated, but only by another      *)
(* promotion, so the mark raises the tier or leaves it.                    *)
LEMMA SyncInv ==
  ASSUME TierInv, NEW t \in Threads, Sync(t)
  PROVE  TierInv' /\ Risen
<1>1. /\ TypeOK /\ Knows(t) /\ Mux \in Threads
      /\ thread[t] \in ThreadState /\ thread[t].next \in Packages
      /\ thread[t].pc \in {"read", "ask", "mark", "note"}
  BY DEF TierInv, TypeOK, Threads, ThreadState, Sync, ReadTier, AskSupervisor,
         MarkTypes, NoteTypes
<1>2. UNCHANGED << packages, ingested, engines, status, got, late, changes >>
  BY DEF Sync, ReadTier, AskSupervisor, MarkTypes, NoteTypes, clients
<1>3. ASSUME thread' \in [Threads -> ThreadState],
             thread'[t].pc \in {"read", "drain", "up", "ask", "mark", "note"},
             \A u \in Threads : u # t => thread'[u] = thread[u],
             tiers' \in [Packages -> Tiers \ {"syntax"}],
             pending' \in Seq(TierReady),
             \A p \in Packages : tiers'[p] = "none" <=> tiers[p] = "none"
      PROVE  TypeOK'
  <2>1. \A p \in Packages : tiers'[p] # "none" =>
          /\ thread'[Mux].pc \notin {"start", "spawn", "syntax"}
          /\ thread'[Mux].pc = "ingest" => p < thread'[Mux].next
    BY <1>1, <1>3 DEF TypeOK
  <2>. QED
    BY <1>1, <1>2, <1>3, <2>1 DEF TypeOK, Threads
<1>4. ASSUME Advance(t) \/ Goto(t, "ask") \/ Goto(t, "mark"), UNCHANGED << tiers, pending >>,
             tiers[thread[t].next] \in {"graph", "types"} \/ Advance(t)
      PROVE  TierInv' /\ Risen
  <2>1. /\ thread' \in [Threads -> ThreadState]
        /\ thread'[t].pc \in {"read", "drain", "up", "ask", "mark"}
        /\ \A u \in Threads : u # t => thread'[u] = thread[u]
    BY <1>1, <1>4, AdvanceMoves, GotoMoves
  <2>2. Knows(t)'
    <3>1. CASE Advance(t)
      <4>1. thread'[t].pc \in {"read", "drain", "up"}
        BY <1>1, <3>1, AdvanceMoves
      <4>. QED
        BY <4>1 DEF Knows
    <3>2. CASE ~Advance(t)
      <4>1. thread'[t].next = thread[t].next
        BY <1>1, <1>4, <3>2, GotoMoves
      <4>. QED
        BY <1>4, <2>1, <3>2, <4>1 DEF Knows
    <3>. QED
      BY <3>1, <3>2
  <2>3. TypeOK'
    BY <1>1, <1>3, <1>4, <2>1 DEF TypeOK
  <2>4. Risen
    BY <1>4, SameTiers
  <2>. QED
    BY <1>2, <1>4, <2>1, <2>2, <2>3, <2>4, StepInv, PushesStay
<1>5. CASE ReadTier(t)
  BY <1>4, <1>5 DEF ReadTier
<1>6. CASE AskSupervisor(t)
  BY <1>1, <1>4, <1>6 DEF AskSupervisor, Knows
<1>7. CASE MarkTypes(t)
  <2>1. /\ thread' \in [Threads -> ThreadState]
        /\ thread'[t].pc = "note" /\ thread'[t].next = thread[t].next
        /\ \A u \in Threads : u # t => thread'[u] = thread[u]
        /\ pending' = pending
    BY <1>1, <1>7, GotoMoves DEF MarkTypes
  <2>2. /\ tiers[thread[t].next] \in {"graph", "types"}
        /\ tiers'[thread[t].next] = "types"
        /\ \A p \in Packages : p # thread[t].next => tiers'[p] = tiers[p]
        /\ tiers' \in [Packages -> Tiers \ {"syntax"}]
    BY <1>1, <1>7 DEF MarkTypes, Knows, TypeOK, Tiers
  <2>3. Risen /\ \A p \in Packages : tiers'[p] = "none" <=> tiers[p] = "none"
    BY <2>2 DEF Risen
  <2>4. Knows(t)'
    BY <2>1, <2>2 DEF Knows
  <2>5. TypeOK'
    BY <1>1, <1>3, <2>1, <2>2, <2>3 DEF TypeOK
  <2>. QED
    BY <1>2, <2>1, <2>3, <2>4, <2>5, StepInv, PushesStay
<1>8. CASE NoteTypes(t)
  <2>1. /\ thread' \in [Threads -> ThreadState]
        /\ thread'[t].pc \in {"read", "drain", "up"}
        /\ \A u \in Threads : u # t => thread'[u] = thread[u]
        /\ tiers' = tiers
    BY <1>1, <1>8, AdvanceMoves DEF NoteTypes
  <2>2. PICK m \in TierReady :
          /\ m.package = thread[t].next /\ m.tier = "types"
          /\ pending' = Append(pending, m)
    <3>1. [package |-> thread[t].next, tier |-> "types"] \in TierReady
      BY <1>1 DEF TierReady, Tiers
    <3>. QED
      BY <1>8, <3>1 DEF NoteTypes, Push
  <2>3. Reached(m)'
    BY <1>1, <1>8, <2>1, <2>2, RankValues DEF NoteTypes, Knows, Reached, StatusOf
  <2>4. pending' \in Seq(TierReady)
    BY <1>1, <2>2 DEF TypeOK
  <2>5. TypeOK'
    BY <1>1, <1>3, <2>1, <2>4 DEF TypeOK
  <2>6. Risen /\ Knows(t)'
    BY <2>1, SameTiers DEF Knows
  <2>. QED
    BY <1>2, <2>1, <2>2, <2>3, <2>5, <2>6, StepInv, PushesStay
<1>. QED
  BY <1>5, <1>6, <1>7, <1>8 DEF Sync

(* What is written to a client was pending, and so had been reached.       *)
LEMMA WritePushesInv ==
  ASSUME TierInv, NEW c \in Conns, WritePushes(c)
  PROVE  TierInv' /\ Risen
<1>1. /\ TypeOK /\ c \in Threads /\ Mux \in Threads /\ c # Mux
      /\ pending \in Seq(TierReady) /\ got \in [Conns -> Seq(TierReady)]
  BY TierAssumption DEF TierInv, TypeOK, Threads, Mux
<1>2. PICK n \in 0 .. Len(pending) :
        /\ got' = [got EXCEPT ![c] = got[c] \o SubSeq(pending, 1, n)]
        /\ thread' = [thread EXCEPT ![c] =
             At(IF n = Len(pending) THEN "idle" ELSE "closed")]
  BY DEF WritePushes
<1>3. /\ UNCHANGED << packages, tiers, ingested, engines, status, late, changes >>
      /\ pending' = << >> /\ Risen
  BY SameTiers DEF WritePushes
<1>4. /\ thread' \in [Threads -> ThreadState]
      /\ thread'[c].pc \in {"idle", "closed"}
      /\ \A u \in Threads : u # c => thread'[u] = thread[u]
  <2>. DEFINE new == At(IF n = Len(pending) THEN "idle" ELSE "closed")
  <2>1. new \in ThreadState /\ new.pc \in {"idle", "closed"}
    BY AtState
  <2>2. thread' = [thread EXCEPT ![c] = new]
    BY <1>2
  <2>. HIDE DEF new
  <2>. QED
    BY <1>1, <2>1, <2>2 DEF TypeOK, Threads
<1>. DEFINE written == SubSeq(pending, 1, n)
<1>5. /\ written \in Seq(TierReady) /\ Len(written) = n
      /\ \A k \in 1 .. n : written[k] = pending[k]
      /\ 1 .. n \subseteq DOMAIN pending
  <2>1. Len(pending) \in Nat /\ n \in Nat /\ n <= Len(pending)
        /\ \A k \in 1 .. Len(pending) : pending[k] \in TierReady
    BY <1>1
  <2>. QED
    BY <1>1, <2>1, SubSeqProperties
<1>6. /\ got'[c] = got[c] \o written
      /\ \A d \in Conns : d # c => got'[d] = got[d]
      /\ got' \in [Conns -> Seq(TierReady)]
  <2>1. got' = [got EXCEPT ![c] = got[c] \o written]
    BY <1>2
  <2>. HIDE DEF written
  <2>2. got[c] \o written \in Seq(TierReady)
    BY <1>1, <1>5, ConcatProperties
  <2>. QED
    BY <1>1, <2>1, <2>2
<1>. HIDE DEF written
<1>7. TypeOK'
  BY <1>1, <1>3, <1>4, <1>6 DEF TypeOK, Threads
<1>8. PushIsReached'
  <2>. SUFFICES ASSUME NEW d \in Conns, NEW k \in DOMAIN got'[d]
                PROVE  Reached(got[d][k])'
    BY DEF PushIsReached, Reached
  <2>1. \/ k \in DOMAIN got[d] /\ got'[d][k] = got[d][k]
        \/ \E i \in DOMAIN pending : got'[d][k] = pending[i]
    <3>1. CASE d # c
      BY <1>6, <3>1
    <3>2. CASE d = c
      <4>1. got[c] \in Seq(TierReady) /\ k \in 1 .. (Len(got[c]) + n)
        BY <1>1, <1>5, <1>6, <3>2, ConcatProperties
      <4>2. CASE k <= Len(got[c])
        BY <1>5, <1>6, <3>2, <4>1, <4>2, ConcatProperties
      <4>3. CASE k > Len(got[c])
        <5>1. k - Len(got[c]) \in 1 .. n
          BY <4>1, <4>3
        <5>2. got'[d][k] = written[k - Len(got[c])]
          BY <1>5, <1>6, <3>2, <4>1, <4>3, ConcatProperties
        <5>. QED
          BY <1>5, <5>1, <5>2
      <4>. QED
        BY <4>1, <4>2, <4>3
    <3>. QED
      BY <3>1, <3>2
  <2>2. PICK m \in TierReady : m = got'[d][k] /\ Reached(m)
    <3>1. \A i \in DOMAIN pending : pending[i] \in TierReady /\ Reached(pending[i])
      BY <1>1 DEF TierInv
    <3>2. k \in DOMAIN got[d] => got[d][k] \in TierReady /\ Reached(got[d][k])
      BY <1>1 DEF TierInv, PushIsReached, Reached
    <3>. QED
      BY <2>1, <3>1, <3>2
  <2>3. Reached(m)'
    BY <1>1, <1>3, <1>7, <2>2, ReachedStays
  <2>. QED
    BY <2>2, <2>3 DEF Reached
<1>9. \A u \in Threads : Knows(u)'
  <2>1. Knows(c)'
    BY <1>4 DEF Knows
  <2>. QED
    BY <1>1, <1>3, <1>4, <2>1, KnowsStays DEF TierInv
<1>10. (\A k \in DOMAIN pending : Reached(pending[k]))'
  BY <1>3
<1>. QED
  BY <1>3, <1>7, <1>8, <1>9, <1>10, PushesStay DEF TierInv

(* The other steps of a connection, and of an engine.                      *)
LEMMA QuietInv ==
  ASSUME TierInv, NEW c \in Conns, Accept(c) \/ TierStatus(c) \/ Poll(c)
  PROVE  TierInv' /\ Risen
<1>1. /\ TypeOK /\ c \in Threads /\ Mux \in Threads /\ c # Mux
      /\ UNCHANGED << packages, tiers, ingested, pending, engines, got, changes >>
  BY TierAssumption DEF TierInv, Threads, Mux, Accept, TierStatus, Poll, clients
<1>2. /\ thread' \in [Threads -> ThreadState]
      /\ thread'[c].pc \in {"idle", "read"}
      /\ \A u \in Threads : u # c => thread'[u] = thread[u]
  BY <1>1, GotoMoves DEF Accept, TierStatus, Poll
<1>3. status' \in [Conns -> [Packages -> Tiers]] /\ late' \in SUBSET Conns
  <2>1. \A p \in Packages : StatusOf(p) \in Tiers
    BY <1>1 DEF StatusOf, TypeOK, Tiers
  <2>2. [p \in Packages |-> StatusOf(p)] \in [Packages -> Tiers]
    BY <2>1
  <2>3. late' = late \/ late' = late \union {c} \/ late' = late \union {}
    BY DEF Accept, TierStatus, Poll, clients
  <2>4. late' \in SUBSET Conns
    BY <1>1, <2>3 DEF TypeOK
  <2>5. \/ status' = status
        \/ status' = [status EXCEPT ![c] = [p \in Packages |-> StatusOf(p)]]
    BY DEF Accept, TierStatus, Poll, clients
  <2>. QED
    BY <1>1, <2>2, <2>4, <2>5 DEF TypeOK
<1>4. TypeOK'
  BY <1>1, <1>2, <1>3 DEF TypeOK, Threads
<1>5. Risen /\ Knows(c)'
  BY <1>1, <1>2, SameTiers DEF Knows
<1>. QED
  BY <1>1, <1>2, <1>4, <1>5, StepInv, PushesStay

(* Every step keeps the invariant, and no step lowers a tier.              *)
LEMMA NextTierInv ==
  ASSUME TierInv, [Next]_vars
  PROVE  TierInv' /\ Risen
<1>1. ASSUME UNCHANGED << packages, tiers, ingested, pending, thread, clients >>,
             engines' \in SUBSET Packages, changes' \in Nat
      PROVE  TierInv' /\ Risen
  <2>1. TypeOK' /\ Risen /\ Mux \in Threads /\ Knows(Mux)'
    BY <1>1, SameTiers DEF TierInv, TypeOK, clients, Threads, Knows
  <2>. QED
    BY <1>1, <2>1, StepInv, PushesStay DEF clients
<1>2. ASSUME NEW p \in Packages, EngineChange(p)
      PROVE  TierInv' /\ Risen
  <2>1. engines \in SUBSET Packages /\ changes \in Nat
    BY DEF TierInv, TypeOK
  <2>. QED
    BY <1>1, <1>2, <2>1 DEF EngineChange
<1>3. CASE UNCHANGED vars
  <2>1. engines \in SUBSET Packages /\ changes \in Nat
    BY DEF TierInv, TypeOK
  <2>. QED
    BY <1>1, <1>3, <2>1 DEF vars, clients
<1>4. CASE Initialize
  BY <1>4, InitializeInv
<1>5. ASSUME NEW t \in Threads, Sync(t)
      PROVE  TierInv' /\ Risen
  BY <1>5, SyncInv
<1>6. ASSUME NEW c \in Conns, Accept(c) \/ TierStatus(c) \/ ConnStep(c)
      PROVE  TierInv' /\ Risen
  <2>1. c \in Threads
    BY DEF Threads
  <2>. QED
    BY <1>5, <1>6, <2>1, QuietInv, WritePushesInv DEF ConnStep
<1>. QED
  BY <1>2, <1>3, <1>4, <1>5, <1>6 DEF Next, Threads

(***************************************************************************)
(* Tiers, queues, threads and clients keep their types, and a package has  *)
(* a tier only once it was ingested.                                       *)
(***************************************************************************)
THEOREM TierTypeCorrect == Spec => []TypeOK
<1>1. Init => TierInv
  BY InitTierInv
<1>2. TierInv /\ [Next]_vars => TierInv'
  BY NextTierInv
<1>3. TierInv => TypeOK
  BY DEF TierInv
<1>. QED
  BY <1>1, <1>2, <1>3, PTL DEF Spec

(***************************************************************************)
(* A client that is pushed a tier finds the package there or above,        *)
(* although mark and push are two steps and promotions overlap.            *)
(***************************************************************************)
THEOREM PushAlwaysReached == Spec => []PushIsReached
<1>1. Init => TierInv
  BY InitTierInv
<1>2. TierInv /\ [Next]_vars => TierInv'
  BY NextTierInv
<1>3. TierInv => PushIsReached
  BY DEF TierInv
<1>. QED
  BY <1>1, <1>2, <1>3, PTL DEF Spec

(***************************************************************************)
(* No package ever loses a tier, whoever promotes it while initialize is   *)
(* still ingesting.                                                        *)
(***************************************************************************)
THEOREM TierNeverLost == Spec => TierNeverDrops
<1>1. Init => TierInv
  BY InitTierInv
<1>2. TierInv /\ [Next]_vars => TierInv'
  BY NextTierInv
<1>3. TierInv /\ [Next]_vars =>
        [\A p \in Packages : Rank(tiers[p]) <= Rank(tiers'[p])]_vars
  <2>. SUFFICES ASSUME TierInv, [Next]_vars, NEW p \in Packages
                PROVE  Rank(tiers[p]) <= Rank(tiers'[p])
    OBVIOUS
  <2>1. Risen /\ tiers[p] \in {"none", "graph", "types"}
    BY NextTierInv DEF TierInv, TypeOK, Tiers
  <2>. QED
    BY <2>1, RankValues DEF Risen
<1>. QED
  BY <1>1, <1>2, <1>3, PTL DEF Spec, TierNeverDrops

-----------------------------------------------------------------------------
(***************************************************************************)
(* What a client that is late and alone will have been told: as long as no *)
(* other connection was ever accepted, the pushes written to it followed   *)
(* by the pending ones are everything that was pushed, and the last of     *)
(* them about a package is the package's tier unless one is still owed.    *)
(***************************************************************************)
Line(c) == got[c] \o pending

Latest(s, p, tier) ==
  \E k \in DOMAIN s :
    /\ s[k].package = p /\ s[k].tier = tier
    /\ \A m \in DOMAIN s : s[m].package = p => m <= k

(* The package has its first push, and the push that follows its last mark *)
(* is still to come.                                                       *)
Announced(p) ==
  /\ thread[Mux].pc \notin {"start", "spawn"}
  /\ thread[Mux].pc = "syntax" => p < thread[Mux].next

Owed(p) ==
  \/ \E k \in DOMAIN ingested : ingested[k] = p
  \/ \E t \in Threads : thread[t].pc = "note" /\ thread[t].next = p

Sole(c) ==
  /\ \A d \in Conns \ {c} : thread[d].pc = "absent"
  /\ thread[c].pc = "absent" \/ c \in late
  /\ thread[c].pc # "closed"

Told(c) ==
  \A p \in Packages :
    Announced(p) /\ ~Owed(p) => Latest(Line(c), p, StatusOf(p))

(* What the mux thread has before and while it ingests, and that a         *)
(* connection is late only once initialize has returned.                   *)
Ingesting ==
  /\ thread[Mux].pc \in {"start", "spawn"} => thread[Mux].next = 1
  /\ thread[Mux].pc \notin {"ingest", "drain_index"} => ingested = << >>
  /\ thread[Mux].pc \in {"ingest", "drain_index"}
       /\ (\A d \in Conns : thread[d].pc = "absent") =>
         \A p \in Packages : tiers[p] # "types"
  /\ late # {} => thread[Mux].pc = "up"

SoleInv == Ingesting /\ \A c \in Conns : Sole(c) => Told(c)

(* An element appended to the second of two lists comes after both.        *)
LEMMA JoinedAppend ==
  ASSUME NEW S, NEW s \in Seq(S), NEW t \in Seq(S), NEW m \in S
  PROVE  /\ Len(s \o t) \in Nat
         /\ DOMAIN (s \o t) = 1 .. Len(s \o t)
         /\ DOMAIN (s \o Append(t, m)) = 1 .. Len(s \o t) + 1
         /\ (s \o Append(t, m))[Len(s \o t) + 1] = m
         /\ \A k \in 1 .. Len(s \o t) : (s \o Append(t, m))[k] = (s \o t)[k]
OBVIOUS

(* A push that is queued is the latest about its package and about no      *)
(* other.                                                                  *)
LEMMA LatestAppend ==
  ASSUME NEW old, NEW long, NEW n \in Nat, NEW m,
         DOMAIN old = 1 .. n, DOMAIN long = 1 .. n + 1,
         long[n + 1] = m, \A k \in 1 .. n : long[k] = old[k]
  PROVE  /\ Latest(long, m.package, m.tier)
         /\ \A q, tier : q # m.package /\ Latest(old, q, tier) => Latest(long, q, tier)
<1>1. Latest(long, m.package, m.tier)
  <2>1. /\ n + 1 \in DOMAIN long
        /\ \A k \in DOMAIN long : k <= n + 1
    OBVIOUS
  <2>. QED
    BY <2>1 DEF Latest
<1>2. ASSUME NEW q, NEW tier, q # m.package, Latest(old, q, tier)
      PROVE  Latest(long, q, tier)
  <2>1. PICK k \in DOMAIN old :
          /\ old[k].package = q /\ old[k].tier = tier
          /\ \A i \in DOMAIN old : old[i].package = q => i <= k
    BY <1>2 DEF Latest
  <2>2. k \in DOMAIN long /\ long[k] = old[k]
    OBVIOUS
  <2>3. \A i \in DOMAIN long : i \in DOMAIN old \/ i = n + 1
    OBVIOUS
  <2>4. \A i \in DOMAIN long : long[i].package = q => i <= k
    BY <1>2, <2>1, <2>3
  <2>. QED
    BY <2>1, <2>2, <2>4 DEF Latest
<1>. QED
  BY <1>1, <1>2

(* What a push adds to the line, and that writing the line moves nothing.  *)
LEMMA LineAppend ==
  ASSUME TypeOK, NEW c \in Conns, NEW m \in TierReady,
         pending' = Append(pending, m), got' = got
  PROVE  /\ Latest(Line(c)', m.package, m.tier)
         /\ \A q, tier : q # m.package /\ Latest(Line(c), q, tier)
                           => Latest(Line(c)', q, tier)
<1>1. got[c] \in Seq(TierReady) /\ pending \in Seq(TierReady)
  BY DEF TypeOK
<1>2. PICK s, t, old, long, n :
        /\ s = got[c] /\ t = pending
        /\ old = s \o t /\ long = s \o Append(t, m) /\ n = Len(s \o t)
  OBVIOUS
<1>. DEFINE R == TierReady
<1>3. s \in Seq(R) /\ t \in Seq(R) /\ m \in R
  BY <1>1, <1>2
<1>. HIDE DEF R
<1>4. /\ Len(s \o t) \in Nat
      /\ DOMAIN (s \o t) = 1 .. Len(s \o t)
      /\ DOMAIN (s \o Append(t, m)) = 1 .. Len(s \o t) + 1
      /\ (s \o Append(t, m))[Len(s \o t) + 1] = m
      /\ \A k \in 1 .. Len(s \o t) : (s \o Append(t, m))[k] = (s \o t)[k]
  BY <1>3, JoinedAppend
<1>5. /\ n \in Nat /\ DOMAIN old = 1 .. n /\ DOMAIN long = 1 .. n + 1
      /\ long[n + 1] = m /\ \A k \in 1 .. n : long[k] = old[k]
  BY <1>2, <1>4
<1>6. Line(c) = old /\ Line(c)' = long
  BY <1>2 DEF Line
<1>. QED
  BY <1>5, <1>6, LatestAppend

(* Writing the pending pushes moves them within the line.                  *)
LEMMA LineWritten ==
  ASSUME TypeOK, NEW c \in Conns, pending' = << >>,
         got' = [got EXCEPT ![c] = got[c] \o SubSeq(pending, 1, Len(pending))]
  PROVE  Line(c)' = Line(c)
<1>1. got[c] \in Seq(TierReady) /\ pending \in Seq(TierReady)
  BY DEF TypeOK
<1>2. SubSeq(pending, 1, Len(pending)) = pending
  BY <1>1, SubSeqFull, Zenon
<1>3. got'[c] = got[c] \o pending
  BY <1>2 DEF TypeOK
<1>4. got[c] \o pending \in Seq(TierReady)
  BY <1>1
<1>5. (got[c] \o pending) \o << >> = got[c] \o pending
  BY <1>4, ConcatEmptySeq, Zenon
<1>. QED
  BY <1>3, <1>5 DEF Line

(* A step that queues at most one push keeps what a client will have been  *)
(* told, if the packages that are settled after it were settled before and *)
(* kept their tier, or the push settles them.                              *)
LEMMA StepTold ==
  ASSUME TypeOK, NEW c \in Conns, Told(c), got' = got, NEW m \in TierReady,
         pending' = pending \/ pending' = Append(pending, m),
         \A p \in Packages : Announced(p)' /\ ~Owed(p)' =>
           \/ /\ pending' = Append(pending, m)
              /\ m.package = p /\ m.tier = StatusOf(p)'
           \/ /\ Announced(p) /\ ~Owed(p) /\ tiers'[p] = tiers[p]
              /\ pending' = pending \/ m.package # p
  PROVE  Told(c)'
<1>. SUFFICES ASSUME NEW p \in Packages, Announced(p)', ~Owed(p)'
              PROVE  Latest(Line(c), p, StatusOf(p))'
  BY DEF Told
<1>1. CASE pending' = Append(pending, m) /\ m.package = p /\ m.tier = StatusOf(p)'
  <2>1. Latest(Line(c)', m.package, m.tier)
    BY <1>1, LineAppend
  <2>. QED
    BY <1>1, <2>1 DEF Latest
<1>2. CASE /\ Announced(p) /\ ~Owed(p) /\ tiers'[p] = tiers[p]
           /\ pending' = pending \/ m.package # p
  <2>1. Latest(Line(c), p, StatusOf(p)) /\ StatusOf(p)' = StatusOf(p)
    BY <1>2 DEF Told, StatusOf
  <2>2. CASE pending' = pending
    <3>1. Line(c)' = Line(c)
      BY <2>2 DEF Line
    <3>. QED
      BY <2>1, <3>1 DEF Latest
  <2>3. CASE pending' = Append(pending, m) /\ m.package # p
    <3>1. Latest(Line(c)', p, StatusOf(p))
      BY <2>1, <2>3, LineAppend
    <3>. QED
      BY <2>1, <3>1 DEF Latest
  <2>. QED
    BY <1>2, <2>2, <2>3
<1>. QED
  BY <1>1, <1>2

(* The same without a push.                                                *)
LEMMA QuietTold ==
  ASSUME TypeOK, NEW c \in Conns, Told(c), UNCHANGED << got, pending >>,
         \A p \in Packages : Announced(p)' /\ ~Owed(p)' =>
           Announced(p) /\ ~Owed(p) /\ tiers'[p] = tiers[p]
  PROVE  Told(c)'
<1>1. [package |-> 1, tier |-> "graph"] \in TierReady
  BY TierAssumption DEF TierReady, Packages, Tiers
<1>. QED
  BY <1>1, StepTold, Zenon

(* Nothing was announced before the first step, and nobody has connected.  *)
LEMMA InitSole == Init => SoleInv
<1>. SUFFICES ASSUME Init  PROVE SoleInv
  OBVIOUS
<1>1. thread[Mux] = At("start")
  BY DEF Init
<1>2. Ingesting
  BY <1>1, AtState DEF Init, Ingesting
<1>3. \A p \in Packages : ~Announced(p)
  BY <1>1, AtState DEF Announced
<1>. QED
  BY <1>2, <1>3 DEF SoleInv, Told

(* Who is alone after a step was alone before it: no thread goes back to   *)
(* absent or leaves closed, and a connection is late from its first step.  *)
LEMMA SoleBefore ==
  ASSUME NEW c \in Conns, Sole(c)',
         \A d \in Conns : thread'[d].pc = "absent" => thread[d].pc = "absent",
         thread[c].pc = "closed" => thread'[c].pc = "closed",
         c \in late' => c \in late \/ thread[c].pc = "absent"
  PROVE  Sole(c)
BY DEF Sole

(* While the mux thread is in initialize nobody is late, so that one who   *)
(* is alone is not there yet.                                              *)
LEMMA InitializeSole ==
  ASSUME TierInv, SoleInv, Initialize
  PROVE  SoleInv'
<1>1. /\ TypeOK /\ Mux \in Threads /\ Mux \notin Conns /\ TypeOK' /\ Ingesting
      /\ thread[Mux].next \in Packages /\ NumPackages \in Nat \ {0}
      /\ UNCHANGED << late, got >> /\ late = {}
  BY TierAssumption, InitializeInv DEF TierInv, TypeOK, Threads, ThreadState, SoleInv,
     Ingesting, Initialize, Discover, SpawnEngines, NoteSyntax, IngestPackage,
     SkipPackage, NoteGraph, clients, Mux
<1>2. ASSUME \A u \in Threads : u # Mux => thread'[u] = thread[u], Ingesting',
             \A c \in Conns : Sole(c) /\ Told(c) => Told(c)'
      PROVE  SoleInv'
  <2>1. \A c \in Conns : Sole(c)' => Sole(c)
    BY <1>1, <1>2, SoleBefore DEF Threads
  <2>. QED
    BY <1>2, <2>1 DEF SoleInv
<1>3. \A c \in Conns : Sole(c) => \A d \in Conns : thread[d].pc = "absent"
  BY <1>1 DEF Sole
<1>4. ASSUME NEW p \in Packages, thread[Mux].pc # "note", thread'[Mux].pc # "note",
             \A u \in Threads : u # Mux => thread'[u] = thread[u],
             \A k \in DOMAIN ingested : ingested[k] = p =>
               \E n \in DOMAIN ingested' : ingested'[n] = p,
             Owed(p)
      PROVE  Owed(p)'
  BY <1>4 DEF Owed
<1>5. CASE Discover
  <2>1. /\ thread[Mux].pc = "start" /\ thread'[Mux].pc = "spawn"
        /\ thread'[Mux].next = thread[Mux].next
        /\ \A u \in Threads : u # Mux => thread'[u] = thread[u]
        /\ UNCHANGED << tiers, ingested, pending >>
    BY <1>1, <1>5, GotoMoves DEF Discover
  <2>2. Ingesting'
    BY <1>1, <2>1 DEF Ingesting
  <2>3. \A c \in Conns : Told(c)'
    BY <2>1 DEF Told, Announced
  <2>. QED
    BY <1>2, <2>1, <2>2, <2>3
<1>6. CASE SpawnEngines
  <2>1. /\ thread[Mux].pc = "spawn" /\ thread'[Mux].pc = "syntax"
        /\ thread'[Mux].next = thread[Mux].next
        /\ \A u \in Threads : u # Mux => thread'[u] = thread[u]
        /\ UNCHANGED << tiers, ingested, pending >>
    BY <1>1, <1>6, GotoMoves DEF SpawnEngines
  <2>2. Ingesting'
    BY <1>1, <2>1 DEF Ingesting
  <2>3. \A p \in Packages : ~(p < thread'[Mux].next)
    BY <1>1, <2>1 DEF Ingesting, Packages
  <2>4. \A c \in Conns : Told(c)'
    BY <2>1, <2>3 DEF Told, Announced
  <2>. QED
    BY <1>2, <2>1, <2>2, <2>4
<1>7. CASE NoteSyntax
  <2>. DEFINE next == thread[Mux].next
  <2>1. /\ thread[Mux].pc = "syntax"
        /\ \/ thread'[Mux].pc = "ingest" /\ next = NumPackages
           \/ thread'[Mux].pc = "syntax" /\ thread'[Mux].next = next + 1
        /\ \A u \in Threads : u # Mux => thread'[u] = thread[u]
        /\ UNCHANGED << tiers, ingested >>
        /\ \A p \in Packages : tiers[p] = "none"
    BY <1>1, <1>7, NextPackageMoves DEF NoteSyntax, TypeOK
  <2>2. PICK m \in TierReady :
          m.package = next /\ m.tier = "syntax" /\ pending' = Append(pending, m)
    <3>1. [package |-> next, tier |-> "syntax"] \in TierReady
      BY <1>1 DEF TierReady, Tiers
    <3>. QED
      BY <1>7, <3>1 DEF NoteSyntax, Push
  <2>3. Ingesting'
    BY <1>1, <2>1 DEF Ingesting
  <2>4. ASSUME NEW p \in Packages, Announced(p)', ~Owed(p)'
        PROVE  \/ /\ pending' = Append(pending, m)
                  /\ m.package = p /\ m.tier = StatusOf(p)'
               \/ /\ Announced(p) /\ ~Owed(p) /\ tiers'[p] = tiers[p]
                  /\ pending' = pending \/ m.package # p
    <3>1. CASE p = next
      BY <2>1, <2>2, <3>1 DEF StatusOf
    <3>2. CASE p # next
      <4>1. p < next
        BY <1>1, <2>1, <2>4, <3>2 DEF Announced, Packages
      <4>2. ~Owed(p)
        BY <1>4, <2>1, <2>4
      <4>. QED
        BY <2>1, <2>2, <3>2, <4>1, <4>2 DEF Announced
    <3>. QED
      BY <3>1, <3>2
  <2>. HIDE DEF next
  <2>5. \A c \in Conns : Told(c) => Told(c)'
    BY <1>1, <2>2, <2>4, StepTold
  <2>. QED
    BY <1>2, <2>1, <2>3, <2>5
<1>8. CASE IngestPackage
  <2>. DEFINE next == thread[Mux].next
  <2>1. /\ thread[Mux].pc = "ingest" /\ thread'[Mux].pc \in {"ingest", "drain_index"}
        /\ \A u \in Threads : u # Mux => thread'[u] = thread[u]
        /\ pending' = pending
    BY <1>1, <1>8, NextPackageMoves DEF IngestPackage
  <2>2. /\ tiers'[next] = "graph"
        /\ \A q \in Packages : q # next => tiers'[q] = tiers[q]
        /\ ingested' = Append(ingested, next) /\ ingested \in Seq(Packages)
    BY <1>1, <1>8 DEF IngestPackage, TypeOK
  <2>3. \A d \in Conns : thread'[d] = thread[d]
    BY <1>1, <2>1 DEF Threads
  <2>4. Ingesting'
    BY <1>1, <2>1, <2>2, <2>3 DEF Ingesting
  <2>5. /\ \A k \in DOMAIN ingested : k \in DOMAIN ingested' /\ ingested'[k] = ingested[k]
        /\ \E k \in DOMAIN ingested' : ingested'[k] = next
    <3>1. Len(ingested) + 1 \in DOMAIN ingested' /\ ingested'[Len(ingested) + 1] = next
      BY <2>2
    <3>2. \A k \in DOMAIN ingested : k \in DOMAIN ingested' /\ ingested'[k] = ingested[k]
      BY <2>2
    <3>. QED
      BY <3>1, <3>2
  <2>6. ASSUME NEW p \in Packages, Announced(p)', ~Owed(p)'
        PROVE  Announced(p) /\ ~Owed(p) /\ tiers'[p] = tiers[p]
    <3>1. p # next
      BY <2>5, <2>6 DEF Owed
    <3>2. ~Owed(p)
      BY <1>4, <2>1, <2>5, <2>6
    <3>. QED
      BY <2>1, <2>2, <3>1, <3>2 DEF Announced
  <2>. HIDE DEF next
  <2>7. \A c \in Conns : Told(c) => Told(c)'
    BY <1>1, <2>1, <2>6, QuietTold
  <2>. QED
    BY <1>2, <2>1, <2>4, <2>7
<1>9. CASE SkipPackage
  <2>1. /\ thread[Mux].pc = "ingest" /\ thread'[Mux].pc \in {"ingest", "drain_index"}
        /\ \A u \in Threads : u # Mux => thread'[u] = thread[u]
        /\ UNCHANGED << pending, tiers, ingested >>
    BY <1>1, <1>9, NextPackageMoves DEF SkipPackage
  <2>2. \A d \in Conns : thread'[d] = thread[d]
    BY <1>1, <2>1 DEF Threads
  <2>3. Ingesting'
    BY <1>1, <2>1, <2>2 DEF Ingesting
  <2>4. ASSUME NEW p \in Packages, Announced(p)', ~Owed(p)'
        PROVE  Announced(p) /\ ~Owed(p) /\ tiers'[p] = tiers[p]
    BY <1>4, <2>1, <2>4 DEF Announced
  <2>5. \A c \in Conns : Told(c) => Told(c)'
    BY <1>1, <2>1, <2>4, QuietTold
  <2>. QED
    BY <1>2, <2>1, <2>3, <2>5
<1>10. CASE NoteGraph
  <2>1. CASE ingested = << >>
    <3>. DEFINE new == [At("read") EXCEPT !.again = TRUE]
    <3>1. new.pc = "read"
      BY DEF At
    <3>2. /\ thread' = [thread EXCEPT ![Mux] = new]
          /\ UNCHANGED << pending, tiers, ingested >>
          /\ thread[Mux].pc = "drain_index"
      BY <1>10, <2>1 DEF NoteGraph
    <3>. HIDE DEF new
    <3>3. /\ thread'[Mux].pc = "read"
          /\ \A u \in Threads : u # Mux => thread'[u] = thread[u]
      BY <1>1, <3>1, <3>2 DEF TypeOK, Threads
    <3>4. Ingesting'
      BY <1>1, <2>1, <3>2, <3>3 DEF Ingesting
    <3>5. ASSUME NEW p \in Packages, Announced(p)', ~Owed(p)'
          PROVE  Announced(p) /\ ~Owed(p) /\ tiers'[p] = tiers[p]
      BY <1>4, <3>2, <3>3, <3>5 DEF Announced
    <3>6. \A c \in Conns : Told(c) => Told(c)'
      BY <1>1, <3>2, <3>5, QuietTold
    <3>. QED
      BY <1>2, <3>3, <3>4, <3>6
  <2>2. CASE ingested # << >>
    <3>. DEFINE head == Head(ingested)
    <3>1. /\ thread[Mux].pc = "drain_index" /\ UNCHANGED << thread, tiers >>
          /\ ingested' = Tail(ingested)
      BY <1>10, <2>2 DEF NoteGraph
    <3>2. /\ head \in Packages /\ tiers[head] \in {"graph", "types"}
          /\ \A k \in DOMAIN ingested : ingested[k] # head =>
               \E n \in DOMAIN ingested' : ingested'[n] = ingested[k]
      <4>1. /\ ingested \in Seq(Packages) /\ 1 \in DOMAIN ingested
            /\ head = ingested[1]
        BY <1>1, <2>2 DEF TypeOK
      <4>2. ingested[1] \in Packages /\ tiers[ingested[1]] # "none"
        BY <4>1 DEF TierInv
      <4>3. ASSUME NEW k \in DOMAIN ingested, k # 1
            PROVE  k - 1 \in DOMAIN ingested' /\ ingested'[k - 1] = ingested[k]
        BY <2>2, <3>1, <4>1, <4>3
      <4>4. head \in Packages /\ tiers[head] \in {"graph", "types"}
        BY <1>1, <4>1, <4>2 DEF TypeOK, Tiers
      <4>5. ASSUME NEW k \in DOMAIN ingested, ingested[k] # head
            PROVE  \E n \in DOMAIN ingested' : ingested'[n] = ingested[k]
        <5>1. k # 1
          BY <4>1, <4>5
        <5>. QED
          BY <4>3, <5>1
      <4>. QED
        BY <4>4, <4>5
    <3>3. PICK m \in TierReady :
            m.package = head /\ m.tier = "graph" /\ pending' = Append(pending, m)
      <4>1. [package |-> head, tier |-> "graph"] \in TierReady
        BY <3>2 DEF TierReady, Tiers
      <4>. QED
        BY <1>10, <2>2, <4>1 DEF NoteGraph, Push
    <3>. HIDE DEF head
    <3>4. Ingesting'
      BY <1>1, <3>1 DEF Ingesting
    <3>5. ASSUME NEW c \in Conns, Sole(c), Told(c)
          PROVE  Told(c)'
      <4>1. tiers[head] = "graph"
        BY <1>1, <1>3, <3>1, <3>2, <3>5 DEF Ingesting
      <4>2. ASSUME NEW p \in Packages, Announced(p)', ~Owed(p)'
            PROVE  \/ /\ pending' = Append(pending, m)
                      /\ m.package = p /\ m.tier = StatusOf(p)'
                   \/ /\ Announced(p) /\ ~Owed(p) /\ tiers'[p] = tiers[p]
                      /\ pending' = pending \/ m.package # p
        <5>1. CASE p = head
          BY <3>1, <3>3, <4>1, <5>1 DEF StatusOf
        <5>2. CASE p # head
          <6>1. ~Owed(p)
            BY <3>1, <3>2, <4>2, <5>2 DEF Owed
          <6>. QED
            BY <3>1, <3>3, <5>2, <6>1 DEF Announced
        <5>. QED
          BY <5>1, <5>2
      <4>. QED
        BY <1>1, <3>3, <3>5, <4>2, StepTold
    <3>. QED
      BY <1>2, <3>1, <3>4, <3>5
  <2>. QED
    BY <2>1, <2>2
<1>. QED
  BY <1>5, <1>6, <1>7, <1>8, <1>9, <1>10 DEF Initialize

(* A promotion owes a push from the mark to the push, which is the next    *)
(* about the package: whoever is alone promotes by itself.                 *)
LEMMA SyncSole ==
  ASSUME TierInv, SoleInv, NEW t \in Threads, Sync(t)
  PROVE  SoleInv'
<1>1. /\ TypeOK /\ TypeOK' /\ Knows(t) /\ Ingesting /\ Mux \in Threads
      /\ thread[t].next \in Packages
      /\ thread[t].pc \in {"read", "ask", "mark", "note"}
      /\ UNCHANGED << ingested, got, late >>
  BY SyncInv DEF TierInv, SoleInv, TypeOK, Threads, ThreadState, Sync, ReadTier,
     AskSupervisor, MarkTypes, NoteTypes, clients
<1>. DEFINE next == thread[t].next
<1>2. ASSUME thread'[t].pc \in {"read", "drain", "up", "ask", "mark", "note"},
             \A u \in Threads : u # t => thread'[u] = thread[u],
             \A c \in Conns : Told(c) => Told(c)'
      PROVE  SoleInv'
  <2>1. \A u \in Threads :
          /\ thread'[u].pc = "absent" => thread[u].pc = "absent"
          /\ thread[u].pc = "closed" => thread'[u].pc = "closed"
    BY <1>1, <1>2
  <2>2. \A c \in Conns : Sole(c)' => Sole(c)
    BY <1>1, <2>1, SoleBefore DEF Threads
  <2>3. Ingesting'
    <3>1. CASE t = Mux
      BY <1>1, <1>2, <3>1 DEF Ingesting
    <3>2. CASE t # Mux
      <4>1. t \in Conns /\ thread'[t].pc # "absent" /\ thread'[Mux] = thread[Mux]
        BY <1>1, <1>2, <3>2 DEF Threads
      <4>. QED
        BY <1>1, <4>1 DEF Ingesting
    <3>. QED
      BY <3>1, <3>2
  <2>. QED
    BY <1>2, <2>2, <2>3 DEF SoleInv
<1>3. ASSUME NEW p \in Packages, Announced(p)',
             thread'[t].pc \in {"read", "drain", "up", "ask", "mark", "note"},
             \A u \in Threads : u # t => thread'[u] = thread[u]
      PROVE  Announced(p)
  BY <1>1, <1>3 DEF Announced
<1>4. ASSUME NEW p \in Packages, ~Owed(p)',
             thread[t].pc = "note" => thread[t].next # p,
             \A u \in Threads : u # t => thread'[u] = thread[u]
      PROVE  ~Owed(p)
  BY <1>1, <1>4 DEF Owed
<1>5. ASSUME Advance(t) \/ Goto(t, "ask") \/ Goto(t, "mark"),
             UNCHANGED << tiers, pending >>, thread[t].pc # "note"
      PROVE  SoleInv'
  <2>1. /\ thread'[t].pc \in {"read", "drain", "up", "ask", "mark", "note"}
        /\ \A u \in Threads : u # t => thread'[u] = thread[u]
    BY <1>1, <1>5, AdvanceMoves, GotoMoves
  <2>2. ASSUME NEW p \in Packages, Announced(p)', ~Owed(p)'
        PROVE  Announced(p) /\ ~Owed(p) /\ tiers'[p] = tiers[p]
    BY <1>3, <1>4, <1>5, <2>1, <2>2
  <2>3. \A c \in Conns : Told(c) => Told(c)'
    BY <1>1, <1>5, <2>2, QuietTold
  <2>. QED
    BY <1>2, <2>1, <2>3
<1>6. CASE ReadTier(t)
  BY <1>5, <1>6 DEF ReadTier
<1>7. CASE AskSupervisor(t)
  BY <1>5, <1>7 DEF AskSupervisor
<1>8. CASE MarkTypes(t)
  <2>1. /\ thread'[t].pc = "note" /\ thread'[t].next = next
        /\ \A u \in Threads : u # t => thread'[u] = thread[u]
        /\ pending' = pending /\ thread[t].pc # "note"
        /\ \A p \in Packages : p # next => tiers'[p] = tiers[p]
    BY <1>1, <1>8, GotoMoves DEF MarkTypes, TypeOK
  <2>2. ASSUME NEW p \in Packages, Announced(p)', ~Owed(p)'
        PROVE  Announced(p) /\ ~Owed(p) /\ tiers'[p] = tiers[p]
    <3>1. p # next
      BY <2>1, <2>2 DEF Owed
    <3>. QED
      BY <1>3, <1>4, <2>1, <2>2, <3>1
  <2>. HIDE DEF next
  <2>3. \A c \in Conns : Told(c) => Told(c)'
    BY <1>1, <2>1, <2>2, QuietTold
  <2>. QED
    BY <1>2, <2>1, <2>3
<1>9. CASE NoteTypes(t)
  <2>1. /\ thread'[t].pc \in {"read", "drain", "up"}
        /\ \A u \in Threads : u # t => thread'[u] = thread[u]
        /\ tiers' = tiers /\ tiers[next] = "types"
    BY <1>1, <1>9, AdvanceMoves DEF NoteTypes, Knows
  <2>2. PICK m \in TierReady :
          m.package = next /\ m.tier = "types" /\ pending' = Append(pending, m)
    <3>1. [package |-> next, tier |-> "types"] \in TierReady
      BY <1>1 DEF TierReady, Tiers
    <3>. QED
      BY <1>9, <3>1 DEF NoteTypes, Push
  <2>3. ASSUME NEW p \in Packages, Announced(p)', ~Owed(p)'
        PROVE  \/ /\ pending' = Append(pending, m)
                  /\ m.package = p /\ m.tier = StatusOf(p)'
               \/ /\ Announced(p) /\ ~Owed(p) /\ tiers'[p] = tiers[p]
                  /\ pending' = pending \/ m.package # p
    <3>1. CASE p = next
      BY <2>1, <2>2, <3>1 DEF StatusOf
    <3>2. CASE p # next
      <4>1. Announced(p) /\ ~Owed(p)
        BY <1>3, <1>4, <2>1, <2>3, <3>2
      <4>. QED
        BY <2>1, <2>2, <3>2, <4>1
    <3>. QED
      BY <3>1, <3>2
  <2>. HIDE DEF next
  <2>4. \A c \in Conns : Told(c) => Told(c)'
    BY <1>1, <2>2, <2>3, StepTold
  <2>. QED
    BY <1>2, <2>1, <2>4
<1>. QED
  BY <1>6, <1>7, <1>8, <1>9 DEF Sync

(* A connection takes the pending pushes: as long as it stays open they    *)
(* move from one end of its line to the other.                             *)
LEMMA WritePushesSole ==
  ASSUME TierInv, SoleInv, NEW c \in Conns, WritePushes(c)
  PROVE  SoleInv'
<1>1. /\ TypeOK /\ Ingesting /\ c \in Threads /\ Mux \in Threads /\ c # Mux
      /\ UNCHANGED << tiers, ingested, late >> /\ thread[c].pc = "drain"
      /\ pending' = << >> /\ pending \in Seq(TierReady)
  BY TierAssumption DEF TierInv, SoleInv, TypeOK, Threads, Mux, WritePushes
<1>2. PICK n \in 0 .. Len(pending) :
        /\ got' = [got EXCEPT ![c] = got[c] \o SubSeq(pending, 1, n)]
        /\ thread' = [thread EXCEPT ![c] =
             At(IF n = Len(pending) THEN "idle" ELSE "closed")]
  BY DEF WritePushes
<1>3. /\ thread'[c].pc = IF n = Len(pending) THEN "idle" ELSE "closed"
      /\ \A u \in Threads : u # c => thread'[u] = thread[u]
  <2>. DEFINE pc == IF n = Len(pending) THEN "idle" ELSE "closed"
  <2>1. At(pc).pc = pc
    BY DEF At
  <2>2. thread' = [thread EXCEPT ![c] = At(pc)]
    BY <1>2
  <2>. HIDE DEF pc
  <2>3. thread'[c].pc = pc /\ \A u \in Threads : u # c => thread'[u] = thread[u]
    BY <1>1, <2>1, <2>2 DEF TypeOK, Threads
  <2>. QED
    BY <2>3 DEF pc
<1>4. Ingesting'
  BY <1>1, <1>3 DEF Ingesting
<1>5. ASSUME NEW d \in Conns, Sole(d)'
      PROVE  Told(d)'
  <2>1. d = c /\ thread'[c].pc = "idle" /\ n = Len(pending)
    BY <1>3, <1>5 DEF Sole
  <2>2. Line(c)' = Line(c)
    BY <1>1, <1>2, <2>1, LineWritten
  <2>3. Sole(c)
    BY <1>1, <1>3, <1>5, <2>1 DEF Sole, Threads
  <2>4. Told(c)
    BY <2>3 DEF SoleInv
  <2>5. ASSUME NEW p \in Packages, Announced(p)', ~Owed(p)'
        PROVE  Latest(Line(c), p, StatusOf(p))'
    <3>1. Announced(p) /\ ~Owed(p)
      BY <1>1, <1>3, <2>1, <2>5 DEF Announced, Owed
    <3>2. Latest(Line(c), p, StatusOf(p)) /\ StatusOf(p)' = StatusOf(p)
      BY <1>1, <2>4, <3>1 DEF Told, StatusOf
    <3>. QED
      BY <2>2, <3>2 DEF Latest
  <2>. QED
    BY <2>1, <2>5 DEF Told
<1>. QED
  BY <1>4, <1>5 DEF SoleInv

(* The steps that push nothing.  A connection that is accepted is late     *)
(* when initialize has returned; if it has not, nobody is alone any more.  *)
LEMMA QuietSole ==
  ASSUME TierInv, SoleInv, NEW c \in Conns, Accept(c) \/ TierStatus(c) \/ Poll(c)
  PROVE  SoleInv'
<1>1. /\ TypeOK /\ Ingesting /\ c \in Threads /\ Mux \in Threads /\ c # Mux
      /\ UNCHANGED << tiers, ingested, pending, got >>
      /\ late' = late \/ /\ thread[c].pc = "absent"
                         /\ late' = late \union
                              (IF thread[Mux].pc = "up" THEN {c} ELSE {})
      /\ thread[c].pc \in {"absent", "idle"}
  BY TierAssumption DEF TierInv, SoleInv, Threads, Mux, Accept, TierStatus, Poll, clients
<1>2. /\ thread'[c].pc \in {"idle", "read"}
      /\ \A u \in Threads : u # c => thread'[u] = thread[u]
  BY <1>1, GotoMoves DEF Accept, TierStatus, Poll
<1>3. Ingesting'
  BY <1>1, <1>2 DEF Ingesting
<1>4. ASSUME NEW d \in Conns, Sole(d)'
      PROVE  Told(d)'
  <2>1. Sole(d)
    <3>1. \A e \in Conns : thread'[e].pc = "absent" => thread[e].pc = "absent"
      BY <1>1, <1>2 DEF Threads
    <3>2. d \in late' => d \in late \/ thread[d].pc = "absent"
      BY <1>1
    <3>3. thread[d].pc = "closed" => thread'[d].pc = "closed"
      BY <1>1, <1>2 DEF Threads
    <3>. QED
      BY <1>4, <3>1, <3>2, <3>3, SoleBefore
  <2>2. ASSUME NEW p \in Packages, Announced(p)', ~Owed(p)'
        PROVE  Announced(p) /\ ~Owed(p) /\ tiers'[p] = tiers[p]
    BY <1>1, <1>2, <2>2 DEF Announced, Owed
  <2>. QED
    BY <1>1, <2>1, <2>2, QuietTold DEF SoleInv
<1>. QED
  BY <1>3, <1>4 DEF SoleInv

(* Every step keeps it.                                                    *)
LEMMA NextSole ==
  ASSUME TierInv, SoleInv, [Next]_vars
  PROVE  SoleInv'
<1>1. CASE Initialize
  BY <1>1, InitializeSole
<1>2. ASSUME NEW t \in Threads, Sync(t)
      PROVE  SoleInv'
  BY <1>2, SyncSole
<1>3. ASSUME NEW c \in Conns, Accept(c) \/ TierStatus(c) \/ ConnStep(c)
      PROVE  SoleInv'
  <2>1. c \in Threads
    BY DEF Threads
  <2>. QED
    BY <1>2, <1>3, <2>1, QuietSole, WritePushesSole DEF ConnStep
<1>4. CASE UNCHANGED << tiers, ingested, pending, thread, clients >>
  <2>1. Ingesting'
    BY <1>4 DEF SoleInv, Ingesting, clients
  <2>2. ASSUME NEW c \in Conns, Sole(c)'
        PROVE  Told(c)'
    <3>1. Sole(c) /\ TypeOK
      BY <1>4, <2>2 DEF Sole, clients, TierInv
    <3>2. \A p \in Packages : Announced(p)' /\ ~Owed(p)' =>
            Announced(p) /\ ~Owed(p) /\ tiers'[p] = tiers[p]
      BY <1>4 DEF Announced, Owed
    <3>. QED
      BY <1>4, <3>1, <3>2, QuietTold DEF SoleInv, clients
  <2>. QED
    BY <2>1, <2>2 DEF SoleInv
<1>5. ASSUME NEW p \in Packages, EngineChange(p)
      PROVE  SoleInv'
  BY <1>4, <1>5 DEF EngineChange
<1>6. CASE UNCHANGED vars
  BY <1>4, <1>6 DEF vars, clients
<1>. QED
  BY <1>1, <1>2, <1>3, <1>5, <1>6 DEF Next, Threads

(* A client alone that has been told everything shows it.                  *)
LEMMA ToldAgrees == TierInv /\ SoleInv => SoleLateClientAgrees
<1>. SUFFICES ASSUME TierInv, SoleInv, NEW c \in late,
                     thread[c].pc = "idle", pending = << >>,
                     \A d \in Conns \ {c} : thread[d].pc = "absent",
                     NEW p \in Packages
              PROVE  Shown(c, p) = StatusOf(p)
  BY DEF SoleLateClientAgrees
<1>1. /\ c \in Conns /\ got[c] \in Seq(TierReady)
      /\ thread[Mux].pc = "up" /\ ingested = << >>
  BY DEF TierInv, TypeOK, SoleInv, Ingesting
<1>2. Sole(c) /\ Announced(p)
  BY <1>1 DEF Sole, Announced
<1>3. ~Owed(p)
  BY <1>1 DEF Owed, Threads
<1>4. Line(c) = got[c]
  BY <1>1, ConcatEmptySeq, Zenon DEF Line
<1>5. Latest(got[c], p, StatusOf(p))
  BY <1>1, <1>2, <1>3, <1>4 DEF SoleInv, Told
<1>. DEFINE told == {k \in DOMAIN got[c] : got[c][k].package = p}
<1>6. PICK k \in told :
        got[c][k].tier = StatusOf(p) /\ \A m \in told : m <= k
  BY <1>5 DEF Latest
<1>7. told \subseteq Nat
  BY <1>1
<1>8. \A i \in told : (\A m \in told : m <= i) => i = k
  BY <1>6, <1>7
<1>9. k = CHOOSE i \in told : \A m \in told : m <= i
  BY <1>6, <1>8
<1>. HIDE DEF told
<1>10. got[c][CHOOSE i \in told : \A m \in told : m <= i].tier = StatusOf(p) /\ told # {}
  BY <1>6, <1>9
<1>. QED
  BY <1>10 DEF Shown, told

(***************************************************************************)
(* A client that connected once initialize had returned and is alone shows *)
(* the server's tier of every package whenever nothing is on its way: its  *)
(* snapshot and the pushes miss no promotion, whenever the engines crash   *)
(* or come back and however its polls meet them.                           *)
(***************************************************************************)
THEOREM SoleLateClientAlwaysAgrees == Spec => []SoleLateClientAgrees
<1>1. Init => TierInv /\ SoleInv
  BY InitTierInv, InitSole
<1>2. TierInv /\ SoleInv /\ [Next]_vars => TierInv' /\ SoleInv'
  BY NextTierInv, NextSole
<1>3. TierInv /\ SoleInv => SoleLateClientAgrees
  BY ToldAgrees
<1>. QED
  BY <1>1, <1>2, <1>3, PTL DEF Spec

-----------------------------------------------------------------------------
(* A thread in the middle of its work has a file in hand, the hub a batch  *)
(* and its place in it.                                                    *)
InHand ==
  /\ mux.pc # "idle" => mux.file \in Files
  /\ worker.pc \notin {"recv", "pop"} => worker.file \in Files
  /\ poller.pc # "idle" => poller.file \in Files
  /\ hub.pc # "idle" => hub.batch # << >>
  /\ hub.pc \in {"forward", "invalidate"} => hub.next \in 1 .. Len(hub.batch)

(* The engine was sent every batch that marked a file, except for the one  *)
(* that the hub is forwarding, whose event for the file is still to come.  *)
StillToForward(f) ==
  hub.pc = "forward" /\ \E i \in hub.next .. Len(hub.batch) : hub.batch[i] = f

Marked ==
  /\ index.generation >= IngestedFiles
  /\ \A f \in Files :
       /\ index.dirty[f] <= hub.generation
       /\ \A m \in marks[f] :
            /\ m <= hub.generation
            /\ m <= engine[f].at \/ (m = hub.generation /\ StillToForward(f))

(* What the worker knows of the generation it has read, and what it stored *)
SeesEarlier(f, g, answer) ==
  g < IngestedFiles =>
    /\ g <= hub.generation
    /\ \A m \in marks[f] : m < g => m <= answer.at

Filled ==
  /\ worker.pc = "resolve" /\ worker.generation < IngestedFiles =>
       worker.generation <= hub.generation
  /\ worker.pc \in {"put", "notify"} =>
       SeesEarlier(worker.file, worker.generation, worker.result)
  /\ \A e \in store : SeesEarlier(e.file, e.generation, e.result)

CacheInv == CacheTypeOK /\ InHand /\ Marked /\ Filled

(* The state of index and hub, field by field.                             *)
LEMMA IndexFields ==
  ASSUME CacheTypeOK
  PROVE  /\ index.generation \in Nat
         /\ index.source \in [Files -> Text]
         /\ index.dirty \in [Files -> Nat]
         /\ \A f \in Files : FileGeneration(f) \in Nat
<1>1. /\ index.generation \in Nat
      /\ index.source \in [Files -> Text]
      /\ index.dirty \in [Files -> Nat]
  BY DEF CacheTypeOK
<1>. QED
  BY <1>1 DEF FileGeneration

(* The hub, field by field.                                                *)
LEMMA HubFields ==
  ASSUME CacheTypeOK
  PROVE  /\ hub.pc \in {"idle", "mark", "forward", "invalidate"}
         /\ hub.chan \in Seq(Files) /\ hub.batch \in Seq(Files)
         /\ hub.generation \in Nat /\ hub.next \in Nat
  BY DEF CacheTypeOK

(* The worker, field by field.                                             *)
LEMMA WorkerFields ==
  ASSUME CacheTypeOK
  PROVE  /\ worker.pc \in {"recv", "pop", "generation", "resolve", "put", "notify"}
         /\ worker.file \in Files \union {NoFile}
         /\ worker.generation \in Nat /\ worker.result \in Answered
  BY DEF CacheTypeOK

(* Indexing a text moves the generation on and leaves the marks.           *)
LEMMA IndexTextKeeps ==
  ASSUME CacheTypeOK, NEW f \in Files, NEW text \in Text, IndexText(f, text)
  PROVE  /\ index' \in [generation : Nat, source : [Files -> Text],
                        dirty : [Files -> Nat]]
         /\ index'.generation = index.generation + 1
         /\ index'.dirty = index.dirty
<1>1. index' = [generation |-> index.generation + 1,
                source |-> [index.source EXCEPT ![f] = text],
                dirty |-> index.dirty]
  BY DEF CacheTypeOK, IndexText
<1>2. [index.source EXCEPT ![f] = text] \in [Files -> Text]
  BY IndexFields
<1>. QED
  BY <1>1, <1>2, IndexFields

(* The hub's place and the engine stay: so does what they say of marks.    *)
LEMMA MarkedKept ==
  ASSUME CacheTypeOK, Marked, UNCHANGED << engine, marks >>,
         index'.generation \in Nat, index'.generation >= index.generation,
         index'.dirty = index.dirty,
         hub'.pc = hub.pc, hub'.generation = hub.generation,
         hub'.batch = hub.batch, hub'.next = hub.next
  PROVE  Marked'
<1>1. \A f \in Files : StillToForward(f) => StillToForward(f)'
  BY DEF StillToForward
<1>2. IngestedFiles \in Nat
  BY FilesAssumption
<1>. QED
  BY <1>1, <1>2, IndexFields DEF Marked

(* What the worker knows and stored does not depend on the other threads'  *)
(* places, only on the marks and on the hub's generation.                  *)
LEMMA FilledKept ==
  ASSUME Filled, UNCHANGED << worker, store, marks >>,
         hub'.generation = hub.generation
  PROVE  Filled'
  BY DEF Filled, SeesEarlier

(* A workspace just opened: no batch yet, and nothing stored.              *)
LEMMA CacheInitInv == CacheInit => CacheInv
<1>. SUFFICES ASSUME CacheInit  PROVE CacheInv
  OBVIOUS
<1>1. IngestedFiles \in Nat \ {0} /\ 0 \in Text /\ NoAnswer \in Answered
  BY FilesAssumption DEF Text, NoAnswer, Answered
<1>2. CacheTypeOK
  <2>1. index \in [generation : Nat, source : [Files -> Text], dirty : [Files -> Nat]]
    BY <1>1 DEF CacheInit
  <2>2. queue \in Seq(Files) /\ \A i, j \in DOMAIN queue : queue[i] = queue[j] => i = j
    BY DEF CacheInit
  <2>3. mux \in [pc : {"idle", "apply", "publish", "lookup", "push", "wake"},
                 file : Files \union {NoFile}, old : Text, key : Nat]
    BY <1>1 DEF CacheInit, MuxIdle
  <2>4. worker \in [pc : {"recv", "pop", "generation", "resolve", "put", "notify"},
                    file : Files \union {NoFile}, generation : Nat,
                    result : Answered]
    BY <1>1 DEF CacheInit, WorkerAt
  <2>5. poller \in [pc : {"idle", "compare", "index"},
                    file : Files \union {NoFile}, text : Nat, polls : Nat]
    BY DEF CacheInit, PollerIdle
  <2>6. hub \in [pc : {"idle", "mark", "forward", "invalidate"}, chan : Seq(Files),
                 generation : Nat, batch : Seq(Files), next : Nat]
    BY DEF CacheInit
  <2>7. worker.pc = "recv"
    BY DEF CacheInit, WorkerAt
  <2>. QED
    BY <1>1, <2>1, <2>2, <2>3, <2>4, <2>5, <2>6, <2>7 DEF CacheInit, CacheTypeOK
<1>3. InHand
  BY DEF CacheInit, InHand, MuxIdle, WorkerAt, PollerIdle
<1>4. Marked
  BY <1>1 DEF CacheInit, Marked
<1>5. Filled
  BY DEF CacheInit, Filled, WorkerAt
<1>. QED
  BY <1>2, <1>3, <1>4, <1>5 DEF CacheInv

(* A new position of the mux thread.                                       *)
MuxState ==
  [pc : {"idle", "apply", "publish", "lookup", "push", "wake"},
   file : Files \union {NoFile}, old : Text, key : Nat]

(* A step that moves the mux thread, the queue and the misses at most.      *)
LEMMA MuxMoves ==
  ASSUME CacheInv, NEW m \in MuxState, m.pc # "idle" => m.file \in Files,
         mux' = m,
         UNCHANGED << buffer, disk, index, engine, store, wakes, inflight, hub,
                      worker, poller, marks >>,
         queue' \in Seq(Files),
         \A i, j \in DOMAIN queue' : queue'[i] = queue'[j] => i = j,
         edits' \in Nat, queries' \in Nat, waiting' \in SUBSET Files
  PROVE  CacheInv'
<1>1. CacheTypeOK'
  <2>1. mux' \in [pc : {"idle", "apply", "publish", "lookup", "push", "wake"},
                  file : Files \union {NoFile}, old : Text, key : Nat]
    BY DEF MuxState
  <2>. QED
    BY <2>1 DEF CacheInv, CacheTypeOK
<1>2. InHand'
  BY DEF CacheInv, InHand
<1>3. Marked'
  BY IndexFields, MarkedKept DEF CacheInv
<1>4. Filled'
  BY FilledKept DEF CacheInv
<1>. QED
  BY <1>1, <1>2, <1>3, <1>4 DEF CacheInv

(* Editing, querying and missing add no mark and store nothing.            *)
LEMMA MuxInv ==
  ASSUME CacheInv, MuxStep \/ \E f \in Files : DidChange(f) \/ Query(f)
  PROVE  CacheInv'
<1>. USE DEF cache, ghosts
<1>0. mux \in MuxState /\ edits \in Nat /\ queries \in Nat
  BY DEF CacheInv, CacheTypeOK, MuxState
<1>0a. /\ waiting \in SUBSET Files /\ queue \in Seq(Files)
       /\ \A i, j \in DOMAIN queue : queue[i] = queue[j] => i = j
  BY DEF CacheInv, CacheTypeOK
<1>1. MuxIdle \in MuxState /\ MuxIdle.pc = "idle"
  BY DEF MuxIdle, MuxState, Text
<1>2. ASSUME NEW f \in Files, DidChange(f) PROVE CacheInv'
  <2>1. mux' \in MuxState /\ mux'.file \in Files
    <3>1. index.source[f] \in Text
      BY IndexFields DEF CacheInv
    <3>. QED
      BY <1>0, <1>2, <3>1 DEF DidChange, MuxState
  <2>2. buffer' \in [Files -> Nat]
    <3>1. buffer \in [Files -> Nat] /\ edits + 1 \in Nat
      BY <1>0 DEF CacheInv, CacheTypeOK
    <3>2. buffer' = [buffer EXCEPT ![f] = edits + 1]
      BY <1>2 DEF DidChange
    <3>. QED
      BY <3>1, <3>2
  <2>3. CacheTypeOK'
    BY <1>0, <1>2, <2>1, <2>2 DEF DidChange, CacheInv, CacheTypeOK, MuxState
  <2>4. InHand'
    BY <1>2, <2>1 DEF DidChange, CacheInv, InHand
  <2>5. UNCHANGED << index, engine, hub, worker, store, marks >>
    BY <1>2 DEF DidChange
  <2>6. Marked' /\ Filled'
    BY <2>5, IndexFields, MarkedKept, FilledKept DEF CacheInv
  <2>. QED
    BY <2>3, <2>4, <2>6 DEF CacheInv
<1>3. ASSUME NEW f \in Files, Query(f) PROVE CacheInv'
  <2>1. FileGeneration(f) \in Nat
    BY IndexFields DEF CacheInv
  <2>2. mux' \in MuxState /\ mux'.file \in Files
    BY <1>0, <1>3, <2>1 DEF Query, MuxState
  <2>3. queries' \in Nat
    <3>1. queries' = queries + 1
      BY <1>3 DEF Query
    <3>. QED
      BY <1>0, <3>1
  <2>. QED
    BY <1>0, <1>0a, <1>3, <2>2, <2>3, MuxMoves DEF Query
<1>4. CASE ApplyChange
  <2>1. mux' \in MuxState /\ mux'.file \in Files /\ mux.file \in Files
    BY <1>0, <1>4 DEF ApplyChange, MuxState, CacheInv, InHand
  <2>2. PICK text \in Text : IndexText(mux.file, text)
    <3>1. buffer[mux.file] \in Text /\ Torn \in Text
      BY <2>1 DEF CacheInv, CacheTypeOK, Text
    <3>. QED
      BY <1>4, <3>1 DEF ApplyChange
  <2>3. /\ index' \in [generation : Nat, source : [Files -> Text],
                       dirty : [Files -> Nat]]
        /\ index'.generation = index.generation + 1
        /\ index'.dirty = index.dirty
        /\ index.generation \in Nat
    BY <2>1, <2>2, IndexTextKeeps, IndexFields DEF CacheInv
  <2>4. CacheTypeOK'
    BY <1>4, <2>1, <2>3 DEF ApplyChange, CacheInv, CacheTypeOK, MuxState
  <2>5. InHand'
    BY <1>4, <2>1 DEF ApplyChange, CacheInv, InHand
  <2>6. Marked' /\ Filled'
    BY <1>4, <2>3, MarkedKept, FilledKept DEF ApplyChange, CacheInv
  <2>. QED
    BY <2>4, <2>5, <2>6 DEF CacheInv
<1>5. CASE PublishModify
  <2>1. mux' \in MuxState /\ mux'.pc = "idle" /\ mux.file \in Files
    BY <1>1, <1>5 DEF PublishModify, CacheInv, InHand
  <2>2. hub' = [hub EXCEPT !.chan = Append(hub.chan, mux.file)]
    BY <1>5 DEF PublishModify
  <2>3. /\ hub'.pc = hub.pc /\ hub'.generation = hub.generation
        /\ hub'.batch = hub.batch /\ hub'.next = hub.next
        /\ hub' \in [pc : {"idle", "mark", "forward", "invalidate"}, chan : Seq(Files),
                     generation : Nat, batch : Seq(Files), next : Nat]
    <3>1. Append(hub.chan, mux.file) \in Seq(Files)
      BY <2>1, HubFields DEF CacheInv
    <3>. QED
      BY <2>2, <3>1 DEF CacheInv, CacheTypeOK
  <2>4. CacheTypeOK'
    BY <1>5, <2>1, <2>3 DEF PublishModify, CacheInv, CacheTypeOK, MuxState
  <2>5. InHand'
    BY <1>5, <2>1, <2>3 DEF PublishModify, CacheInv, InHand
  <2>6. Marked' /\ Filled'
    BY <1>5, <2>3, IndexFields, MarkedKept, FilledKept DEF PublishModify, CacheInv
  <2>. QED
    BY <2>4, <2>5, <2>6 DEF CacheInv
<1>6. CASE Lookup
  <2>1. mux' \in MuxState /\ (mux'.pc # "idle" => mux'.file \in Files)
    BY <1>0, <1>1, <1>6 DEF Lookup, MuxState, CacheInv, InHand
  <2>. QED
    BY <1>0, <1>0a, <1>6, <2>1, MuxMoves DEF Lookup
<1>7. CASE MissPush
  <2>1. mux' \in MuxState /\ mux'.file \in Files /\ mux.file \in Files
    BY <1>0, <1>0a, <1>7 DEF MissPush, MuxState, CacheInv, InHand
  <2>2. /\ queue' \in Seq(Files)
        /\ \A i, j \in DOMAIN queue' : queue'[i] = queue'[j] => i = j
    BY <1>0, <1>0a, <1>7, <2>1 DEF MissPush
  <2>3. waiting' \in SUBSET Files
    BY <1>0, <1>0a, <1>7, <2>1 DEF MissPush
  <2>. QED
    BY <1>0, <1>0a, <1>7, <2>1, <2>2, <2>3, MuxMoves DEF MissPush
<1>8. CASE MissWake
  <2>1. mux' \in MuxState /\ mux'.pc = "idle" /\ wakes' \in Nat
    BY <1>1, <1>8 DEF MissWake, CacheInv, CacheTypeOK
  <2>2. CacheTypeOK'
    BY <1>8, <2>1 DEF MissWake, CacheInv, CacheTypeOK, MuxState
  <2>3. InHand'
    BY <1>8, <2>1 DEF MissWake, CacheInv, InHand
  <2>4. Marked' /\ Filled'
    BY <1>8, IndexFields, MarkedKept, FilledKept DEF MissWake, CacheInv
  <2>. QED
    BY <2>2, <2>3, <2>4 DEF CacheInv
<1>. QED
  BY <1>2, <1>3, <1>4, <1>5, <1>6, <1>7, <1>8 DEF MuxStep

(* A new position of the hub in its batch.                                 *)
HubState ==
  [pc : {"idle", "mark", "forward", "invalidate"}, chan : Seq(Files),
   generation : Nat, batch : Seq(Files), next : Nat]

(* The hub thread: a new batch is marked with a generation above all those *)
(* before it, while nothing is left of the batch before it to forward;     *)
(* invalidation only removes entries.                                      *)
LEMMA HubInvStep ==
  ASSUME CacheInv, HubStep
  PROVE  CacheInv'
<1>. USE DEF cache, ghosts
<1>0. /\ hub \in HubState /\ hub.chan \in Seq(Files) /\ hub.batch \in Seq(Files)
      /\ hub.generation \in Nat /\ hub.next \in Nat
  BY HubFields DEF CacheInv, CacheTypeOK, HubState
<1>. DEFINE f == hub.batch[hub.next]
<1>1. ASSUME hub.pc \in {"forward", "invalidate"}
      PROVE  /\ hub.next \in 1 .. Len(hub.batch) /\ f \in Files
             /\ Len(hub.batch) \in Nat /\ hub.batch # << >>
  <2>1. hub.next \in 1 .. Len(hub.batch) /\ hub.batch # << >>
    BY <1>1 DEF CacheInv, InHand
  <2>. QED
    BY <1>0, <2>1
<1>2. CASE HubFlush
  <2>1. /\ hub.chan # << >>
        /\ hub' = [pc |-> "mark", chan |-> << >>, generation |-> hub.generation + 1,
                    batch |-> hub.chan, next |-> hub.next]
    <3>1. hub' = [hub EXCEPT !.pc = "mark", !.batch = hub.chan, !.chan = << >>,
                             !.generation = hub.generation + 1]
      BY <1>2 DEF HubFlush
    <3>. QED
      BY <1>0, <1>2, <3>1 DEF HubFlush, HubState
  <2>2. hub' \in HubState /\ hub'.batch # << >> /\ hub'.pc = "mark"
        /\ hub'.generation = hub.generation + 1
    <3>1. /\ << >> \in Seq(Files) /\ hub.generation + 1 \in Nat
          /\ "mark" \in {"idle", "mark", "forward", "invalidate"}
      BY <1>0
    <3>2. /\ hub' \in HubState /\ hub'.pc = "mark" /\ hub'.batch = hub.chan
          /\ hub'.generation = hub.generation + 1
      BY <1>0, <2>1, <3>1 DEF HubState
    <3>. QED
      BY <2>1, <3>2
  <2>3. UNCHANGED << buffer, disk, index, engine, cache, mux, worker, poller,
                     edits, queries, ghosts >> /\ hub.pc = "idle"
    BY <1>2 DEF HubFlush
  <2>4. CacheTypeOK'
    BY <2>2, <2>3 DEF CacheInv, CacheTypeOK, HubState
  <2>5. InHand'
    BY <2>2, <2>3 DEF CacheInv, InHand
  <2>6. Marked'
    <3>1. \A h \in Files : \A m \in marks[h] : m <= hub.generation /\ m <= engine[h].at
      BY <2>3 DEF CacheInv, Marked, StillToForward
    <3>2. \A h \in Files : index.dirty[h] <= hub.generation
      BY DEF CacheInv, Marked
    <3>3. \A h \in Files : index.dirty[h] \in Nat /\ marks[h] \in SUBSET Nat
      BY IndexFields DEF CacheInv, CacheTypeOK
    <3>. QED
      BY <1>0, <2>2, <2>3, <3>1, <3>2, <3>3 DEF CacheInv, Marked
  <2>7. Filled'
    <3>1. ASSUME NEW h, NEW g \in Nat, NEW a, SeesEarlier(h, g, a)
          PROVE  SeesEarlier(h, g, a)'
      BY <1>0, <2>2, <2>3, <3>1 DEF SeesEarlier
    <3>2. worker.generation \in Nat /\ \A e \in store : e.generation \in Nat
      BY DEF CacheInv, CacheTypeOK, Entry
    <3>. QED
      BY <1>0, <2>2, <2>3, <3>1, <3>2 DEF CacheInv, Filled
  <2>. QED
    BY <2>4, <2>5, <2>6, <2>7 DEF CacheInv
<1>3. CASE ApplyWatchBatch
  <2>. DEFINE g == hub.generation
              dirty == [h \in Files |->
                IF h \in Batched /\ g > index.dirty[h] THEN g ELSE index.dirty[h]]
              gen == IF g > index.generation THEN g ELSE index.generation
  <2>1. /\ hub.pc = "mark"
        /\ index' = [index EXCEPT !.generation = gen, !.dirty = dirty]
        /\ marks' = [h \in Files |->
                       marks[h] \union (IF h \in Batched THEN {g} ELSE {})]
        /\ hub' = [hub EXCEPT !.pc = "forward", !.next = 1]
        /\ UNCHANGED << buffer, disk, engine, cache, mux, worker, poller, edits,
                        queries, waiting >>
    BY <1>3 DEF ApplyWatchBatch
  <2>2. index.generation \in Nat /\ \A h \in Files : index.dirty[h] \in Nat
    BY IndexFields DEF CacheInv
  <2>3. dirty \in [Files -> Nat] /\ gen \in Nat /\ gen >= index.generation
    BY <1>0, <2>2
  <2>4. /\ index'.generation = gen /\ index'.dirty = dirty
        /\ index' \in [generation : Nat, source : [Files -> Text],
                       dirty : [Files -> Nat]]
    <3>. HIDE DEF dirty, gen
    <3>. QED
      BY <2>1, <2>3 DEF CacheInv, CacheTypeOK
  <2>5. /\ hub' \in HubState /\ hub'.pc = "forward" /\ hub'.next = 1
        /\ hub'.batch = hub.batch /\ hub'.generation = g /\ hub.batch # << >>
        /\ Len(hub.batch) \in Nat /\ 1 \in 1 .. Len(hub.batch)
    <3>1. hub.batch # << >>
      BY <2>1 DEF CacheInv, InHand
    <3>2. hub' = [pc |-> "forward", chan |-> hub.chan, generation |-> hub.generation,
                    batch |-> hub.batch, next |-> 1]
      BY <1>0, <2>1 DEF HubState
    <3>2a. "forward" \in {"idle", "mark", "forward", "invalidate"} /\ 1 \in Nat
      OBVIOUS
    <3>3. hub' \in HubState /\ hub'.pc = "forward" /\ hub'.next = 1
          /\ hub'.batch = hub.batch /\ hub'.generation = g
      BY <1>0, <3>2, <3>2a DEF HubState
    <3>4. Len(hub.batch) \in Nat \ {0}
      BY <1>0, <3>1
    <3>. QED
      BY <3>1, <3>3, <3>4
  <2>6. \A h \in Files : marks[h] \in SUBSET Nat
    BY DEF CacheInv, CacheTypeOK
  <2>6a. marks' \in [Files -> SUBSET Nat]
    BY <1>0, <2>1, <2>6
  <2>7. CacheTypeOK'
    BY <2>1, <2>4, <2>5, <2>6a DEF CacheInv, CacheTypeOK, HubState
  <2>8. InHand'
    BY <2>1, <2>5 DEF CacheInv, InHand
  <2>9. Marked'
    <3>1. index'.generation >= IngestedFiles
      BY <2>2, <2>3, <2>4, FilesAssumption DEF CacheInv, Marked
    <3>2. ASSUME NEW h \in Files PROVE index'.dirty[h] <= hub'.generation
      <4>1. index.dirty[h] <= g
        BY DEF CacheInv, Marked
      <4>. QED
        BY <1>0, <2>2, <2>4, <2>5, <4>1
    <3>3. ASSUME NEW h \in Files, NEW m \in marks'[h]
          PROVE  /\ m <= hub'.generation
                 /\ m <= engine'[h].at \/ (m = hub'.generation /\ StillToForward(h)')
      <4>1. CASE m \in marks[h]
        BY <2>1, <2>5, <4>1 DEF CacheInv, Marked, StillToForward
      <4>2. CASE m \notin marks[h]
        <5>1. h \in Batched /\ m = g
          BY <2>1, <4>2
        <5>2. PICK i \in DOMAIN hub.batch : hub.batch[i] = h
          BY <5>1 DEF Batched
        <5>3. i \in 1 .. Len(hub.batch)
          BY <1>0, <5>2
        <5>4. StillToForward(h)'
          BY <2>5, <5>2, <5>3 DEF StillToForward
        <5>. QED
          BY <1>0, <2>5, <5>1, <5>4
      <4>. QED
        BY <4>1, <4>2
    <3>. QED
      BY <3>1, <3>2, <3>3 DEF Marked
  <2>10. Filled'
    <3>1. ASSUME NEW h \in Files, NEW n \in Nat, NEW a, SeesEarlier(h, n, a)
          PROVE  SeesEarlier(h, n, a)'
      BY <1>0, <2>1, <2>5, <3>1 DEF SeesEarlier
    <3>2. /\ worker.generation \in Nat
          /\ worker.pc \in {"put", "notify"} => worker.file \in Files
          /\ \A e \in store : e.generation \in Nat /\ e.file \in Files
      BY DEF CacheInv, CacheTypeOK, Entry, InHand
    <3>. QED
      BY <2>1, <2>5, <3>1, <3>2 DEF CacheInv, Filled
  <2>. QED
    BY <2>7, <2>8, <2>9, <2>10 DEF CacheInv
<1>4. CASE ForwardDidChange
  <2>. DEFINE last == hub.next = Len(hub.batch)
  <2>1. /\ hub.pc = "forward"
        /\ engine' = [engine EXCEPT ![f] =
                        [text |-> index.source[f], at |-> hub.generation]]
        /\ hub' = [hub EXCEPT !.pc = IF last THEN "invalidate" ELSE "forward",
                              !.next = IF last THEN 1 ELSE hub.next + 1]
        /\ UNCHANGED << buffer, disk, index, cache, mux, worker, poller, edits,
                        queries, ghosts >>
    BY <1>4 DEF ForwardDidChange
  <2>2. /\ hub.next \in 1 .. Len(hub.batch) /\ f \in Files
        /\ Len(hub.batch) \in Nat /\ hub.batch # << >>
    BY <1>1, <2>1
  <2>3. /\ hub' \in HubState /\ hub'.batch = hub.batch
        /\ hub'.generation = hub.generation
        /\ hub'.pc = IF last THEN "invalidate" ELSE "forward"
        /\ hub'.next = IF last THEN 1 ELSE hub.next + 1
    <3>. DEFINE p == IF last THEN "invalidate" ELSE "forward"
                n == IF last THEN 1 ELSE hub.next + 1
    <3>1. p \in {"idle", "mark", "forward", "invalidate"} /\ n \in Nat
      BY <1>0
    <3>2. hub' = [pc |-> p, chan |-> hub.chan, generation |-> hub.generation,
                    batch |-> hub.batch, next |-> n]
      BY <1>0, <2>1 DEF HubState
    <3>. HIDE DEF p, n
    <3>3. hub' \in HubState /\ hub'.batch = hub.batch
          /\ hub'.generation = hub.generation /\ hub'.pc = p /\ hub'.next = n
      BY <1>0, <3>1, <3>2 DEF HubState
    <3>. QED
      BY <3>3 DEF p, n
  <2>4. /\ engine' \in [Files -> Answered]
        /\ \A h \in Files : engine'[h].at = IF h = f THEN hub.generation
                                                     ELSE engine[h].at
    <3>1. [text |-> index.source[f], at |-> hub.generation] \in Answered
      BY <1>0, <2>2, IndexFields DEF CacheInv, Answered
    <3>2. engine \in [Files -> Answered]
      BY DEF CacheInv, CacheTypeOK
    <3>3. \A h \in Files : engine'[h] =
            IF h = f THEN [text |-> index.source[f], at |-> hub.generation]
                     ELSE engine[h]
      BY <2>1, <3>2
    <3>. QED
      BY <2>1, <2>2, <3>1, <3>2, <3>3
  <2>5. CacheTypeOK'
    BY <2>1, <2>3, <2>4 DEF CacheInv, CacheTypeOK, HubState
  <2>6. hub'.next \in 1 .. Len(hub'.batch)
    BY <2>2, <2>3
  <2>7. InHand'
    BY <2>1, <2>2, <2>3, <2>6 DEF CacheInv, InHand
  <2>8. Marked'
    <3>1. ASSUME NEW h \in Files, NEW m \in marks[h]
          PROVE  m <= engine'[h].at \/ (m = hub'.generation /\ StillToForward(h)')
      <4>1. m <= hub.generation /\ (m <= engine[h].at
              \/ (m = hub.generation /\ StillToForward(h)))
        BY DEF CacheInv, Marked
      <4>2. CASE h = f
        BY <2>2, <2>4, <4>1, <4>2
      <4>3. CASE h # f /\ m <= engine[h].at
        BY <2>4, <4>3
      <4>4. CASE h # f /\ m = hub.generation /\ StillToForward(h)
        <5>1. PICK i \in hub.next .. Len(hub.batch) : hub.batch[i] = h
          BY <4>4 DEF StillToForward
        <5>2. i # hub.next
          BY <4>4, <5>1
        <5>3. i \in hub.next + 1 .. Len(hub.batch) /\ ~last
          BY <1>0, <2>2, <5>1, <5>2
        <5>4. StillToForward(h)'
          BY <2>3, <5>1, <5>3 DEF StillToForward
        <5>. QED
          BY <2>3, <4>4, <5>4
      <4>. QED
        BY <4>1, <4>2, <4>3, <4>4
    <3>. QED
      BY <2>1, <2>3, <3>1 DEF CacheInv, Marked
  <2>9. Filled'
    BY <2>1, <2>3, FilledKept DEF CacheInv
  <2>. QED
    BY <2>5, <2>7, <2>8, <2>9 DEF CacheInv
<1>5. CASE Invalidate
  <2>. DEFINE last == hub.next = Len(hub.batch)
  <2>1. /\ hub.pc = "invalidate"
        /\ store' \subseteq store
        /\ hub' = [hub EXCEPT !.pc = IF last THEN "idle" ELSE "invalidate",
                              !.batch = IF last THEN << >> ELSE hub.batch,
                              !.next = IF last THEN 1 ELSE hub.next + 1]
        /\ UNCHANGED << buffer, disk, index, engine, queue, wakes, inflight, mux,
                        worker, poller, edits, queries, ghosts >>
    BY <1>5 DEF Invalidate
  <2>2. /\ hub.next \in 1 .. Len(hub.batch)
        /\ Len(hub.batch) \in Nat /\ hub.batch # << >>
    BY <1>1, <2>1
  <2>3. /\ hub' \in HubState /\ hub'.generation = hub.generation
        /\ hub'.pc = IF last THEN "idle" ELSE "invalidate"
        /\ ~last => hub'.batch = hub.batch /\ hub'.next = hub.next + 1
    <3>. DEFINE p == IF last THEN "idle" ELSE "invalidate"
                b == IF last THEN << >> ELSE hub.batch
                n == IF last THEN 1 ELSE hub.next + 1
    <3>1. /\ p \in {"idle", "mark", "forward", "invalidate"}
          /\ b \in Seq(Files) /\ n \in Nat
      BY <1>0
    <3>2. hub' = [pc |-> p, chan |-> hub.chan, generation |-> hub.generation,
                    batch |-> b, next |-> n]
      BY <1>0, <2>1 DEF HubState
    <3>. HIDE DEF p, b, n
    <3>3. hub' \in HubState /\ hub'.batch = b
          /\ hub'.generation = hub.generation /\ hub'.pc = p /\ hub'.next = n
      BY <1>0, <3>1, <3>2 DEF HubState
    <3>. QED
      BY <3>3 DEF p, b, n
  <2>4. CacheTypeOK'
    BY <2>1, <2>3 DEF CacheInv, CacheTypeOK, HubState
  <2>5. InHand'
    <3>1. ~last => hub.next + 1 \in 1 .. Len(hub.batch)
      BY <2>2
    <3>. QED
      BY <2>1, <2>2, <2>3, <3>1 DEF CacheInv, InHand
  <2>6. Marked'
    BY <2>1, <2>3 DEF CacheInv, Marked, StillToForward
  <2>7. Filled'
    BY <2>1, <2>3 DEF CacheInv, Filled, SeesEarlier
  <2>. QED
    BY <2>4, <2>5, <2>6, <2>7 DEF CacheInv
<1>. QED
  BY <1>2, <1>3, <1>4, <1>5 DEF HubStep

(* What the worker is doing.                                               *)
WorkerState ==
  [pc : {"recv", "pop", "generation", "resolve", "put", "notify"},
   file : Files \union {NoFile}, generation : Nat, result : Answered]

LEMMA WorkerPlaces ==
  /\ WorkerAt("recv") \in WorkerState /\ WorkerAt("pop") \in WorkerState
  /\ WorkerAt("recv").pc = "recv" /\ WorkerAt("pop").pc = "pop"
<1>1. NoAnswer \in Answered
  BY DEF NoAnswer, Answered, Text
<1>. QED
  BY <1>1 DEF WorkerAt, WorkerState

(* A worker that moves on leaves the other threads where they are.         *)
LEMMA WorkerMoves ==
  ASSUME CacheInv, worker' \in WorkerState,
         worker'.pc \notin {"recv", "pop"} => worker'.file \in Files,
         UNCHANGED worked,
         store' \in SUBSET Entry, queue' \in Seq(Files), wakes' \in Nat,
         \A i, j \in DOMAIN queue' : queue'[i] = queue'[j] => i = j,
         inflight' = IF worker'.pc \in {"generation", "resolve"}
                       THEN {worker'.file} ELSE {},
         waiting' \in SUBSET Files,
         Filled'
  PROVE  CacheInv'
<1>. USE DEF worked
<1>1. CacheTypeOK'
  BY DEF CacheInv, CacheTypeOK, WorkerState
<1>2. InHand'
  BY DEF CacheInv, InHand
<1>3. Marked'
  BY IndexFields, MarkedKept DEF CacheInv
<1>. QED
  BY <1>1, <1>2, <1>3 DEF CacheInv

(* The worker reads a generation that is a mark already made, so every     *)
(* earlier mark has reached the engine when it answers afterwards.         *)
LEMMA WorkerInv ==
  ASSUME CacheInv, WorkerStep
  PROVE  CacheInv'
<1>0. /\ worker \in WorkerState /\ store \in SUBSET Entry /\ queue \in Seq(Files)
      /\ wakes \in Nat /\ waiting \in SUBSET Files
      /\ inflight = IF worker.pc \in {"generation", "resolve"}
                      THEN {worker.file} ELSE {}
  BY DEF CacheInv, CacheTypeOK, WorkerState
<1>0a. \A i, j \in DOMAIN queue : queue[i] = queue[j] => i = j
  BY DEF CacheInv, CacheTypeOK
<1>0b. worker.pc \notin {"recv", "pop"} => worker.file \in Files
  BY DEF CacheInv, InHand
<1>0c. \A e \in store : SeesEarlier(e.file, e.generation, e.result)
  BY DEF CacheInv, Filled
(* Nothing is known of a worker that has not asked the engine.             *)
<1>1. ASSUME UNCHANGED << worked, store >>, worker'.pc \in {"recv", "pop", "generation"}
      PROVE  Filled'
  BY <1>0c, <1>1 DEF Filled, SeesEarlier, worked
<1>2. CASE WorkerRecv
  <2>1. /\ worker' = WorkerAt("pop") /\ wakes' \in Nat
        /\ worker.pc = "recv"
        /\ UNCHANGED << worked, store, queue, inflight, waiting >>
    BY <1>0, <1>2 DEF WorkerRecv
  <2>2. Filled'
    BY <1>1, <2>1, WorkerPlaces
  <2>. QED
    BY <1>0, <1>0a, <2>1, <2>2, WorkerPlaces, WorkerMoves
<1>3. CASE WorkerPop /\ queue = << >>
  <2>1. /\ worker' = WorkerAt("recv") /\ worker.pc = "pop"
        /\ UNCHANGED << worked, store, queue, wakes, inflight, waiting >>
    BY <1>3 DEF WorkerPop
  <2>2. Filled'
    BY <1>1, <2>1, WorkerPlaces
  <2>. QED
    BY <1>0, <1>0a, <2>1, <2>2, WorkerPlaces, WorkerMoves
<1>4. CASE WorkerPop /\ queue # << >>
  <2>1. /\ queue' = Tail(queue) /\ inflight' = inflight \union {Head(queue)}
        /\ worker' = [worker EXCEPT !.pc = "generation", !.file = Head(queue)]
        /\ worker.pc = "pop"
        /\ UNCHANGED << worked, store, wakes, waiting >>
    BY <1>4 DEF WorkerPop
  <2>2. /\ Head(queue) \in Files /\ queue' \in Seq(Files)
        /\ \A i, j \in DOMAIN queue' : queue'[i] = queue'[j] => i = j
    BY <1>0, <1>0a, <1>4, <2>1
  <2>3. worker' \in WorkerState /\ worker'.pc = "generation" /\ worker'.file = Head(queue)
    BY <1>0, <2>1, <2>2 DEF WorkerState
  <2>4. Filled'
    BY <1>1, <2>1, <2>3
  <2>. QED
    BY <1>0, <2>1, <2>2, <2>3, <2>4, WorkerMoves
<1>5. CASE WorkerGeneration
  <2>1. /\ worker' = [worker EXCEPT !.pc = "resolve",
                                    !.generation = FileGeneration(worker.file)]
        /\ worker.pc = "generation" /\ worker.file \in Files
        /\ UNCHANGED << worked, store, queue, wakes, inflight, waiting >>
    BY <1>0b, <1>5 DEF WorkerGeneration, cache
  <2>2. FileGeneration(worker.file) \in Nat
    BY <2>1, IndexFields DEF CacheInv
  <2>3. /\ worker' \in WorkerState /\ worker'.pc = "resolve"
        /\ worker'.file = worker.file
        /\ worker'.generation = FileGeneration(worker.file)
    BY <1>0, <2>1, <2>2 DEF WorkerState
  <2>4. FileGeneration(worker.file) < IngestedFiles =>
          FileGeneration(worker.file) <= hub.generation
    <3>1. index.generation >= IngestedFiles /\ index.dirty[worker.file] <= hub.generation
      BY <2>1 DEF CacheInv, Marked
    <3>2. IngestedFiles \in Nat /\ index.generation \in Nat
      BY FilesAssumption, IndexFields DEF CacheInv
    <3>. QED
      BY <3>1, <3>2 DEF FileGeneration
  <2>5. Filled'
    BY <1>0c, <2>1, <2>3, <2>4 DEF Filled, SeesEarlier, worked
  <2>. QED
    BY <1>0, <1>0a, <2>1, <2>3, <2>5, WorkerMoves
<1>6. ASSUME WorkerResolve, worker' = [worker EXCEPT !.pc = "put",
                                             !.result = engine[worker.file]],
             UNCHANGED waiting
      PROVE  CacheInv'
  <2>1. /\ worker.pc = "resolve" /\ worker.file \in Files
        /\ inflight' = inflight \ {worker.file}
        /\ UNCHANGED << worked, store, queue, wakes, waiting >>
    BY <1>0b, <1>6 DEF WorkerResolve
  <2>2. engine[worker.file] \in Answered
    BY <2>1 DEF CacheInv, CacheTypeOK
  <2>3. /\ worker' \in WorkerState /\ worker'.pc = "put"
        /\ worker'.file = worker.file /\ worker'.generation = worker.generation
        /\ worker'.result = engine[worker.file]
    BY <1>0, <1>6, <2>2 DEF WorkerState
  <2>4. SeesEarlier(worker.file, worker.generation, engine[worker.file])
    <3>1. /\ worker.generation \in Nat /\ hub.generation \in Nat
          /\ marks[worker.file] \in SUBSET Nat
      BY <2>1, HubFields, WorkerFields DEF CacheInv, CacheTypeOK
    <3>2. worker.generation < IngestedFiles => worker.generation <= hub.generation
      BY <2>1 DEF CacheInv, Filled
    <3>3. \A m \in marks[worker.file] :
            m <= engine[worker.file].at \/ m = hub.generation
      BY <2>1 DEF CacheInv, Marked
    <3>. QED
      BY <3>1, <3>2, <3>3 DEF SeesEarlier
  <2>5. Filled'
    BY <1>0c, <2>1, <2>3, <2>4 DEF Filled, SeesEarlier, worked
  <2>. QED
    BY <1>0, <1>0a, <2>1, <2>3, <2>5, WorkerMoves
<1>7. ASSUME WorkerResolve, worker' = WorkerAt("pop"), waiting' = waiting \ {worker.file}
      PROVE  CacheInv'
  <2>1. /\ worker.pc = "resolve" /\ inflight' = inflight \ {worker.file}
        /\ UNCHANGED << worked, store, queue, wakes >>
    BY <1>7 DEF WorkerResolve
  <2>2. Filled'
    BY <1>1, <1>7, <2>1, WorkerPlaces
  <2>3. waiting' \in SUBSET Files /\ inflight' = {}
    BY <1>0, <1>7, <2>1
  <2>. QED
    BY <1>0, <1>0a, <1>7, <2>1, <2>2, <2>3, WorkerPlaces, WorkerMoves
<1>8. CASE WorkerPut
  <2>. DEFINE new == [file |-> worker.file, generation |-> worker.generation,
                      result |-> worker.result]
  <2>1. /\ worker.pc = "put" /\ worker.file \in Files
        /\ worker' = [worker EXCEPT !.pc = "notify"]
        /\ store' \subseteq store \union {new}
        /\ UNCHANGED << worked, queue, wakes, inflight, waiting >>
    BY <1>0b, <1>8 DEF WorkerPut
  <2>2. /\ worker' \in WorkerState /\ worker'.pc = "notify"
        /\ worker'.file = worker.file /\ worker'.generation = worker.generation
        /\ worker'.result = worker.result
    BY <1>0, <2>1 DEF WorkerState
  <2>3. new \in Entry
    BY <2>1, WorkerFields DEF CacheInv, Entry
  <2>4. store' \in SUBSET Entry
    BY <1>0, <2>1, <2>3
  <2>5. SeesEarlier(worker.file, worker.generation, worker.result)
    BY <2>1 DEF CacheInv, Filled
  <2>6. \A e \in store' : SeesEarlier(e.file, e.generation, e.result)
    BY <1>0c, <2>1, <2>5
  <2>7. Filled'
    BY <2>1, <2>2, <2>5, <2>6 DEF Filled, SeesEarlier, worked
  <2>. QED
    BY <1>0, <1>0a, <2>1, <2>2, <2>4, <2>7, WorkerMoves
<1>9. CASE CacheReady
  <2>1. /\ worker.pc = "notify" /\ worker' = WorkerAt("pop")
        /\ waiting' = waiting \ {worker.file}
        /\ UNCHANGED << worked, store, queue, wakes, inflight >>
    BY <1>9 DEF CacheReady, cache
  <2>2. Filled'
    BY <1>1, <2>1, WorkerPlaces
  <2>3. waiting' \in SUBSET Files
    BY <1>0, <2>1
  <2>. QED
    BY <1>0, <1>0a, <2>1, <2>2, <2>3, WorkerPlaces, WorkerMoves
<1>10. WorkerResolve => CacheInv'
  <2>1. WorkerResolve =>
          \/ /\ worker' = [worker EXCEPT !.pc = "put", !.result = engine[worker.file]]
             /\ UNCHANGED waiting
          \/ /\ worker' = WorkerAt("pop")
             /\ waiting' = waiting \ {worker.file}
    BY DEF WorkerResolve
  <2>. QED
    BY <1>6, <1>7, <2>1
<1>. QED
  BY <1>2, <1>3, <1>4, <1>5, <1>8, <1>9, <1>10 DEF WorkerStep

(* The control thread indexes, or looks and does not.                      *)
PollerState ==
  [pc : {"idle", "compare", "index"}, file : Files \union {NoFile}, text : Nat,
   polls : Nat]

(* Reindexing from disk and saving to it move the index, not the marks.    *)
LEMMA PollerInv ==
  ASSUME CacheInv,
         PollCompare \/ PollIndex \/ \E f \in Files : PollRead(f) \/ Save(f)
  PROVE  CacheInv'
<1>. USE DEF polled, cache, ghosts
<1>0. /\ poller \in PollerState /\ buffer \in [Files -> Nat] /\ disk \in [Files -> Nat]
  BY DEF CacheInv, CacheTypeOK, PollerState
<1>1. PollerIdle(poller.polls) \in PollerState /\ PollerIdle(poller.polls).pc = "idle"
  BY <1>0 DEF PollerIdle, PollerState
<1>2. ASSUME UNCHANGED << polled, index >>, poller' \in PollerState,
             poller'.pc # "idle" => poller'.file \in Files
      PROVE  CacheInv'
  <2>1. CacheTypeOK'
    BY <1>2 DEF CacheInv, CacheTypeOK, PollerState
  <2>2. InHand'
    BY <1>2 DEF CacheInv, InHand
  <2>3. Marked' /\ Filled'
    BY <1>2, IndexFields, MarkedKept, FilledKept DEF CacheInv
  <2>. QED
    BY <2>1, <2>2, <2>3 DEF CacheInv
<1>3. ASSUME NEW f \in Files, PollRead(f)  PROVE CacheInv'
  <2>1. /\ poller' = [pc |-> "compare", file |-> f, text |-> disk[f],
                      polls |-> poller.polls + 1]
        /\ UNCHANGED << polled, index >>
    BY <1>3 DEF PollRead
  <2>2. poller' \in PollerState /\ poller'.file = f
    BY <1>0, <2>1 DEF PollerState
  <2>. QED
    BY <1>2, <2>1, <2>2
<1>4. CASE PollCompare
  <2>1. poller' \in PollerState /\ (poller'.pc # "idle" => poller'.file \in Files)
    BY <1>0, <1>1, <1>4 DEF PollCompare, PollerState, CacheInv, InHand
  <2>. QED
    BY <1>2, <1>4, <2>1 DEF PollCompare
<1>5. CASE PollIndex
  <2>1. /\ poller.file \in Files /\ poller.text \in Text
        /\ IndexText(poller.file, poller.text)
        /\ poller' = PollerIdle(poller.polls) /\ UNCHANGED polled
    BY <1>0, <1>5 DEF PollIndex, PollerState, CacheInv, InHand, Text
  <2>2. /\ index' \in [generation : Nat, source : [Files -> Text],
                       dirty : [Files -> Nat]]
        /\ index'.generation = index.generation + 1
        /\ index'.dirty = index.dirty
        /\ index.generation \in Nat
    BY <2>1, IndexTextKeeps, IndexFields DEF CacheInv
  <2>a. poller' \in [pc : {"idle", "compare", "index"},
                     file : Files \union {NoFile}, text : Nat, polls : Nat]
    BY <1>1, <2>1 DEF PollerState
  <2>3. CacheTypeOK'
    <3>1. CacheTypeOK
      BY DEF CacheInv
    <3>2. UNCHANGED << buffer, disk, engine, store, queue, wakes, inflight, mux,
                       hub, worker, edits, queries, waiting, marks >>
      BY <2>1 DEF polled, cache, ghosts
    <3>3. /\ inflight' = IF worker'.pc \in {"generation", "resolve"}
                           THEN {worker'.file} ELSE {}
          /\ mux' \in [pc : {"idle", "apply", "publish", "lookup", "push", "wake"},
                       file : Files \union {NoFile}, old : Text, key : Nat]
          /\ hub' \in [pc : {"idle", "mark", "forward", "invalidate"},
                       chan : Seq(Files), generation : Nat, batch : Seq(Files),
                       next : Nat]
          /\ worker' \in [pc : {"recv", "pop", "generation", "resolve", "put",
                                "notify"},
                          file : Files \union {NoFile}, generation : Nat,
                          result : Answered]
      BY <3>1, <3>2 DEF CacheTypeOK
    <3>4. /\ buffer' \in [Files -> Nat] /\ disk' \in [Files -> Nat]
          /\ engine' \in [Files -> Answered] /\ store' \in SUBSET Entry
          /\ queue' \in Seq(Files)
          /\ \A i, j \in DOMAIN queue' : queue'[i] = queue'[j] => i = j
          /\ wakes' \in Nat /\ edits' \in Nat /\ queries' \in Nat
          /\ waiting' \in SUBSET Files /\ marks' \in [Files -> SUBSET Nat]
      BY <3>1, <3>2 DEF CacheTypeOK
    <3>. QED
      BY <2>2, <2>a, <3>3, <3>4, Zenon DEF CacheTypeOK
  <2>4. InHand'
    BY <1>1, <2>1 DEF CacheInv, InHand
  <2>5. Marked' /\ Filled'
    BY <2>1, <2>2, MarkedKept, FilledKept DEF CacheInv
  <2>. QED
    BY <2>3, <2>4, <2>5 DEF CacheInv
<1>6. ASSUME NEW f \in Files, Save(f)  PROVE CacheInv'
  <2>1. disk' = [disk EXCEPT ![f] = buffer[f]]
        /\ UNCHANGED << buffer, index, engine, cache, mux, hub, worker, poller, edits,
                        queries, ghosts >>
    BY <1>6 DEF Save
  <2>2. disk' \in [Files -> Nat]
    BY <1>0, <2>1
  <2>3. CacheTypeOK'
    <3>1. CacheTypeOK
      BY DEF CacheInv
    <3>2. UNCHANGED << buffer, index, engine, store, queue, wakes, inflight, mux,
                       hub, worker, poller, edits, queries, waiting, marks >>
      BY <2>1 DEF cache, ghosts
    <3>3. /\ inflight' = IF worker'.pc \in {"generation", "resolve"}
                           THEN {worker'.file} ELSE {}
          /\ mux' \in [pc : {"idle", "apply", "publish", "lookup", "push", "wake"},
                       file : Files \union {NoFile}, old : Text, key : Nat]
          /\ hub' \in [pc : {"idle", "mark", "forward", "invalidate"},
                       chan : Seq(Files), generation : Nat, batch : Seq(Files),
                       next : Nat]
          /\ worker' \in [pc : {"recv", "pop", "generation", "resolve", "put",
                                "notify"},
                          file : Files \union {NoFile}, generation : Nat,
                          result : Answered]
          /\ poller' \in [pc : {"idle", "compare", "index"},
                          file : Files \union {NoFile}, text : Nat, polls : Nat]
      BY <3>1, <3>2 DEF CacheTypeOK
    <3>4. /\ buffer' \in [Files -> Nat]
          /\ index' \in [generation : Nat, source : [Files -> Text],
                         dirty : [Files -> Nat]]
          /\ engine' \in [Files -> Answered] /\ store' \in SUBSET Entry
          /\ queue' \in Seq(Files)
          /\ \A i, j \in DOMAIN queue' : queue'[i] = queue'[j] => i = j
          /\ wakes' \in Nat /\ edits' \in Nat /\ queries' \in Nat
          /\ waiting' \in SUBSET Files /\ marks' \in [Files -> SUBSET Nat]
      BY <3>1, <3>2 DEF CacheTypeOK
    <3>. QED
      BY <2>2, <3>3, <3>4, Zenon DEF CacheTypeOK
  <2>4. InHand'
    BY <2>1 DEF CacheInv, InHand
  <2>5. Marked' /\ Filled'
    BY <2>1, IndexFields, MarkedKept, FilledKept DEF CacheInv
  <2>. QED
    BY <2>3, <2>4, <2>5 DEF CacheInv
<1>. QED
  BY <1>3, <1>4, <1>5, <1>6

(* Every step of every thread keeps the invariant.                         *)
LEMMA CacheNextInv ==
  ASSUME CacheInv, [CacheNext]_cachevars
  PROVE  CacheInv'
<1>1. CASE UNCHANGED cachevars
  <2>1. CacheTypeOK
    BY DEF CacheInv
  <2>2. UNCHANGED << buffer, disk, index, engine, store, queue, wakes, inflight, mux,
                     hub, worker, poller, edits, queries, waiting, marks >>
    BY <1>1 DEF cachevars
  <2>3. /\ inflight' = IF worker'.pc \in {"generation", "resolve"}
                         THEN {worker'.file} ELSE {}
        /\ mux' \in [pc : {"idle", "apply", "publish", "lookup", "push", "wake"},
                     file : Files \union {NoFile}, old : Text, key : Nat]
        /\ hub' \in [pc : {"idle", "mark", "forward", "invalidate"},
                     chan : Seq(Files), generation : Nat, batch : Seq(Files),
                     next : Nat]
        /\ worker' \in [pc : {"recv", "pop", "generation", "resolve", "put",
                              "notify"},
                        file : Files \union {NoFile}, generation : Nat,
                        result : Answered]
        /\ poller' \in [pc : {"idle", "compare", "index"},
                        file : Files \union {NoFile}, text : Nat, polls : Nat]
    BY <2>1, <2>2 DEF CacheTypeOK
  <2>4. /\ buffer' \in [Files -> Nat] /\ disk' \in [Files -> Nat]
        /\ index' \in [generation : Nat, source : [Files -> Text],
                       dirty : [Files -> Nat]]
        /\ engine' \in [Files -> Answered] /\ store' \in SUBSET Entry
        /\ queue' \in Seq(Files)
        /\ \A i, j \in DOMAIN queue' : queue'[i] = queue'[j] => i = j
        /\ wakes' \in Nat /\ edits' \in Nat /\ queries' \in Nat
        /\ waiting' \in SUBSET Files /\ marks' \in [Files -> SUBSET Nat]
    BY <2>1, <2>2 DEF CacheTypeOK
  <2>5. CacheTypeOK'
    BY <2>3, <2>4, Zenon DEF CacheTypeOK
  <2>6. InHand' /\ Marked' /\ Filled'
    BY <2>2 DEF CacheInv, InHand, Marked, StillToForward, Filled, SeesEarlier
  <2>. QED
    BY <2>5, <2>6 DEF CacheInv
<1>. QED
  BY <1>1, MuxInv, HubInvStep, WorkerInv, PollerInv DEF CacheNext

(* Every variable of the cache keeps its type; the builder's queue holds a *)
(* miss once (BuilderQueue::push, engine_builder.rs) and its in-flight set *)
(* holds exactly what the worker is resolving, so that no miss is turned   *)
(* away by a key left in flight.                                           *)
THEOREM CacheTypeCorrect == CacheSpec => []CacheTypeOK
<1>1. CacheInv => CacheTypeOK
  BY DEF CacheInv
<1>. QED
  BY <1>1, CacheInitInv, CacheNextInv, PTL DEF CacheSpec

(* An answer in the cache under a hub generation was computed by an engine *)
(* that had been sent every batch of that file but, at most, the one that  *)
(* made the generation: however the worker's read of the generation, its   *)
(* engine call and its put (engine_builder.rs) fall between the marking,   *)
(* forwarding and invalidation of batches on the hub thread.  A generation *)
(* below IngestedFiles is a hub generation; from there on a key may carry  *)
(* the index's own, and nothing is claimed of it.                          *)
THEOREM NeverMoreThanOneBehind == CacheSpec => []AtMostOneBatchBehind
<1>1. CacheInv => AtMostOneBatchBehind
  BY DEF CacheInv, Filled, SeesEarlier, AtMostOneBatchBehind
<1>. QED
  BY <1>1, CacheInitInv, CacheNextInv, PTL DEF CacheSpec

(* A miss that no CacheReady has answered yet is queued or in the worker's *)
(* hands, and a queue with a miss has a wake in its channel, a worker that *)
(* is awake, or the mux thread about to wake it.                           *)
Queued(f) == \E i \in DOMAIN queue : queue[i] = f

MissIsOnItsWay ==
  /\ \A f \in waiting : Queued(f) \/ (worker.pc \notin {"recv", "pop"} /\ worker.file = f)
  /\ queue # << >> => wakes > 0 \/ worker.pc # "recv" \/ mux.pc = "wake"

(* Steps of the other threads leave the queue, its wakes, the worker and   *)
(* the misses alone, and no mux step but MissWake ends a wake.             *)
LEMMA MissKept ==
  ASSUME MissIsOnItsWay, UNCHANGED << queue, wakes, worker, waiting >>,
         mux.pc = "wake" => mux'.pc = "wake"
  PROVE  MissIsOnItsWay'
  BY DEF MissIsOnItsWay, Queued

(* Popping the queue leaves the misses behind its head queued.             *)
LEMMA PopKeepsRest ==
  ASSUME NEW q \in Seq(Files), q # << >>, NEW i \in DOMAIN q, i # 1
  PROVE  i - 1 \in DOMAIN Tail(q) /\ Tail(q)[i - 1] = q[i]
  OBVIOUS

(* The mux thread queues a miss before it waits for it, and owes a wake    *)
(* from then on.                                                           *)
LEMMA MuxKeepsMiss ==
  ASSUME CacheInv, MissIsOnItsWay,
         MuxStep \/ \E f \in Files : DidChange(f) \/ Query(f)
  PROVE  MissIsOnItsWay'
<1>. USE DEF cache, ghosts
<1>1. mux \in MuxState /\ queue \in Seq(Files) /\ wakes \in Nat /\ InHand
  BY DEF CacheInv, CacheTypeOK, MuxState
<1>2. ASSUME NEW f \in Files, DidChange(f) \/ Query(f)  PROVE MissIsOnItsWay'
  BY <1>2, MissKept DEF DidChange, Query
<1>3. CASE ApplyChange \/ PublishModify \/ Lookup
  BY <1>3, MissKept DEF ApplyChange, PublishModify, Lookup
<1>4. CASE MissPush
  <2>1. /\ mux'.pc = "wake" /\ mux'.file = mux.file /\ UNCHANGED << worker, wakes >>
        /\ waiting' = waiting \union {mux.file} /\ mux.file \in Files
        /\ queue' = IF Queued(mux.file) THEN queue ELSE Append(queue, mux.file)
    BY <1>1, <1>4 DEF MissPush, MuxState, InHand, Queued
  <2>2. \A f : Queued(f) => Queued(f)'
    BY <1>1, <2>1 DEF Queued
  <2>3. Queued(mux.file)'
    <3>1. CASE Queued(mux.file)
      BY <2>1, <3>1 DEF Queued
    <3>2. CASE ~Queued(mux.file)
      <4>1. queue' = Append(queue, mux.file)
        BY <2>1, <3>2
      <4>2. Len(queue) + 1 \in DOMAIN queue' /\ queue'[Len(queue) + 1] = mux.file
        BY <1>1, <2>1, <4>1
      <4>3. \E i \in DOMAIN queue' : queue'[i] = mux.file
        BY <4>2
      <4>. QED
        BY <2>1, <4>3 DEF Queued
    <3>. QED
      BY <3>1, <3>2
  <2>. QED
    BY <2>1, <2>2, <2>3 DEF MissIsOnItsWay
<1>5. CASE MissWake
  BY <1>1, <1>5 DEF MissWake, MissIsOnItsWay, Queued
<1>. QED
  BY <1>2, <1>3, <1>4, <1>5 DEF MuxStep

(* The worker takes the head of the queue in hand, and answers or forgets  *)
(* no miss but the one in its hand.                                        *)
LEMMA WorkerKeepsMiss ==
  ASSUME CacheInv, MissIsOnItsWay, WorkerStep
  PROVE  MissIsOnItsWay'
<1>. USE DEF worked, cache
<1>1. /\ queue \in Seq(Files) /\ wakes \in Nat
      /\ worker.pc \in {"recv", "pop", "generation", "resolve", "put", "notify"}
  BY WorkerFields DEF CacheInv, CacheTypeOK
<1>1a. worker = [pc |-> worker.pc, file |-> worker.file,
                 generation |-> worker.generation, result |-> worker.result]
  BY DEF CacheInv, CacheTypeOK
<1>2. CASE WorkerRecv
  <2>1. /\ worker'.pc = "pop" /\ UNCHANGED << queue, waiting, mux >>
        /\ \A f \in waiting : Queued(f)
    BY <1>2 DEF WorkerRecv, WorkerAt, MissIsOnItsWay
  <2>. QED
    BY <2>1 DEF MissIsOnItsWay, Queued
<1>3. CASE WorkerPop
  <2>1. /\ UNCHANGED << waiting, wakes, mux >> /\ \A f \in waiting : Queued(f)
    BY <1>3 DEF WorkerPop, MissIsOnItsWay
  <2>2. CASE queue = << >>
    <3>1. queue' = << >> /\ waiting = {}
      BY <1>3, <2>1, <2>2 DEF WorkerPop, Queued
    <3>. QED
      BY <2>1, <3>1 DEF MissIsOnItsWay
  <2>3. CASE queue # << >>
    <3>1. /\ queue' = Tail(queue) /\ worker'.pc = "generation"
          /\ worker'.file = Head(queue)
      BY <1>3, <1>1a, <2>3 DEF WorkerPop
    <3>2. ASSUME NEW f \in waiting  PROVE Queued(f)' \/ worker'.file = f
      <4>1. PICK i \in DOMAIN queue : queue[i] = f
        BY <2>1, <3>2 DEF Queued
      <4>2. CASE i = 1
        BY <1>1, <2>3, <3>1, <4>1, <4>2
      <4>3. CASE i # 1
        <5>1. i - 1 \in DOMAIN queue' /\ queue'[i - 1] = f
          BY <1>1, <2>3, <3>1, <4>1, <4>3, PopKeepsRest
        <5>. QED
          BY <5>1 DEF Queued
      <4>. QED
        BY <4>2, <4>3
    <3>. QED
      BY <2>1, <3>1, <3>2 DEF MissIsOnItsWay
  <2>. QED
    BY <2>2, <2>3
<1>4. CASE WorkerGeneration \/ WorkerPut
  <2>1. /\ UNCHANGED << queue, waiting, wakes, mux >>
        /\ worker'.file = worker.file /\ worker'.pc \in {"resolve", "notify"}
    BY <1>1a, <1>4 DEF WorkerGeneration, WorkerPut
  <2>. QED
    BY <2>1 DEF MissIsOnItsWay, Queued
<1>5. CASE WorkerResolve
  <2>1. /\ UNCHANGED << queue, wakes, mux >>
        /\ \/ /\ worker'.pc = "put" /\ worker'.file = worker.file
              /\ UNCHANGED waiting
           \/ worker'.pc = "pop" /\ waiting' = waiting \ {worker.file}
    <3>1. UNCHANGED << queue, wakes, mux >>
      BY <1>5 DEF WorkerResolve
    <3>2. CASE worker' = [worker EXCEPT !.pc = "put", !.result = engine[worker.file]]
               /\ UNCHANGED waiting
      BY <1>1a, <3>1, <3>2
    <3>3. CASE worker' = WorkerAt("pop") /\ waiting' = waiting \ {worker.file}
      BY <3>1, <3>3 DEF WorkerAt
    <3>. QED
      BY <1>5, <3>2, <3>3 DEF WorkerResolve
  <2>. QED
    BY <2>1 DEF MissIsOnItsWay, Queued
<1>6. CASE CacheReady
  <2>1. /\ UNCHANGED << queue, wakes, mux >>
        /\ worker'.pc = "pop" /\ waiting' = waiting \ {worker.file}
    BY <1>6 DEF CacheReady, WorkerAt
  <2>. QED
    BY <2>1 DEF MissIsOnItsWay, Queued
<1>. QED
  BY <1>2, <1>3, <1>4, <1>5, <1>6 DEF WorkerStep

(* No miss is lost between a client that was told to wait and the worker   *)
(* that ends its wait: whatever the threads do, the miss is queued or in   *)
(* the worker's hands, and the worker is not asleep over a queued miss     *)
(* (on_miss, run and drain_queue of engine_builder.rs).                    *)
THEOREM MissAlwaysOnItsWay == CacheSpec => []MissIsOnItsWay
<1>1. CacheInit => CacheInv /\ MissIsOnItsWay
  <2>1. CacheInit => MissIsOnItsWay
    BY DEF CacheInit, MissIsOnItsWay
  <2>. QED
    BY <2>1, CacheInitInv
<1>2. CacheInv /\ MissIsOnItsWay /\ [CacheNext]_cachevars
        => CacheInv' /\ MissIsOnItsWay'
  <2>. SUFFICES ASSUME CacheInv, MissIsOnItsWay, [CacheNext]_cachevars
                PROVE  MissIsOnItsWay'
    BY CacheNextInv
  <2>1. CASE UNCHANGED cachevars
    BY <2>1, MissKept DEF cachevars
  <2>2. CASE HubStep
    BY <2>2, MissKept DEF HubStep, HubFlush, ApplyWatchBatch, ForwardDidChange,
         Invalidate, cache, ghosts
  <2>3. CASE PollCompare \/ PollIndex
    BY <2>3, MissKept DEF PollCompare, PollIndex, polled, cache, ghosts
  <2>4. ASSUME NEW f \in Files, PollRead(f) \/ Save(f)  PROVE MissIsOnItsWay'
    BY <2>4, MissKept DEF PollRead, Save, polled, cache, ghosts
  <2>. QED
    BY <2>1, <2>2, <2>3, <2>4, MuxKeepsMiss, WorkerKeepsMiss DEF CacheNext
<1>. QED
  BY <1>1, <1>2, PTL DEF CacheSpec

-----------------------------------------------------------------------------
(* The engine's text.  Where the event of a file is that the engine does   *)
(* not have: with the hub, in the mux thread's hands, or nowhere.          *)
InHub(f) ==
  \/ \E i \in DOMAIN hub.chan : hub.chan[i] = f
  \/ hub.pc = "mark" /\ \E i \in DOMAIN hub.batch : hub.batch[i] = f
  \/ StillToForward(f)

Following(f) ==
  /\ index.source[f] = buffer[f] \/ (mux.pc = "apply" /\ mux.file = f)
  /\ \/ engine[f].text = index.source[f]
     \/ mux.pc = "publish" /\ mux.file = f
     \/ InHub(f)

(* As long as nobody has reindexed a file from disk.                       *)
Unpolled ==
  poller.polls = 0 =>
    /\ poller.pc = "idle"
    /\ mux.pc = "apply" => mux.old = index.source[mux.file]
    /\ \A f \in Files : Following(f)

EngineFollowsBuffer ==
  poller.polls = 0 /\ mux.pc \notin {"apply", "publish"}
    => \A f \in Files : engine[f].text = buffer[f] \/ InHub(f)

(* Steps away from texts and events.                                       *)
LEMMA UnpolledKept ==
  ASSUME Unpolled,
         UNCHANGED << buffer, index, engine, hub >>,
         poller'.polls = 0 => poller.polls = 0 /\ poller'.pc = poller.pc,
         mux' = mux \/ (mux.pc \notin {"apply", "publish"}
                        /\ mux'.pc \notin {"apply", "publish"})
  PROVE  Unpolled'
  BY DEF Unpolled, Following, InHub, StillToForward

(* The edit of a file leaves the engine behind until the hub has its event;*)
(* nobody but the mux thread touches the source meanwhile.                 *)
LEMMA MuxFollows ==
  ASSUME CacheInv, Unpolled,
         MuxStep \/ \E f \in Files : DidChange(f) \/ Query(f)
  PROVE  Unpolled'
<1>. USE DEF cache, ghosts
<1>1. /\ mux \in MuxState /\ mux = [pc |-> mux.pc, file |-> mux.file, old |-> mux.old,
                                   key |-> mux.key]
      /\ buffer \in [Files -> Nat] /\ edits \in Nat
      /\ mux.pc # "idle" => mux.file \in Files
      /\ index = [generation |-> index.generation, source |-> index.source,
                  dirty |-> index.dirty]
      /\ index.source \in [Files -> Text]
      /\ hub = [pc |-> hub.pc, chan |-> hub.chan, generation |-> hub.generation,
                batch |-> hub.batch, next |-> hub.next]
      /\ hub.chan \in Seq(Files)
  BY DEF CacheInv, CacheTypeOK, InHand, MuxState
<1>2. ASSUME NEW f \in Files, DidChange(f), poller.polls = 0
      PROVE  /\ mux'.pc = "apply" => mux'.old = index'.source[mux'.file]
             /\ \A x \in Files : Following(x)'
  <2>1. /\ mux.pc = "idle" /\ mux'.pc = "apply" /\ mux'.file = f
        /\ mux'.old = index.source[f]
        /\ buffer' = [buffer EXCEPT ![f] = edits + 1]
        /\ UNCHANGED << index, engine, hub >>
    BY <1>1, <1>2 DEF DidChange
  <2>2. \A x \in Files : Following(x)
    BY <1>2 DEF Unpolled
  <2>3. \A x \in Files : InHub(x)' <=> InHub(x)
    BY <2>1 DEF InHub, StillToForward
  <2>4. \A x \in Files : index'.source[x] = buffer'[x] \/ (mux'.pc = "apply" /\ mux'.file = x)
    BY <1>1, <2>1, <2>2 DEF Following
  <2>5. \A x \in Files : engine'[x].text = index'.source[x] \/ InHub(x)'
    BY <2>1, <2>2, <2>3 DEF Following
  <2>. QED
    BY <2>1, <2>4, <2>5 DEF Following
<1>3. ASSUME ApplyChange, poller.polls = 0
      PROVE  /\ mux'.pc = "apply" => mux'.old = index'.source[mux'.file]
             /\ \A x \in Files : Following(x)'
  <2>1. /\ mux.pc = "apply" /\ mux'.pc = "publish" /\ mux'.file = mux.file
        /\ UNCHANGED << buffer, engine, hub >>
    BY <1>1, <1>3 DEF ApplyChange
  <2>2. mux.old = index.source[mux.file] /\ \A x \in Files : Following(x)
    BY <1>3, <2>1 DEF Unpolled
  <2>3. IndexText(mux.file, buffer[mux.file])
    BY <1>3, <2>2 DEF ApplyChange
  <2>4. index'.source = [index.source EXCEPT ![mux.file] = buffer[mux.file]]
    BY <1>1, <2>3 DEF IndexText
  <2>5. \A x \in Files : InHub(x)' <=> InHub(x)
    BY <2>1 DEF InHub, StillToForward
  <2>6. \A x \in Files : index'.source[x] = buffer'[x]
    BY <1>1, <2>1, <2>2, <2>4 DEF Following
  <2>7. \A x \in Files \ {mux.file} : engine'[x].text = index'.source[x] \/ InHub(x)'
    BY <1>1, <2>1, <2>2, <2>4, <2>5 DEF Following
  <2>. QED
    BY <2>1, <2>6, <2>7 DEF Following
<1>4. ASSUME PublishModify, poller.polls = 0
      PROVE  /\ mux'.pc = "apply" => mux'.old = index'.source[mux'.file]
             /\ \A x \in Files : Following(x)'
  <2>1. /\ mux.pc = "publish" /\ mux'.pc = "idle"
        /\ UNCHANGED << buffer, engine, index >>
        /\ hub' = [hub EXCEPT !.chan = Append(@, mux.file)]
    BY <1>4 DEF PublishModify, MuxIdle
  <2>2. \A x \in Files : Following(x)
    BY <1>4 DEF Unpolled
  <2>3. /\ hub'.chan = Append(hub.chan, mux.file)
        /\ hub'.pc = hub.pc /\ hub'.batch = hub.batch /\ hub'.next = hub.next
    BY <1>1, <2>1
  <2>4. /\ Len(hub.chan) + 1 \in DOMAIN hub'.chan
        /\ hub'.chan[Len(hub.chan) + 1] = mux.file
        /\ \A i \in DOMAIN hub.chan : i \in DOMAIN hub'.chan /\ hub'.chan[i] = hub.chan[i]
    BY <1>1, <2>1, <2>3
  <2>5. \A x \in Files : InHub(x) => InHub(x)'
    BY <2>3, <2>4 DEF InHub, StillToForward
  <2>6. \A x \in Files : x = mux.file => InHub(x)'
    BY <2>4 DEF InHub
  <2>. QED
    BY <2>1, <2>2, <2>5, <2>6 DEF Following
<1>5. CASE ApplyChange \/ PublishModify \/ \E f \in Files : DidChange(f)
  <2>1. UNCHANGED poller
    BY <1>5 DEF DidChange, ApplyChange, PublishModify
  <2>. QED
    BY <1>2, <1>3, <1>4, <1>5, <2>1 DEF Unpolled
<1>6. CASE Lookup \/ MissPush \/ MissWake \/ \E f \in Files : Query(f)
  <2>1. UNCHANGED << buffer, index, engine, hub, poller >>
    BY <1>6 DEF Lookup, MissPush, MissWake, Query
  <2>2. CASE Lookup
    <3>1. mux.pc = "lookup" /\ (mux' = [mux EXCEPT !.pc = "push"] \/ mux' = MuxIdle)
      BY <2>2 DEF Lookup
    <3>2. mux'.pc \in {"push", "idle"}
      BY <1>1, <3>1 DEF MuxIdle
    <3>. QED
      BY <2>1, <3>1, <3>2, UnpolledKept
  <2>3. CASE MissPush \/ MissWake \/ \E f \in Files : Query(f)
    <3>1. mux.pc \in {"idle", "push", "wake"}
      BY <2>3 DEF MissPush, MissWake, Query
    <3>2. mux'.pc \in {"idle", "lookup", "wake"}
      <4>1. MissPush => mux'.pc = "wake"
        BY <1>1 DEF MissPush
      <4>2. MissWake => mux'.pc = "idle"
        BY DEF MissWake, MuxIdle
      <4>3. ASSUME NEW f \in Files, Query(f)  PROVE mux'.pc = "lookup"
        BY <1>1, <4>3 DEF Query
      <4>. QED
        BY <2>3, <4>1, <4>2, <4>3
    <3>. QED
      BY <2>1, <3>1, <3>2, UnpolledKept
  <2>. QED
    BY <1>6, <2>2, <2>3
<1>. QED
  BY <1>5, <1>6 DEF MuxStep

(* The hub: a batch takes over what the channel held, forwarding an event  *)
(* sends the text the index has at that moment, and what is left of the    *)
(* batch is still to come.                                                 *)
LEMMA HubFollows ==
  ASSUME CacheInv, Unpolled, HubStep
  PROVE  Unpolled'
<1>. USE DEF cache, ghosts
<1>1. /\ hub = [pc |-> hub.pc, chan |-> hub.chan, generation |-> hub.generation,
                batch |-> hub.batch, next |-> hub.next]
      /\ hub.batch \in Seq(Files) /\ hub.next \in Nat
      /\ hub.pc \in {"forward", "invalidate"} => hub.next \in 1 .. Len(hub.batch)
      /\ engine \in [Files -> Answered] /\ index.source \in [Files -> Text]
      /\ index.generation \in Nat /\ index.dirty \in [Files -> Nat]
      /\ index = [generation |-> index.generation, source |-> index.source,
                  dirty |-> index.dirty]
  BY DEF CacheInv, CacheTypeOK, InHand
<1>2. UNCHANGED << mux, poller, buffer >> /\ index'.source = index.source
  BY <1>1 DEF HubStep, HubFlush, ApplyWatchBatch, ForwardDidChange, Invalidate
<1>3. ASSUME poller.polls = 0, NEW f \in Files  PROVE Following(f)'
  <2>1. Following(f)
    BY <1>3 DEF Unpolled
  <2>2. CASE HubFlush
    <3>1. /\ UNCHANGED engine /\ hub.pc = "idle"
          /\ hub' = [hub EXCEPT !.pc = "mark", !.batch = hub.chan, !.chan = << >>,
                                !.generation = @ + 1]
      BY <2>2 DEF HubFlush
    <3>2. hub'.pc = "mark" /\ hub'.batch = hub.chan
      BY <1>1, <3>1
    <3>3. InHub(f) => InHub(f)'
      BY <3>1, <3>2 DEF InHub, StillToForward
    <3>. QED
      BY <1>2, <2>1, <3>1, <3>3 DEF Following
  <2>3. CASE ApplyWatchBatch
    <3>1. /\ UNCHANGED engine /\ hub.pc = "mark"
          /\ hub' = [hub EXCEPT !.pc = "forward", !.next = 1]
      BY <2>3 DEF ApplyWatchBatch
    <3>2. /\ hub'.pc = "forward" /\ hub'.next = 1
          /\ hub'.batch = hub.batch /\ hub'.chan = hub.chan
      BY <1>1, <3>1
    <3>3. ASSUME NEW i \in DOMAIN hub.batch, hub.batch[i] = f  PROVE StillToForward(f)'
      <4>1. i \in hub'.next .. Len(hub'.batch)
        BY <1>1, <3>2
      <4>. QED
        BY <3>2, <3>3, <4>1 DEF StillToForward
    <3>4. InHub(f) => InHub(f)'
      BY <3>1, <3>2, <3>3 DEF InHub, StillToForward
    <3>. QED
      BY <1>2, <2>1, <3>1, <3>4 DEF Following
  <2>4. CASE ForwardDidChange
    <3>. DEFINE h == hub.batch[hub.next]
    <3>1. /\ hub.pc = "forward"
          /\ engine' = [engine EXCEPT ![h] =
                          [text |-> index.source[h], at |-> hub.generation]]
          /\ \/ hub.next = Len(hub.batch)
             \/ hub' = [hub EXCEPT !.next = hub.next + 1]
          /\ hub'.chan = hub.chan
      BY <1>1, <2>4 DEF ForwardDidChange
    <3>2. h \in Files
      BY <1>1, <3>1
    <3>3. CASE f = h
      <4>1. engine'[f].text = index.source[f]
        BY <1>1, <3>1, <3>2, <3>3
      <4>. QED
        BY <1>2, <2>1, <4>1 DEF Following
    <3>4. CASE f # h
      <4>1. engine'[f] = engine[f]
        BY <1>1, <3>1, <3>2, <3>4
      <4>2. ASSUME StillToForward(f)  PROVE StillToForward(f)'
        <5>1. PICK i \in hub.next .. Len(hub.batch) : hub.batch[i] = f
          BY <4>2 DEF StillToForward
        <5>2. i # hub.next
          BY <3>4, <5>1
        <5>3. hub.next # Len(hub.batch)
          BY <1>1, <5>1, <5>2
        <5>4. hub' = [hub EXCEPT !.next = hub.next + 1]
          BY <3>1, <5>3
        <5>5. hub'.pc = "forward" /\ hub'.batch = hub.batch /\ hub'.next = hub.next + 1
          BY <1>1, <3>1, <5>4
        <5>6. i \in hub'.next .. Len(hub'.batch)
          BY <1>1, <5>1, <5>2, <5>5
        <5>. QED
          BY <5>1, <5>5, <5>6 DEF StillToForward
      <4>3. InHub(f) => InHub(f)'
        BY <3>1, <4>2 DEF InHub
      <4>. QED
        BY <1>2, <2>1, <4>1, <4>3 DEF Following
    <3>. QED
      BY <3>3, <3>4
  <2>5. CASE Invalidate
    <3>1. UNCHANGED engine /\ hub.pc = "invalidate" /\ hub'.chan = hub.chan
      BY <1>1, <2>5 DEF Invalidate
    <3>2. InHub(f) => InHub(f)'
      BY <3>1 DEF InHub, StillToForward
    <3>. QED
      BY <1>2, <2>1, <3>1, <3>2 DEF Following
  <2>. QED
    BY <2>2, <2>3, <2>4, <2>5 DEF HubStep
<1>. QED
  BY <1>2, <1>3 DEF Unpolled

(* Every step keeps the engine following; after a poll nothing is claimed. *)
LEMMA NextFollows ==
  ASSUME CacheInv, Unpolled, [CacheNext]_cachevars
  PROVE  Unpolled'
<1>. USE DEF cache, ghosts
<1>1. poller \in PollerState
  BY DEF CacheInv, CacheTypeOK, PollerState
<1>2. CASE UNCHANGED cachevars
  BY <1>2, UnpolledKept DEF cachevars
<1>3. CASE WorkerStep
  <2>1. UNCHANGED worked
    BY <1>3 DEF WorkerStep, WorkerRecv, WorkerPop, WorkerGeneration, WorkerResolve,
         WorkerPut, CacheReady
  <2>. QED
    BY <2>1, UnpolledKept DEF worked
<1>4. CASE PollCompare \/ PollIndex
  <2>1. poller.pc # "idle" /\ poller'.polls = poller.polls
    BY <1>1, <1>4 DEF PollCompare, PollIndex, PollerIdle, PollerState
  <2>. QED
    BY <2>1 DEF Unpolled
<1>5. ASSUME NEW f \in Files, PollRead(f)  PROVE Unpolled'
  <2>1. poller'.polls = poller.polls + 1
    BY <1>5 DEF PollRead
  <2>. QED
    BY <1>1, <2>1 DEF Unpolled, PollerState
<1>6. ASSUME NEW f \in Files, Save(f)  PROVE Unpolled'
  BY <1>6, UnpolledKept DEF Save
<1>. QED
  BY <1>2, <1>3, <1>4, <1>5, <1>6, MuxFollows, HubFollows DEF CacheNext

(***************************************************************************)
(* As long as no control thread has reindexed a file from disk, the engine *)
(* has the editor's text of every file that has no event on the way: when  *)
(* the mux thread is not in a didChange, a file whose engine text differs  *)
(* from its buffer is in the hub's channel or in what is left of its batch *)
(* (did_change and apply_hub_batch of session.rs).  An edit is never       *)
(* swallowed by the batch that overtakes it.                               *)
(***************************************************************************)
THEOREM EngineAlwaysFollows == CacheSpec => []EngineFollowsBuffer
<1>1. CacheInit => CacheInv /\ Unpolled
  <2>1. CacheInit => Unpolled
    BY DEF CacheInit, Unpolled, Following, PollerIdle, MuxIdle, NoAnswer
  <2>. QED
    BY <2>1, CacheInitInv
<1>2. CacheInv /\ Unpolled /\ [CacheNext]_cachevars => CacheInv' /\ Unpolled'
  BY CacheNextInv, NextFollows
<1>3. Unpolled => EngineFollowsBuffer
  BY DEF Unpolled, Following, EngineFollowsBuffer
<1>. QED
  BY <1>1, <1>2, <1>3, PTL DEF CacheSpec

-----------------------------------------------------------------------------
(* What a hit may lack.  The dirty mark of a file is its last batch.       *)
MarkIsLast == \A f \in Files : \A m \in marks[f] : m <= index.dirty[f]

HitLacksLastAtMost ==
  \A e \in store :
    e.generation = FileGeneration(e.file) /\ e.generation < IngestedFiles =>
      \A m \in marks[e.file] : m = index.dirty[e.file] \/ m <= e.result.at

(* Only a batch marks files, and it marks them no lower than before.       *)
LEMMA MarkStaysLast ==
  ASSUME CacheInv, MarkIsLast, [CacheNext]_cachevars
  PROVE  MarkIsLast'
<1>. USE DEF cache, ghosts
<1>1. /\ index.dirty \in [Files -> Nat] /\ index.generation \in Nat
      /\ index = [generation |-> index.generation, source |-> index.source,
                  dirty |-> index.dirty]
      /\ hub.generation \in Nat /\ marks \in [Files -> SUBSET Nat]
  BY HubFields DEF CacheInv, CacheTypeOK
<1>2. ASSUME UNCHANGED marks, index'.dirty = index.dirty  PROVE MarkIsLast'
  BY <1>2 DEF MarkIsLast
<1>3. ASSUME NEW f, NEW text, IndexText(f, text)  PROVE index'.dirty = index.dirty
  BY <1>1, <1>3 DEF IndexText
<1>4. CASE ApplyWatchBatch
  <2>1. /\ index' = [index EXCEPT
              !.generation = IF hub.generation > @ THEN hub.generation ELSE @,
              !.dirty = [f \in Files |->
                IF f \in Batched /\ hub.generation > @[f] THEN hub.generation ELSE @[f]]]
        /\ marks' = [f \in Files |->
              marks[f] \union (IF f \in Batched THEN {hub.generation} ELSE {})]
    BY <1>4 DEF ApplyWatchBatch
  <2>2. index'.dirty = [f \in Files |->
          IF f \in Batched /\ hub.generation > index.dirty[f] THEN hub.generation
          ELSE index.dirty[f]]
    BY <1>1, <2>1
  <2>3. ASSUME NEW f \in Files, NEW m \in marks'[f]  PROVE m <= index'.dirty[f]
    <3>1. m \in marks[f] \/ (f \in Batched /\ m = hub.generation)
      BY <2>1, <2>3
    <3>2. m \in marks[f] => m \in Nat /\ m <= index.dirty[f]
      BY <1>1 DEF MarkIsLast
    <3>. QED
      BY <1>1, <2>2, <3>1, <3>2
  <2>. QED
    BY <2>3 DEF MarkIsLast
<1>5. CASE HubFlush \/ ForwardDidChange \/ Invalidate
  BY <1>2, <1>5 DEF HubFlush, ForwardDidChange, Invalidate
<1>6. CASE WorkerStep
  BY <1>2, <1>6 DEF WorkerStep, WorkerRecv, WorkerPop, WorkerGeneration,
       WorkerResolve, WorkerPut, CacheReady, worked
<1>7. CASE ApplyChange \/ PollIndex
  BY <1>2, <1>3, <1>7 DEF ApplyChange, PollIndex, polled
<1>8. CASE PublishModify \/ Lookup \/ MissPush \/ MissWake \/ PollCompare
  BY <1>2, <1>8 DEF PublishModify, Lookup, MissPush, MissWake, PollCompare, polled
<1>9. ASSUME NEW f \in Files, DidChange(f) \/ Query(f) \/ PollRead(f) \/ Save(f)
      PROVE  MarkIsLast'
  BY <1>2, <1>9 DEF DidChange, Query, PollRead, Save, polled
<1>10. CASE UNCHANGED cachevars
  BY <1>2, <1>10 DEF cachevars
<1>. QED
  BY <1>4, <1>5, <1>6, <1>7, <1>8, <1>9, <1>10 DEF CacheNext, MuxStep, HubStep

(***************************************************************************)
(* What a discover request can be answered with: an entry that it would    *)
(* hit, whose key holds the dirty mark of the file (file_generation of     *)
(* types-cache port.rs), was computed from every batch of                  *)
(* the file but at most the last one.  That one it may lack, since the     *)
(* worker may ask the engine between its mark and its forward.             *)
(***************************************************************************)
THEOREM HitAlwaysLacksLastAtMost == CacheSpec => []HitLacksLastAtMost
<1>1. CacheInit => CacheInv /\ MarkIsLast
  <2>1. CacheInit => MarkIsLast
    BY DEF CacheInit, MarkIsLast
  <2>. QED
    BY <2>1, CacheInitInv
<1>2. CacheInv /\ MarkIsLast /\ [CacheNext]_cachevars => CacheInv' /\ MarkIsLast'
  BY CacheNextInv, MarkStaysLast
<1>3. CacheInv /\ MarkIsLast => HitLacksLastAtMost
  <2>. SUFFICES ASSUME CacheInv, MarkIsLast, NEW e \in store,
                       e.generation = FileGeneration(e.file),
                       e.generation < IngestedFiles,
                       NEW m \in marks[e.file]
                PROVE  m = index.dirty[e.file] \/ m <= e.result.at
    BY DEF HitLacksLastAtMost
  <2>1. /\ e.file \in Files /\ m \in Nat /\ e.generation \in Nat
        /\ index.dirty[e.file] \in Nat /\ index.generation \in Nat
    BY DEF CacheInv, CacheTypeOK, Entry
  <2>2. index.generation >= IngestedFiles /\ SeesEarlier(e.file, e.generation, e.result)
    BY DEF CacheInv, Marked, Filled
  <2>3. index.dirty[e.file] = e.generation
    BY <2>1, <2>2, FilesAssumption DEF FileGeneration
  <2>4. m <= index.dirty[e.file]
    BY <2>1 DEF MarkIsLast
  <2>. QED
    BY <2>1, <2>2, <2>3, <2>4 DEF SeesEarlier
<1>. QED
  BY <1>1, <1>2, <1>3, PTL DEF CacheSpec
==============================================================================
