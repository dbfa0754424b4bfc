---------------------------- MODULE TierReadiness ----------------------------
(***************************************************************************)
(* How a package moves from syntax to graph to types, and how progressive  *)
(* clients are told (src/serve_host.rs, WorkspaceSession::ingest_workspace,*)
(* ControlServer::drain_pushes).  The mux thread handles initialize: spawn *)
(* the engines, announce syntax, ingest package after package, announce    *)
(* graph, promote.  Control threads, one per connection, are accepted      *)
(* before initialize arrives; each polls on its read timeout, which        *)
(* promotes packages whose engine is ready, and takes the pending pushes.  *)
(* Packages are 1 .. NumPackages, each of a language of its own, so an     *)
(* engine is named by the package it can answer for.                       *)
(***************************************************************************)
EXTENDS Integers, Sequences, FiniteSets

CONSTANTS
  NumPackages,
  Conns,            \* control connections
  MaxEngineChanges  \* bound: engines that crash or come back

ASSUME TierAssumption ==
  /\ NumPackages \in Nat \ {0}
  /\ IsFiniteSet(Conns) /\ "mux" \notin Conns
  /\ MaxEngineChanges \in Nat

VARIABLES
  packages,  \* the packages discovered so far, 1 .. packages
  tiers,     \* IndexService.package_tiers, "none" without an entry
  ingested,  \* IndexService.pending_tier_ready
  pending,   \* ServeHost.pending_tier
  engines,   \* the packages whose engine is ready
  thread,    \* what the mux thread and each control thread are doing
  status,    \* the TierStatus answer each client has, by package
  got,       \* the TierReady pushes written to each client
  late,      \* clients accepted after initialize had returned
  changes

vars == << packages, tiers, ingested, pending, engines, thread, status, got,
           late, changes >>

Mux == "mux"
Packages == 1 .. NumPackages
Tiers == {"none", "syntax", "graph", "types"}
TierReady == [package : Packages, tier : Tiers]

(* A thread's place in its code and the package it has reached there;      *)
(* `again`: initialize has a second round of promotion to go.              *)
At(pc) == [pc |-> pc, next |-> 1, again |-> FALSE]

NoStatus == [p \in Packages |-> "none"]

Init ==
  /\ packages = 0
  /\ tiers = [p \in Packages |-> "none"]
  /\ ingested = << >>
  /\ pending = << >>
  /\ engines = {}
  /\ thread = [t \in Conns \union {Mux} |->
                 At(IF t = Mux THEN "start" ELSE "absent")]
  /\ status = [c \in Conns |-> NoStatus]
  /\ got = [c \in Conns |-> << >>]
  /\ late = {}
  /\ changes = 0

clients == << status, got, late >>

Goto(t, pc) == thread' = [thread EXCEPT ![t].pc = pc]
Push(p, tier) == pending' = Append(pending, [package |-> p, tier |-> tier])

-----------------------------------------------------------------------------
(* on_initialize() on the mux thread.                                      *)
Discover ==
  /\ thread[Mux].pc = "start"
  /\ packages' = NumPackages
  /\ Goto(Mux, "spawn")
  /\ UNCHANGED << tiers, ingested, pending, engines, clients, changes >>

(* try_spawn_registered(): the engines of some languages start.            *)
SpawnEngines ==
  /\ thread[Mux].pc = "spawn"
  /\ \E started \in SUBSET Packages : engines' = started
  /\ Goto(Mux, "syntax")
  /\ UNCHANGED << packages, tiers, ingested, pending, clients, changes >>

(* Moves the mux thread to its next package, and after the last to `pc`.   *)
NextPackage(pc) ==
  LET mux == thread[Mux]
  IN  thread' = [thread EXCEPT ![Mux] =
        IF mux.next = NumPackages THEN At(pc)
        ELSE [mux EXCEPT !.next = mux.next + 1]]

NoteSyntax ==
  /\ thread[Mux].pc = "syntax"
  /\ Push(thread[Mux].next, "syntax")
  /\ NextPackage("ingest")
  /\ UNCHANGED << packages, tiers, ingested, engines, clients, changes >>

(* Under the index lock: index the files, mark the package, queue it.      *)
IngestPackage ==
  LET p == thread[Mux].next
  IN  /\ thread[Mux].pc = "ingest"
      /\ tiers' = [tiers EXCEPT ![p] = "graph"]
      /\ ingested' = Append(ingested, p)
      /\ NextPackage("drain_index")
      /\ UNCHANGED << packages, pending, engines, clients, changes >>

(* on_pre_index() may leave a package out.                                 *)
SkipPackage ==
  /\ thread[Mux].pc = "ingest"
  /\ NextPackage("drain_index")
  /\ UNCHANGED << packages, tiers, ingested, pending, engines, clients, changes >>

(* Mutant: marks the package once more when it queues the push. *)
NoteGraphMarks ==
  /\ thread[Mux].pc = "drain_index"
  /\ IF ingested = << >>
       THEN /\ thread' = [thread EXCEPT ![Mux] = [At("read") EXCEPT !.again = TRUE]]
            /\ UNCHANGED << ingested, pending, tiers >>
       ELSE /\ Push(Head(ingested), "graph")
            /\ tiers' = [tiers EXCEPT ![Head(ingested)] = "graph"]
            /\ ingested' = Tail(ingested)
            /\ UNCHANGED thread
  /\ UNCHANGED << packages, engines, clients, changes >>

(* drain_index_tier_ready() and a push for each.                           *)
NoteGraph ==
  /\ thread[Mux].pc = "drain_index"
  /\ IF ingested = << >>
       THEN /\ thread' = [thread EXCEPT ![Mux] = [At("read") EXCEPT !.again = TRUE]]
            /\ UNCHANGED << ingested, pending >>
       ELSE /\ Push(Head(ingested), "graph")
            /\ ingested' = Tail(ingested)
            /\ UNCHANGED thread
  /\ UNCHANGED << packages, tiers, engines, clients, changes >>

Initialize ==
  Discover \/ SpawnEngines \/ NoteSyntax \/ IngestPackage \/ SkipPackage
  \/ NoteGraph

-----------------------------------------------------------------------------
(***************************************************************************)
(* sync_types_tier_from_engines(), on any thread: for each package at      *)
(* graph, ask the supervisor, mark the package, queue the push.  Each step *)
(* takes and releases a lock of its own.                                   *)
(***************************************************************************)
Synced(t) ==
  CASE t # Mux         -> At("drain")
    [] thread[t].again -> At("read")
    [] OTHER           -> At("up")

Advance(t) ==
  LET here == thread[t]
  IN  thread' = [thread EXCEPT ![t] =
        IF here.next >= packages THEN Synced(t)
        ELSE [here EXCEPT !.pc = "read", !.next = here.next + 1]]

ReadTier(t) ==
  /\ thread[t].pc = "read"
  /\ IF thread[t].next <= packages /\ tiers[thread[t].next] = "graph"
       THEN Goto(t, "ask") ELSE Advance(t)
  /\ UNCHANGED << packages, tiers, ingested, pending, engines, clients, changes >>

(* Every registered language is asked about, whatever the package's: an    *)
(* engine that is ready is ready for any package.                          *)
AskSupervisor(t) ==
  /\ thread[t].pc = "ask"
  /\ IF engines # {} THEN Goto(t, "mark") ELSE Advance(t)
  /\ UNCHANGED << packages, tiers, ingested, pending, engines, clients, changes >>

(* Mutant: queues no push. *)
MarkTypesSilently(t) ==
  /\ thread[t].pc = "mark"
  /\ tiers' = [tiers EXCEPT ![thread[t].next] = "types"]
  /\ Advance(t)
  /\ UNCHANGED << packages, ingested, pending, engines, clients, changes >>

MarkTypes(t) ==
  /\ thread[t].pc = "mark"
  /\ tiers' = [tiers EXCEPT ![thread[t].next] = "types"]
  /\ Goto(t, "note")
  /\ UNCHANGED << packages, ingested, pending, engines, clients, changes >>

NoteTypes(t) ==
  /\ thread[t].pc = "note"
  /\ Push(thread[t].next, "types")
  /\ Advance(t)
  /\ UNCHANGED << packages, tiers, ingested, engines, clients, changes >>

Sync(t) == ReadTier(t) \/ AskSupervisor(t) \/ MarkTypes(t) \/ NoteTypes(t)

-----------------------------------------------------------------------------
(* A control connection.                                                   *)
Accept(c) ==
  /\ thread[c].pc = "absent"
  /\ Goto(c, "idle")
  /\ late' = late \union (IF thread[Mux].pc = "up" THEN {c} ELSE {})
  /\ UNCHANGED << packages, tiers, ingested, pending, engines, status, got,
                  changes >>

(* Mutant: writes the pushes without promoting first. *)
PollDrainsOnly(c) ==
  /\ thread[c].pc = "idle"
  /\ Goto(c, "drain")
  /\ UNCHANGED << packages, tiers, ingested, pending, engines, clients, changes >>

(* The read timeout, or a request that changes nothing here: promote, then *)
(* write the pushes.                                                       *)
Poll(c) ==
  /\ thread[c].pc = "idle"
  /\ Goto(c, "read")
  /\ UNCHANGED << packages, tiers, ingested, pending, engines, clients, changes >>

(* TierStatus: a package without an entry is at syntax.  The client asks   *)
(* once, and applies pushes it got before the answer after it.             *)
StatusOf(p) == IF tiers[p] = "none" THEN "syntax" ELSE tiers[p]

TierStatus(c) ==
  /\ thread[c].pc = "idle"
  /\ status[c] = NoStatus
  /\ packages > 0
  /\ status' = [status EXCEPT ![c] = [p \in Packages |-> StatusOf(p)]]
  /\ Goto(c, "read")
  /\ UNCHANGED << packages, tiers, ingested, pending, engines, got, late, changes >>

(* drain_pushes() takes them all; a write that fails ends the connection.  *)
WritePushes(c) ==
  /\ thread[c].pc = "drain"
  /\ pending' = << >>
  /\ \E n \in 0 .. Len(pending) :
       /\ got' = [got EXCEPT ![c] = @ \o SubSeq(pending, 1, n)]
       /\ thread' = [thread EXCEPT ![c] =
            At(IF n = Len(pending) THEN "idle" ELSE "closed")]
  /\ UNCHANGED << packages, tiers, ingested, engines, status, late, changes >>

ConnStep(c) == Poll(c) \/ Sync(c) \/ WritePushes(c)

-----------------------------------------------------------------------------
(* An engine crashes, or is spawned again once initialize is past it.      *)
EngineChange(p) ==
  /\ thread[Mux].pc \notin {"start", "spawn"}
  /\ changes < MaxEngineChanges
  /\ changes' = changes + 1
  /\ engines' = IF p \in engines THEN engines \ {p} ELSE engines \union {p}
  /\ UNCHANGED << packages, tiers, ingested, pending, thread, clients >>

Next ==
  \/ Initialize \/ Sync(Mux)
  \/ \E c \in Conns : Accept(c) \/ TierStatus(c) \/ ConnStep(c)
  \/ \E p \in Packages : EngineChange(p)

Fairness ==
  /\ WF_vars(Initialize) /\ WF_vars(Sync(Mux))
  /\ \A c \in Conns : WF_vars(ConnStep(c))

Spec == Init /\ [][Next]_vars /\ Fairness

-----------------------------------------------------------------------------
ThreadState ==
  [pc : {"start", "spawn", "syntax", "ingest", "drain_index", "up", "absent",
         "idle", "closed", "read", "ask", "mark", "note", "drain"},
   next : Packages, again : BOOLEAN]

(* Every variable stays within its type, and a package has a tier only     *)
(* once it was ingested.                                                   *)
TypeOK ==
  /\ packages \in {0, NumPackages}
  /\ tiers \in [Packages -> Tiers \ {"syntax"}]
  /\ \A p \in Packages : tiers[p] # "none" =>
       /\ thread[Mux].pc \notin {"start", "spawn", "syntax"}
       /\ thread[Mux].pc = "ingest" => p < thread[Mux].next
  /\ ingested \in Seq(Packages)
  /\ pending \in Seq(TierReady)
  /\ engines \in SUBSET Packages
  /\ thread \in [Conns \union {Mux} -> ThreadState]
  /\ status \in [Conns -> [Packages -> Tiers]]
  /\ got \in [Conns -> Seq(TierReady)]
  /\ late \in SUBSET Conns
  /\ changes \in Nat

(***************************************************************************)
(* A package never loses a tier, although a control thread may promote it  *)
(* while the mux thread is still ingesting.                                *)
(***************************************************************************)
Rank(tier) ==
  CASE tier = "none" -> 0 [] tier = "syntax" -> 1 [] tier = "graph" -> 2
    [] tier = "types" -> 3

TierNeverDrops == [][\A p \in Packages : Rank(tiers[p]) <= Rank(tiers'[p])]_vars

(***************************************************************************)
(* "A package just upgraded its tier": a client that is pushed a tier and  *)
(* asks for it at once finds the package there or above.                   *)
(***************************************************************************)
PushIsReached ==
  \A c \in Conns : \A k \in DOMAIN got[c] :
    Rank(got[c][k].tier) <= Rank(StatusOf(got[c][k].package))

(***************************************************************************)
(* A client that connects once initialize has returned and is alone shows  *)
(* the server's tiers whenever nothing is on its way: its one TierStatus   *)
(* snapshot and the pushes, applied in order, miss no promotion.  (A       *)
(* client that is there earlier can be pushed types before graph and stay  *)
(* at graph; of two clients only one is told.)                             *)
(***************************************************************************)
Shown(c, p) ==
  LET told == {k \in DOMAIN got[c] : got[c][k].package = p}
  IN  IF told = {} THEN status[c][p]
      ELSE got[c][CHOOSE k \in told : \A m \in told : m <= k].tier

SoleLateClientAgrees ==
  \A c \in late :
    (/\ thread[c].pc = "idle" /\ pending = << >> /\ status[c] # NoStatus
     /\ \A d \in Conns \ {c} : thread[d].pc = "absent")
    => \A p \in Packages : Shown(c, p) = StatusOf(p)

(***************************************************************************)
(* "TierReady when that language's engine comes up": a package at graph    *)
(* with an engine that stays ready is promoted and the push written to     *)
(* some client, as long as the connections hold.                           *)
(***************************************************************************)
EngineIsAnnounced ==
  \A p \in Packages :
    (tiers[p] = "graph" /\ engines # {}) ~>
      \/ \E c \in Conns : [package |-> p, tier |-> "types"]
                            \in {got[c][k] : k \in DOMAIN got[c]}
      \/ engines = {}
      \/ \E c \in Conns : thread[c].pc = "closed"
      \/ \A c \in Conns : thread[c].pc = "absent"
=============================================================================
