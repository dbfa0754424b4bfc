----------------------------- MODULE TypesCache -----------------------------
(***************************************************************************)
(* The types cache (progressive-lsp-types-cache) between the threads that  *)
(* share it in `serve`:                                                    *)
(*   mux     handles LSP didChange and discover requests,                  *)
(*   hub     delivers batches of buffer edits (session.apply_hub_batch),   *)
(*   worker  fills the cache from the engine (engine_builder.rs),          *)
(*   poller  a control thread that reindexes known paths from disk.        *)
(* A text is the number of the edit that produced it.  One query position  *)
(* and kind per file is modelled, so a key is a file and a generation, and *)
(* the engine's answer is the text it was computed from.                   *)
(***************************************************************************)
EXTENDS Integers, Sequences, FiniteSets

CONSTANTS
  Files,         \* files indexed when the workspace was opened
  NoFile,        \* no file: what an idle thread last worked on
  IngestedFiles, \* how many index_text calls the ingest made
  MaxEdits,      \* bound: LSP didChange notifications
  MaxQueries,    \* bound: discover requests
  MaxPolls       \* bound: files a control thread reindexes; 0 without one

ASSUME FilesAssumption ==
  /\ IsFiniteSet(Files) /\ NoFile \notin Files
  /\ IngestedFiles \in Nat \ {0}
ASSUME BoundsAssumption ==
  MaxEdits \in Nat /\ MaxQueries \in Nat /\ MaxPolls \in Nat

VARIABLES
  buffer,    \* the editor's text of each file, all of them open
  disk,      \* the text on disk
  index,     \* IndexService: [generation, source, dirty]; dirty 0 is unmarked
  engine,    \* what the engine was last sent: [text, at]
  store,     \* TypesCacheStore.entries
  queue,     \* BuilderQueue.pending
  wakes,     \* messages in the builder's wake channel
  inflight,
  mux, hub, worker, poller,
  edits, queries,
  waiting,   \* files missed since their last CacheReady
  marks      \* the batch generations that marked each file

cachevars == << buffer, disk, index, engine, store, queue, wakes, inflight, mux,
              hub, worker, poller, edits, queries, waiting, marks >>

Torn == -1
Text == Nat \union {Torn}

(* `at` is the batch that last reached the engine when it answered; the    *)
(* code has no such field.                                                 *)
Answered == [text : Text, at : Nat]
Entry == [file : Files, generation : Nat, result : Answered]

NoAnswer == [text |-> 0, at |-> 0]

(* Threads with nothing in their local variables. *)
MuxIdle      == [pc |-> "idle", file |-> NoFile, old |-> 0, key |-> 0]
WorkerAt(pc) == [pc |-> pc, file |-> NoFile, generation |-> 0,
                 result |-> NoAnswer]
PollerIdle(polls) ==
  [pc |-> "idle", file |-> NoFile, text |-> 0, polls |-> polls]

CacheInit ==
  /\ buffer = [f \in Files |-> 0]
  /\ disk = [f \in Files |-> 0]
  /\ index = [generation |-> IngestedFiles, source |-> [f \in Files |-> 0],
              dirty |-> [f \in Files |-> 0]]
  /\ engine = [f \in Files |-> NoAnswer]
  /\ store = {}
  /\ queue = << >>
  /\ wakes = 1
  /\ inflight = {}
  /\ mux = MuxIdle
  /\ hub = [pc |-> "idle", chan |-> << >>, generation |-> 0, batch |-> << >>,
            next |-> 1]
  /\ worker = WorkerAt("recv")
  /\ poller = PollerIdle(0)
  /\ edits = 0
  /\ queries = 0
  /\ waiting = {}
  /\ marks = [f \in Files |-> {}]

cache  == << store, queue, wakes, inflight >>
ghosts == << waiting, marks >>

-----------------------------------------------------------------------------
(* file_generation(): the dirty mark of the file, which is a hub           *)
(* generation, or else the index generation.                               *)
FileGeneration(f) ==
  IF index.dirty[f] # 0 THEN index.dirty[f] ELSE index.generation

(* index_text() with a given source: the index generation moves on.        *)
IndexText(f, text) ==
  index' = [index EXCEPT !.generation = @ + 1, !.source[f] = text]

(***************************************************************************)
(* didChange on the mux thread: read the old source, apply the change      *)
(* under a second lock, publish to the hub.                                *)
(***************************************************************************)
DidChange(f) ==
  /\ mux.pc = "idle"
  /\ edits < MaxEdits
  /\ edits' = edits + 1
  /\ buffer' = [buffer EXCEPT ![f] = edits + 1]
  /\ mux' = [mux EXCEPT !.pc = "apply", !.file = f, !.old = index.source[f]]
  /\ UNCHANGED << disk, index, engine, cache, hub, worker, poller, queries,
                  ghosts >>

(* The change replaces the length of the old source; when the source was   *)
(* replaced by a longer one in between, a tail of that one stays.          *)
ApplyChange ==
  /\ mux.pc = "apply"
  /\ \E text \in IF index.source[mux.file] = mux.old
                   THEN {buffer[mux.file]} ELSE {buffer[mux.file], Torn} :
       IndexText(mux.file, text)
  /\ mux' = [mux EXCEPT !.pc = "publish"]
  /\ UNCHANGED << buffer, disk, engine, cache, hub, worker, poller, edits,
                  queries, ghosts >>

PublishModify ==
  /\ mux.pc = "publish"
  /\ hub' = [hub EXCEPT !.chan = Append(@, mux.file)]
  /\ mux' = MuxIdle
  /\ UNCHANGED << buffer, disk, index, engine, cache, worker, poller, edits,
                  queries, ghosts >>

(***************************************************************************)
(* A discover request on the mux thread: TypesCacheResolver::resolve.      *)
(***************************************************************************)
Query(f) ==
  /\ mux.pc = "idle"
  /\ queries < MaxQueries
  /\ queries' = queries + 1
  /\ mux' = [mux EXCEPT !.pc = "lookup", !.file = f, !.key = FileGeneration(f)]
  /\ UNCHANGED << buffer, disk, index, engine, cache, hub, worker, poller,
                  edits, ghosts >>

Hits == {e \in store : e.file = mux.file /\ e.generation = mux.key}

Lookup ==
  /\ mux.pc = "lookup"
  /\ mux' = IF Hits = {} THEN [mux EXCEPT !.pc = "push"] ELSE MuxIdle
  /\ UNCHANGED << buffer, disk, index, engine, cache, hub, worker, poller,
                  edits, queries, ghosts >>

(* on_miss(): push, unless the same miss is queued whatever its generation *)
MissPush ==
  /\ mux.pc = "push"
  /\ queue' = IF \E i \in DOMAIN queue : queue[i] = mux.file
                THEN queue ELSE Append(queue, mux.file)
  /\ waiting' = waiting \union {mux.file}
  /\ mux' = [mux EXCEPT !.pc = "wake"]
  /\ UNCHANGED << buffer, disk, index, engine, store, wakes, inflight, hub,
                  worker, poller, edits, queries, marks >>

(* Mutant: a miss that wakes nobody. *)
MissWithoutWake ==
  /\ mux.pc = "wake"
  /\ mux' = MuxIdle
  /\ UNCHANGED << buffer, disk, index, engine, store, queue, wakes, inflight,
                  hub, worker, poller, edits, queries, ghosts >>

(* ... then wake; the client gets an empty answer and waits for CacheReady *)
MissWake ==
  /\ mux.pc = "wake"
  /\ wakes' = wakes + 1
  /\ mux' = MuxIdle
  /\ UNCHANGED << buffer, disk, index, engine, store, queue, inflight, hub,
                  worker, poller, edits, queries, ghosts >>

MuxStep == ApplyChange \/ PublishModify \/ Lookup \/ MissPush \/ MissWake

-----------------------------------------------------------------------------
(***************************************************************************)
(* The hub thread delivers a batch: mark the files dirty, send the index's *)
(* source to the engine event by event, then drop the stale cache keys.    *)
(***************************************************************************)
HubFlush ==
  /\ hub.pc = "idle"
  /\ hub.chan # << >>
  /\ hub' = [hub EXCEPT !.pc = "mark", !.batch = hub.chan, !.chan = << >>,
                        !.generation = @ + 1]
  /\ UNCHANGED << buffer, disk, index, engine, cache, mux, worker, poller,
                  edits, queries, ghosts >>

Batched == {hub.batch[i] : i \in DOMAIN hub.batch}

ApplyWatchBatch ==
  LET g == hub.generation
  IN  /\ hub.pc = "mark"
      /\ index' = [index EXCEPT
           !.generation = IF g > @ THEN g ELSE @,
           !.dirty = [f \in Files |->
             IF f \in Batched /\ g > @[f] THEN g ELSE @[f]]]
      /\ marks' = [f \in Files |->
                     marks[f] \union (IF f \in Batched THEN {g} ELSE {})]
      /\ hub' = [hub EXCEPT !.pc = "forward", !.next = 1]
      /\ UNCHANGED << buffer, disk, engine, cache, mux, worker, poller, edits,
                      queries, waiting >>

(* Mutant: forwards the first event of a batch only. *)
ForwardFirstOnly ==
  LET f == hub.batch[hub.next]
  IN  /\ hub.pc = "forward"
      /\ engine' = [engine EXCEPT ![f] =
                      [text |-> index.source[f], at |-> hub.generation]]
      /\ hub' = [hub EXCEPT !.pc = "invalidate"]
      /\ UNCHANGED << buffer, disk, index, cache, mux, worker, poller, edits,
                      queries, ghosts >>

ForwardDidChange ==
  LET f == hub.batch[hub.next]
      last == hub.next = Len(hub.batch)
  IN  /\ hub.pc = "forward"
      /\ engine' = [engine EXCEPT ![f] =
                      [text |-> index.source[f], at |-> hub.generation]]
      /\ hub' = [hub EXCEPT !.pc = IF last THEN "invalidate" ELSE "forward",
                            !.next = IF last THEN 1 ELSE @ + 1]
      /\ UNCHANGED << buffer, disk, index, cache, mux, worker, poller, edits,
                      queries, ghosts >>

(* on_file_dirty(): only the hub moves the generation of a marked file, so *)
(* reading it and retaining its keys is one step.                          *)
Invalidate ==
  LET f == hub.batch[hub.next]
      last == hub.next = Len(hub.batch)
  IN  /\ hub.pc = "invalidate"
      /\ store' = {e \in store :
                     e.file = f => e.generation = FileGeneration(f)}
      /\ hub' = [hub EXCEPT !.pc = IF last THEN "idle" ELSE "invalidate",
                            !.batch = IF last THEN << >> ELSE @,
                            !.next = IF last THEN 1 ELSE @ + 1]
      /\ UNCHANGED << buffer, disk, index, engine, queue, wakes, inflight, mux,
                      worker, poller, edits, queries, ghosts >>

HubStep == HubFlush \/ ApplyWatchBatch \/ ForwardDidChange \/ Invalidate

-----------------------------------------------------------------------------
(***************************************************************************)
(* The builder's worker: run() and drain_queue().  An indexed file passes  *)
(* is_open, and one worker never finds its own key in flight.              *)
(***************************************************************************)
worked == << buffer, disk, index, engine, mux, hub, poller, edits, queries,
             marks >>

WorkerRecv ==
  /\ worker.pc = "recv"
  /\ wakes > 0
  /\ wakes' = wakes - 1
  /\ worker' = WorkerAt("pop")
  /\ UNCHANGED << worked, store, queue, inflight, waiting >>

WorkerPop ==
  /\ worker.pc = "pop"
  /\ IF queue = << >>
       THEN worker' = WorkerAt("recv") /\ UNCHANGED << queue, inflight >>
       ELSE /\ queue' = Tail(queue)
            /\ inflight' = inflight \union {Head(queue)}
            /\ worker' = [worker EXCEPT !.pc = "generation", !.file = Head(queue)]
  /\ UNCHANGED << worked, store, wakes, waiting >>

WorkerGeneration ==
  /\ worker.pc = "generation"
  /\ worker' = [worker EXCEPT !.pc = "resolve",
                              !.generation = FileGeneration(worker.file)]
  /\ UNCHANGED << worked, cache, waiting >>

(* Mutant: an engine that is not ready leaves the miss in flight. *)
WorkerResolveLeavesInflight ==
  /\ worker.pc = "resolve"
  /\ \/ /\ worker' = [worker EXCEPT !.pc = "put",
                                    !.result = engine[worker.file]]
        /\ inflight' = inflight \ {worker.file}
        /\ UNCHANGED waiting
     \/ /\ worker' = WorkerAt("pop")
        /\ waiting' = waiting \ {worker.file}
        /\ UNCHANGED inflight
  /\ UNCHANGED << worked, store, queue, wakes >>

(* The engine answers from the text it has, or is not ready and nobody is  *)
(* told.                                                                   *)
WorkerResolve ==
  /\ worker.pc = "resolve"
  /\ inflight' = inflight \ {worker.file}
  /\ \/ /\ worker' = [worker EXCEPT !.pc = "put",
                                    !.result = engine[worker.file]]
        /\ UNCHANGED waiting
     \/ /\ worker' = WorkerAt("pop")
        /\ waiting' = waiting \ {worker.file}
  /\ UNCHANGED << worked, store, queue, wakes >>

(* Mutant: stores under the generation of the moment. *)
WorkerPutUnderLatest ==
  /\ worker.pc = "put"
  /\ LET g == FileGeneration(worker.file)
     IN  store' = {e \in store : e.file # worker.file \/ e.generation # g}
                  \union {[file |-> worker.file, generation |-> g,
                           result |-> worker.result]}
  /\ worker' = [worker EXCEPT !.pc = "notify"]
  /\ UNCHANGED << worked, queue, wakes, inflight, waiting >>

WorkerPut ==
  /\ worker.pc = "put"
  /\ store' = {e \in store : e.file # worker.file
                             \/ e.generation # worker.generation}
              \union {[file |-> worker.file, generation |-> worker.generation,
                       result |-> worker.result]}
  /\ worker' = [worker EXCEPT !.pc = "notify"]
  /\ UNCHANGED << worked, queue, wakes, inflight, waiting >>

CacheReady ==
  /\ worker.pc = "notify"
  /\ waiting' = waiting \ {worker.file}
  /\ worker' = WorkerAt("pop")
  /\ UNCHANGED << worked, cache >>

WorkerStep ==
  \/ WorkerRecv
  \/ WorkerPop
  \/ WorkerGeneration
  \/ WorkerResolve
  \/ WorkerPut
  \/ CacheReady

-----------------------------------------------------------------------------
(***************************************************************************)
(* reindex_known_paths() on a control thread: read the file, compare with  *)
(* the index under one lock, index it under another.                       *)
(***************************************************************************)
polled == << buffer, disk, engine, cache, mux, hub, worker, edits, queries,
             ghosts >>

PollRead(f) ==
  /\ poller.polls < MaxPolls
  /\ poller.pc = "idle"
  /\ poller' = [pc |-> "compare", file |-> f, text |-> disk[f],
                polls |-> poller.polls + 1]
  /\ UNCHANGED << polled, index >>

PollCompare ==
  /\ poller.pc = "compare"
  /\ poller' = IF index.source[poller.file] = poller.text
                 THEN PollerIdle(poller.polls)
                 ELSE [poller EXCEPT !.pc = "index"]
  /\ UNCHANGED << polled, index >>

PollIndex ==
  /\ poller.pc = "index"
  /\ IndexText(poller.file, poller.text)
  /\ poller' = PollerIdle(poller.polls)
  /\ UNCHANGED polled

(* The user saves the buffer.  A save that no poll can read any more is    *)
(* left out.                                                               *)
Save(f) ==
  /\ poller.polls < MaxPolls
  /\ disk[f] # buffer[f]
  /\ disk' = [disk EXCEPT ![f] = buffer[f]]
  /\ UNCHANGED << buffer, index, engine, cache, mux, hub, worker, poller, edits,
                  queries, ghosts >>

CacheNext ==
  \/ \E f \in Files : DidChange(f) \/ Query(f) \/ PollRead(f) \/ Save(f)
  \/ MuxStep
  \/ HubStep
  \/ WorkerStep
  \/ PollCompare
  \/ PollIndex

CacheFairness == WF_cachevars(MuxStep) /\ WF_cachevars(HubStep) /\ WF_cachevars(WorkerStep)

CacheSpec == CacheInit /\ [][CacheNext]_cachevars /\ CacheFairness

-----------------------------------------------------------------------------
(* Every variable stays within its type, the queue holds a miss once, and  *)
(* only what the worker is resolving is in flight.                         *)
CacheTypeOK ==
  /\ buffer \in [Files -> Nat] /\ disk \in [Files -> Nat]
  /\ index \in [generation : Nat, source : [Files -> Text],
                dirty : [Files -> Nat]]
  /\ engine \in [Files -> Answered]
  /\ store \in SUBSET Entry
  /\ queue \in Seq(Files)
  /\ \A i, j \in DOMAIN queue : queue[i] = queue[j] => i = j
  /\ wakes \in Nat
  /\ inflight = IF worker.pc \in {"generation", "resolve"} THEN {worker.file}
                                                          ELSE {}
  /\ mux \in [pc : {"idle", "apply", "publish", "lookup", "push", "wake"},
              file : Files \union {NoFile}, old : Text, key : Nat]
  /\ hub \in [pc : {"idle", "mark", "forward", "invalidate"}, chan : Seq(Files),
              generation : Nat, batch : Seq(Files), next : Nat]
  /\ worker \in [pc : {"recv", "pop", "generation", "resolve", "put", "notify"},
                 file : Files \union {NoFile}, generation : Nat,
                 result : Answered]
  /\ poller \in [pc : {"idle", "compare", "index"},
                 file : Files \union {NoFile}, text : Nat, polls : Nat]
  /\ edits \in Nat /\ queries \in Nat
  /\ waiting \in SUBSET Files
  /\ marks \in [Files -> SUBSET Nat]

(***************************************************************************)
(* How stale an answer can be: an entry under a hub generation was         *)
(* computed by an engine that had already been sent every batch for the    *)
(* file before that one (the worker reads the generation before it asks    *)
(* the engine).  A hit is under the generation of the file's last batch,   *)
(* so it is at most that one behind.  A generation that is no less than    *)
(* IngestedFiles may be the index's, and is not covered.                   *)
(***************************************************************************)
AtMostOneBatchBehind ==
  \A e \in store : e.generation < IngestedFiles =>
    \A m \in marks[e.file] : m < e.generation => m <= e.result.at

(***************************************************************************)
(* Every miss ends in a CacheReady notice, or in an engine that was not    *)
(* ready: a wake is never lost between on_miss and the worker's recv.      *)
(***************************************************************************)
MissIsAnswered == \A f \in Files : f \in waiting ~> f \notin waiting

(***************************************************************************)
(* The engine ends up with the editor's text of every file, through the    *)
(* batches alone, whatever the order of events inside a batch.  Once a     *)
(* control thread reindexes a file from disk this fails: it puts the text  *)
(* on disk in place of the unsaved one, and the next batch forwards it.    *)
(***************************************************************************)
EngineConverges ==
  \A f \in Files :
    <>[](engine[f].text = buffer[f] \/ poller.polls > 0)

(***************************************************************************)
(* "didChange MUST invalidate T3' entries": when every thread is at rest,  *)
(* no entry that a discover request would hit predates the buffer.  The    *)
(* code does not keep this promise: the worker may read the generation     *)
(* after the mark and ask the engine before the forward.                   *)
(***************************************************************************)
AtRest ==
  /\ mux.pc = "idle" /\ hub.pc = "idle" /\ hub.chan = << >>
  /\ worker.pc = "recv" /\ queue = << >> /\ poller.pc = "idle"

NoStaleHitAtRest ==
  AtRest => \A e \in store :
    e.generation = FileGeneration(e.file) => e.result.text = buffer[e.file]
=============================================================================
