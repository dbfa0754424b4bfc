----------------------------- MODULE ServeWatch -----------------------------
(***************************************************************************)
(* How file changes reach a progressive client (src/serve_host.rs and      *)
(* src/control_socket.rs).  Two writers share the host's FilesSince        *)
(* journal and its list of pending WatchBatch pushes:                      *)
(*   - the hub thread, which delivers batches of LSP buffer edits that     *)
(*     carry the coalescer's own generations, and                          *)
(*   - the control threads, one per connection, which on every read        *)
(*     timeout scan the tree while the hub is not running, and take        *)
(*     whatever pushes are pending.                                        *)
(* The hub is abstracted to what WatchHub shows of it: batches numbered    *)
(* 1, 2, ... that hold the published edits in order.  The production       *)
(* backend reports no disk event (nothing calls NotifyWatcher::push_mapped)*)
(* and no dispatched batch is flagged, so the need_rescan branch of        *)
(* poll_disk_watch is never taken and is left out.                         *)
(***************************************************************************)
EXTENDS FilesSinceJournal

CONSTANTS
  Conns,      \* control connections
  Denied,     \* paths that the on_watch script drops
  HubStarts,  \* whether initialize gets as far as starting the hub
  ScanLimit,  \* events one scan may report (256)
  MaxWrites,  \* bound: changes of the tree
  MaxEdits    \* bound: LSP buffer edits

ASSUME FiniteAssumption == IsFiniteSet(Conns) /\ IsFiniteSet(Paths)
ASSUME DeniedAssumption == Denied \subseteq Paths /\ HubStarts \in BOOLEAN
ASSUME ServeBounds ==
  /\ ScanLimit \in Nat \ {0}
  /\ MaxWrites \in Nat /\ MaxEdits \in Nat

VARIABLES
  disk,        \* stamp of each source file, Absent when there is none
  snapshot,    \* the stamps of the last scan
  hub,         \* the hub thread: [on, generation, chan, pc, batch]
  journal,
  subscribed,  \* the host's one subscription flag
  pending_batches,
  conn,        \* what each control thread is doing: [pc, now, events, batch]
  received,    \* the WatchBatch pushes written to each connection
  subscribers, \* the connections that called WatchSubscribe
  history,     \* every change a writer was about to journal, in order
  handed,      \* watermarks given to clients: [generation, upto]
  writes,      \* changes of the tree so far; the next stamp is writes + 2
  edits

vars == << disk, snapshot, hub, journal, subscribed, pending_batches, conn,
           received, subscribers, history, handed, writes, edits >>

Absent == 0
Kinds  == {"create", "modify", "delete"}
Change == [path : Paths, kind : Kinds, stamp : Nat]

(* `stamp` and `upto` are not in the code: the file's stamp, and the length*)
(* of `history` when the batch was journaled.                              *)
Batch == [events : SUBSET Change, overflow : BOOLEAN, generation : Nat,
          upto : Nat]

NoBatch == [events |-> {}, overflow |-> FALSE, generation |-> 0, upto |-> 0]

Watermark == [generation : Nat, upto : Nat]

HubState == [on : BOOLEAN, generation : Nat, chan : Seq(Paths),
             pc : {"idle", "journal", "push"}, batch : Batch]

ConnState == [pc : {"idle", "diff", "journal", "push", "drain", "closed"},
              now : [Paths -> Nat], events : SUBSET Change, batch : Batch]

HubIdle  == [on |-> FALSE, generation |-> 0, chan |-> << >>, pc |-> "idle",
             batch |-> NoBatch]
ConnIdle == [pc |-> "idle", now |-> [p \in Paths |-> Absent], events |-> {},
             batch |-> NoBatch]

Init ==
  /\ disk = [p \in Paths |-> 1]
  /\ snapshot = [p \in Paths |-> Absent]
  /\ hub = HubIdle
  /\ journal = EmptyJournal
  /\ subscribed = FALSE
  /\ pending_batches = << >>
  /\ conn = [c \in Conns |-> ConnIdle]
  /\ received = [c \in Conns |-> << >>]
  /\ subscribers = {}
  /\ history = << >>
  /\ handed = {}
  /\ writes = 0
  /\ edits = 0

-----------------------------------------------------------------------------
(* The environment: the user's tree and the editor.                        *)
env  == << writes, edits >>
host == << journal, subscribed, pending_batches >>
seen == << received, subscribers, history, handed >>

WriteFile(p) ==
  /\ writes < MaxWrites
  /\ writes' = writes + 1
  /\ disk' = [disk EXCEPT ![p] = writes + 2]
  /\ UNCHANGED << snapshot, hub, host, conn, seen, edits >>

DeleteFile(p) ==
  /\ writes < MaxWrites
  /\ disk[p] # Absent
  /\ writes' = writes + 1
  /\ disk' = [disk EXCEPT ![p] = Absent]
  /\ UNCHANGED << snapshot, hub, host, conn, seen, edits >>

(* ServeHost::did_change on the LSP thread, once the hub runs.             *)
DidChange(p) ==
  /\ hub.on
  /\ edits < MaxEdits
  /\ edits' = edits + 1
  /\ hub' = [hub EXCEPT !.chan = Append(@, p)]
  /\ UNCHANGED << disk, snapshot, host, conn, seen, writes >>

(* FileHubSlot::try_start, reached at the end of initialize.               *)
StartHub ==
  /\ HubStarts
  /\ ~hub.on
  /\ hub' = [hub EXCEPT !.on = TRUE]
  /\ UNCHANGED << disk, snapshot, host, conn, seen, env >>

-----------------------------------------------------------------------------
(* The events of a batch in the order of its list, whichever that is.      *)
Listed(events) ==
  CHOOSE s \in [1 .. Cardinality(events) -> events] :
    \A e \in events : \E i \in DOMAIN s : s[i] = e

ListedPaths(events) ==
  [i \in 1 .. Cardinality(events) |-> Listed(events)[i].path]

(* Mutant: journals no deletion. *)
JournalBatchWithoutDeletes(j, events, g, overflow) ==
  RecordAll(IF overflow THEN MarkOverflow(j, g) ELSE j,
            ListedPaths({e \in events : e.kind # "delete"}), g, 0)

(* Mutant: journals under the generation before the batch's. *)
JournalBatchUnderPrevious(j, events, g, overflow) ==
  RecordAll(IF overflow THEN MarkOverflow(j, g) ELSE j,
            ListedPaths(events), g - 1, 0)

(* Both writers: journal the events of a batch under one generation.       *)
JournalBatch(j, events, g, overflow) ==
  RecordAll(IF overflow THEN MarkOverflow(j, g) ELSE j,
            ListedPaths(events), g, 0)

Remember(events) == history \o Listed(events)

(* Mutant: queues a push whether or not anyone subscribed. *)
PushAlways(batch) == pending_batches' = Append(pending_batches, batch)

PushIfSubscribed(batch) ==
  pending_batches' = IF subscribed THEN Append(pending_batches, batch)
                                   ELSE pending_batches

(***************************************************************************)
(* The hub thread: deliver_hub_batch, whose control subscriber journals    *)
(* the unfiltered batch under the hub's generation and then, with the      *)
(* journal unlocked, queues the push.                                      *)
(***************************************************************************)
HubFlush ==
  /\ hub.on /\ hub.pc = "idle" /\ hub.chan # << >>
  /\ LET events == {[path |-> hub.chan[i], kind |-> "modify",
                     stamp |-> disk[hub.chan[i]]] : i \in DOMAIN hub.chan}
         g == hub.generation + 1
     IN  hub' = [hub EXCEPT !.generation = g, !.chan = << >>,
                            !.pc = "journal",
                            !.batch = [NoBatch EXCEPT !.events = events,
                                                      !.generation = g]]
  /\ UNCHANGED << disk, snapshot, host, conn, seen, env >>

HubJournal ==
  /\ hub.pc = "journal"
  /\ journal' = JournalBatch(journal, hub.batch.events, hub.batch.generation,
                             FALSE)
  /\ history' = Remember(hub.batch.events)
  /\ hub' = [hub EXCEPT !.pc = "push", !.batch.upto = Len(history')]
  /\ UNCHANGED << disk, snapshot, subscribed, pending_batches, conn, received,
                  subscribers, handed, env >>

HubPush ==
  /\ hub.pc = "push"
  /\ PushIfSubscribed(hub.batch)
  /\ hub' = [hub EXCEPT !.pc = "idle", !.batch = NoBatch]
  /\ UNCHANGED << disk, snapshot, journal, subscribed, conn, seen, env >>

-----------------------------------------------------------------------------
(***************************************************************************)
(* A control thread: poll_disk_watch, then write_pushes.  While the hub    *)
(* runs the poll only reindexes known paths, which journals nothing.       *)
(***************************************************************************)
Goto(c, where) == conn' = [conn EXCEPT ![c].pc = where]

(* Mutant: writes pushes after a scan only. *)
PollBeginsToScanOnly(c) ==
  /\ conn[c].pc = "idle"
  /\ ~hub.on
  /\ conn' = [conn EXCEPT ![c].pc = "diff", ![c].now = disk]
  /\ UNCHANGED << disk, snapshot, hub, host, seen, env >>

PollBegins(c) ==
  /\ conn[c].pc = "idle"
  /\ IF hub.on
       THEN Goto(c, "drain")
       ELSE conn' = [conn EXCEPT ![c].pc = "diff", ![c].now = disk]
  /\ UNCHANGED << disk, snapshot, hub, host, seen, env >>

(* What a scan reports: the files whose stamp is not the snapshot's.       *)
KindOf(old, new) ==
  IF old = Absent THEN "create" ELSE IF new = Absent THEN "delete" ELSE "modify"

DiffOf(now, changed) ==
  {[path |-> p, kind |-> KindOf(snapshot[p], now[p]), stamp |-> now[p]] :
     p \in changed}

(* Mutant: reports no deleted file. *)
DiffWithoutDeletes(now) ==
  DiffOf(now, {p \in Paths : now[p] # snapshot[p] /\ now[p] # Absent})

(* Mutant: compares the names of the files only. *)
DiffOfNames(now) ==
  DiffOf(now, {p \in Paths : (now[p] = Absent) # (snapshot[p] = Absent)})

Diff(now) == DiffOf(now, {p \in Paths : now[p] # snapshot[p]})

(* The first scan, or one after an empty one, only takes the snapshot.     *)
ScanDiff(c) ==
  LET first == \A p \in Paths : snapshot[p] = Absent
      found == IF first THEN {} ELSE Diff(conn[c].now)
  IN  /\ conn[c].pc = "diff"
      /\ snapshot' = conn[c].now
      /\ conn' = [conn EXCEPT ![c] =
           [ConnIdle EXCEPT !.pc = IF found = {} THEN "drain" ELSE "journal",
                            !.events = {e \in found : e.path \notin Denied}]]
      /\ UNCHANGED << disk, hub, host, seen, env >>

(* Under the journal lock: the next generation, the overflow cut, records. *)
ScanJournal(c) ==
  /\ conn[c].pc = "journal"
  /\ LET all == conn[c].events
         g   == journal.current_generation + 1
         overflow == Cardinality(all) > ScanLimit
     IN  \E kept \in SUBSET all :
           /\ Cardinality(kept) = IF overflow THEN ScanLimit ELSE Cardinality(all)
           /\ journal' = JournalBatch(journal, kept, g, overflow)
           /\ history' = Remember(all)
           /\ conn' = [conn EXCEPT ![c] = [ConnIdle EXCEPT
                !.pc = "push",
                !.batch = [events |-> kept, overflow |-> overflow,
                           generation |-> g, upto |-> Len(history')]]]
  /\ UNCHANGED << disk, snapshot, hub, subscribed, pending_batches, received,
                  subscribers, handed, env >>

ScanPush(c) ==
  /\ conn[c].pc = "push"
  /\ PushIfSubscribed(conn[c].batch)
  /\ conn' = [conn EXCEPT ![c] = [ConnIdle EXCEPT !.pc = "drain"]]
  /\ UNCHANGED << disk, snapshot, hub, journal, subscribed, seen, env >>

(* Mutant: reads the list and leaves it as it is. *)
PeekWatchBatches == UNCHANGED pending_batches

(* drain_pushes takes the whole list; the write that fails ends the        *)
(* connection, and what was not yet written is lost.                       *)
TakeWatchBatches == pending_batches' = << >>

WritePushes(c) ==
  /\ conn[c].pc = "drain"
  /\ TakeWatchBatches
  /\ \E n \in 0 .. Len(pending_batches) :
       LET sent == SubSeq(pending_batches, 1, n)
       IN  /\ received' = [received EXCEPT ![c] = @ \o sent]
           /\ handed' = handed \union
                {[generation |-> sent[i].generation, upto |-> sent[i].upto] :
                   i \in DOMAIN sent}
           /\ conn' = [conn EXCEPT ![c] =
                IF n = Len(pending_batches) THEN ConnIdle
                ELSE [ConnIdle EXCEPT !.pc = "closed"]]
  /\ UNCHANGED << disk, snapshot, hub, journal, subscribed, subscribers,
                  history, env >>

(* The WatchSubscribe request: the flag is the host's, the poll follows.   *)
WatchSubscribe(c) ==
  /\ conn[c].pc = "idle"
  /\ c \notin subscribers
  /\ subscribers' = subscribers \union {c}
  /\ subscribed' = TRUE
  /\ UNCHANGED << disk, snapshot, hub, journal, pending_batches, conn, received,
                  history, handed, env >>

(* Mutant: answers with the generation that comes next. *)
FilesSinceNext(c) ==
  /\ conn[c].pc = "idle"
  /\ handed' = handed \union {[generation |-> journal.current_generation + 1,
                               upto |-> Len(history)]}
  /\ UNCHANGED << disk, snapshot, hub, host, conn, received, subscribers,
                  history, env >>

(* The FilesSince request hands out the journal's watermark.               *)
FilesSince(c) ==
  /\ conn[c].pc = "idle"
  /\ handed' = handed \union {[generation |-> journal.current_generation,
                               upto |-> Len(history)]}
  /\ UNCHANGED << disk, snapshot, hub, host, conn, received, subscribers,
                  history, env >>

HubStep == HubFlush \/ HubJournal \/ HubPush

ConnStep(c) ==
  \/ PollBegins(c)
  \/ ScanDiff(c)
  \/ ScanJournal(c)
  \/ ScanPush(c)
  \/ WritePushes(c)

Next ==
  \/ \E p \in Paths : WriteFile(p) \/ DeleteFile(p) \/ DidChange(p)
  \/ StartHub
  \/ HubStep
  \/ \E c \in Conns : ConnStep(c) \/ WatchSubscribe(c) \/ FilesSince(c)

Fairness == WF_vars(HubStep) /\ \A c \in Conns : WF_vars(ConnStep(c))

Spec == Init /\ [][Next]_vars /\ Fairness

-----------------------------------------------------------------------------
(* Every variable of the host's watch state stays within its type, a push  *)
(* is only queued once someone subscribed, and an idle thread holds        *)
(* nothing.                                                                *)
TypeOK ==
  /\ disk \in [Paths -> Nat]
  /\ snapshot \in [Paths -> Nat]
  /\ hub \in HubState
  /\ journal \in Journal
  /\ subscribed \in BOOLEAN
  /\ pending_batches \in Seq(Batch)
  /\ pending_batches # << >> => subscribed
  /\ conn \in [Conns -> ConnState]
  /\ \A c \in Conns : conn[c].pc = "idle" => conn[c] = ConnIdle
  /\ received \in [Conns -> Seq(Batch)]
  /\ subscribers \in SUBSET Conns
  /\ history \in Seq(Change)
  /\ handed \in SUBSET Watermark
  /\ writes \in Nat /\ edits \in Nat

(***************************************************************************)
(* "Monotonic watch/index generation. Pass it to FilesSince": a client     *)
(* that passes any generation it was given, by a push or by an earlier     *)
(* answer, learns every change journaled since, or that the answer is      *)
(* truncated (deliver_hub_batch, the scan and files_since together).       *)
(***************************************************************************)
WatermarkSound ==
  \A w \in handed :
    LET answer == SinceGeneration(journal, w.generation)
    IN  answer.truncated \/
        {history[k].path : k \in (w.upto + 1) .. Len(history)}
          \subseteq answer.paths

(***************************************************************************)
(* The generations a connection receives never go back, although the push  *)
(* is queued after the journal is unlocked.                                *)
(***************************************************************************)
PushesMonotonic ==
  \A c \in Conns : \A i, j \in DOMAIN received[c] :
    i < j => received[c][i].generation <= received[c][j].generation

(***************************************************************************)
(* A client that replays the journal is not left with a file that is gone: *)
(* when no scan is under way, a path whose last journaled change says it   *)
(* exists is in the snapshot the next scan compares with, so its deletion  *)
(* has been or will be reported.                                           *)
(***************************************************************************)
LastChange(p) ==
  LET at == {k \in DOMAIN history : history[k].path = p}
  IN  history[CHOOSE k \in at : \A m \in at : m <= k]

NoPhantomFile ==
  \A p \in Paths :
    (/\ \A c \in Conns : conn[c].pc \in {"idle", "drain", "closed"}
     /\ \E k \in DOMAIN history : history[k].path = p
     /\ LastChange(p).kind # "delete")
    => snapshot[p] # Absent

(***************************************************************************)
(* A pushed batch is in the journal before anyone sees it: FilesSince from *)
(* the generation before the batch's names its paths, or says truncated.   *)
(***************************************************************************)
PushIsJournaled ==
  \A c \in Conns : \A i \in DOMAIN received[c] :
    LET batch  == received[c][i]
        answer == SinceGeneration(journal, batch.generation - 1)
    IN  answer.truncated \/
        {e.path : e \in batch.events} \subseteq answer.paths

(***************************************************************************)
(* take_watch_batches hands every batch to one connection only, once,      *)
(* however the connections and the hub thread interleave.                  *)
(***************************************************************************)
PushedOnce ==
  \A c, d \in Conns : \A i \in DOMAIN received[c], j \in DOMAIN received[d] :
    (/\ received[c][i].upto = received[d][j].upto
     /\ received[c][i].events # {}
     /\ received[d][j].events # {}) => c = d /\ i = j

(***************************************************************************)
(* Nothing stays behind once the host is subscribed: what was published to *)
(* the hub is journaled, and every pending push, whichever thread queued   *)
(* it, is taken by some connection, unless they have all been closed.      *)
(***************************************************************************)
Unsent == hub.chan # << >> \/ hub.pc # "idle" \/ pending_batches # << >>

PushesDrain ==
  (subscribed /\ Unsent) ~>
    (~Unsent \/ \A c \in Conns : conn[c].pc = "closed")

(***************************************************************************)
(* "You will receive WatchBatch pushes": a connection that subscribed is   *)
(* told of each further change of the tree, by name or by a batch that     *)
(* overflowed since, unless the file changes again, the connection closes, *)
(* or the tree was empty at the last scan (which the scan cannot tell from *)
(* no scan at all).                                                        *)
(***************************************************************************)
Told(c, p, stamp) ==
  \E i \in DOMAIN received[c] :
    \/ \E e \in received[c][i].events : e.path = p /\ e.stamp = stamp
    \/ /\ received[c][i].overflow
       /\ \E k \in 1 .. received[c][i].upto :
            history[k].path = p /\ history[k].stamp = stamp

SubscriberTold ==
  \A c \in Conns, p \in Paths, n \in 0 .. MaxWrites + 1 :
    (c \in subscribers /\ disk[p] = n /\ snapshot[p] # n) ~>
      \/ Told(c, p, n)
      \/ disk[p] # n
      \/ conn[c].pc = "closed"
      \/ \A q \in Paths : snapshot[q] = Absent
=============================================================================
