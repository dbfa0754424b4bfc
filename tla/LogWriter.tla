------------------------------ MODULE LogWriter ------------------------------
(***************************************************************************)
(* The product log (progressive-lsp-log): threads emit records into a      *)
(* bounded mailbox, one writer thread batches them and commits each batch   *)
(* in one SQLite transaction, a failed commit keeps its rows for the next.  *)
(* Before that, the process logs into a ring in memory until one of three   *)
(* database paths opens and the ring is replayed (open_plan.rs).            *)
(* A record is the number of its emit; level and text are left out, except  *)
(* that any record may be an Error.                                         *)
(***************************************************************************)
EXTENDS Integers, FiniteSets, SequencesExt

CONSTANTS
  Loggers,     \* the threads that emit and flush
  Main,        \* the one that opens the log
  Cap,         \* CHANNEL_CAP: records the mailbox holds
  RetryCap,    \* RETRY_CAP: rows kept after a failed commit
  RingCap,     \* MEMORY_LOG_CAP
  BatchMax,    \* BATCH_MAX; with_limits() raises 0 to 1
  Timed,       \* batch_ms > 0
  MaxRecords,  \* bound: records emitted
  MaxFaults    \* bound: commits that fail

ASSUME LogAssumption ==
  /\ Main \in Loggers
  /\ {Cap, RetryCap, RingCap, BatchMax} \subseteq Nat \ {0}
  /\ Timed \in BOOLEAN
  /\ {MaxRecords, MaxFaults} \subseteq Nat

VARIABLES
  phase,     \* boot, replay, open, memory, closing, stopped
  opens,     \* paths of the plan that failed to open
  ring,      \* MemoryLog
  shed,      \* history: the last record the full ring gave up
  emitted,   \* records emitted so far
  flushing,  \* the loggers that wait for a flush, and what they had seen
  mailbox,   \* Mailbox.q
  dropped,   \* Mailbox.dropped
  hand,      \* the message the writer has received and not yet handled
  pending, retry, lost,  \* CrashSafeBatch; lost is its dropped_count
  elapsed,   \* batch_ms has passed since the last good commit
  faults,    \* commits that failed
  db,        \* the rows of the log table, in id order
  flushed    \* history: the last record emitted before an acknowledged flush

batch  == << pending, retry, lost >>
writer == << hand, batch, elapsed, faults, db, flushed >>
plan   == << phase, opens, ring, shed >>
vars   == << plan, emitted, flushing, mailbox, dropped, writer >>

(* Rows: a record, or the warning that so many records were dropped.       *)
Row(i)  == [id |-> i, drops |-> 0]
Meta(n) == [id |-> 0, drops |-> n]

Record(i) == [kind |-> "record", id |-> i, by |-> Main]
Flush(l)  == [kind |-> "flush", id |-> 0, by |-> l]
Shutdown  == [kind |-> "shutdown", id |-> 0, by |-> Main]
TimedOut  == [kind |-> "timeout", id |-> 0, by |-> Main]
Nothing   == [kind |-> "none", id |-> 0, by |-> Main]

Init ==
  /\ phase = "boot" /\ opens = 0 /\ ring = << >> /\ shed = 0
  /\ emitted = 0
  /\ flushing = [l \in Loggers |-> -1]
  /\ mailbox = << >> /\ dropped = 0
  /\ hand = Nothing
  /\ pending = << >> /\ retry = << >> /\ lost = 0
  /\ elapsed = FALSE /\ faults = 0
  /\ db = << >> /\ flushed = 0

-----------------------------------------------------------------------------
(* The mailbox *)

Records(q) == {i \in DOMAIN q : q[i].kind = "record"}

(* Mutant: the mailbox holds one record more. *)
FullOneLater == Cardinality(Records(mailbox)) > Cap

Full == Cardinality(Records(mailbox)) >= Cap

Oldest(q) == CHOOSE i \in Records(q) : \A j \in Records(q) : i <= j

(* Mutant: an urgent message overtakes the records. *)
PutUrgent(m) ==
  \/ /\ m.kind = "record" /\ Full
     /\ mailbox' = Append(RemoveAt(mailbox, Oldest(mailbox)), m)
     /\ dropped' = dropped + 1
  \/ /\ ~ (m.kind = "record" /\ Full)
     /\ mailbox' = IF m.kind = "record" THEN Append(mailbox, m) ELSE << m >> \o mailbox
     /\ UNCHANGED dropped

(* try_push: only a record can find the mailbox full, and the oldest       *)
(* record makes room for it, whatever flushes wait before or after.        *)
Put(m) ==
  \/ /\ m.kind = "record" /\ Full
     /\ mailbox' = Append(RemoveAt(mailbox, Oldest(mailbox)), m)
     /\ dropped' = dropped + 1
  \/ /\ ~ (m.kind = "record" /\ Full)
     /\ mailbox' = Append(mailbox, m)
     /\ UNCHANGED dropped

-----------------------------------------------------------------------------
(* The threads that log *)

(* emit() on the opened log. *)
Emit(l) ==
  /\ phase = "open"
  /\ flushing[l] = -1
  /\ emitted < MaxRecords
  /\ emitted' = emitted + 1
  /\ Put(Record(emitted + 1))
  /\ UNCHANGED << plan, flushing, writer >>

(* flush() sends an acknowledgement channel and waits for it. *)
Ask(l) ==
  /\ flushing' = [flushing EXCEPT ![l] = emitted]
  /\ Put(Flush(l))

CallFlush(l) ==
  /\ phase = "open"
  /\ flushing[l] = -1
  /\ Ask(l)
  /\ UNCHANGED << plan, emitted, writer >>

(* The last handle is dropped: no thread is inside the log any more. *)
Close ==
  /\ phase = "open"
  /\ \A l \in Loggers : flushing[l] = -1
  /\ phase' = "closing"
  /\ Put(Shutdown)
  /\ UNCHANGED << opens, ring, shed, emitted, flushing, writer >>

(* MemoryLog::emit, before the log opens and after no path opened: the     *)
(* oldest record leaves a full ring and nobody counts it.                  *)
IntoRing(r) ==
  IF Len(ring) = RingCap
    THEN ring' = Append(Tail(ring), r) /\ shed' = Head(ring)
    ELSE ring' = Append(ring, r) /\ UNCHANGED shed

EmitRing ==
  /\ phase \in {"boot", "memory"}
  /\ emitted < MaxRecords
  /\ emitted' = emitted + 1
  /\ IntoRing(emitted + 1)
  /\ UNCHANGED << phase, opens, flushing, mailbox, dropped, writer >>

(* LogOpenPlan::execute tries primary, fallback and temp. *)
OpenFails ==
  /\ phase = "boot"
  /\ opens' = opens + 1
  /\ IF opens' = 3
       THEN /\ phase' = "memory"
            /\ emitted' = emitted + 1
            /\ IntoRing(emitted + 1)
       ELSE UNCHANGED << phase, emitted, ring, shed >>
  /\ UNCHANGED << flushing, mailbox, dropped, writer >>

OpenSucceeds ==
  /\ phase = "boot"
  /\ phase' = "replay"
  /\ UNCHANGED << opens, ring, shed, emitted, flushing, mailbox, dropped, writer >>

(* finish_opened: the ring is emitted again, then a warning if a path had  *)
(* failed, then a flush that ends the opening when it is acknowledged.     *)
Replay ==
  /\ phase = "replay"
  /\ flushing[Main] = -1
  /\ \/ /\ ring # << >>
        /\ Put(Record(Head(ring)))
        /\ ring' = Tail(ring)
        /\ UNCHANGED << opens, emitted, flushing >>
     \/ /\ ring = << >> /\ opens > 0
        /\ emitted' = emitted + 1
        /\ Put(Record(emitted + 1))
        /\ opens' = 0
        /\ UNCHANGED << ring, flushing >>
     \/ /\ ring = << >> /\ opens = 0
        /\ Ask(Main)
        /\ UNCHANGED << opens, ring, emitted >>
  /\ UNCHANGED << phase, shed, writer >>

-----------------------------------------------------------------------------
(* The writer thread *)

Running == phase \in {"replay", "open", "closing"}

(* Mutant: rows that wait for a retry do not count. *)
IdleForgets == pending = << >>

(* CrashSafeBatch::is_empty *)
Idle == pending = << >> /\ retry = << >>

(* run_loop waits with a timeout only if a batch is open. *)
WaitTimed == ~ Idle /\ Timed /\ BatchMax > 1

Receive ==
  /\ Running
  /\ hand = Nothing
  /\ \/ /\ mailbox # << >>
        /\ hand' = Head(mailbox)
        /\ mailbox' = Tail(mailbox)
     \/ /\ mailbox = << >> /\ WaitTimed
        /\ hand' = TimedOut
        /\ UNCHANGED mailbox
  /\ UNCHANGED << plan, emitted, flushing, dropped, batch, elapsed, faults, db, flushed >>

(* The clock passes batch_ms. *)
Elapse ==
  /\ Running /\ Timed /\ ~ elapsed
  /\ elapsed' = TRUE
  /\ UNCHANGED << plan, emitted, flushing, mailbox, dropped, hand, batch, faults, db, flushed >>

(* Mutant: pending rows are written before the retried ones. *)
RowsOfNewestFirst(p) ==
  LET n == lost + dropped
  IN  p \o retry \o IF n = 0 THEN << >> ELSE << Meta(n) >>

(* Mutant: no warning about dropped records is written. *)
RowsOfUntold(p) == retry \o p

(* The rows of a commit: the retried ones first, and the warning last. *)
RowsOf(p) ==
  LET n == lost + dropped
  IN  retry \o p \o IF n = 0 THEN << >> ELSE << Meta(n) >>

(* What on_commit_fail drops of the rows: all but the newest RetryCap. *)
Overflow(rows) == IF Len(rows) > RetryCap THEN Len(rows) - RetryCap ELSE 0

(* commit() with the pending rows p.  take_dropped swaps a zero into the   *)
(* mailbox's count, and the warning is taken before the write, so a failed *)
(* commit may drop it like any row.                                        *)
Commit(p) ==
  LET rows == RowsOf(p)
  IN  /\ dropped' = 0
      /\ pending' = << >>
      /\ \/ /\ rows = << >>
            /\ UNCHANGED << retry, lost, elapsed, faults, db >>
         \/ /\ rows # << >>
            /\ db' = db \o rows
            /\ retry' = << >>
            /\ lost' = 0
            /\ elapsed' = FALSE
            /\ UNCHANGED faults
         \/ /\ rows # << >>
            /\ faults < MaxFaults
            /\ faults' = faults + 1
            /\ lost' = Overflow(rows)
            /\ retry' = SubSeq(rows, Overflow(rows) + 1, Len(rows))
            /\ UNCHANGED << elapsed, db >>

(* CrashSafeBatch::push; error is the record's level. *)
HandleRecord ==
  /\ hand.kind = "record"
  /\ LET p == Append(pending, Row(hand.id))
     IN  \E error \in BOOLEAN :
           IF error \/ Len(p) >= BatchMax \/ elapsed
             THEN Commit(p)
             ELSE /\ pending' = p
                  /\ UNCHANGED << dropped, retry, lost, elapsed, faults, db >>
  /\ UNCHANGED << phase, flushing, flushed >>

HandleTimeout ==
  /\ hand.kind = "timeout"
  /\ Commit(pending)
  /\ UNCHANGED << phase, flushing, flushed >>

(* ack.send *)
Answer(l) == flushing' = [flushing EXCEPT ![l] = -1]

(* The acknowledgement is sent whether or not the commit succeeded. *)
HandleFlush ==
  /\ hand.kind = "flush"
  /\ Commit(pending)
  /\ flushed' = IF flushing[hand.by] > flushed THEN flushing[hand.by] ELSE flushed
  /\ Answer(hand.by)
  /\ phase' = IF phase = "replay" THEN "open" ELSE phase

HandleShutdown ==
  /\ hand.kind = "shutdown"
  /\ Commit(pending)
  /\ phase' = "stopped"
  /\ UNCHANGED << flushing, flushed >>

Handle ==
  /\ HandleRecord \/ HandleTimeout \/ HandleFlush \/ HandleShutdown
  /\ hand' = Nothing
  /\ UNCHANGED << opens, ring, shed, emitted, mailbox >>

-----------------------------------------------------------------------------
WriterStep == Receive \/ Handle

Next ==
  \/ \E l \in Loggers : Emit(l) \/ CallFlush(l)
  \/ EmitRing \/ OpenFails \/ OpenSucceeds \/ Replay \/ Close
  \/ WriterStep \/ Elapse

(* recv returns what is queued and recv_timeout returns at its deadline;   *)
(* the opening thread runs to the end of finish_opened.                    *)
Spec == Init /\ [][Next]_vars /\ WF_vars(WriterStep) /\ WF_vars(Replay)

-----------------------------------------------------------------------------
(* Where a record is on its way, oldest first: db, then the batch (retry   *)
(* before pending), then the message in hand, the mailbox, the ring.       *)
InFlight == retry \o pending \o << hand >> \o mailbox

Waiting == [i \in DOMAIN ring |-> Record(ring[i])]

Ids(q) == {q[i].id : i \in DOMAIN q} \ {0}

Ordered(q) ==
  \A i, j \in DOMAIN q :
    i < j /\ q[i].id > 0 /\ q[j].id > 0 => q[i].id < q[j].id

Before(q, r) == \A m \in Ids(q), n \in Ids(r) : m < n

(* The rows of the log, read by id, and the records still on their way     *)
(* follow the order in which they were emitted, over failed commits,       *)
(* retries and drops; none is written twice (batch.rs:81-100).             *)
InEmitOrder ==
  LET stages == << db, retry, pending, << hand >>, mailbox, Waiting >>
  IN  \A s \in 1 .. 6 :
        /\ Ordered(stages[s])
        /\ \A t \in 1 .. 6 : s < t => Before(stages[s], stages[t])

(* A record the mailbox or the retry list has dropped (not the ring, which *)
(* counts nothing) is told: it is still counted, or a warning is on its    *)
(* way or written, even when a warning was itself dropped                  *)
(* (batch.rs:92-121).                                                      *)
Told(q) == \E i \in DOMAIN q : q[i].drops > 0

Missing ==
  {i \in shed + 1 .. emitted : i \notin Ids(db) \union Ids(InFlight) \union Ids(Waiting)}

LossIsTold == Missing # {} => dropped + lost > 0 \/ Told(db) \/ Told(retry)

(* After an acknowledged flush nothing that was emitted before it waits in *)
(* the mailbox or in the open batch: it is written, or counted as dropped, *)
(* or it waits for a retry because the commit failed (actor.rs:248-251).   *)
FlushIsBarrier ==
  /\ \A i \in Records(mailbox) : mailbox[i].id > flushed
  /\ \A i \in DOMAIN pending : pending[i].id > flushed
  /\ hand.kind = "record" => hand.id > flushed

(* What a crash can lose: a full mailbox, the record in hand, less than a  *)
(* batch, and the retry list (actor.rs:41-57, batch.rs:60-99).             *)
CrashLosesBounded ==
  /\ Cardinality(Records(mailbox)) <= Cap
  /\ Len(pending) < BatchMax
  /\ Len(retry) <= RetryCap

(* Every record that entered the mailbox is written or dropped, unless the *)
(* writer stopped: rows of a failed commit are retried by the timeout even *)
(* if nothing is logged any more (actor.rs:226-240).                       *)
EventuallyWritten ==
  Timed /\ BatchMax > 1 =>
    \A i \in 1 .. MaxRecords + 1 :
      i \in Ids(InFlight) ~> (i \notin Ids(InFlight) \/ phase = "stopped")

=============================================================================
