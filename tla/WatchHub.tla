------------------------------ MODULE WatchHub ------------------------------
(***************************************************************************)
(* FileEventHub::start_system (progressive-lsp-watch/src/hub.rs): one      *)
(* thread receives commands from a bounded channel, drains it, polls the   *)
(* watch backend and hands one coalesced batch to its subscribers.         *)
(* Publishers (LSP didChange, through FileHubSlot) and the disk run beside *)
(* it.                                                                     *)
(***************************************************************************)
EXTENDS WatchCoalescer

CONSTANT ChanCap  \* capacity of the sync_channel

ASSUME ChanCapAssumption == ChanCap \in Nat \ {0}

VARIABLES
  chan,       \* HubCommands sent and not yet received
  raw,        \* events the backend will return from its next poll
  connected,  \* some HubHandle (a Sender) still exists
  pc          \* where the hub thread is in its loop

hubvars == << vars, chan, raw, connected, pc >>
thread  == << now, ingested >>

Stop == [cmd |-> "Stop"]
Publish(ev) == [cmd |-> "Publish", event |-> ev]

Commands == {Stop} \union [cmd : {"Publish"}, event : Event]

HubInit ==
  /\ Init
  /\ chan = << >>
  /\ raw = << >>
  /\ connected = TRUE
  /\ pc = "recv"

-----------------------------------------------------------------------------
(* The clients.  send() blocks while the channel is full; once the hub     *)
(* thread has returned, the receiver is gone and publish() discards.       *)
PublishModify(p) ==
  /\ connected
  /\ ingested < MaxEvents
  /\ pc # "stopped" => Len(chan) < ChanCap
  /\ ingested' = ingested + 1
  /\ chan' = IF pc = "stopped" THEN chan
             ELSE Append(chan, Publish(NewEvent(p, "buffer", ingested + 1)))
  /\ UNCHANGED << now, cvars, raw, connected, pc >>

(* Bound: one Stop is in flight at a time. *)
SendStop ==
  /\ connected
  /\ pc # "stopped"
  /\ Len(chan) < ChanCap
  /\ \A i \in DOMAIN chan : chan[i] # Stop
  /\ chan' = Append(chan, Stop)
  /\ UNCHANGED << vars, raw, connected, pc >>

DropHandles ==
  /\ connected
  /\ connected' = FALSE
  /\ UNCHANGED << vars, chan, raw, pc >>

(* The backend sees a change on disk; a stopped backend reports nothing.   *)
DiskChange(p) ==
  /\ ingested < MaxEvents
  /\ pc # "stopped"
  /\ ingested' = ingested + 1
  /\ raw' = Append(raw, NewEvent(p, "disk", ingested + 1))
  /\ UNCHANGED << now, cvars, chan, connected, pc >>

-----------------------------------------------------------------------------
(* The hub thread: recv_timeout, then try_recv until empty, then the       *)
(* backend, then flush_due().or_else(flush_now) and the dispatch.          *)
Receive(here) ==
  /\ pc = here
  /\ chan # << >>
  /\ chan' = Tail(chan)
  /\ UNCHANGED << thread, raw, connected >>
  /\ \/ /\ Head(chan) = Stop
        /\ pc' = "stopped"
        /\ UNCHANGED cvars
     \/ /\ Head(chan) # Stop
        /\ pc' = "drain"
        /\ Ingest(<< Head(chan).event >>)

(* Mutant: recv() without a timeout. *)
RecvBlocks == FALSE /\ UNCHANGED hubvars

RecvTimeout ==
  /\ pc = "recv"
  /\ chan = << >>
  /\ connected
  /\ pc' = "drain"
  /\ UNCHANGED << vars, chan, raw, connected >>

RecvDisconnected ==
  /\ pc = "recv"
  /\ chan = << >>
  /\ ~connected
  /\ pc' = "stopped"
  /\ UNCHANGED << vars, chan, raw, connected >>

Drained ==
  /\ pc = "drain"
  /\ chan = << >>
  /\ pc' = "poll"
  /\ UNCHANGED << vars, chan, raw, connected >>

(* Mutant: the events of the backend are lost after a drain. *)
PollBackendWhenNothingDrained ==
  /\ pc = "poll"
  /\ pc' = "flush"
  /\ IF pending = << >> THEN Ingest(raw) ELSE UNCHANGED cvars
  /\ raw' = << >>
  /\ UNCHANGED << thread, chan, connected >>

PollBackend ==
  /\ pc = "poll"
  /\ pc' = "flush"
  /\ Ingest(raw)
  /\ raw' = << >>
  /\ UNCHANGED << thread, chan, connected >>

Dispatch ==
  /\ pc = "flush"
  /\ pc' = "recv"
  /\ \/ FlushDue
     \/ FlushNow
     \/ pending = << >> /\ UNCHANGED cvars
  /\ UNCHANGED << thread, chan, raw, connected >>

HubStep ==
  \/ Receive("recv")
  \/ Receive("drain")
  \/ RecvTimeout
  \/ RecvDisconnected
  \/ Drained
  \/ PollBackend
  \/ Dispatch

HubTick == Tick /\ UNCHANGED << chan, raw, connected, pc >>

HubNext ==
  \/ \E p \in Paths : PublishModify(p)
  \/ \E p \in Paths : DiskChange(p)
  \/ SendStop
  \/ DropHandles
  \/ HubTick
  \/ HubStep

HubFairness == WF_hubvars(HubStep)

HubSpec == HubInit /\ [][HubNext]_hubvars /\ HubFairness

-----------------------------------------------------------------------------
(* Every variable of the hub stays within its type and the channel within  *)
(* its capacity.                                                           *)
HubTypeOK ==
  /\ TypeOK
  /\ chan \in Seq(Commands)
  /\ Len(chan) <= ChanCap
  /\ raw \in Seq(Event)
  /\ connected \in BOOLEAN
  /\ pc \in {"recv", "drain", "poll", "flush", "stopped"}

-----------------------------------------------------------------------------
Delivered(k) ==
  \E i \in DOMAIN emitted : \E n \in DOMAIN emitted[i].events :
    emitted[i].events[n].seq = k

(***************************************************************************)
(* Subscribers see the buffer edits in the order they were published, and  *)
(* the disk events in the order the backend saw them, each at most once,   *)
(* however the channel, the poll and the flushes interleave.               *)
(***************************************************************************)
Before(e, f) == e.source = f.source => e.seq < f.seq

DeliveredInOrder ==
  \A i, j \in DOMAIN emitted :
    \A m \in DOMAIN emitted[i].events, n \in DOMAIN emitted[j].events :
      i < j \/ (i = j /\ m < n) =>
        Before(emitted[i].events[m], emitted[j].events[n])

(***************************************************************************)
(* While the hub thread runs, a subscriber that has seen every generation  *)
(* has missed nothing: each event is delivered or still on its way.        *)
(***************************************************************************)
InTransit(k) ==
  \/ \E i \in DOMAIN chan : chan[i] # Stop /\ chan[i].event.seq = k
  \/ \E i \in DOMAIN raw : raw[i].seq = k
  \/ \E i \in DOMAIN pending : pending[i].seq = k

NoGapNoLoss ==
  (pc # "stopped" /\ Len(emitted) = generation) =>
    \A k \in 1 .. ingested : Delivered(k) \/ InTransit(k)

(***************************************************************************)
(* Every event is eventually delivered, unless an overflow raised the      *)
(* generation past the emitted batches or the thread was stopped: the      *)
(* thread is always scheduled again, by its timeout if by nothing else.    *)
(***************************************************************************)
EventuallyDelivered ==
  \A k \in 1 .. MaxEvents :
    ingested >= k ~>
      \/ Delivered(k)
      \/ generation > Len(emitted)
      \/ pc = "stopped"

(***************************************************************************)
(* "Overflow / need_rescan must be set; never silently drop catch-up" (the *)
(* comment on WatchBatch): once changes were dropped and a later batch has *)
(* reached the subscribers, some batch told them to rescan.  The code does *)
(* not keep this promise: the overflow batch is not handed out.            *)
(***************************************************************************)
NeverSilentlyDrop ==
  \A c \in history :
    c.lost /\ (\E i \in DOMAIN emitted : emitted[i].generation > c.generation)
      => \E i \in DOMAIN emitted :
           /\ emitted[i].generation >= c.generation
           /\ emitted[i].overflow
           /\ emitted[i].need_rescan
=============================================================================
