------------------------------ MODULE LspChild ------------------------------
(***************************************************************************)
(* The proxy of an engine process (progressive-lsp-engine/src/             *)
(* lsp_child.rs) between the threads that use it: the mux thread opens and *)
(* edits documents, the hub thread forwards what was edited, a thread per   *)
(* child shakes hands with the engine, the types cache's worker queries it. *)
(* Messages for the engine wait in its inbox until somebody who talks to    *)
(* the engine drains them.  Three mutexes order the threads: the index, the *)
(* supervisor's state and the proxy's own, which is held while the engine   *)
(* is waited for.                                                           *)
(***************************************************************************)
EXTENDS Integers, Sequences

CONSTANTS
  Files,
  Nobody,     \* no thread holds the lock
  Texts,      \* document texts; 0 is the empty one
  MaxEdits,   \* bound: didOpen and didChange notifications
  MaxQueries  \* bound: queries

ASSUME ChildAssumption ==
  /\ Files # {}
  /\ 0 \in Texts /\ Texts \subseteq Nat
  /\ {MaxEdits, MaxQueries} \subseteq Nat
  /\ Nobody \notin {"mux", "hub", "warm", "worker"}

VARIABLES
  index,     \* IndexService: the text of each file
  dirty,     \* files published to the hub and not yet forwarded
  lock,      \* who holds each mutex
  proxy,     \* LspState
  inbox,     \* ChildHandle.inbox
  engine,    \* what the engine was sent of each file, -1 before it is opened
  wire,      \* the request on the pipes: quiet, asked, or its answer
  alive,     \* the engine process runs
  thread,    \* where each thread is
  told,      \* history: the last message put into the inbox for each file
  edits, queries

data == << index, dirty, engine, told, edits >>
vars == << index, dirty, lock, proxy, inbox, engine, wire, alive, thread,
           told, edits, queries >>

Threads == {"mux", "hub", "warm", "worker"}
Locks   == {"index", "sup", "proxy"}

(* EngineMessage::DidOpen and DidChange; Watch is dropped by the drain. *)
Message == [op : {"open", "change"}, file : Files, text : Texts]
Opened  == {f \in Files : engine[f] # -1}

At(t, pc)     == thread[t].pc = pc
Free(k)       == lock[k] = Nobody
Goto(t, pc)   == thread' = [thread EXCEPT ![t].pc = pc]
Acquire(k, t) == Free(k) /\ lock' = [lock EXCEPT ![k] = t]
Release(k)    == lock' = [lock EXCEPT ![k] = Nobody]

Init ==
  /\ index = [f \in Files |-> 0] /\ dirty = {}
  /\ lock = [k \in Locks |-> Nobody]
  /\ proxy = [pipes |-> TRUE, session |-> FALSE, warm_started |-> FALSE]
  /\ inbox = << >>
  /\ engine = [f \in Files |-> -1]
  /\ wire = "quiet" /\ alive = TRUE
  /\ thread = [t \in Threads |->
                [pc |-> "idle", file |-> CHOOSE f \in Files : TRUE,
                 text |-> 0, seen |-> << >>]]
  /\ told = [f \in Files |-> [op |-> "open", file |-> f, text |-> 0]]
  /\ edits = 0 /\ queries = 0

-----------------------------------------------------------------------------
(* The mux thread *)

Push(m) ==
  /\ inbox' = Append(inbox, m)
  /\ told' = [told EXCEPT ![m.file] = m]

(* did_open indexes the text and lets the index go before it forwards. *)
DidOpen(f, text) ==
  /\ At("mux", "idle") /\ edits < MaxEdits
  /\ Free("index")
  /\ index' = [index EXCEPT ![f] = text]
  /\ edits' = edits + 1
  /\ thread' = [thread EXCEPT !["mux"] =
                  [@ EXCEPT !.pc = "open", !.file = f, !.text = text]]
  /\ UNCHANGED << dirty, lock, proxy, inbox, engine, wire, alive, told, queries >>

(* did_change indexes the text and publishes the file to the hub. *)
DidChange(f, text) ==
  /\ At("mux", "idle") /\ edits < MaxEdits
  /\ Free("index")
  /\ index' = [index EXCEPT ![f] = text]
  /\ dirty' = dirty \union {f}
  /\ edits' = edits + 1
  /\ UNCHANGED << lock, proxy, inbox, engine, wire, alive, thread, told, queries >>

(* EngineSupervisor::forward_did_open, up to the proxy's mutex. *)
ForwardDidOpen ==
  /\ At("mux", "open")
  /\ Acquire("sup", "mux")
  /\ Push([op |-> "open", file |-> thread["mux"].file, text |-> thread["mux"].text])
  /\ Goto("mux", "schedule")
  /\ UNCHANGED << index, dirty, proxy, engine, wire, alive, edits, queries >>

(* Mutant: warms the engine once there is a session. *)
WarmsTooLate == proxy.session /\ ~ proxy.warm_started

(* The test of schedule_warm. *)
Warms == ~ proxy.session /\ ~ proxy.warm_started

(* schedule_warm, called with the supervisor's mutex held. *)
ScheduleWarm ==
  /\ At("mux", "schedule")
  /\ Free("proxy")
  /\ Release("sup")
  /\ proxy' = [proxy EXCEPT !.warm_started = @ \/ Warms]
  /\ thread' = [thread EXCEPT !["mux"].pc = "idle",
                 !["warm"].pc = IF Warms THEN "lock" ELSE @]
  /\ UNCHANGED << data, inbox, wire, alive, queries >>

-----------------------------------------------------------------------------
(* The hub thread *)

(* apply_hub_batch keeps the index locked from the read to the forward. *)
HubReads(f) ==
  /\ At("hub", "idle") /\ f \in dirty
  /\ Acquire("index", "hub")
  /\ dirty' = dirty \ {f}
  /\ thread' = [thread EXCEPT !["hub"] =
                  [@ EXCEPT !.pc = "forward", !.file = f, !.text = index[f]]]
  /\ UNCHANGED << index, proxy, inbox, engine, wire, alive, told, edits, queries >>

ForwardDidChange ==
  /\ At("hub", "forward")
  /\ Free("sup")
  /\ Push([op |-> "change", file |-> thread["hub"].file, text |-> thread["hub"].text])
  /\ Release("index")
  /\ Goto("hub", "idle")
  /\ UNCHANGED << index, dirty, proxy, engine, wire, alive, edits, queries >>

-----------------------------------------------------------------------------
(* Talking to the engine *)

(* Mutant: the mutex stays locked. *)
LeaveLocked(t) == UNCHANGED lock /\ Goto(t, "idle")

(* The caller of with_session returns: the warm thread ends. *)
Leave(t) == Release("proxy") /\ Goto(t, "idle")

(* Mutant: the handshake lets others use the proxy meanwhile. *)
HoldNothing(t) == Free("proxy") /\ UNCHANGED lock

(* The proxy is kept for the whole handshake. *)
Hold(t) == Acquire("proxy", t)

(* with_session: the session, or else the pipes and a handshake, or else   *)
(* NoStdio.  The pipes are taken before the handshake's outcome is known.  *)
WithSession(t) ==
  /\ At(t, "lock") /\ Free("proxy")
  /\ \/ /\ proxy.session
        /\ Acquire("proxy", t) /\ Goto(t, "drain")
        /\ UNCHANGED << proxy, wire >>
     \/ /\ ~ proxy.session /\ proxy.pipes
        /\ Hold(t) /\ Goto(t, "initialize")
        /\ proxy' = [proxy EXCEPT !.pipes = FALSE]
        /\ wire' = "asked"
     \/ /\ ~ proxy.session /\ ~ proxy.pipes
        /\ Goto(t, "idle")
        /\ UNCHANGED << lock, proxy, wire >>
  /\ UNCHANGED << data, inbox, alive, queries >>

Answered == wire \in {"ok", "error"} \/ ~ alive

Initialized(t) ==
  /\ At(t, "initialize") /\ Answered
  /\ wire' = "quiet"
  /\ IF wire = "ok"
       THEN /\ proxy' = [proxy EXCEPT !.session = TRUE]
            /\ Goto(t, "drain")
            /\ UNCHANGED lock
       ELSE /\ Leave(t)
            /\ UNCHANGED proxy
  /\ UNCHANGED << data, inbox, alive, queries >>

(* Mutant: an open document is never sent again by didOpen. *)
SendOpensOnce(e, m) ==
  IF e[m.file] # -1 /\ m.op = "open" THEN e ELSE [e EXCEPT ![m.file] = m.text]

(* ensure_open and did_change: a document that is open is changed, one     *)
(* that is not is opened, and an open one is not reopened empty.           *)
Send(e, m) ==
  IF e[m.file] # -1 /\ m.op = "open" /\ m.text = 0
    THEN e
    ELSE [e EXCEPT ![m.file] = m.text]

(* What the engine has of each file when the messages q are sent in turn.  *)
Sent(e, q) ==
  LET after[n \in 0 .. Len(q)] == IF n = 0 THEN e ELSE Send(after[n - 1], q[n])
  IN  after[Len(q)]

(* drain_inbox takes every message and sends them in turn; a dead engine   *)
(* fails the first write and the rest are gone.  The worker then asks      *)
(* about a document that is open.                                          *)
DrainInbox(t) ==
  /\ At(t, "drain")
  /\ inbox' = << >>
  /\ engine' = IF alive THEN Sent(engine, inbox) ELSE engine
  /\ IF t = "worker" /\ alive /\ engine'[thread[t].file] # -1
       THEN /\ wire' = "asked"
            /\ thread' = [thread EXCEPT ![t].pc = "asked", ![t].seen = told]
            /\ UNCHANGED lock
       ELSE /\ Leave(t)
            /\ UNCHANGED wire
  /\ UNCHANGED << index, dirty, proxy, alive, told, edits, queries >>

-----------------------------------------------------------------------------
(* The worker: EngineSupervisor::resolve down to resolve_query *)

Query(f) ==
  /\ At("worker", "idle") /\ queries < MaxQueries
  /\ Free("sup")
  /\ queries' = queries + 1
  /\ thread' = [thread EXCEPT !["worker"] = [@ EXCEPT !.pc = "warmed", !.file = f]]
  /\ UNCHANGED << data, lock, proxy, inbox, wire, alive >>

(* is_warmed locks and unlocks; with_session locks again. *)
IsWarmed ==
  /\ At("worker", "warmed") /\ Free("proxy")
  /\ Goto("worker", IF alive /\ proxy.session THEN "lock" ELSE "idle")
  /\ UNCHANGED << data, lock, proxy, inbox, wire, alive, queries >>

(* read_response: the answer, an error or the end of the stream. *)
QueryAnswered ==
  /\ At("worker", "asked") /\ Answered
  /\ wire' = "quiet"
  /\ Leave("worker")
  /\ UNCHANGED << data, proxy, inbox, alive, queries >>

-----------------------------------------------------------------------------
(* The engine process answers, refuses, or dies. *)
Answer ==
  /\ alive /\ wire = "asked"
  /\ wire' \in {"ok", "error"}
  /\ UNCHANGED << data, lock, proxy, inbox, alive, thread, queries >>

Exit ==
  /\ alive
  /\ alive' = FALSE
  /\ UNCHANGED << data, lock, proxy, inbox, wire, thread, queries >>

MuxStep    == ForwardDidOpen \/ ScheduleWarm
HubStep    == (\E f \in Files : HubReads(f)) \/ ForwardDidChange
Talks(t)   == WithSession(t) \/ Initialized(t) \/ DrainInbox(t)
WarmStep   == Talks("warm")
WorkerStep == IsWarmed \/ Talks("worker") \/ QueryAnswered

Next ==
  \/ \E f \in Files, x \in Texts : DidOpen(f, x) \/ DidChange(f, x)
  \/ \E f \in Files : Query(f)
  \/ MuxStep \/ HubStep \/ WarmStep \/ WorkerStep
  \/ Answer \/ Exit

(* The server's threads run; the engine may keep a request for ever. *)
SpecOfServer ==
  /\ Init /\ [][Next]_vars
  /\ WF_vars(MuxStep) /\ WF_vars(HubStep)
  /\ WF_vars(WarmStep) /\ WF_vars(WorkerStep)

(* An engine that lives answers what it is asked. *)
Spec == SpecOfServer /\ WF_vars(Answer)

-----------------------------------------------------------------------------
Places == {"idle", "open", "schedule", "forward", "lock", "initialize", "drain",
           "warmed", "asked"}
Thread == [pc : Places, file : Files, text : Texts,
           seen : {<< >>} \union [Files -> Message]]

TypeOK ==
  /\ index \in [Files -> Texts] /\ dirty \subseteq Files
  /\ lock \in [Locks -> Threads \union {Nobody}]
  /\ proxy \in [pipes : BOOLEAN, session : BOOLEAN, warm_started : BOOLEAN]
  /\ inbox \in Seq(Message)
  /\ wire \in {"quiet", "asked", "ok", "error"} /\ alive \in BOOLEAN
  /\ thread \in [Threads -> Thread]
  /\ told \in [Files -> Message]

Waits(t) == thread[t].pc \in {"initialize", "asked"}
Talking(t) == Waits(t) \/ At(t, "drain")

(* One conversation: a request is on the pipes only while the thread that  *)
(* holds the proxy waits for its answer, and nothing but initialize is     *)
(* sent to an engine that has not accepted it (lsp_child.rs:128-155).      *)
OneConversation ==
  /\ wire # "quiet" <=> \E t \in Threads : Waits(t)
  /\ \A t \in Threads : Talking(t) => lock["proxy"] = t
  /\ Opened # {} => proxy.session
  /\ ~ (proxy.session /\ proxy.pipes)

(* A query is asked of an engine that has been sent the last text that was *)
(* forwarded of every file before its inbox was drained; only a document   *)
(* that is opened again with no text keeps the text it had                 *)
(* (lsp_child.rs:245-295).                                                 *)
AskedAboutLast ==
  At("worker", "asked") =>
    \A f \in Opened :
      LET m == thread["worker"].seen[f]
      IN  engine[f] = m.text \/ (m.op = "open" /\ m.text = 0)

(* What the hub forwards last is what the index holds: a didOpen and an    *)
(* older didChange of one file cannot reach the inbox in the wrong order   *)
(* (session.rs:511-517, 771-790).                                          *)
ForwardedIsIndexed ==
  \A f \in Files :
    \/ told[f].text = index[f]
    \/ f \in dirty
    \/ thread["hub"].pc = "forward" /\ thread["hub"].file = f
    \/ thread["mux"].pc = "open" /\ thread["mux"].file = f

(* The handshake failed: the pipes are gone and no session uses them. *)
Refused ==
  ~ proxy.pipes /\ ~ proxy.session /\ \A t \in Threads : ~ At(t, "initialize")

(* The first didOpen leads to a session, unless the engine dies or refuses *)
(* to initialize, after which nobody tries again (lsp_child.rs:92-115,     *)
(* 128-155).                                                               *)
OpenWarms == At("mux", "schedule") ~> (proxy.session \/ Refused \/ ~ alive)

(* The mux thread comes back from a didOpen: what it does there does not   *)
(* depend on the engine ("Initialize javacs/clangd/etc. off the            *)
(* mux/resolve thread", lsp_child.rs:91).                                  *)
MuxReturns == At("mux", "schedule") ~> At("mux", "idle")
=============================================================================
