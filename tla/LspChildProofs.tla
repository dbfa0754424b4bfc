--------------------------- MODULE LspChildProofs ---------------------------
(***************************************************************************)
(* What holds of the proxy of an engine process for every set of files and *)
(* texts and any number of edits and queries: its types, that there is one *)
(* conversation with the engine, that what is forwarded last is what the   *)
(* index holds, and that a query is asked of an engine that was sent it.   *)
(***************************************************************************)
EXTENDS LspChild, WellFoundedInduction, TLAPS

(* Beyond OneConversation: who drains has a session, and the pipes are     *)
(* taken before a handshake begins.                                        *)
Conversing ==
  /\ \A t \in Threads : (At(t, "drain") \/ At(t, "asked")) => proxy.session
  /\ \A t \in Threads : At(t, "initialize") => ~ proxy.pipes

(* The text that mux and hub have in hand is the indexed one.              *)
InHand ==
  /\ At("mux", "open") => index[thread["mux"].file] = thread["mux"].text
  /\ At("hub", "forward") => /\ lock["index"] = "hub"
                             /\ index[thread["hub"].file] = thread["hub"].text

ChildInv == TypeOK /\ OneConversation /\ Conversing /\ InHand /\ ForwardedIsIndexed

-----------------------------------------------------------------------------
(* The names of threads and locks.                                         *)
LEMMA ThreadNames ==
  /\ "mux" \in Threads /\ "hub" \in Threads /\ "warm" \in Threads /\ "worker" \in Threads
  /\ "index" \in Locks /\ "sup" \in Locks /\ "proxy" \in Locks
BY DEF Threads, Locks

(* At the start nobody talks and nothing is forwarded.                     *)
LEMMA InitInv == Init => ChildInv
<1>. SUFFICES ASSUME Init PROVE ChildInv
  OBVIOUS
<1>. DEFINE f0 == CHOOSE f \in Files : TRUE
<1>1. f0 \in Files /\ 0 \in Texts
  BY ChildAssumption
<1>2. thread = [t \in Threads |-> [pc |-> "idle", file |-> f0, text |-> 0, seen |-> << >>]]
  BY DEF Init
<1>. HIDE DEF f0
<1>3. thread \in [Threads -> Thread] /\ \A t \in Threads : thread[t].pc = "idle"
  BY <1>1, <1>2 DEF Thread, Places
<1>4. told \in [Files -> Message] /\ \A f \in Files : told[f].text = index[f]
  BY <1>1 DEF Init, Message
<1>5. TypeOK
  <2>1. proxy \in [pipes : BOOLEAN, session : BOOLEAN, warm_started : BOOLEAN]
    BY DEF Init
  <2>2. inbox \in Seq(Message)
    BY DEF Init
  <2>. QED
    BY <1>1, <1>3, <1>4, <2>1, <2>2 DEF Init, TypeOK
<1>6. OneConversation
  <2>1. Opened = {}
    BY DEF Init, Opened
  <2>2. ~ proxy.session
    BY DEF Init
  <2>3. \A t \in Threads : ~ Talking(t)
    BY <1>3 DEF Talking, Waits, At
  <2>4. wire = "quiet"
    BY DEF Init
  <2>. QED
    BY <2>1, <2>2, <2>3, <2>4 DEF OneConversation, Talking
<1>. QED
  BY <1>3, <1>4, <1>5, <1>6, ThreadNames
     DEF ChildInv, Conversing, InHand, ForwardedIsIndexed, At

-----------------------------------------------------------------------------
(* An action that leaves the proxy's session, its mutex, the wire and the  *)
(* engine alone, and in which nobody starts or ends talking, disturbs no   *)
(* conversation.                                                           *)
LEMMA NobodyTalks ==
  ASSUME OneConversation, Conversing,
         UNCHANGED << wire, engine >>,
         proxy'.session = proxy.session, proxy'.pipes = proxy.pipes,
         lock'["proxy"] = lock["proxy"],
         \A t \in Threads :
           \/ thread'[t].pc = thread[t].pc
           \/ /\ thread[t].pc \notin {"initialize", "asked", "drain"}
              /\ thread'[t].pc \notin {"initialize", "asked", "drain"}
  PROVE  OneConversation' /\ Conversing'
<1>1. \A t \in Threads :
        /\ Waits(t)' <=> Waits(t)
        /\ Talking(t)' <=> Talking(t)
        /\ At(t, "drain")' <=> At(t, "drain")
        /\ At(t, "asked")' <=> At(t, "asked")
        /\ At(t, "initialize")' <=> At(t, "initialize")
  BY DEF Waits, Talking, At
<1>2. Opened' = Opened
  BY DEF Opened
<1>. QED
  BY <1>1, <1>2 DEF OneConversation, Conversing

(* In the mutex's holder alone anything happens to the conversation.       *)
LEMMA OneTalks ==
  ASSUME ChildInv, TypeOK', NEW t \in Threads,
         \A u \in Threads \ {t} : Talking(u) => FALSE,
         \A u \in Threads \ {t} : thread'[u] = thread[u],
         Waits(t)' <=> wire' # "quiet",
         Talking(t)' => lock'["proxy"] = t,
         (At(t, "drain") \/ At(t, "asked"))' => proxy'.session,
         At(t, "initialize")' => ~ proxy'.pipes,
         ~ (proxy'.session /\ proxy'.pipes),
         Opened' # {} => proxy'.session
  PROVE  OneConversation' /\ Conversing'
<1>1. \A u \in Threads \ {t} : ~ Talking(u)' /\ ~ Waits(u)'
        /\ ~ At(u, "drain")' /\ ~ At(u, "asked")' /\ ~ At(u, "initialize")'
  BY DEF Waits, Talking, At
<1>. QED
  BY <1>1 DEF OneConversation, Conversing

(* Two threads do not talk at once.                                        *)
LEMMA OthersSilent ==
  ASSUME ChildInv, NEW t \in Threads, lock["proxy"] = t \/ lock["proxy"] = Nobody
  PROVE  \A u \in Threads \ {t} : Talking(u) => FALSE
BY ChildAssumption DEF ChildInv, OneConversation, Threads

(* An action that leaves index, dirty files and messages alone, and in     *)
(* which nobody takes or lets go of a text, disturbs no forwarding.        *)
LEMMA NobodyHands ==
  ASSUME InHand, ForwardedIsIndexed,
         UNCHANGED << index, dirty, told >>, lock'["index"] = lock["index"],
         thread'["mux"] = thread["mux"]
           \/ (thread["mux"].pc # "open" /\ thread'["mux"].pc # "open"),
         thread'["hub"] = thread["hub"]
           \/ (thread["hub"].pc # "forward" /\ thread'["hub"].pc # "forward")
  PROVE  InHand' /\ ForwardedIsIndexed'
BY DEF InHand, ForwardedIsIndexed, At

-----------------------------------------------------------------------------
(* Moving a thread keeps the types.                                        *)
LEMMA PcType ==
  ASSUME TypeOK, NEW t \in Threads, NEW p \in Places,
         thread' = [thread EXCEPT ![t].pc = p]
  PROVE  thread' \in [Threads -> Thread]
BY DEF TypeOK, Thread

(* Moving two threads keeps the types.                                     *)
LEMMA MovedTwice ==
  ASSUME NEW th \in [Threads -> Thread], NEW t \in Threads, NEW p \in Places,
         NEW u \in Threads, NEW q \in Places
  PROVE  [[th EXCEPT ![t].pc = p] EXCEPT ![u].pc = q] \in [Threads -> Thread]
<1>1. [th EXCEPT ![t].pc = p] \in [Threads -> Thread]
  BY DEF Thread
<1>. QED
  BY <1>1 DEF Thread

(* Giving a thread a text keeps the types.                                 *)
LEMMA TextType ==
  ASSUME TypeOK, NEW t \in Threads, NEW p \in Places, NEW f \in Files, NEW x \in Texts,
         thread' = [thread EXCEPT ![t] = [@ EXCEPT !.pc = p, !.file = f, !.text = x]]
  PROVE  thread' \in [Threads -> Thread]
BY DEF TypeOK, Thread

(* Taking a lock, or letting it go, keeps the types.                       *)
LEMMA LockType ==
  ASSUME TypeOK, NEW k \in Locks, NEW t \in Threads \union {Nobody},
         lock' = [lock EXCEPT ![k] = t]
  PROVE  lock' \in [Locks -> Threads \union {Nobody}]
BY DEF TypeOK

(* Pushing a message keeps the types.                                      *)
LEMMA PushType ==
  ASSUME TypeOK, NEW m \in Message, Push(m)
  PROVE  inbox' \in Seq(Message) /\ told' \in [Files -> Message]
BY DEF TypeOK, Push, Message

(* did_open: the mux has the indexed text in hand.                         *)
LEMMA DidOpenInv ==
  ASSUME ChildInv, NEW f \in Files, NEW x \in Texts, DidOpen(f, x)
  PROVE  ChildInv'
<1>1. TypeOK /\ OneConversation /\ Conversing /\ InHand /\ ForwardedIsIndexed
  BY DEF ChildInv
<1>2. thread' \in [Threads -> Thread]
  <2>1. "open" \in Places
    BY DEF Places
  <2>. QED
    BY <1>1, <2>1, TextType, ThreadNames DEF DidOpen
<1>3. TypeOK'
  BY <1>1, <1>2 DEF DidOpen, TypeOK
<1>4. OneConversation' /\ Conversing'
  <2>1. \A t \in Threads :
          \/ thread'[t].pc = thread[t].pc
          \/ /\ thread[t].pc \notin {"initialize", "asked", "drain"}
             /\ thread'[t].pc \notin {"initialize", "asked", "drain"}
    BY <1>1 DEF DidOpen, At, TypeOK, Thread
  <2>. QED
    BY <1>1, <2>1, NobodyTalks DEF DidOpen
<1>5. /\ thread'["mux"].pc = "open" /\ thread'["mux"].file = f
      /\ thread'["mux"].text = x /\ thread'["hub"] = thread["hub"]
  BY <1>1, ThreadNames DEF DidOpen, TypeOK, Thread
<1>6. thread["mux"].pc # "open" /\ lock["index"] # "hub"
  BY ChildAssumption DEF DidOpen, At, Free
<1>7. InHand'
  BY <1>1, <1>5, <1>6 DEF DidOpen, InHand, At, TypeOK
<1>8. ForwardedIsIndexed'
  BY <1>1, <1>5, <1>6 DEF DidOpen, ForwardedIsIndexed, At, TypeOK
<1>. QED
  BY <1>3, <1>4, <1>7, <1>8 DEF ChildInv

(* did_change: the file is dirty until it is forwarded.                    *)
LEMMA DidChangeInv ==
  ASSUME ChildInv, NEW f \in Files, NEW x \in Texts, DidChange(f, x)
  PROVE  ChildInv'
<1>1. TypeOK /\ OneConversation /\ Conversing /\ InHand /\ ForwardedIsIndexed
  BY DEF ChildInv
<1>3. TypeOK'
  BY <1>1 DEF DidChange, TypeOK
<1>4. OneConversation' /\ Conversing'
  BY <1>1, NobodyTalks DEF DidChange
<1>6. thread["mux"].pc # "open" /\ lock["index"] # "hub"
  BY ChildAssumption DEF DidChange, At, Free
<1>7. InHand'
  BY <1>1, <1>6 DEF DidChange, InHand, At, TypeOK
<1>8. ForwardedIsIndexed'
  BY <1>1, <1>6 DEF DidChange, ForwardedIsIndexed, At, TypeOK
<1>. QED
  BY <1>3, <1>4, <1>7, <1>8 DEF ChildInv

(* What the mux forwards is what the index holds.                          *)
LEMMA ForwardDidOpenInv == ChildInv /\ ForwardDidOpen => ChildInv'
<1>. SUFFICES ASSUME ChildInv, ForwardDidOpen PROVE ChildInv'
  OBVIOUS
<1>. DEFINE m == [op |-> "open", file |-> thread["mux"].file, text |-> thread["mux"].text]
<1>1. TypeOK /\ OneConversation /\ Conversing /\ InHand /\ ForwardedIsIndexed
  BY DEF ChildInv
<1>2. m \in Message
  BY <1>1, ThreadNames DEF TypeOK, Thread, Message
<1>3. TypeOK'
  <2>1. Push(m)
    BY DEF ForwardDidOpen
  <2>2. inbox' \in Seq(Message) /\ told' \in [Files -> Message]
    BY <1>1, <1>2, <2>1, PushType
  <2>3. thread' \in [Threads -> Thread]
    <3>1. "schedule" \in Places
      BY DEF Places
    <3>. QED
      BY <1>1, <3>1, PcType, ThreadNames DEF ForwardDidOpen, Goto
  <2>4. lock' \in [Locks -> Threads \union {Nobody}]
    BY <1>1, LockType, ThreadNames DEF ForwardDidOpen, Acquire
  <2>. QED
    BY <1>1, <2>2, <2>3, <2>4 DEF ForwardDidOpen, TypeOK
<1>4. OneConversation' /\ Conversing'
  <2>1. \A t \in Threads :
          \/ thread'[t].pc = thread[t].pc
          \/ /\ thread[t].pc \notin {"initialize", "asked", "drain"}
             /\ thread'[t].pc \notin {"initialize", "asked", "drain"}
    BY <1>1 DEF ForwardDidOpen, At, Goto, TypeOK, Thread
  <2>2. lock'["proxy"] = lock["proxy"]
    BY <1>1, ThreadNames DEF ForwardDidOpen, Acquire, TypeOK
  <2>. QED
    BY <1>1, <2>1, <2>2, NobodyTalks DEF ForwardDidOpen
<1>5. /\ thread["mux"].pc = "open" /\ thread'["mux"].pc = "schedule"
      /\ thread'["hub"] = thread["hub"] /\ lock'["index"] = lock["index"]
  BY <1>1, ThreadNames DEF ForwardDidOpen, Goto, Acquire, At, TypeOK, Thread
<1>7. InHand'
  BY <1>1, <1>5 DEF ForwardDidOpen, InHand, At
<1>8. ForwardedIsIndexed'
  <2>1. told' = [told EXCEPT ![m.file] = m]
    BY DEF ForwardDidOpen, Push
  <2>2. m.text = index[m.file] /\ m.file = thread["mux"].file
    BY <1>1, <1>5 DEF InHand, At
  <2>3. told'[m.file].text = index[m.file] /\ \A g \in Files \ {m.file} : told'[g] = told[g]
    BY <1>1, <1>2, <2>1, <2>2 DEF TypeOK, Message
  <2>. HIDE DEF m
  <2>. QED
    BY <1>1, <1>5, <2>2, <2>3 DEF ForwardDidOpen, ForwardedIsIndexed
<1>. QED
  BY <1>3, <1>4, <1>7, <1>8 DEF ChildInv

(* schedule_warm starts the thread that will talk.                         *)
LEMMA ScheduleWarmInv == ChildInv /\ ScheduleWarm => ChildInv'
<1>. SUFFICES ASSUME ChildInv, ScheduleWarm PROVE ChildInv'
  OBVIOUS
<1>1. TypeOK /\ OneConversation /\ Conversing /\ InHand /\ ForwardedIsIndexed
  BY DEF ChildInv
<1>2. lock' \in [Locks -> Threads \union {Nobody}]
  BY <1>1, LockType, ThreadNames DEF ScheduleWarm, Release
<1>3. thread' \in [Threads -> Thread]
  <2>1. thread["warm"].pc \in Places /\ "lock" \in Places /\ "idle" \in Places
    BY <1>1, ThreadNames DEF TypeOK, Thread, Places
  <2>. DEFINE p == IF Warms THEN "lock" ELSE thread["warm"].pc
  <2>2. p \in Places
    BY <2>1
  <2>3. thread' = [[thread EXCEPT !["mux"].pc = "idle"] EXCEPT !["warm"].pc = p]
    BY <1>1, ThreadNames DEF ScheduleWarm, TypeOK, Thread
  <2>. HIDE DEF p
  <2>. QED
    BY <1>1, <2>1, <2>2, <2>3, ThreadNames, MovedTwice DEF TypeOK
<1>4. proxy' \in [pipes : BOOLEAN, session : BOOLEAN, warm_started : BOOLEAN]
      /\ proxy'.session = proxy.session /\ proxy'.pipes = proxy.pipes
  BY <1>1 DEF ScheduleWarm, TypeOK
<1>5. TypeOK'
  BY <1>1, <1>2, <1>3, <1>4 DEF ScheduleWarm, TypeOK, data
<1>6. lock'["proxy"] = lock["proxy"] /\ lock'["index"] = lock["index"]
  BY <1>1, ThreadNames DEF ScheduleWarm, Release, TypeOK
<1>7. OneConversation' /\ Conversing'
  <2>1. lock["proxy"] = Nobody
    BY DEF ScheduleWarm, Free
  <2>2. ~ Talking("warm")
    BY <1>1, <2>1, ChildAssumption, ThreadNames DEF OneConversation
  <2>3. \A t \in Threads :
          \/ thread'[t].pc = thread[t].pc
          \/ /\ thread[t].pc \notin {"initialize", "asked", "drain"}
             /\ thread'[t].pc \notin {"initialize", "asked", "drain"}
    BY <1>1, <2>2 DEF ScheduleWarm, At, TypeOK, Thread, Talking, Waits
  <2>. QED
    BY <1>1, <1>4, <1>6, <2>3, NobodyTalks DEF ScheduleWarm, data
<1>8. InHand' /\ ForwardedIsIndexed'
  <2>1. thread["mux"].pc # "open" /\ thread'["mux"].pc # "open" /\ thread'["hub"] = thread["hub"]
    BY <1>1, ThreadNames DEF ScheduleWarm, At, TypeOK, Thread
  <2>. QED
    BY <1>1, <1>6, <2>1, NobodyHands DEF ScheduleWarm, data
<1>. QED
  BY <1>5, <1>7, <1>8 DEF ChildInv

(* The hub reads under the lock of the index.                              *)
LEMMA HubReadsInv ==
  ASSUME ChildInv, NEW f \in Files, HubReads(f)
  PROVE  ChildInv'
<1>1. TypeOK /\ OneConversation /\ Conversing /\ InHand /\ ForwardedIsIndexed
  BY DEF ChildInv
<1>2. index[f] \in Texts
  BY <1>1 DEF TypeOK
<1>3. thread' \in [Threads -> Thread] /\ lock' \in [Locks -> Threads \union {Nobody}]
  <2>1. "forward" \in Places
    BY DEF Places
  <2>2. thread' \in [Threads -> Thread]
    BY <1>1, <1>2, <2>1, TextType, ThreadNames DEF HubReads
  <2>3. lock' \in [Locks -> Threads \union {Nobody}]
    BY <1>1, LockType, ThreadNames DEF HubReads, Acquire
  <2>. QED
    BY <2>2, <2>3
<1>4. TypeOK'
  BY <1>1, <1>3 DEF HubReads, TypeOK
<1>5. /\ lock'["proxy"] = lock["proxy"] /\ lock'["index"] = "hub"
      /\ thread'["mux"] = thread["mux"] /\ thread'["hub"].pc = "forward"
      /\ thread'["hub"].file = f /\ thread'["hub"].text = index[f]
      /\ thread["hub"].pc = "idle"
  BY <1>1, ThreadNames DEF HubReads, Acquire, At, TypeOK, Thread
<1>6. OneConversation' /\ Conversing'
  <2>1. \A t \in Threads :
          \/ thread'[t].pc = thread[t].pc
          \/ /\ thread[t].pc \notin {"initialize", "asked", "drain"}
             /\ thread'[t].pc \notin {"initialize", "asked", "drain"}
    BY <1>1 DEF HubReads, At, TypeOK, Thread
  <2>. QED
    BY <1>1, <1>5, <2>1, NobodyTalks DEF HubReads
<1>7. InHand'
  BY <1>1, <1>5 DEF HubReads, InHand, At
<1>8. ForwardedIsIndexed'
  BY <1>1, <1>5 DEF HubReads, ForwardedIsIndexed
<1>. QED
  BY <1>4, <1>6, <1>7, <1>8 DEF ChildInv

(* What the hub forwards is what the index holds.                          *)
LEMMA ForwardDidChangeInv == ChildInv /\ ForwardDidChange => ChildInv'
<1>. SUFFICES ASSUME ChildInv, ForwardDidChange PROVE ChildInv'
  OBVIOUS
<1>. DEFINE m == [op |-> "change", file |-> thread["hub"].file, text |-> thread["hub"].text]
<1>1. TypeOK /\ OneConversation /\ Conversing /\ InHand /\ ForwardedIsIndexed
  BY DEF ChildInv
<1>2. m \in Message
  BY <1>1, ThreadNames DEF TypeOK, Thread, Message
<1>3. TypeOK'
  <2>1. Push(m)
    BY DEF ForwardDidChange
  <2>2. inbox' \in Seq(Message) /\ told' \in [Files -> Message]
    BY <1>1, <1>2, <2>1, PushType
  <2>3. thread' \in [Threads -> Thread]
    <3>1. "idle" \in Places
      BY DEF Places
    <3>. QED
      BY <1>1, <3>1, PcType, ThreadNames DEF ForwardDidChange, Goto
  <2>4. lock' \in [Locks -> Threads \union {Nobody}]
    BY <1>1, LockType, ThreadNames DEF ForwardDidChange, Release
  <2>. QED
    BY <1>1, <2>2, <2>3, <2>4 DEF ForwardDidChange, TypeOK
<1>4. OneConversation' /\ Conversing'
  <2>1. \A t \in Threads :
          \/ thread'[t].pc = thread[t].pc
          \/ /\ thread[t].pc \notin {"initialize", "asked", "drain"}
             /\ thread'[t].pc \notin {"initialize", "asked", "drain"}
    BY <1>1 DEF ForwardDidChange, At, Goto, TypeOK, Thread
  <2>2. lock'["proxy"] = lock["proxy"]
    BY <1>1, ThreadNames DEF ForwardDidChange, Release, TypeOK
  <2>. QED
    BY <1>1, <2>1, <2>2, NobodyTalks DEF ForwardDidChange
<1>5. /\ thread["hub"].pc = "forward" /\ thread'["hub"].pc = "idle"
      /\ thread'["mux"] = thread["mux"]
  BY <1>1, ThreadNames DEF ForwardDidChange, Goto, At, TypeOK, Thread
<1>7. InHand'
  BY <1>1, <1>5 DEF ForwardDidChange, InHand, At
<1>8. ForwardedIsIndexed'
  <2>1. told' = [told EXCEPT ![m.file] = m]
    BY DEF ForwardDidChange, Push
  <2>2. m.text = index[m.file] /\ m.file = thread["hub"].file
    BY <1>1, <1>5 DEF InHand, At
  <2>3. told'[m.file].text = index[m.file] /\ \A g \in Files \ {m.file} : told'[g] = told[g]
    BY <1>1, <1>2, <2>1, <2>2 DEF TypeOK, Message
  <2>. HIDE DEF m
  <2>. QED
    BY <1>1, <1>5, <2>2, <2>3 DEF ForwardDidChange, ForwardedIsIndexed
<1>. QED
  BY <1>3, <1>4, <1>7, <1>8 DEF ChildInv

-----------------------------------------------------------------------------
(* The threads that talk to the engine hand no text on.                    *)
Talkers == {"warm", "worker"}

(* A talker moves: mux and hub stay.                                       *)
LEMMA TalkerStep ==
  ASSUME ChildInv, NEW t \in Talkers, NEW p \in Places,
         thread' = [thread EXCEPT ![t].pc = p]
  PROVE  /\ t \in Threads
         /\ thread' \in [Threads -> Thread]
         /\ thread'[t].pc = p
         /\ \A u \in Threads \ {t} : thread'[u] = thread[u]
         /\ thread'["mux"] = thread["mux"] /\ thread'["hub"] = thread["hub"]
BY PcType DEF ChildInv, TypeOK, Thread, Talkers, Threads

(* The proxy's mutex changes hands: the index's does not.                  *)
LEMMA ProxyLock ==
  ASSUME TypeOK, NEW t \in Threads \union {Nobody}, lock' = [lock EXCEPT !["proxy"] = t]
  PROVE  /\ lock' \in [Locks -> Threads \union {Nobody}]
         /\ lock'["proxy"] = t /\ lock'["index"] = lock["index"]
BY LockType, ThreadNames DEF TypeOK

(* with_session: the session, the handshake, or neither.                   *)
LEMMA WithSessionInv ==
  ASSUME ChildInv, NEW t \in Talkers, WithSession(t)
  PROVE  ChildInv'
<1>1. TypeOK /\ OneConversation /\ Conversing /\ InHand /\ ForwardedIsIndexed
  BY DEF ChildInv
<1>2. t \in Threads /\ lock["proxy"] = Nobody /\ thread[t].pc = "lock"
  BY DEF WithSession, At, Free, Talkers, Threads
<1>3. \A u \in Threads \ {t} : Talking(u) => FALSE
  BY <1>2, OthersSilent
<1>4. ~ Talking(t) /\ wire = "quiet"
  <2>1. ~ Talking(t)
    BY <1>2 DEF Talking, Waits, At
  <2>. QED
    BY <1>1, <1>3, <2>1 DEF OneConversation, Talking
<1>5. {"drain", "initialize", "idle"} \subseteq Places
  BY DEF Places
<1>6. Opened' = Opened
  BY DEF WithSession, data, Opened
<1>7. CASE /\ proxy.session /\ Acquire("proxy", t) /\ Goto(t, "drain")
           /\ UNCHANGED << proxy, wire >>
  <2>1. /\ thread' \in [Threads -> Thread] /\ thread'[t].pc = "drain"
        /\ \A u \in Threads \ {t} : thread'[u] = thread[u]
        /\ thread'["mux"] = thread["mux"] /\ thread'["hub"] = thread["hub"]
    BY <1>5, <1>7, TalkerStep DEF Goto
  <2>2. /\ lock' \in [Locks -> Threads \union {Nobody}]
        /\ lock'["proxy"] = t /\ lock'["index"] = lock["index"]
    BY <1>1, <1>2, <1>7, ProxyLock DEF Acquire
  <2>3. TypeOK'
    BY <1>1, <1>7, <2>1, <2>2 DEF WithSession, data, TypeOK
  <2>4. OneConversation' /\ Conversing'
    <3>1. proxy' = proxy /\ proxy.session /\ ~ proxy.pipes /\ wire' = "quiet"
      BY <1>1, <1>4, <1>7 DEF OneConversation
    <3>2. Talking(t)' /\ ~ Waits(t)' /\ At(t, "drain")' /\ ~ At(t, "initialize")'
      BY <2>1 DEF Talking, Waits, At
    <3>. QED
      BY <1>2, <1>3, <2>1, <2>2, <2>3, <3>1, <3>2, OneTalks
  <2>5. InHand' /\ ForwardedIsIndexed'
    BY <1>1, <2>1, <2>2, NobodyHands DEF WithSession, data
  <2>. QED
    BY <2>3, <2>4, <2>5 DEF ChildInv
<1>8. CASE /\ ~ proxy.session /\ proxy.pipes /\ Hold(t) /\ Goto(t, "initialize")
           /\ proxy' = [proxy EXCEPT !.pipes = FALSE] /\ wire' = "asked"
  <2>1. /\ thread' \in [Threads -> Thread] /\ thread'[t].pc = "initialize"
        /\ \A u \in Threads \ {t} : thread'[u] = thread[u]
        /\ thread'["mux"] = thread["mux"] /\ thread'["hub"] = thread["hub"]
    BY <1>5, <1>8, TalkerStep DEF Goto
  <2>2. /\ lock' \in [Locks -> Threads \union {Nobody}]
        /\ lock'["proxy"] = t /\ lock'["index"] = lock["index"]
    BY <1>1, <1>2, <1>8, ProxyLock DEF Hold, Acquire
  <2>3. /\ proxy' \in [pipes : BOOLEAN, session : BOOLEAN, warm_started : BOOLEAN]
        /\ ~ proxy'.pipes /\ proxy'.session = proxy.session
    BY <1>1, <1>8 DEF TypeOK
  <2>4. TypeOK'
    BY <1>1, <1>8, <2>1, <2>2, <2>3 DEF WithSession, data, TypeOK
  <2>5. OneConversation' /\ Conversing'
    <3>1. Talking(t)' /\ Waits(t)' /\ ~ At(t, "drain")' /\ ~ At(t, "asked")'
      BY <2>1 DEF Talking, Waits, At
    <3>2. Opened' # {} => proxy'.session
      BY <1>1, <1>6, <2>3 DEF OneConversation
    <3>3. wire' # "quiet"
      BY <1>8
    <3>. QED
      BY <1>2, <1>3, <2>1, <2>2, <2>3, <2>4, <3>1, <3>2, <3>3, OneTalks
  <2>6. InHand' /\ ForwardedIsIndexed'
    BY <1>1, <2>1, <2>2, NobodyHands DEF WithSession, data
  <2>. QED
    BY <2>4, <2>5, <2>6 DEF ChildInv
<1>9. CASE ~ proxy.session /\ ~ proxy.pipes /\ Goto(t, "idle") /\ UNCHANGED << lock, proxy, wire >>
  <2>1. /\ thread' \in [Threads -> Thread] /\ thread'[t].pc = "idle"
        /\ \A u \in Threads \ {t} : thread'[u] = thread[u]
        /\ thread'["mux"] = thread["mux"] /\ thread'["hub"] = thread["hub"]
    BY <1>5, <1>9, TalkerStep DEF Goto
  <2>2. TypeOK'
    BY <1>1, <1>9, <2>1 DEF WithSession, data, TypeOK
  <2>3. OneConversation' /\ Conversing'
    <3>1. ~ Talking(t)' /\ ~ Waits(t)' /\ ~ At(t, "drain")' /\ ~ At(t, "asked")'
          /\ ~ At(t, "initialize")'
      BY <2>1 DEF Talking, Waits, At
    <3>2. (Opened' # {} => proxy'.session) /\ wire' = "quiet"
      BY <1>1, <1>4, <1>6, <1>9 DEF OneConversation
    <3>3. ~ (proxy'.session /\ proxy'.pipes)
      BY <1>9
    <3>. QED
      BY <1>2, <1>3, <2>1, <2>2, <3>1, <3>2, <3>3, OneTalks
  <2>4. InHand' /\ ForwardedIsIndexed'
    BY <1>1, <1>9, <2>1, NobodyHands DEF WithSession, data
  <2>. QED
    BY <2>2, <2>3, <2>4 DEF ChildInv
<1>. QED
  BY <1>7, <1>8, <1>9 DEF WithSession

(* Letting go of the mutex: nobody talks any more.                         *)
LEMMA LeaveInv ==
  ASSUME ChildInv, NEW t \in Talkers, Talking(t), Leave(t),
         wire' = "quiet", UNCHANGED << data, proxy, alive >>, inbox' \in Seq(Message)
  PROVE  ChildInv'
<1>1. TypeOK /\ OneConversation /\ Conversing /\ InHand /\ ForwardedIsIndexed
  BY DEF ChildInv
<1>2. t \in Threads /\ lock["proxy"] = t
  BY <1>1 DEF OneConversation, Talkers, Threads
<1>3. \A u \in Threads \ {t} : Talking(u) => FALSE
  BY <1>2, OthersSilent
<1>4. "idle" \in Places
  BY DEF Places
<1>5. /\ thread' \in [Threads -> Thread] /\ thread'[t].pc = "idle"
      /\ \A u \in Threads \ {t} : thread'[u] = thread[u]
      /\ thread'["mux"] = thread["mux"] /\ thread'["hub"] = thread["hub"]
  BY <1>4, TalkerStep DEF Leave, Goto
<1>6. /\ lock' \in [Locks -> Threads \union {Nobody}]
      /\ lock'["index"] = lock["index"]
  BY <1>1, ProxyLock DEF Leave, Release
<1>7. TypeOK'
  BY <1>1, <1>5, <1>6 DEF data, TypeOK
<1>8. OneConversation' /\ Conversing'
  <2>1. ~ Talking(t)' /\ ~ Waits(t)' /\ ~ At(t, "drain")' /\ ~ At(t, "asked")'
        /\ ~ At(t, "initialize")'
    BY <1>5 DEF Talking, Waits, At
  <2>2. (Opened' # {} => proxy'.session) /\ ~ (proxy'.session /\ proxy'.pipes)
    BY <1>1 DEF OneConversation, data, Opened
  <2>. QED
    BY <1>2, <1>3, <1>5, <1>7, <2>1, <2>2, OneTalks
<1>9. InHand' /\ ForwardedIsIndexed'
  BY <1>1, <1>5, <1>6, NobodyHands DEF data
<1>. QED
  BY <1>7, <1>8, <1>9 DEF ChildInv

(* The handshake succeeds or fails.                                        *)
LEMMA InitializedInv ==
  ASSUME ChildInv, NEW t \in Talkers, Initialized(t)
  PROVE  ChildInv'
<1>1. TypeOK /\ OneConversation /\ Conversing /\ InHand /\ ForwardedIsIndexed
  BY DEF ChildInv
<1>2. t \in Threads /\ thread[t].pc = "initialize" /\ Talking(t)
  BY DEF Initialized, At, Talking, Waits, Talkers, Threads
<1>3. CASE wire # "ok"
  <2>1. Leave(t) /\ UNCHANGED proxy /\ wire' = "quiet" /\ UNCHANGED << data, inbox, alive >>
    BY <1>3 DEF Initialized
  <2>2. inbox' \in Seq(Message)
    BY <1>1, <2>1 DEF TypeOK
  <2>. QED
    BY <1>2, <2>1, <2>2, LeaveInv
<1>4. CASE wire = "ok"
  <2>1. /\ proxy' = [proxy EXCEPT !.session = TRUE] /\ Goto(t, "drain")
        /\ UNCHANGED << lock, data, inbox, alive >> /\ wire' = "quiet"
    BY <1>4 DEF Initialized
  <2>2. "drain" \in Places
    BY DEF Places
  <2>3. /\ thread' \in [Threads -> Thread] /\ thread'[t].pc = "drain"
        /\ \A u \in Threads \ {t} : thread'[u] = thread[u]
        /\ thread'["mux"] = thread["mux"] /\ thread'["hub"] = thread["hub"]
    BY <2>1, <2>2, TalkerStep DEF Goto
  <2>4. /\ proxy' \in [pipes : BOOLEAN, session : BOOLEAN, warm_started : BOOLEAN]
        /\ proxy'.session /\ ~ proxy'.pipes
    BY <1>1, <1>2, <2>1 DEF TypeOK, Conversing, At
  <2>5. TypeOK'
    BY <1>1, <2>1, <2>3, <2>4 DEF data, TypeOK
  <2>6. OneConversation' /\ Conversing'
    <3>1. Talking(t)' /\ ~ Waits(t)' /\ At(t, "drain")' /\ ~ At(t, "initialize")'
      BY <2>3 DEF Talking, Waits, At
    <3>2. lock["proxy"] = t /\ lock' = lock
      BY <1>1, <1>2, <2>1 DEF OneConversation
    <3>3. \A u \in Threads \ {t} : Talking(u) => FALSE
      BY <1>2, <3>2, OthersSilent
    <3>. QED
      BY <1>2, <2>1, <2>3, <2>4, <2>5, <3>1, <3>2, <3>3, OneTalks
  <2>7. InHand' /\ ForwardedIsIndexed'
    BY <1>1, <2>1, <2>3, NobodyHands DEF data
  <2>. QED
    BY <2>5, <2>6, <2>7 DEF ChildInv
<1>. QED
  BY <1>3, <1>4

(* What the drain sends does not matter: it has a session.                 *)
LEMMA DrainInboxInv ==
  ASSUME ChildInv, NEW t \in Talkers, DrainInbox(t)
  PROVE  ChildInv'
<1>1. TypeOK /\ OneConversation /\ Conversing /\ InHand /\ ForwardedIsIndexed
  BY DEF ChildInv
<1>2. t \in Threads /\ thread[t].pc = "drain" /\ Talking(t) /\ proxy.session /\ ~ proxy.pipes
  <2>1. t \in Threads /\ At(t, "drain")
    BY DEF DrainInbox, Talkers, Threads
  <2>. QED
    BY <1>1, <2>1 DEF At, Talking, Conversing, OneConversation
<1>3. lock["proxy"] = t
  BY <1>1, <1>2 DEF OneConversation
<1>4. \A u \in Threads \ {t} : Talking(u) => FALSE
  BY <1>2, <1>3, OthersSilent
<1>5. wire = "quiet"
  <2>1. ~ Waits(t)
    BY <1>2 DEF Waits
  <2>. QED
    BY <1>1, <1>4, <2>1 DEF OneConversation, Talking
<1>6. inbox' \in Seq(Message) /\ UNCHANGED << index, dirty, proxy, alive, told, edits, queries >>
  BY DEF DrainInbox
<1>7. /\ thread' \in [Threads -> Thread]
      /\ \A u \in Threads \ {t} : thread'[u] = thread[u]
      /\ thread'["mux"] = thread["mux"] /\ thread'["hub"] = thread["hub"]
      /\ lock' \in [Locks -> Threads \union {Nobody}] /\ lock'["index"] = lock["index"]
      /\ \/ thread'[t].pc = "asked" /\ wire' = "asked" /\ lock'["proxy"] = t
         \/ thread'[t].pc = "idle" /\ wire' = "quiet"
  <2>1. CASE /\ wire' = "asked" /\ UNCHANGED lock
             /\ thread' = [thread EXCEPT ![t].pc = "asked", ![t].seen = told]
    <3>. DEFINE th == [thread[t] EXCEPT !.pc = "asked", !.seen = told]
    <3>1. thread[t] \in Thread /\ told \in [Files -> Message]
      BY <1>1, <1>2 DEF TypeOK
    <3>2. th \in Thread /\ th.pc = "asked"
      BY <3>1 DEF Thread, Places
    <3>3. thread' = [thread EXCEPT ![t] = th]
      BY <1>1, <1>2, <2>1 DEF TypeOK, Thread
    <3>. HIDE DEF th
    <3>4. thread' \in [Threads -> Thread] /\ thread'[t] = th
          /\ \A u \in Threads \ {t} : thread'[u] = thread[u]
      BY <1>1, <1>2, <3>2, <3>3 DEF TypeOK
    <3>. QED
      BY <1>1, <1>3, <2>1, <3>2, <3>4 DEF TypeOK, Talkers, Threads
  <2>2. CASE Leave(t) /\ UNCHANGED wire
    <3>1. "idle" \in Places
      BY DEF Places
    <3>2. /\ thread' \in [Threads -> Thread] /\ thread'[t].pc = "idle"
          /\ \A u \in Threads \ {t} : thread'[u] = thread[u]
          /\ thread'["mux"] = thread["mux"] /\ thread'["hub"] = thread["hub"]
      BY <2>2, <3>1, TalkerStep DEF Leave, Goto
    <3>3. lock' \in [Locks -> Threads \union {Nobody}] /\ lock'["index"] = lock["index"]
      BY <1>1, <2>2, ProxyLock DEF Leave, Release
    <3>. QED
      BY <1>5, <2>2, <3>2, <3>3
  <2>. QED
    BY <2>1, <2>2 DEF DrainInbox
<1>8. TypeOK'
  BY <1>1, <1>5, <1>6, <1>7 DEF TypeOK
<1>9. OneConversation' /\ Conversing'
  <2>1. CASE thread'[t].pc = "asked" /\ wire' = "asked" /\ lock'["proxy"] = t
    <3>1. Talking(t)' /\ Waits(t)' /\ At(t, "asked")' /\ ~ At(t, "initialize")'
      BY <2>1 DEF Talking, Waits, At
    <3>2. wire' # "quiet"
      BY <2>1
    <3>. QED
      BY <1>2, <1>4, <1>6, <1>7, <1>8, <2>1, <3>1, <3>2, OneTalks
  <2>2. CASE thread'[t].pc = "idle" /\ wire' = "quiet"
    <3>1. ~ Talking(t)' /\ ~ Waits(t)' /\ ~ At(t, "drain")' /\ ~ At(t, "asked")'
          /\ ~ At(t, "initialize")'
      BY <2>2 DEF Talking, Waits, At
    <3>. QED
      BY <1>2, <1>4, <1>6, <1>7, <1>8, <2>2, <3>1, OneTalks
  <2>. QED
    BY <1>7, <2>1, <2>2
<1>10. InHand' /\ ForwardedIsIndexed'
  BY <1>1, <1>6, <1>7, NobodyHands
<1>. QED
  BY <1>8, <1>9, <1>10 DEF ChildInv

(* A query begins: nobody talks yet.                                       *)
LEMMA QueryInv ==
  ASSUME ChildInv, NEW f \in Files, Query(f)
  PROVE  ChildInv'
<1>1. TypeOK /\ OneConversation /\ Conversing /\ InHand /\ ForwardedIsIndexed
  BY DEF ChildInv
<1>2. /\ thread' \in [Threads -> Thread]
      /\ thread["worker"].pc = "idle" /\ thread'["worker"].pc = "warmed"
      /\ \A u \in Threads \ {"worker"} : thread'[u] = thread[u]
  BY <1>1, ThreadNames DEF Query, At, TypeOK, Thread, Places
<1>3. TypeOK'
  BY <1>1, <1>2 DEF Query, data, TypeOK
<1>4. OneConversation' /\ Conversing'
  BY <1>1, <1>2, NobodyTalks DEF Query, data
<1>5. InHand' /\ ForwardedIsIndexed'
  <2>1. thread'["mux"] = thread["mux"] /\ thread'["hub"] = thread["hub"]
    BY <1>2 DEF Threads
  <2>. QED
    BY <1>1, <2>1, NobodyHands DEF Query, data
<1>. QED
  BY <1>3, <1>4, <1>5 DEF ChildInv

(* is_warmed: nobody talks yet.                                            *)
LEMMA IsWarmedInv == ChildInv /\ IsWarmed => ChildInv'
<1>. SUFFICES ASSUME ChildInv, IsWarmed PROVE ChildInv'
  OBVIOUS
<1>1. TypeOK /\ OneConversation /\ Conversing /\ InHand /\ ForwardedIsIndexed
  BY DEF ChildInv
<1>2. PICK p \in {"lock", "idle"} : thread' = [thread EXCEPT !["worker"].pc = p]
  BY DEF IsWarmed, Goto
<1>3. /\ thread' \in [Threads -> Thread] /\ thread["worker"].pc = "warmed"
      /\ thread'["worker"].pc \in {"lock", "idle"}
      /\ \A u \in Threads \ {"worker"} : thread'[u] = thread[u]
      /\ thread'["mux"] = thread["mux"] /\ thread'["hub"] = thread["hub"]
  <2>1. p \in Places /\ "worker" \in Talkers
    BY DEF Places, Talkers
  <2>. QED
    BY <1>2, <2>1, TalkerStep DEF IsWarmed, At
<1>4. TypeOK'
  BY <1>1, <1>3 DEF IsWarmed, data, TypeOK
<1>5. OneConversation' /\ Conversing'
  BY <1>1, <1>3, NobodyTalks DEF IsWarmed, data
<1>6. InHand' /\ ForwardedIsIndexed'
  BY <1>1, <1>3, NobodyHands DEF IsWarmed, data
<1>. QED
  BY <1>4, <1>5, <1>6 DEF ChildInv

(* The answer ends the conversation.                                       *)
LEMMA QueryAnsweredInv == ChildInv /\ QueryAnswered => ChildInv'
<1>. SUFFICES ASSUME ChildInv, QueryAnswered PROVE ChildInv'
  OBVIOUS
<1>1. Talking("worker") /\ "worker" \in Talkers
  BY DEF QueryAnswered, Talking, Waits, At, Talkers
<1>2. inbox' \in Seq(Message)
  BY DEF QueryAnswered, ChildInv, TypeOK
<1>. QED
  BY <1>1, <1>2, LeaveInv DEF QueryAnswered

(* The engine answers a request or dies; the threads notice later.         *)
LEMMA EngineInv == ChildInv /\ (Answer \/ Exit) => ChildInv'
<1>. SUFFICES ASSUME ChildInv, Answer \/ Exit PROVE ChildInv'
  OBVIOUS
<1>1. TypeOK /\ OneConversation /\ Conversing /\ InHand /\ ForwardedIsIndexed
  BY DEF ChildInv
<1>2. /\ UNCHANGED << data, lock, proxy, inbox, thread, queries >>
      /\ alive' \in BOOLEAN /\ wire' \in {"quiet", "asked", "ok", "error"}
      /\ wire' # "quiet" <=> wire # "quiet"
  BY <1>1 DEF Answer, Exit, TypeOK
<1>3. TypeOK'
  BY <1>1, <1>2 DEF data, TypeOK
<1>4. OneConversation' /\ Conversing'
  BY <1>1, <1>2 DEF OneConversation, Conversing, Talking, Waits, At, Opened, data
<1>5. InHand' /\ ForwardedIsIndexed'
  BY <1>1, <1>2, NobodyHands DEF data
<1>. QED
  BY <1>3, <1>4, <1>5 DEF ChildInv

(* Every step keeps the invariant.                                         *)
LEMMA NextInv == ChildInv /\ [Next]_vars => ChildInv'
<1>. SUFFICES ASSUME ChildInv, [Next]_vars PROVE ChildInv'
  OBVIOUS
<1>1. ASSUME NEW f \in Files, NEW x \in Texts, DidOpen(f, x) \/ DidChange(f, x)
      PROVE  ChildInv'
  BY <1>1, DidOpenInv, DidChangeInv
<1>2. ASSUME NEW f \in Files, Query(f)
      PROVE  ChildInv'
  BY <1>2, QueryInv
<1>3. CASE MuxStep
  BY <1>3, ForwardDidOpenInv, ScheduleWarmInv DEF MuxStep
<1>4. CASE HubStep
  BY <1>4, HubReadsInv, ForwardDidChangeInv DEF HubStep
<1>5. ASSUME NEW t \in Talkers, Talks(t)
      PROVE  ChildInv'
  BY <1>5, WithSessionInv, InitializedInv, DrainInboxInv DEF Talks
<1>6. CASE WarmStep
  BY <1>5, <1>6 DEF WarmStep, Talkers
<1>7. CASE WorkerStep
  BY <1>5, <1>7, IsWarmedInv, QueryAnsweredInv DEF WorkerStep, Talkers
<1>8. CASE Answer \/ Exit
  BY <1>8, EngineInv
<1>9. CASE UNCHANGED vars
  BY <1>9 DEF ChildInv, TypeOK, OneConversation, Conversing, InHand, ForwardedIsIndexed,
              Talking, Waits, At, Opened, vars
<1>. QED
  BY <1>1, <1>2, <1>3, <1>4, <1>6, <1>7, <1>8, <1>9 DEF Next

(* The types of the proxy, its mutexes and its threads.                    *)
THEOREM ChildTypeCorrect == Spec => []TypeOK
<1>1. ChildInv => TypeOK
  BY DEF ChildInv
<1>. QED
  BY <1>1, InitInv, NextInv, PTL DEF Spec, SpecOfServer

(***************************************************************************)
(* There is one conversation with the engine, whatever the order in which  *)
(* the threads come, and initialize is its beginning.                      *)
(***************************************************************************)
THEOREM OneConversationAtATime == Spec => []OneConversation
<1>1. ChildInv => OneConversation
  BY DEF ChildInv
<1>. QED
  BY <1>1, InitInv, NextInv, PTL DEF Spec, SpecOfServer

(***************************************************************************)
(* What is forwarded last of a file is what the index holds: an open and   *)
(* an older change of one file do not pass each other on the way.          *)
(***************************************************************************)
THEOREM LastForwardedIsIndexed == Spec => []ForwardedIsIndexed
<1>1. ChildInv => ForwardedIsIndexed
  BY DEF ChildInv
<1>. QED
  BY <1>1, InitInv, NextInv, PTL DEF Spec, SpecOfServer

-----------------------------------------------------------------------------
(* The drain.  after[n] of Sent, as a solution of its recurrence: what the *)
(* engine has of each file when the first n messages of q are sent.        *)
Contents == [Files -> Texts \union {-1}]

Sends(e, q, k, s) ==
  s = [n \in 0 .. k |-> IF n = 0 THEN e ELSE Send(s[n - 1], q[n])]

(* Some number is the least of any.                                        *)
LEMMA Least ==
  ASSUME NEW S \in SUBSET Nat, S # {}
  PROVE  \E n \in S : \A i \in S : n <= i
<1>1. PICK n \in S : \A i \in S : <<i, n>> \notin OpToRel(<, Nat)
  BY WFMin, NatLessThanWellFounded
<1>2. \A i, j \in Nat : <<j, i>> \notin OpToRel(<, Nat) => i <= j
  BY DEF OpToRel
<1>. QED
  BY <1>1, <1>2

(* Any number of messages can be sent in turn.                             *)
LEMMA CanSend ==
  ASSUME NEW e, NEW q, NEW k \in Nat
  PROVE  \E s : Sends(e, q, k, s)
<1>. DEFINE Stuck == {n \in Nat : ~ \E s : Sends(e, q, n, s)}
<1>1. SUFFICES ASSUME Stuck # {} PROVE FALSE
  BY <1>1
<1>2. PICK n \in Stuck : \A i \in Stuck : n <= i
  <2>1. Stuck \subseteq Nat
    OBVIOUS
  <2>. HIDE DEF Stuck
  <2>. QED
    BY <1>1, <2>1, Least
<1>3. n \in Nat /\ ~ \E s : Sends(e, q, n, s)
  OBVIOUS
<1>4. CASE n = 0
  <2>1. Sends(e, q, 0, [i \in 0 .. 0 |-> e])
    BY DEF Sends
  <2>. QED
    BY <1>3, <1>4, <2>1
<1>5. CASE n # 0
  <2>1. n - 1 \in Nat /\ n - 1 \notin Stuck
    BY <1>2, <1>3, <1>5
  <2>2. PICK s : Sends(e, q, n - 1, s)
    BY <2>1
  <2>. DEFINE r == [i \in 0 .. n |-> IF i = n THEN Send(s[n - 1], q[n]) ELSE s[i]]
  <2>3. \A i \in 0 .. n - 1 : s[i] = IF i = 0 THEN e ELSE Send(s[i - 1], q[i])
    BY <2>2 DEF Sends
  <2>4. \A i \in 0 .. n : r[i] = IF i = 0 THEN e ELSE Send(r[i - 1], q[i])
    BY <1>3, <1>5, <2>3
  <2>5. r = [i \in 0 .. n |-> IF i = 0 THEN e ELSE Send(r[i - 1], q[i])]
    BY <2>4
  <2>. HIDE DEF r
  <2>. QED
    BY <1>3, <2>5 DEF Sends
<1>. QED
  BY <1>4, <1>5

(* One message sent changes one file: to its text, unless an open document *)
(* is opened again with none.                                              *)
Holds(c, m) == c[m.file] = m.text \/ (m.op = "open" /\ m.text = 0)

(* What one message does to the contents.                                  *)
LEMMA SendOne ==
  ASSUME NEW e \in Contents, NEW m \in Message
  PROVE  /\ Send(e, m) \in Contents
         /\ Holds(Send(e, m), m)
         /\ \A f \in Files \ {m.file} : Send(e, m)[f] = e[f]
BY ChildAssumption DEF Send, Contents, Message, Holds

(* The last message of a file before place n decides what the engine has.  *)
LastOf(q, n, f, i) ==
  /\ i \in 1 .. n /\ q[i].file = f
  /\ \A j \in 1 .. n : j > i => q[j].file # f

Decided(e, q, n, c) ==
  \A f \in Files :
    /\ \A i \in 1 .. n : LastOf(q, n, f, i) => Holds(c, q[i])
    /\ (\A i \in 1 .. n : q[i].file # f) => c[f] = e[f]

(* One message more: it decides about its file, and leaves the others.     *)
LEMMA SendNext ==
  ASSUME NEW e \in Contents, NEW q \in Seq(Message), NEW n \in 0 .. Len(q) - 1,
         NEW c \in Contents, Decided(e, q, n, c)
  PROVE  Send(c, q[n + 1]) \in Contents /\ Decided(e, q, n + 1, Send(c, q[n + 1]))
<1>1. n + 1 \in 1 .. Len(q) /\ q[n + 1] \in Message /\ \A i \in 1 .. n : q[i] \in Message
  OBVIOUS
<1>. DEFINE m == q[n + 1]
            d == Send(c, m)
<1>2. /\ d \in Contents /\ Holds(d, m)
      /\ \A f \in Files \ {m.file} : d[f] = c[f]
  BY <1>1, SendOne
<1>. HIDE DEF d
<1>3. ASSUME NEW f \in Files, NEW i \in 1 .. n + 1, LastOf(q, n + 1, f, i)
      PROVE  Holds(d, q[i])
  <2>1. CASE i = n + 1
    BY <1>2, <2>1
  <2>2. CASE i # n + 1
    <3>1. i \in 1 .. n /\ LastOf(q, n, f, i) /\ m.file # f /\ q[i].file = f
      BY <1>3, <2>2 DEF LastOf
    <3>2. Holds(c, q[i])
      BY <1>3, <3>1 DEF Decided
    <3>. QED
      BY <1>2, <3>1, <3>2 DEF Holds
  <2>. QED
    BY <2>1, <2>2
<1>4. ASSUME NEW f \in Files, \A i \in 1 .. n + 1 : q[i].file # f
      PROVE  d[f] = e[f]
  BY <1>2, <1>4 DEF Decided
<1>5. Decided(e, q, n + 1, d)
  BY <1>3, <1>4 DEF Decided
<1>. QED
  BY <1>2, <1>5 DEF d

(* The last message of each file decides what the engine has of it.        *)
LEMMA SentIs ==
  ASSUME NEW e \in Contents, NEW q \in Seq(Message)
  PROVE  Sent(e, q) \in Contents /\ Decided(e, q, Len(q), Sent(e, q))
<1>. DEFINE s == CHOOSE s : Sends(e, q, Len(q), s)
<1>1. Len(q) \in Nat
  OBVIOUS
<1>2. Sends(e, q, Len(q), s)
  BY <1>1, CanSend
<1>3. Sent(e, q) = s[Len(q)]
  BY DEF Sent, Sends
<1>. HIDE DEF s
<1>4. s[0] = e /\ \A n \in 0 .. Len(q) - 1 : s[n + 1] = Send(s[n], q[n + 1])
  BY <1>1, <1>2 DEF Sends
<1>. DEFINE Wrong == {n \in 0 .. Len(q) : ~ (s[n] \in Contents /\ Decided(e, q, n, s[n]))}
<1>5. ASSUME Wrong # {}
      PROVE  FALSE
  <2>1. PICK n \in Wrong : \A i \in Wrong : n <= i
    <3>1. Wrong \in SUBSET Nat
      BY <1>1
    <3>. HIDE DEF Wrong
    <3>. QED
      BY <1>5, <3>1, Least
  <2>2. CASE n = 0
    BY <1>4, <2>1, <2>2 DEF Decided, LastOf
  <2>3. CASE n # 0
    <3>1. n - 1 \in 0 .. Len(q) - 1 /\ n - 1 \notin Wrong /\ (n - 1) + 1 = n
      BY <1>1, <2>1, <2>3
    <3>2. s[n - 1] \in Contents /\ Decided(e, q, n - 1, s[n - 1])
      BY <1>1, <3>1
    <3>3. s[n] = Send(s[n - 1], q[n])
      BY <1>4, <3>1
    <3>. QED
      BY <2>1, <3>1, <3>2, <3>3, SendNext
  <2>. QED
    BY <2>2, <2>3
<1>. QED
  BY <1>1, <1>3, <1>5

(* A file with a message has a last one.                                   *)
LEMMA LastExists ==
  ASSUME NEW q \in Seq(Message), NEW f \in Files, NEW k \in 1 .. Len(q), q[k].file = f
  PROVE  \E i : LastOf(q, Len(q), f, i)
<1>. DEFINE Behind == {n \in 0 .. Len(q) - 1 : q[Len(q) - n].file = f}
<1>1. Len(q) \in Nat /\ Len(q) - k \in Behind /\ Behind \in SUBSET Nat
  OBVIOUS
<1>2. PICK n \in Behind : \A i \in Behind : n <= i
  <2>. HIDE DEF Behind
  <2>. QED
    BY <1>1, Least
<1>3. Len(q) - n \in 1 .. Len(q) /\ q[Len(q) - n].file = f
  BY <1>1, <1>2
<1>4. ASSUME NEW j \in 1 .. Len(q), j > Len(q) - n
      PROVE  q[j].file # f
  <2>1. Len(q) - j \in 0 .. Len(q) - 1 /\ Len(q) - (Len(q) - j) = j /\ Len(q) - j < n
    BY <1>1, <1>4
  <2>2. Len(q) - j \notin Behind
    <3>1. n \in Nat
      BY <1>1, <1>2
    <3>. HIDE DEF Behind
    <3>. QED
      BY <1>1, <1>2, <2>1, <3>1
  <2>. QED
    BY <2>1, <2>2
<1>. QED
  BY <1>3, <1>4 DEF LastOf

(***************************************************************************)
(* While the engine lives, the last message of a file in the inbox is the  *)
(* last that was forwarded of it; a file that has none there, and is open, *)
(* is as the last one left it.  With the proxy's mutex held by the worker  *)
(* that waits, nobody sends what would change that.                        *)
(***************************************************************************)
Asking ==
  /\ engine \in Contents
  /\ \A f \in Files : told[f].file = f
  /\ alive =>
       \A f \in Files :
         /\ \A i \in 1 .. Len(inbox) :
              LastOf(inbox, Len(inbox), f, i) => told[f] = inbox[i]
         /\ (\A i \in 1 .. Len(inbox) : inbox[i].file # f) /\ f \in Opened =>
              Holds(engine, told[f])
  /\ AskedAboutLast

(* At the start no file is open.                                           *)
LEMMA AskingStarts == Init => Asking
<1>. SUFFICES ASSUME Init PROVE Asking
  OBVIOUS
<1>1. engine \in Contents /\ Opened = {}
  BY DEF Init, Contents, Opened
<1>2. \A f \in Files : told[f].file = f
  BY DEF Init
<1>3. ~ At("worker", "asked")
  BY ThreadNames DEF Init, At
<1>4. inbox = << >>
  BY DEF Init
<1>. QED
  BY <1>1, <1>2, <1>3, <1>4 DEF Asking, AskedAboutLast, LastOf

(* Nothing is forwarded and nothing sent.                                  *)
LEMMA AskingKept ==
  ASSUME Asking, UNCHANGED << engine, inbox, told >>, alive' => alive,
         thread'["worker"] = thread["worker"] \/ thread'["worker"].pc # "asked"
  PROVE  Asking'
<1>1. Opened' = Opened
  BY DEF Opened
<1>2. AskedAboutLast'
  BY <1>1 DEF Asking, AskedAboutLast, At
<1>. QED
  BY <1>1, <1>2 DEF Asking

(* A message is forwarded: it is the last of its file.                     *)
LEMMA AskingPush ==
  ASSUME ChildInv, Asking, NEW m \in Message, Push(m), UNCHANGED << engine, alive >>,
         thread'["worker"] = thread["worker"]
  PROVE  Asking'
<1>1. inbox \in Seq(Message) /\ told \in [Files -> Message] /\ m.file \in Files
  BY DEF ChildInv, TypeOK, Message
<1>2. /\ Len(inbox') = Len(inbox) + 1 /\ inbox'[Len(inbox) + 1] = m
      /\ \A i \in 1 .. Len(inbox) : inbox'[i] = inbox[i]
      /\ Len(inbox) \in Nat
  BY <1>1 DEF Push
<1>3. told'[m.file] = m /\ \A f \in Files \ {m.file} : told'[f] = told[f]
  BY <1>1 DEF Push
<1>4. Opened' = Opened
  BY DEF Opened
<1>5. AskedAboutLast'
  BY <1>4 DEF Asking, AskedAboutLast, At
<1>6. \A f \in Files : told'[f].file = f
  BY <1>3 DEF Asking
<1>7. ASSUME alive, NEW f \in Files, NEW i \in 1 .. Len(inbox) + 1,
             LastOf(inbox', Len(inbox) + 1, f, i)
      PROVE  told'[f] = inbox'[i]
  <2>1. CASE i = Len(inbox) + 1
    BY <1>2, <1>3, <1>7, <2>1 DEF LastOf
  <2>2. CASE i # Len(inbox) + 1
    <3>1. i \in 1 .. Len(inbox) /\ LastOf(inbox, Len(inbox), f, i) /\ m.file # f
      BY <1>2, <1>7, <2>2 DEF LastOf
    <3>. QED
      BY <1>2, <1>3, <1>7, <3>1 DEF Asking
  <2>. QED
    BY <2>1, <2>2
<1>8. ASSUME alive, NEW f \in Files, f \in Opened,
             \A i \in 1 .. Len(inbox) + 1 : inbox'[i].file # f
      PROVE  Holds(engine, told'[f])
  <2>1. m.file # f /\ \A i \in 1 .. Len(inbox) : inbox[i].file # f
    BY <1>2, <1>8
  <2>. QED
    BY <1>3, <1>8, <2>1 DEF Asking
<1>9. ASSUME alive', NEW f \in Files
      PROVE  /\ \A i \in 1 .. Len(inbox') :
                   LastOf(inbox', Len(inbox'), f, i) => told'[f] = inbox'[i]
             /\ (\A i \in 1 .. Len(inbox') : inbox'[i].file # f) /\ f \in Opened' =>
                   Holds(engine', told'[f])
  <2>1. alive /\ engine' = engine
    BY <1>9
  <2>2. \A i \in 1 .. Len(inbox') : LastOf(inbox', Len(inbox'), f, i) => told'[f] = inbox'[i]
    BY <1>2, <1>7, <2>1
  <2>3. (\A i \in 1 .. Len(inbox') : inbox'[i].file # f) /\ f \in Opened' =>
          Holds(engine', told'[f])
    BY <1>2, <1>4, <1>8, <2>1
  <2>. QED
    BY <2>2, <2>3
<1>10. engine' \in Contents
  BY DEF Asking
<1>. QED
  BY <1>5, <1>6, <1>9, <1>10 DEF Asking

(* The drain: the engine has what the last message of each file says.      *)
LEMMA AskingDrain ==
  ASSUME ChildInv, Asking, NEW t \in Talkers, DrainInbox(t)
  PROVE  Asking'
<1>1. inbox \in Seq(Message) /\ engine \in Contents /\ thread \in [Threads -> Thread]
      /\ \A f \in Files : told[f].file = f
  BY DEF ChildInv, TypeOK, Asking
<1>2. inbox' = << >> /\ told' = told /\ alive' = alive
  BY DEF DrainInbox
<1>3. ~ At("worker", "asked")
  <2>1. At(t, "drain") /\ t \in Threads
    BY DEF DrainInbox, Talkers, Threads
  <2>2. At("worker", "asked") => lock["proxy"] = "worker"
    BY ThreadNames DEF ChildInv, OneConversation, Talking, Waits, At
  <2>3. lock["proxy"] = t
    BY <2>1 DEF ChildInv, OneConversation, Talking
  <2>. QED
    BY <2>1, <2>2, <2>3 DEF At
<1>4. CASE ~ alive
  <2>1. engine' = engine /\ Leave(t)
    BY <1>4 DEF DrainInbox
  <2>2. thread'["worker"] = thread["worker"] \/ thread'["worker"].pc # "asked"
    BY <1>1, <2>1, ThreadNames DEF Leave, Goto, Talkers, Thread
  <2>3. ~ At("worker", "asked")'
    BY <1>3, <2>2 DEF At
  <2>. QED
    BY <1>1, <1>2, <1>4, <2>1, <2>3 DEF Asking, AskedAboutLast
<1>5. CASE alive
  <2>1. engine' = Sent(engine, inbox)
    BY <1>5 DEF DrainInbox
  <2>2. engine' \in Contents /\ Decided(engine, inbox, Len(inbox), engine')
    BY <1>1, <2>1, SentIs
  <2>3. ASSUME NEW f \in Files, f \in Opened'
        PROVE  Holds(engine', told[f])
    <3>1. CASE \A i \in 1 .. Len(inbox) : inbox[i].file # f
      <4>1. engine'[f] = engine[f]
        BY <2>2, <3>1 DEF Decided
      <4>2. f \in Opened
        BY <2>3, <4>1 DEF Opened
      <4>3. Holds(engine, told[f])
        BY <1>5, <3>1, <4>2 DEF Asking
      <4>. QED
        BY <1>1, <4>1, <4>3 DEF Holds
    <3>2. CASE \E i \in 1 .. Len(inbox) : inbox[i].file = f
      <4>1. PICK i : LastOf(inbox, Len(inbox), f, i)
        BY <1>1, <3>2, LastExists
      <4>2. i \in 1 .. Len(inbox)
        BY <4>1 DEF LastOf
      <4>. QED
        BY <1>5, <2>2, <4>1, <4>2 DEF Decided, Asking
    <3>. QED
      BY <3>1, <3>2
  <2>4. At("worker", "asked")' => thread'["worker"].seen = told
    <3>1. CASE thread' = [thread EXCEPT ![t].pc = "asked", ![t].seen = told]
      BY <1>1, <1>3, <3>1, ThreadNames DEF At, Thread, Talkers
    <3>2. CASE Leave(t)
      BY <1>1, <1>3, <3>2, ThreadNames DEF Leave, Goto, At, Thread, Talkers
    <3>. QED
      BY <3>1, <3>2 DEF DrainInbox
  <2>5. AskedAboutLast'
    <3>. SUFFICES ASSUME At("worker", "asked")', NEW f \in Opened'
                  PROVE  \/ engine'[f] = thread'["worker"].seen[f].text
                         \/ /\ thread'["worker"].seen[f].op = "open"
                            /\ thread'["worker"].seen[f].text = 0
      BY DEF AskedAboutLast
    <3>1. f \in Files
      BY DEF Opened
    <3>. QED
      BY <1>1, <2>3, <2>4, <3>1 DEF Holds
  <2>6. Len(inbox') = 0
    BY <1>2
  <2>. QED
    BY <1>1, <1>2, <2>2, <2>3, <2>5, <2>6 DEF Asking
<1>. QED
  BY <1>4, <1>5

(* Every step keeps the invariant.                                         *)
LEMMA AskingInductive == ChildInv /\ Asking /\ [Next]_vars => Asking'
<1>. SUFFICES ASSUME ChildInv, Asking, [Next]_vars PROVE Asking'
  OBVIOUS
<1>1. thread \in [Threads -> Thread]
  BY DEF ChildInv, TypeOK
<1>2. ASSUME NEW f \in Files, NEW x \in Texts, DidOpen(f, x) \/ DidChange(f, x)
      PROVE  Asking'
  BY <1>1, <1>2, ThreadNames, AskingKept DEF DidOpen, DidChange
<1>3. ASSUME NEW f \in Files, Query(f)
      PROVE  Asking'
  <2>1. thread'["worker"].pc = "warmed"
    BY <1>1, <1>3, ThreadNames DEF Query, Thread
  <2>. QED
    BY <1>3, <2>1, AskingKept DEF Query, data
<1>4. CASE ForwardDidOpen
  <2>. DEFINE m == [op |-> "open", file |-> thread["mux"].file, text |-> thread["mux"].text]
  <2>1. m \in Message
    BY <1>1, ThreadNames DEF Thread, Message
  <2>2. thread'["worker"] = thread["worker"]
    BY <1>1, <1>4, ThreadNames DEF ForwardDidOpen, Goto
  <2>3. Push(m) /\ UNCHANGED << engine, alive >>
    BY <1>4 DEF ForwardDidOpen
  <2>. HIDE DEF m
  <2>. QED
    BY <2>1, <2>2, <2>3, AskingPush
<1>5. CASE ScheduleWarm
  <2>1. thread'["worker"] = thread["worker"]
    BY <1>1, <1>5, ThreadNames DEF ScheduleWarm
  <2>. QED
    BY <1>5, <2>1, AskingKept DEF ScheduleWarm, data
<1>6. ASSUME NEW f \in Files, HubReads(f)
      PROVE  Asking'
  <2>1. thread'["worker"] = thread["worker"]
    BY <1>1, <1>6, ThreadNames DEF HubReads
  <2>. QED
    BY <1>6, <2>1, AskingKept DEF HubReads
<1>7. CASE ForwardDidChange
  <2>. DEFINE m == [op |-> "change", file |-> thread["hub"].file, text |-> thread["hub"].text]
  <2>1. m \in Message
    BY <1>1, ThreadNames DEF Thread, Message
  <2>2. thread'["worker"] = thread["worker"]
    BY <1>1, <1>7, ThreadNames DEF ForwardDidChange, Goto
  <2>3. Push(m) /\ UNCHANGED << engine, alive >>
    BY <1>7 DEF ForwardDidChange
  <2>. HIDE DEF m
  <2>. QED
    BY <2>1, <2>2, <2>3, AskingPush
<1>8. ASSUME NEW t \in Talkers, NEW p \in Places, p # "asked", Goto(t, p)
      PROVE  thread'["worker"] = thread["worker"] \/ thread'["worker"].pc # "asked"
  BY <1>1, <1>8, ThreadNames DEF Goto, Thread, Talkers, Threads
<1>9. ASSUME NEW t \in Talkers, WithSession(t) \/ Initialized(t)
      PROVE  Asking'
  <2>1. PICK p \in {"drain", "initialize", "idle"} : Goto(t, p)
    BY <1>9 DEF WithSession, Initialized, Leave
  <2>2. p \in Places /\ p # "asked"
    BY DEF Places
  <2>. QED
    BY <1>8, <1>9, <2>1, <2>2, AskingKept DEF WithSession, Initialized, data
<1>10. CASE IsWarmed \/ QueryAnswered
  <2>1. PICK p \in {"lock", "idle"} : Goto("worker", p)
    BY <1>10 DEF IsWarmed, QueryAnswered, Leave
  <2>2. p \in Places /\ p # "asked" /\ "worker" \in Talkers
    BY DEF Places, Talkers
  <2>. QED
    BY <1>8, <1>10, <2>1, <2>2, AskingKept DEF IsWarmed, QueryAnswered, data
<1>11. ASSUME NEW t \in Talkers, Talks(t)
       PROVE  Asking'
  BY <1>9, <1>11, AskingDrain DEF Talks
<1>12. CASE Answer \/ Exit
  BY <1>12, AskingKept DEF Answer, Exit, data
<1>13. CASE UNCHANGED vars
  BY <1>13, AskingKept DEF vars
<1>. QED
  BY <1>2, <1>3, <1>4, <1>5, <1>6, <1>7, <1>10, <1>11, <1>12, <1>13
     DEF Next, MuxStep, HubStep, WarmStep, WorkerStep, Talkers

(***************************************************************************)
(* A query is asked of an engine that has the last text forwarded of every *)
(* open file before its inbox was drained, whichever threads forwarded and *)
(* drained in whichever order.                                             *)
(***************************************************************************)
THEOREM AlwaysAskedAboutLast == Spec => []AskedAboutLast
<1>1. Asking => AskedAboutLast
  BY DEF Asking
<1>. QED
  BY <1>1, InitInv, NextInv, AskingStarts, AskingInductive, PTL DEF Spec, SpecOfServer

-----------------------------------------------------------------------------
(* The locks.  Where a thread is that holds one; and the lock it is after. *)
Holders ==
  /\ lock["index"] # Nobody => lock["index"] = "hub" /\ thread["hub"].pc = "forward"
  /\ lock["sup"] # Nobody => lock["sup"] = "mux" /\ thread["mux"].pc = "schedule"
  /\ lock["proxy"] # Nobody =>
       \E t \in Threads : lock["proxy"] = t
                          /\ thread[t].pc \in {"initialize", "asked", "drain"}

Wants(t) ==
  IF thread[t].pc \in {"open", "forward"} THEN "sup"
  ELSE IF thread[t].pc \in {"schedule", "lock", "warmed"} THEN "proxy"
  ELSE "nothing"

Order == [k \in Locks |-> IF k = "index" THEN 1 ELSE IF k = "sup" THEN 2 ELSE 3]

(* Who holds a mutex talks to the engine or is after a later mutex.        *)
LocksInOrder ==
  \A t \in Threads, k \in Locks :
    lock[k] = t => \/ Talking(t)
                   \/ Wants(t) \in Locks /\ Order[Wants(t)] > Order[k]

(* A step that moves one thread, which holds what it should afterwards.    *)
LEMMA HoldersMove ==
  ASSUME Holders, NEW t \in Threads,
         \A u \in Threads \ {t} : thread'[u].pc = thread[u].pc,
         \A k \in Locks : lock'[k] \in {lock[k], Nobody, t},
         lock'["index"] = t => t = "hub" /\ thread'[t].pc = "forward",
         lock'["sup"] = t => t = "mux" /\ thread'[t].pc = "schedule",
         lock'["proxy"] = t => thread'[t].pc \in {"initialize", "asked", "drain"}
  PROVE  Holders'
<1>1. lock'["index"] # Nobody =>
        lock'["index"] = "hub" /\ thread'["hub"].pc = "forward"
  BY ThreadNames DEF Holders
<1>2. lock'["sup"] # Nobody =>
        lock'["sup"] = "mux" /\ thread'["mux"].pc = "schedule"
  BY ThreadNames DEF Holders
<1>3. lock'["proxy"] # Nobody =>
        \E u \in Threads : lock'["proxy"] = u
                           /\ thread'[u].pc \in {"initialize", "asked", "drain"}
  BY ThreadNames DEF Holders
<1>. QED
  BY <1>1, <1>2, <1>3 DEF Holders

(* The steps of mux and hub: what each holds while it goes from one lock   *)
(* to the next.                                                            *)
LEMMA MuxHubHolders ==
  ASSUME ChildInv, Holders,
         \/ MuxStep \/ HubStep
         \/ \E f \in Files, x \in Texts : DidOpen(f, x) \/ DidChange(f, x)
  PROVE  Holders'
<1>1. /\ thread \in [Threads -> Thread]
      /\ lock \in [Locks -> Threads \union {Nobody}]
      /\ Nobody \notin Threads
  BY ChildAssumption DEF ChildInv, TypeOK, Threads
<1>2. ASSUME NEW f \in Files, NEW x \in Texts, DidOpen(f, x)  PROVE Holders'
  <2>1. /\ thread["mux"].pc = "idle" /\ UNCHANGED lock
        /\ \A u \in Threads \ {"mux"} : thread'[u] = thread[u]
    BY <1>1, <1>2, ThreadNames DEF DidOpen, At
  <2>2. \A k \in Locks : lock[k] # "mux"
    BY <1>1, <2>1, ThreadNames DEF Holders, Locks
  <2>. QED
    BY <2>1, <2>2, HoldersMove, ThreadNames
<1>3. ASSUME NEW f \in Files, NEW x \in Texts, DidChange(f, x)  PROVE Holders'
  BY <1>3 DEF DidChange, Holders
<1>4. CASE ForwardDidOpen
  <2>1. /\ thread["mux"].pc = "open" /\ thread'["mux"].pc = "schedule"
        /\ \A u \in Threads \ {"mux"} : thread'[u] = thread[u]
        /\ lock' = [lock EXCEPT !["sup"] = "mux"]
    BY <1>1, <1>4, ThreadNames DEF ForwardDidOpen, At, Goto, Acquire, Thread
  <2>2. \A k \in Locks : lock[k] # "mux"
    BY <1>1, <2>1, ThreadNames DEF Holders, Locks
  <2>3. lock'["sup"] = "mux" /\ \A k \in Locks \ {"sup"} : lock'[k] = lock[k]
    BY <1>1, <2>1, ThreadNames
  <2>. QED
    BY <2>1, <2>2, <2>3, HoldersMove, ThreadNames
<1>5. CASE ScheduleWarm
  <2>1. /\ \A u \in {"hub", "worker"} : thread'[u] = thread[u]
        /\ lock["proxy"] = Nobody /\ lock' = [lock EXCEPT !["sup"] = Nobody]
    BY <1>1, <1>5, ThreadNames DEF ScheduleWarm, Free, Release, Threads
  <2>2. lock'["sup"] = Nobody /\ \A k \in Locks \ {"sup"} : lock'[k] = lock[k]
    BY <1>1, <2>1, ThreadNames
  <2>. QED
    BY <2>1, <2>2, ThreadNames DEF Holders
<1>6. ASSUME NEW f \in Files, HubReads(f)  PROVE Holders'
  <2>1. /\ thread["hub"].pc = "idle" /\ thread'["hub"].pc = "forward"
        /\ \A u \in Threads \ {"hub"} : thread'[u] = thread[u]
        /\ lock' = [lock EXCEPT !["index"] = "hub"]
    BY <1>1, <1>6, ThreadNames DEF HubReads, At, Acquire, Thread
  <2>2. \A k \in Locks : lock[k] # "hub"
    BY <1>1, <2>1, ThreadNames DEF Holders, Locks
  <2>3. lock'["index"] = "hub" /\ \A k \in Locks \ {"index"} : lock'[k] = lock[k]
    BY <1>1, <2>1, ThreadNames
  <2>. QED
    BY <2>1, <2>2, <2>3, HoldersMove, ThreadNames
<1>7. CASE ForwardDidChange
  <2>1. /\ thread["hub"].pc = "forward"
        /\ \A u \in Threads \ {"hub"} : thread'[u] = thread[u]
        /\ lock' = [lock EXCEPT !["index"] = Nobody]
    BY <1>1, <1>7, ThreadNames DEF ForwardDidChange, At, Goto, Release
  <2>2. \A k \in Locks \ {"index"} : lock[k] # "hub"
    BY <1>1, <2>1, ThreadNames DEF Holders, Locks
  <2>3. lock'["index"] = Nobody /\ \A k \in Locks \ {"index"} : lock'[k] = lock[k]
    BY <1>1, <2>1, ThreadNames
  <2>. QED
    BY <1>1, <2>1, <2>2, <2>3, HoldersMove, ThreadNames
<1>. QED
  BY <1>2, <1>3, <1>4, <1>5, <1>6, <1>7 DEF MuxStep, HubStep

(* The steps of who talks to the engine: the proxy is held exactly while   *)
(* it talks.                                                               *)
LEMMA TalkHolders ==
  ASSUME ChildInv, Holders, NEW t \in {"warm", "worker"}, Talks(t)
  PROVE  Holders'
<1>1. /\ thread \in [Threads -> Thread]
      /\ lock \in [Locks -> Threads \union {Nobody}]
      /\ Nobody \notin Threads /\ t \in Threads
  BY ChildAssumption, ThreadNames DEF ChildInv, TypeOK, Threads
<1>2. lock["index"] # t /\ lock["sup"] # t
  BY <1>1 DEF Holders
<1>3. ASSUME thread'[t].pc \in {"initialize", "drain", "asked"},
             lock' = [lock EXCEPT !["proxy"] = t] \/ lock' = lock,
             \A u \in Threads \ {t} : thread'[u] = thread[u]
      PROVE  Holders'
  <2>1. /\ \A k \in Locks : lock'[k] \in {lock[k], Nobody, t}
        /\ lock'["index"] = lock["index"] /\ lock'["sup"] = lock["sup"]
    BY <1>1, <1>3, ThreadNames
  <2>. QED
    BY <1>1, <1>2, <1>3, <2>1, HoldersMove
<1>4. ASSUME lock' = [lock EXCEPT !["proxy"] = Nobody] \/ (UNCHANGED lock /\ lock["proxy"] # t),
             \A u \in Threads \ {t} : thread'[u] = thread[u]
      PROVE  Holders'
  <2>1. /\ \A k \in Locks : lock'[k] \in {lock[k], Nobody, t}
        /\ lock'["index"] = lock["index"] /\ lock'["sup"] = lock["sup"]
        /\ lock'["proxy"] # t
    BY <1>1, <1>4, ThreadNames
  <2>. QED
    BY <1>1, <1>2, <1>4, <2>1, HoldersMove
<1>5. CASE WithSession(t)
  <2>1. lock["proxy"] # t
    BY <1>1, <1>5 DEF WithSession, Free
  <2>2. \/ /\ lock' = [lock EXCEPT !["proxy"] = t]
           /\ Goto(t, "drain") \/ Goto(t, "initialize")
        \/ UNCHANGED lock /\ Goto(t, "idle")
    BY <1>5 DEF WithSession, Acquire, Hold
  <2>3. \A u \in Threads \ {t} : thread'[u] = thread[u]
    BY <1>1, <2>2 DEF Goto
  <2>4. CASE lock' = [lock EXCEPT !["proxy"] = t]
             /\ (Goto(t, "drain") \/ Goto(t, "initialize"))
    <3>1. thread'[t].pc \in {"initialize", "drain", "asked"}
      BY <1>1, <2>4 DEF Goto, Thread
    <3>. QED
      BY <1>3, <2>3, <2>4, <3>1
  <2>. QED
    BY <1>4, <2>1, <2>2, <2>3, <2>4
<1>6. CASE Initialized(t)
  <2>1. \/ Goto(t, "drain") /\ UNCHANGED lock
        \/ Goto(t, "idle") /\ lock' = [lock EXCEPT !["proxy"] = Nobody]
    BY <1>6 DEF Initialized, Leave, Release
  <2>2. \A u \in Threads \ {t} : thread'[u] = thread[u]
    BY <1>1, <2>1 DEF Goto
  <2>3. Goto(t, "drain") => thread'[t].pc = "drain"
    BY <1>1 DEF Goto, Thread
  <2>. QED
    BY <1>3, <1>4, <2>1, <2>2, <2>3
<1>7. CASE DrainInbox(t)
  <2>1. \/ /\ thread' = [thread EXCEPT ![t].pc = "asked", ![t].seen = told]
           /\ UNCHANGED lock
        \/ Goto(t, "idle") /\ lock' = [lock EXCEPT !["proxy"] = Nobody]
    BY <1>7 DEF DrainInbox, Leave, Release
  <2>2. \A u \in Threads \ {t} : thread'[u] = thread[u]
    BY <1>1, <2>1 DEF Goto
  <2>3. CASE thread' = [thread EXCEPT ![t].pc = "asked", ![t].seen = told]
             /\ UNCHANGED lock
    <3>1. thread'[t].pc = "asked"
      BY <1>1, <2>3 DEF Thread
    <3>. QED
      BY <1>3, <2>2, <2>3, <3>1
  <2>. QED
    BY <1>4, <2>1, <2>2, <2>3
<1>. QED
  BY <1>5, <1>6, <1>7 DEF Talks

(* The worker before and after it talks, and the engine.                   *)
LEMMA WorkerHolders ==
  ASSUME ChildInv, Holders,
         IsWarmed \/ QueryAnswered \/ \E f \in Files : Query(f)
  PROVE  Holders'
<1>1. /\ thread \in [Threads -> Thread]
      /\ lock \in [Locks -> Threads \union {Nobody}]
      /\ Nobody \notin Threads
  BY ChildAssumption DEF ChildInv, TypeOK, Threads
<1>2. CASE IsWarmed \/ \E f \in Files : Query(f)
  <2>1. /\ thread["worker"].pc \in {"idle", "warmed"} /\ UNCHANGED lock
        /\ \A u \in Threads \ {"worker"} : thread'[u] = thread[u]
    BY <1>1, <1>2, ThreadNames DEF IsWarmed, Query, At, Goto
  <2>2. \A k \in Locks : lock[k] # "worker"
    BY <1>1, <2>1, ThreadNames DEF Holders, Locks
  <2>. QED
    BY <2>1, <2>2, HoldersMove, ThreadNames
<1>3. CASE QueryAnswered
  <2>1. /\ \A u \in Threads \ {"worker"} : thread'[u] = thread[u]
        /\ lock' = [lock EXCEPT !["proxy"] = Nobody]
    BY <1>1, <1>3, ThreadNames DEF QueryAnswered, Leave, Goto, Release
  <2>2. lock'["proxy"] = Nobody /\ \A k \in Locks \ {"proxy"} : lock'[k] = lock[k]
    BY <1>1, <2>1, ThreadNames
  <2>3. \A k \in Locks : lock'[k] # "worker"
    BY <1>1, <2>2, ThreadNames DEF Holders, Locks
  <2>. QED
    BY <2>1, <2>2, <2>3, HoldersMove, ThreadNames
<1>. QED
  BY <1>2, <1>3

(* Every step keeps the holders where they should be.                      *)
LEMMA NextHolders == ChildInv /\ Holders /\ [Next]_vars => Holders'
<1>. SUFFICES ASSUME ChildInv, Holders, [Next]_vars  PROVE Holders'
  OBVIOUS
<1>1. CASE UNCHANGED vars \/ Answer \/ Exit
  BY <1>1 DEF vars, Answer, Exit, Holders
<1>2. CASE WarmStep \/ WorkerStep
  BY <1>2, TalkHolders, WorkerHolders DEF WarmStep, WorkerStep
<1>. QED
  BY <1>1, <1>2, MuxHubHolders, WorkerHolders DEF Next

(***************************************************************************)
(* The three mutexes are taken in one order, index, supervisor, proxy: a   *)
(* thread that holds one of them is talking to the engine or is after a    *)
(* later one, never at rest and never after an earlier one.  No circle of  *)
(* threads can thus wait for each other's mutexes, and who waits for one   *)
(* waits, in the end, for a thread that talks to the engine                *)
(* (apply_hub_batch of session.rs, forward_did_open of supervisor.rs,      *)
(* with_session of lsp_child.rs).                                          *)
(***************************************************************************)
THEOREM LocksAlwaysInOrder == Spec => []LocksInOrder
<1>1. Init => Holders
  <2>. SUFFICES ASSUME Init  PROVE Holders
    OBVIOUS
  <2>1. \A k \in Locks : lock[k] = Nobody
    BY DEF Init
  <2>. QED
    BY <2>1, ThreadNames DEF Holders
<1>2. ChildInv /\ Holders => LocksInOrder
  <2>. SUFFICES ASSUME ChildInv, Holders, NEW t \in Threads, NEW k \in Locks, lock[k] = t
                PROVE  \/ Talking(t)
                       \/ Wants(t) \in Locks /\ Order[Wants(t)] > Order[k]
    BY DEF LocksInOrder
  <2>1. t # Nobody
    BY ChildAssumption DEF Threads
  <2>2. CASE k = "index"
    <3>1. Wants(t) = "sup"
      BY <2>1, <2>2 DEF Holders, Wants
    <3>2. Order["sup"] = 2 /\ Order["index"] = 1
      BY ThreadNames DEF Order
    <3>. QED
      BY <2>2, <3>1, <3>2, ThreadNames
  <2>3. CASE k = "sup"
    <3>1. Wants(t) = "proxy"
      BY <2>1, <2>3 DEF Holders, Wants
    <3>2. Order["sup"] = 2 /\ Order["proxy"] = 3
      BY ThreadNames DEF Order
    <3>. QED
      BY <2>3, <3>1, <3>2, ThreadNames
  <2>4. CASE k = "proxy"
    BY <2>1, <2>4 DEF Holders, Talking, Waits, At, ChildInv, OneConversation
  <2>. QED
    BY <2>2, <2>3, <2>4 DEF Locks
<1>. QED
  BY <1>1, <1>2, InitInv, NextInv, NextHolders, PTL DEF Spec, SpecOfServer

-----------------------------------------------------------------------------
(* The warm thread.  Once it was started there is a session, there will    *)
(* never be one, or the thread is on its way to it.                        *)
WarmUnderWay ==
  proxy.warm_started =>
    \/ proxy.session \/ Refused \/ ~ alive
    \/ thread["warm"].pc \in {"lock", "initialize"}

(* A step that begins and ends no handshake and leaves the proxy alone.    *)
LEMMA WarmKept ==
  ASSUME WarmUnderWay, UNCHANGED << proxy, alive >>,
         \A t \in Threads : thread'[t].pc = "initialize" <=> thread[t].pc = "initialize",
         thread["warm"].pc = "lock" => thread'["warm"].pc = "lock"
  PROVE  WarmUnderWay'
BY ThreadNames DEF WarmUnderWay, Refused, At

(* Mux, hub and worker begin no handshake, except that mux starts the warm *)
(* thread; nor does a drain.                                               *)
LEMMA OthersWarm ==
  ASSUME ChildInv, WarmUnderWay,
         \/ MuxStep \/ HubStep \/ IsWarmed \/ QueryAnswered
         \/ \E f \in Files, x \in Texts : DidOpen(f, x) \/ DidChange(f, x)
         \/ \E f \in Files : Query(f)
         \/ \E t \in Talkers : DrainInbox(t)
  PROVE  WarmUnderWay'
<1>1. /\ thread \in [Threads -> Thread]
      /\ proxy \in [pipes : BOOLEAN, session : BOOLEAN, warm_started : BOOLEAN]
  BY DEF ChildInv, TypeOK
<1>2. ASSUME NEW t \in Threads, thread[t].pc \notin {"lock", "initialize"},
             thread'[t].pc # "initialize",
             \A u \in Threads \ {t} : thread'[u] = thread[u],
             UNCHANGED << proxy, alive >>
      PROVE  WarmUnderWay'
  BY <1>2, WarmKept, ThreadNames
<1>3. CASE ScheduleWarm
  <2>1. /\ proxy' = [proxy EXCEPT !.warm_started = @ \/ Warms] /\ UNCHANGED alive
        /\ thread' = [thread EXCEPT !["mux"].pc = "idle",
                       !["warm"].pc = IF Warms THEN "lock" ELSE @]
        /\ thread["mux"].pc = "schedule"
    BY <1>3 DEF ScheduleWarm, At, data
  <2>2. CASE Warms
    <3>1. thread'["warm"].pc = "lock"
      BY <1>1, <2>1, <2>2, ThreadNames DEF Thread
    <3>. QED
      BY <3>1 DEF WarmUnderWay
  <2>3. CASE ~ Warms
    <3>1. /\ proxy' = proxy /\ thread'["mux"].pc = "idle"
          /\ \A u \in Threads \ {"mux"} : thread'[u].pc = thread[u].pc
      BY <1>1, <2>1, <2>3, ThreadNames DEF Thread
    <3>. QED
      BY <2>1, <3>1, WarmKept, ThreadNames
  <2>. QED
    BY <2>2, <2>3
<1>4. ASSUME NEW f \in Files, NEW x \in Texts, DidOpen(f, x)  PROVE WarmUnderWay'
  BY <1>1, <1>2, <1>4, ThreadNames DEF DidOpen, At, Thread
<1>5. ASSUME NEW f \in Files, NEW x \in Texts, DidChange(f, x)  PROVE WarmUnderWay'
  BY <1>5, WarmKept DEF DidChange
<1>6. CASE ForwardDidOpen
  BY <1>1, <1>2, <1>6, ThreadNames DEF ForwardDidOpen, At, Goto, Thread
<1>7. ASSUME NEW f \in Files, HubReads(f)  PROVE WarmUnderWay'
  BY <1>1, <1>2, <1>7, ThreadNames DEF HubReads, At, Thread
<1>8. CASE ForwardDidChange
  BY <1>1, <1>2, <1>8, ThreadNames DEF ForwardDidChange, At, Goto, Thread
<1>9. ASSUME NEW f \in Files, Query(f)  PROVE WarmUnderWay'
  BY <1>1, <1>2, <1>9, ThreadNames DEF Query, At, Thread, data
<1>10. CASE IsWarmed
  BY <1>1, <1>2, <1>10, ThreadNames DEF IsWarmed, At, Goto, Thread, data
<1>11. CASE QueryAnswered
  BY <1>1, <1>2, <1>11, ThreadNames DEF QueryAnswered, At, Goto, Leave, Thread, data
<1>12. ASSUME NEW t \in Talkers, DrainInbox(t)  PROVE WarmUnderWay'
  <2>1. /\ thread[t].pc = "drain" /\ UNCHANGED << proxy, alive >> /\ t \in Threads
        /\ \/ thread' = [thread EXCEPT ![t].pc = "asked", ![t].seen = told]
           \/ thread' = [thread EXCEPT ![t].pc = "idle"]
    BY <1>12 DEF DrainInbox, At, Leave, Goto, Talkers, Threads
  <2>2. /\ thread'[t].pc # "initialize"
        /\ \A u \in Threads \ {t} : thread'[u] = thread[u]
    BY <1>1, <2>1 DEF Thread
  <2>. QED
    BY <1>2, <2>1, <2>2
<1>. QED
  BY <1>3, <1>4, <1>5, <1>6, <1>7, <1>8, <1>9, <1>10, <1>11, <1>12 DEF MuxStep, HubStep

(* with_session: the warm thread goes on to a session or finds it refused; *)
(* once refused nobody begins another handshake.                           *)
LEMMA SessionWarm ==
  ASSUME ChildInv, WarmUnderWay, NEW t \in Talkers, WithSession(t)
  PROVE  WarmUnderWay'
<1>1. /\ thread \in [Threads -> Thread] /\ OneConversation
      /\ proxy \in [pipes : BOOLEAN, session : BOOLEAN, warm_started : BOOLEAN]
      /\ t \in Threads /\ t \in {"warm", "worker"}
      /\ UNCHANGED alive
  BY DEF ChildInv, TypeOK, Talkers, Threads, WithSession
<1>2. CASE proxy.session
  <2>1. proxy' = proxy
    BY <1>2 DEF WithSession
  <2>. QED
    BY <1>2, <2>1 DEF WarmUnderWay
<1>3. CASE ~ proxy.session /\ ~ proxy.pipes
  <2>1. /\ proxy' = proxy /\ Goto(t, "idle") /\ lock["proxy"] = Nobody
    BY <1>3 DEF WithSession, Free
  <2>2. \A u \in Threads : thread[u].pc # "initialize"
    BY <1>1, <2>1, ChildAssumption DEF OneConversation, Talking, Waits, Threads
  <2>3. \A u \in Threads : thread'[u].pc # "initialize"
    BY <1>1, <2>1, <2>2 DEF Goto, Thread
  <2>4. Refused'
    BY <1>3, <2>1, <2>3 DEF Refused, At
  <2>. QED
    BY <2>4 DEF WarmUnderWay
<1>4. CASE ~ proxy.session /\ proxy.pipes
  <2>1. /\ proxy' = [proxy EXCEPT !.pipes = FALSE] /\ Goto(t, "initialize")
    BY <1>4 DEF WithSession
  <2>2. ~ Refused
    BY <1>4 DEF Refused
  <2>3. /\ proxy'.warm_started = proxy.warm_started
        /\ thread'[t].pc = "initialize"
        /\ \A u \in Threads \ {t} : thread'[u] = thread[u]
    BY <1>1, <2>1 DEF Goto, Thread
  <2>. QED
    BY <1>1, <1>4, <2>2, <2>3, ThreadNames DEF WarmUnderWay
<1>. QED
  BY <1>2, <1>3, <1>4

(* The handshake ends: there is a session, or none is tried again.         *)
LEMMA InitializedWarm ==
  ASSUME ChildInv, WarmUnderWay, NEW t \in Talkers, Initialized(t)
  PROVE  WarmUnderWay'
<1>1. /\ thread \in [Threads -> Thread] /\ OneConversation /\ Conversing
      /\ proxy \in [pipes : BOOLEAN, session : BOOLEAN, warm_started : BOOLEAN]
      /\ t \in Threads /\ thread[t].pc = "initialize"
  BY DEF ChildInv, TypeOK, Talkers, Threads, Initialized, At
<1>2. CASE wire = "ok"
  <2>1. proxy' = [proxy EXCEPT !.session = TRUE]
    BY <1>2 DEF Initialized
  <2>2. proxy'.session
    BY <1>1, <2>1
  <2>. QED
    BY <2>2 DEF WarmUnderWay
<1>3. CASE wire # "ok"
  <2>1. UNCHANGED << proxy, alive >> /\ Goto(t, "idle")
    BY <1>3 DEF Initialized, Leave
  <2>2. ~ proxy.pipes
    BY <1>1 DEF Conversing, At
  <2>3. lock["proxy"] = t
    BY <1>1 DEF OneConversation, Talking, Waits
  <2>4. \A u \in Threads \ {t} : thread[u].pc # "initialize"
    BY <1>1, <2>3 DEF OneConversation, Talking, Waits
  <2>5. \A u \in Threads : thread'[u].pc # "initialize"
    BY <1>1, <2>1, <2>4 DEF Goto, Thread
  <2>. QED
    BY <2>1, <2>2, <2>5 DEF WarmUnderWay, Refused, At
<1>. QED
  BY <1>2, <1>3

(***************************************************************************)
(* A warm thread is never started in vain and then forgotten: once         *)
(* schedule_warm has set its flag, which keeps every later didOpen from    *)
(* starting another one, there is a session, the thread is on its way to   *)
(* it, or the engine is gone or has refused to initialize                  *)
(* (schedule_warm and with_session of lsp_child.rs).                       *)
(***************************************************************************)
THEOREM WarmAlwaysUnderWay == Spec => []WarmUnderWay
<1>1. Init => WarmUnderWay
  BY DEF Init, WarmUnderWay
<1>2. ChildInv /\ WarmUnderWay /\ [Next]_vars => WarmUnderWay'
  <2>. SUFFICES ASSUME ChildInv, WarmUnderWay, [Next]_vars  PROVE WarmUnderWay'
    OBVIOUS
  <2>1. CASE UNCHANGED vars
    BY <2>1, WarmKept DEF vars
  <2>2. CASE Answer
    BY <2>2, WarmKept DEF Answer
  <2>3. CASE Exit
    BY <2>3 DEF Exit, WarmUnderWay
  <2>4. ASSUME NEW t \in Talkers, Talks(t)  PROVE WarmUnderWay'
    BY <2>4, SessionWarm, InitializedWarm, OthersWarm DEF Talks
  <2>5. CASE WarmStep \/ WorkerStep
    BY <2>4, <2>5, OthersWarm DEF WarmStep, WorkerStep, Talkers
  <2>. QED
    BY <2>1, <2>2, <2>3, <2>5, OthersWarm DEF Next
<1>. QED
  BY <1>1, <1>2, InitInv, NextInv, PTL DEF Spec, SpecOfServer
=============================================================================
