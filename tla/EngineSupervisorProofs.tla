----------------------- MODULE EngineSupervisorProofs -----------------------
(***************************************************************************)
(* What TLAPS proves of EngineSupervisor, for every set of packs, threads  *)
(* and languages and every delay policy: readiness and capabilities follow *)
(* the supervised children through every interleaving of polls, spawns and *)
(* aborts; a crash is always retried, after a delay that doubles up to its *)
(* cap.                                                                    *)
(*                                                                         *)
(* The first two are inductive once it is known that a thread only ever    *)
(* acts on registered packs and that only supervised processes run         *)
(* (SupervisorInv); RetryInv adds clock, counters and backoff.             *)
(***************************************************************************)
EXTENDS EngineSupervisor, TLAPS

ThreadsOK ==
  /\ threads \in [Threads -> Thread]
  /\ \A t \in Threads : AtPack(threads[t]) => threads[t].pack \in Packs

ChildrenOK ==
  /\ children \in SUBSET Packs
  /\ alive \in SUBSET children

SupervisorInv ==
  /\ ThreadsOK
  /\ ChildrenOK
  /\ ReadyMeansChild
  /\ CapabilitiesOfChildren

ServesChildren == ChildrenOK /\ ReadyMeansChild /\ CapabilitiesOfChildren

-----------------------------------------------------------------------------
(* Idle is a place of its own, with no pack.                               *)
LEMMA IdleThread == Idle \in Thread /\ ~AtPack(Idle)
  BY DEF Idle, Thread, Places, NoPack, AtPack

(* A thread that moves to a well-formed place leaves every thread so.      *)
LEMMA GotoKeepsThreads ==
  ASSUME ThreadsOK, NEW t \in Threads, NEW thread \in Thread,
         AtPack(thread) => thread.pack \in Packs,
         Goto(t, thread)
  PROVE  ThreadsOK'
<1>1. threads' \in [Threads -> Thread]
  BY DEF ThreadsOK, Goto
<1>2. ASSUME NEW u \in Threads, AtPack(threads'[u])
      PROVE  threads'[u].pack \in Packs
  <2>1. CASE u = t
    <3>1. threads'[u] = thread  BY <2>1 DEF ThreadsOK, Goto
    <3>2. QED  BY <3>1, <1>2
  <2>2. CASE u # t
    <3>1. threads'[u] = threads[u]  BY <2>2 DEF ThreadsOK, Goto
    <3>2. QED  BY <3>1, <1>2 DEF ThreadsOK
  <2>3. QED  BY <2>1, <2>2
<1>3. QED  BY <1>1, <1>2 DEF ThreadsOK, AtPack

(* Going on to the next job, of registered packs, is well formed.          *)
LEMMA ContinueKeepsThreads ==
  ASSUME ThreadsOK, NEW t \in Threads, NEW jobs \in SUBSET Packs,
         Continue(t, jobs)
  PROVE  ThreadsOK'
<1>1. CASE Goto(t, Idle)
  BY <1>1, IdleThread, GotoKeepsThreads
<1>2. ASSUME NEW p \in jobs,
             Goto(t, [at |-> "polling", then |-> "checking", dead |-> {},
                      jobs |-> jobs \ {p}, pack |-> p])
      PROVE  ThreadsOK'
  <2> DEFINE next == [at |-> "polling", then |-> "checking", dead |-> {},
                      jobs |-> jobs \ {p}, pack |-> p]
  <2>1. next \in Thread /\ next.pack \in Packs
    BY DEF Thread, Places
  <2>2. Goto(t, next)  BY <1>2
  <2> HIDE DEF next
  <2>3. QED  BY <2>1, <2>2, GotoKeepsThreads
<1>3. QED  BY <1>1, <1>2 DEF Continue

(* What a thread carries, one field at a time.                             *)
LEMMA ThreadFields ==
  ASSUME ThreadsOK, NEW t \in Threads
  PROVE  /\ threads[t] \in Thread
         /\ threads[t].at \in Places
         /\ threads[t].then \in {"idle", "due", "checking"}
         /\ threads[t].dead \in SUBSET Packs
         /\ threads[t].jobs \in SUBSET Packs
         /\ threads[t].pack \in Packs \union {NoPack}
  BY DEF ThreadsOK, Thread

-----------------------------------------------------------------------------
(* note_crash_err() withdraws a pack's own language and no other pack's.   *)
LEMMA NoteCrashServes ==
  ASSUME ServesChildren, NEW p \in Packs, NoteCrash(p)
  PROVE  ServesChildren'
<1> USE DEF ServesChildren
<1>1. ChildrenOK'
  BY DEF NoteCrash, ChildrenOK
<1>2. ReadyMeansChild'
  <2>1. ASSUME NEW q \in Packs
        PROVE  /\ LanguageOf[q] \in ready' <=> q \in children'
               /\ q \in children' => ExtraLanguages[q] \subseteq ready'
    BY PacksAssumption, LanguagesAssumption DEF NoteCrash, ReadyMeansChild
  <2>2. QED  BY <2>1 DEF ReadyMeansChild
<1>3. CapabilitiesOfChildren'
  BY DEF NoteCrash, CapabilitiesOfChildren, ChildrenOK
<1>4. QED  BY <1>1, <1>2, <1>3

(* mark_ready() adds a child with its languages and capabilities.          *)
LEMMA MarkReadyServes ==
  ASSUME ThreadsOK, ServesChildren, NEW t \in Threads, MarkReady(t)
  PROVE  ServesChildren'
<1> DEFINE p == threads[t].pack
<1>1. p \in Packs
  BY DEF ThreadsOK, MarkReady, AtPack
<1>2. /\ children' = children \union {p}
      /\ alive' = alive \union {p}
      /\ ready' = ready \union {LanguageOf[p]} \union ExtraLanguages[p]
      /\ capabilities' = capabilities \union CapabilitiesOf[p]
  BY DEF MarkReady
<1> HIDE DEF p
<1> USE DEF ServesChildren
<1>3. ChildrenOK'
  BY <1>1, <1>2 DEF ChildrenOK
<1>4. ReadyMeansChild'
  <2>1. ASSUME NEW q \in Packs
        PROVE  /\ LanguageOf[q] \in ready' <=> q \in children'
               /\ q \in children' => ExtraLanguages[q] \subseteq ready'
    BY <1>1, <1>2, LanguagesAssumption DEF ReadyMeansChild
  <2>2. QED  BY <2>1 DEF ReadyMeansChild
<1>5. CapabilitiesOfChildren'
  BY <1>1, <1>2 DEF CapabilitiesOfChildren
<1>6. QED  BY <1>3, <1>4, <1>5

(* A process that ends changes neither readiness nor capabilities.         *)
LEMMA FewerAliveServes ==
  ASSUME ServesChildren, NEW p, alive' = alive \ {p},
         UNCHANGED << children, ready, capabilities >>
  PROVE  ServesChildren'
  BY DEF ServesChildren, ChildrenOK, ReadyMeansChild, CapabilitiesOfChildren

(* Steps that only move a thread.                                          *)
LEMMA SameServes ==
  ASSUME ServesChildren,
         UNCHANGED << children, alive, ready, capabilities >>
  PROVE  ServesChildren'
  BY DEF ServesChildren, ChildrenOK, ReadyMeansChild, CapabilitiesOfChildren

-----------------------------------------------------------------------------
(* The invariant is preserved, one case per action.                        *)
LEMMA SupervisorInvInductive ==
  SupervisorInv /\ [Next]_vars => SupervisorInv'
<1> SUFFICES ASSUME ThreadsOK, ServesChildren, [Next]_vars
             PROVE  ThreadsOK' /\ ServesChildren'
  BY DEF SupervisorInv, ServesChildren
<1>1. ASSUME NEW t \in Threads, PollHealth(t)
      PROVE  ThreadsOK' /\ ServesChildren'
  <2> DEFINE dead == children \ alive
             next == [threads[t] EXCEPT
                        !.at = IF dead = {} THEN threads[t].then ELSE "noting",
                        !.dead = dead]
  <2>1. Goto(t, next)  BY <1>1 DEF PollHealth
  <2>2. dead \in SUBSET Packs  BY DEF ServesChildren, ChildrenOK
  <2>3. next \in Thread /\ (AtPack(next) => next.pack \in Packs)
    <3> HIDE DEF dead
    <3>1. AtPack(next) => AtPack(threads[t])
      BY ThreadFields DEF AtPack, Thread
    <3>2. QED  BY <2>2, <3>1, ThreadFields DEF ThreadsOK, Thread, Places
  <2> HIDE DEF next
  <2>4. ThreadsOK'  BY <2>1, <2>3, GotoKeepsThreads
  <2>5. ServesChildren'  BY <1>1, SameServes DEF PollHealth, state
  <2>6. QED  BY <2>4, <2>5
<1>2. ASSUME NEW t \in Threads, NoteDead(t)
      PROVE  ThreadsOK' /\ ServesChildren'
  <2>1. PICK p \in threads[t].dead :
          LET rest == threads[t].dead \ {p}
          IN  /\ NoteCrash(p)
              /\ Goto(t, [threads[t] EXCEPT
                           !.at = IF rest = {} THEN threads[t].then ELSE "noting",
                           !.dead = rest])
    BY <1>2 DEF NoteDead
  <2>2. p \in Packs  BY ThreadFields
  <2> DEFINE rest == threads[t].dead \ {p}
             next == [threads[t] EXCEPT
                        !.at = IF rest = {} THEN threads[t].then ELSE "noting",
                        !.dead = rest]
  <2>3. Goto(t, next)  BY <2>1
  <2>4. rest \in SUBSET Packs  BY ThreadFields
  <2>5. next \in Thread /\ (AtPack(next) => next.pack \in Packs)
    <3> HIDE DEF rest
    <3>1. AtPack(next) => AtPack(threads[t])
      BY ThreadFields DEF AtPack, Thread
    <3>2. QED  BY <2>4, <3>1, ThreadFields DEF ThreadsOK, Thread, Places
  <2> HIDE DEF next
  <2>6. ThreadsOK'  BY <2>3, <2>5, GotoKeepsThreads
  <2>7. ServesChildren'  BY <2>1, <2>2, NoteCrashServes
  <2>8. QED  BY <2>6, <2>7
<1>3. ASSUME NEW t \in Threads, CheckBackoff(t)
      PROVE  ThreadsOK' /\ ServesChildren'
  <2> DEFINE next == [threads[t] EXCEPT !.at = "spawning"]
  <2>1. AtPack(threads[t])  BY <1>3 DEF CheckBackoff, AtPack
  <2>2. next \in Thread /\ next.pack \in Packs
    BY <2>1, ThreadFields DEF ThreadsOK, Thread, Places
  <2>3. Goto(t, next) \/ Continue(t, threads[t].jobs)
    BY <1>3 DEF CheckBackoff
  <2> HIDE DEF next
  <2>4. ThreadsOK'
    BY <2>2, <2>3, ThreadFields, GotoKeepsThreads, ContinueKeepsThreads
  <2>5. ServesChildren'  BY <1>3, SameServes DEF CheckBackoff, state
  <2>6. QED  BY <2>4, <2>5
<1>4. ASSUME NEW t \in Threads, SpawnRefused(t)
      PROVE  ThreadsOK' /\ ServesChildren'
  <2>1. ThreadsOK'
    BY <1>4, ThreadFields, ContinueKeepsThreads DEF SpawnRefused
  <2>2. ServesChildren'  BY <1>4, SameServes DEF SpawnRefused
  <2>3. QED  BY <2>1, <2>2
<1>5. ASSUME NEW t \in Threads, SpawnFailed(t)
      PROVE  ThreadsOK' /\ ServesChildren'
  <2>1. threads[t].pack \in Packs
    BY <1>5 DEF SpawnFailed, ThreadsOK, AtPack
  <2>2. NoteCrash(threads[t].pack) /\ Continue(t, threads[t].jobs)
    BY <1>5 DEF SpawnFailed
  <2>3. ThreadsOK'  BY <2>2, ThreadFields, ContinueKeepsThreads
  <2>4. ServesChildren'  BY <2>1, <2>2, NoteCrashServes
  <2>5. QED  BY <2>3, <2>4
<1>6. ASSUME NEW t \in Threads, MarkReady(t)
      PROVE  ThreadsOK' /\ ServesChildren'
  <2>1. Continue(t, threads[t].jobs)  BY <1>6 DEF MarkReady
  <2>2. ThreadsOK'  BY <2>1, ThreadFields, ContinueKeepsThreads
  <2>3. QED  BY <1>6, <2>2, MarkReadyServes
<1>7. ASSUME NEW t \in Threads, Due(t)
      PROVE  ThreadsOK' /\ ServesChildren'
  <2> DEFINE due == {p \in Packs \ children :
                       backoff_until[p] # NoBackoff /\ ~InBackoff(p)}
  <2>1. due \in SUBSET Packs /\ Continue(t, due)  BY <1>7 DEF Due
  <2> HIDE DEF due
  <2>2. ThreadsOK'  BY <2>1, ContinueKeepsThreads
  <2>3. ServesChildren'  BY <1>7, SameServes DEF Due, state
  <2>4. QED  BY <2>2, <2>3
<1>8. ASSUME NEW t \in Threads, Terminate(t)
      PROVE  ThreadsOK' /\ ServesChildren'
  <2>1. PICK p \in threads[t].dead :
          /\ alive' = alive \ {p}
          /\ Goto(t, [threads[t] EXCEPT !.at = "aborting", !.pack = p,
                                        !.dead = @ \ {p}])
    BY <1>8 DEF Terminate
  <2> DEFINE next == [threads[t] EXCEPT !.at = "aborting", !.pack = p,
                                        !.dead = @ \ {p}]
  <2>2. next \in Thread /\ next.pack \in Packs
    BY ThreadFields DEF Thread, Places
  <2>3. Goto(t, next)  BY <2>1
  <2> HIDE DEF next
  <2>4. ThreadsOK'  BY <2>2, <2>3, GotoKeepsThreads
  <2>5. UNCHANGED << children, ready, capabilities >>
    BY <1>8 DEF Terminate, state
  <2>6. ServesChildren'  BY <2>1, <2>5, FewerAliveServes
  <2>7. QED  BY <2>4, <2>6
<1>9. ASSUME NEW t \in Threads, NoteAborted(t)
      PROVE  ThreadsOK' /\ ServesChildren'
  <2> DEFINE next == IF threads[t].dead = {} THEN Idle
                     ELSE [threads[t] EXCEPT !.at = "terminating"]
  <2>1. AtPack(threads[t])  BY <1>9 DEF NoteAborted, AtPack
  <2>2. threads[t].pack \in Packs  BY <2>1 DEF ThreadsOK
  <2>3. next \in Thread /\ (AtPack(next) => next.pack \in Packs)
    BY <2>2, ThreadFields, IdleThread DEF Thread, Places
  <2>4. NoteCrash(threads[t].pack) /\ Goto(t, next)
    BY <1>9 DEF NoteAborted
  <2> HIDE DEF next
  <2>5. ThreadsOK'  BY <2>3, <2>4, GotoKeepsThreads
  <2>6. ServesChildren'  BY <2>2, <2>4, NoteCrashServes
  <2>7. QED  BY <2>5, <2>6
<1>10. ASSUME NEW t \in Threads, Call(t)
       PROVE  ThreadsOK' /\ ServesChildren'
  <2>1. ServesChildren'
    BY <1>10, SameServes
    DEF Call, Look, TrySpawnRegistered, Tick, AbortLanguage, state
  <2>2. CASE Look(t)
    <3> DEFINE next == [Idle EXCEPT !.at = "polling"]
    <3>1. next \in Thread /\ ~AtPack(next)
      BY DEF Idle, Thread, Places, AtPack
    <3>2. Goto(t, next)  BY <2>2 DEF Look
    <3> HIDE DEF next
    <3>3. QED  BY <2>1, <3>1, <3>2, GotoKeepsThreads
  <2>3. CASE TrySpawnRegistered(t)
    <3>1. Continue(t, Packs)  BY <2>3 DEF TrySpawnRegistered
    <3>2. QED  BY <2>1, <3>1, ContinueKeepsThreads
  <2>4. CASE Tick(t)
    <3> DEFINE next == [Idle EXCEPT !.at = "polling", !.then = "due"]
    <3>1. next \in Thread /\ ~AtPack(next)
      BY DEF Idle, Thread, Places, AtPack
    <3>2. Goto(t, next)  BY <2>4 DEF Tick
    <3> HIDE DEF next
    <3>3. QED  BY <2>1, <3>1, <3>2, GotoKeepsThreads
  <2>5. ASSUME NEW l \in Languages, AbortLanguage(t, l)
        PROVE  ThreadsOK' /\ ServesChildren'
    <3> DEFINE stuck == {p \in children : Serves(p, l)}
               next  == [Idle EXCEPT !.at = "terminating", !.dead = stuck]
    <3>1. stuck \in SUBSET Packs  BY DEF ServesChildren, ChildrenOK
    <3>2. Goto(t, next)  BY <2>5 DEF AbortLanguage
    <3>3. next \in Thread /\ ~AtPack(next)
      <4> HIDE DEF stuck
      <4>1. QED  BY <3>1 DEF Idle, Thread, Places, AtPack
    <3> HIDE DEF next
    <3>4. QED  BY <2>1, <3>2, <3>3, GotoKeepsThreads
  <2>6. QED  BY <1>10, <2>2, <2>3, <2>4, <2>5 DEF Call
<1>11. ASSUME NEW p \in Packs, Exit(p)
       PROVE  ThreadsOK' /\ ServesChildren'
  <2>1. ServesChildren'  BY <1>11, FewerAliveServes DEF Exit, state
  <2>2. ThreadsOK'  BY <1>11 DEF Exit, ThreadsOK, AtPack
  <2>3. QED  BY <2>1, <2>2
<1>12. CASE Advance
  <2>1. ServesChildren'  BY <1>12, SameServes DEF Advance, state
  <2>2. ThreadsOK'  BY <1>12 DEF Advance, ThreadsOK, AtPack
  <2>3. QED  BY <2>1, <2>2
<1>13. CASE UNCHANGED vars
  <2>1. ServesChildren'  BY <1>13, SameServes DEF vars, state
  <2>2. ThreadsOK'  BY <1>13 DEF vars, ThreadsOK, AtPack
  <2>3. QED  BY <2>1, <2>2
<1>14. QED
  BY <1>1, <1>2, <1>3, <1>4, <1>5, <1>6, <1>7, <1>8, <1>9, <1>10, <1>11,
     <1>12, <1>13
  DEF Next, Step

(* Initially nothing is supervised and every thread is idle.               *)
LEMMA SupervisorInvInit == Init => SupervisorInv
<1> SUFFICES ASSUME Init PROVE SupervisorInv
  OBVIOUS
<1>1. threads \in [Threads -> Thread]
  BY IdleThread DEF Init
<1>2. \A t \in Threads : ~AtPack(threads[t])
  BY IdleThread DEF Init
<1>3. ChildrenOK /\ ReadyMeansChild /\ CapabilitiesOfChildren
  BY DEF Init, ChildrenOK, ReadyMeansChild, CapabilitiesOfChildren
<1>4. QED  BY <1>1, <1>2, <1>3 DEF SupervisorInv, ThreadsOK

(* The inductive invariant holds in every reachable state.                 *)
THEOREM SupervisorInvariant == Spec => []SupervisorInv
  BY SupervisorInvInit, SupervisorInvInductive, PTL DEF Spec

(***************************************************************************)
(* For every set of packs, threads and languages: the own language of a    *)
(* pack is ready exactly while mark_ready() has put a child in the map and *)
(* no note_crash_err() has taken it out, whatever threads poll, spawn and  *)
(* abort at once.                                                          *)
(***************************************************************************)
THEOREM ReadinessFollowsChildren == Spec => []ReadyMeansChild
<1>1. SupervisorInv => ReadyMeansChild
  BY DEF SupervisorInv
<1>2. QED  BY <1>1, SupervisorInvariant, PTL

(***************************************************************************)
(* For every set of packs and capabilities: what the server advertises is  *)
(* what its children can answer, no less than the running ones and no more *)
(* than the supervised ones (mark_ready() and note_crash_err()).           *)
(***************************************************************************)
THEOREM CapabilitiesFollowChildren == Spec => []CapabilitiesOfChildren
<1>1. SupervisorInv => CapabilitiesOfChildren
  BY DEF SupervisorInv
<1>2. QED  BY <1>1, SupervisorInvariant, PTL
-----------------------------------------------------------------------------
(* delay_ms() for each number of failures.                                 *)
LEMMA DelayIs ==
  /\ DelayMs(0) = 0
  /\ DelayMs(1) = Smaller(InitialMs, MaxMs)
  /\ DelayMs(2) = Smaller(2 * InitialMs, MaxMs)
  /\ DelayMs(3) = Smaller(4 * InitialMs, MaxMs)
  /\ DelayMs(4) = Smaller(8 * InitialMs, MaxMs)
  /\ DelayMs(5) = Smaller(16 * InitialMs, MaxMs)
  /\ DelayMs(6) = Smaller(32 * InitialMs, MaxMs)
  /\ DelayMs(7) = Smaller(64 * InitialMs, MaxMs)
  /\ DelayMs(8) = Smaller(128 * InitialMs, MaxMs)
  /\ DelayMs(9) = Smaller(256 * InitialMs, MaxMs)
  /\ DelayMs(10) = Smaller(512 * InitialMs, MaxMs)
  /\ \A n \in Nat : n > 10 => DelayMs(n) = Smaller(1024 * InitialMs, MaxMs)
BY PolicyAssumption DEF DelayMs, OneShifted, Smaller

(* No delay exceeds the maximum.                                           *)
LEMMA DelayRange == \A n \in Nat : DelayMs(n) \in 0 .. MaxMs
<1>. SUFFICES ASSUME NEW n \in Nat PROVE DelayMs(n) \in 0 .. MaxMs
  OBVIOUS
<1>1. CASE n > 10
  BY <1>1, DelayIs, PolicyAssumption DEF Smaller
<1>2. CASE n \in 0 .. 10
  <2>1. n \in {0, 1, 2, 3, 4, 5, 6, 7, 8, 9, 10}
    BY <1>2
  <2>. QED
    BY <2>1, DelayIs, PolicyAssumption DEF Smaller
<1>. QED
  BY <1>1, <1>2

(* The recurrence that Doubling solves: delay_ms() is a solution, so that  *)
(* Doubling is one.                                                        *)
Recurrence(f) ==
  [n \in 0 .. 11 |->
     IF n = 0 THEN 0
     ELSE IF n = 1 THEN Smaller(InitialMs, MaxMs)
     ELSE Smaller(2 * f[n - 1], MaxMs)]

(* Doubling is a solution of its recurrence.                               *)
LEMMA DoublingRecurs == Doubling = Recurrence(Doubling)
<1>. DEFINE delay == [n \in 0 .. 11 |-> DelayMs(n)]
<1>1. ASSUME NEW n \in 0 .. 11
      PROVE  DelayMs(n) = IF n = 0 THEN 0
                          ELSE IF n = 1 THEN Smaller(InitialMs, MaxMs)
                          ELSE Smaller(2 * delay[n - 1], MaxMs)
  <2>1. n \in {0, 1, 2, 3, 4, 5, 6, 7, 8, 9, 10, 11}
    OBVIOUS
  <2>2. n > 1 => delay[n - 1] = DelayMs(n - 1)
    OBVIOUS
  <2>. HIDE DEF delay
  <2>. QED
    BY <2>1, <2>2, DelayIs, PolicyAssumption DEF Smaller
<1>2. delay = Recurrence(delay)
  BY <1>1 DEF Recurrence
<1>. QED
  BY <1>2 DEF Doubling, Recurrence

(* Doubling, unfolded; capping before a doubling changes nothing.          *)
LEMMA DoublingIs ==
  /\ Doubling[0] = 0
  /\ Doubling[1] = Smaller(InitialMs, MaxMs)
  /\ Doubling[2] = Smaller(2 * InitialMs, MaxMs)
  /\ Doubling[3] = Smaller(4 * InitialMs, MaxMs)
  /\ Doubling[4] = Smaller(8 * InitialMs, MaxMs)
  /\ Doubling[5] = Smaller(16 * InitialMs, MaxMs)
  /\ Doubling[6] = Smaller(32 * InitialMs, MaxMs)
  /\ Doubling[7] = Smaller(64 * InitialMs, MaxMs)
  /\ Doubling[8] = Smaller(128 * InitialMs, MaxMs)
  /\ Doubling[9] = Smaller(256 * InitialMs, MaxMs)
  /\ Doubling[10] = Smaller(512 * InitialMs, MaxMs)
  /\ Doubling[11] = Smaller(1024 * InitialMs, MaxMs)
<1>1. ASSUME NEW n \in 2 .. 11, NEW k \in Nat,
             Doubling[n - 1] = Smaller(k * InitialMs, MaxMs)
      PROVE  Doubling[n] = Smaller(2 * k * InitialMs, MaxMs)
  <2>1. Doubling[n] = Smaller(2 * Doubling[n - 1], MaxMs)
    BY DoublingRecurs DEF Recurrence
  <2>2. PICK a \in Nat : a = k * InitialMs
    BY PolicyAssumption
  <2>3. 2 * k * InitialMs = 2 * a
    BY <2>2, PolicyAssumption
  <2>. QED
    BY <1>1, <2>1, <2>2, <2>3, PolicyAssumption DEF Smaller
<1>2. Doubling[0] = 0 /\ Doubling[1] = Smaller(1 * InitialMs, MaxMs)
  BY DoublingRecurs, PolicyAssumption DEF Recurrence
<1>3. Doubling[2] = Smaller(2 * InitialMs, MaxMs)     BY <1>1, <1>2
<1>4. Doubling[3] = Smaller(4 * InitialMs, MaxMs)     BY <1>1, <1>3
<1>5. Doubling[4] = Smaller(8 * InitialMs, MaxMs)     BY <1>1, <1>4
<1>6. Doubling[5] = Smaller(16 * InitialMs, MaxMs)    BY <1>1, <1>5
<1>7. Doubling[6] = Smaller(32 * InitialMs, MaxMs)    BY <1>1, <1>6
<1>8. Doubling[7] = Smaller(64 * InitialMs, MaxMs)    BY <1>1, <1>7
<1>9. Doubling[8] = Smaller(128 * InitialMs, MaxMs)   BY <1>1, <1>8
<1>10. Doubling[9] = Smaller(256 * InitialMs, MaxMs)  BY <1>1, <1>9
<1>11. Doubling[10] = Smaller(512 * InitialMs, MaxMs) BY <1>1, <1>10
<1>12. Doubling[11] = Smaller(1024 * InitialMs, MaxMs) BY <1>1, <1>11
<1>13. 1 * InitialMs = InitialMs
  BY PolicyAssumption
<1>. QED
  BY <1>2, <1>3, <1>4, <1>5, <1>6, <1>7, <1>8, <1>9, <1>10, <1>11, <1>12, <1>13

(* The shifts are the recurrence.                                          *)
LEMMA DelayDoubles == \A n \in 0 .. 11 : DelayMs(n) = Doubling[n]
<1>1. ASSUME NEW n \in 0 .. 11 PROVE n \in {0, 1, 2, 3, 4, 5, 6, 7, 8, 9, 10, 11}
  OBVIOUS
<1>. QED
  BY <1>1, DelayIs, DoublingIs

-----------------------------------------------------------------------------
(* Clock, counters and backoff: their types; a pack whose child or spawn   *)
(* has failed has an attempt planned; and no planned attempt is further    *)
(* away than the delay of the failures counted.                            *)
CountersOK ==
  /\ now \in Nat
  /\ crash_count \in [Packs -> Nat]
  /\ backoff_until \in [Packs -> Nat \union {NoBackoff}]
  /\ deaths \in [Packs -> Nat]

RetryPlanned ==
  \A p \in Packs :
    p \notin children /\ deaths[p] > 0 => backoff_until[p] # NoBackoff

DelayKept ==
  \A p \in Packs :
    backoff_until[p] # NoBackoff =>
      backoff_until[p] <= now + DelayMs(crash_count[p])

RetryInv == CountersOK /\ RetryPlanned /\ DelayKept

(* note_crash_err(p), whether or not it notes a death of its own.          *)
LEMMA NoteCrashRetry ==
  ASSUME RetryInv, NEW p \in Packs, NoteCrash(p), now' = now,
         deaths' = deaths \/ deaths' = [deaths EXCEPT ![p] = @ + 1]
  PROVE  RetryInv'
<1>. DEFINE delay == DelayMs(crash_count[p] + 1)
<1>1. crash_count[p] + 1 \in Nat /\ delay \in Nat /\ now \in Nat
  BY DelayRange DEF RetryInv, CountersOK
<1>2. /\ crash_count' = [crash_count EXCEPT ![p] = @ + 1]
      /\ backoff_until' = [backoff_until EXCEPT ![p] = now + delay]
      /\ children' = children \ {p}
  BY DEF NoteCrash, RetryInv, CountersOK
<1>. HIDE DEF delay
<1>3. CountersOK'
  BY <1>1, <1>2 DEF RetryInv, CountersOK
<1>4. backoff_until'[p] = now + delay /\ backoff_until'[p] # NoBackoff
  BY <1>1, <1>2 DEF RetryInv, CountersOK, NoBackoff
<1>5. crash_count'[p] = crash_count[p] + 1
  BY <1>2 DEF RetryInv, CountersOK
<1>6. ASSUME NEW q \in Packs, q # p
      PROVE  /\ backoff_until'[q] = backoff_until[q]
             /\ crash_count'[q] = crash_count[q]
             /\ deaths'[q] = deaths[q]
             /\ q \in children' <=> q \in children
  BY <1>2, <1>6 DEF RetryInv, CountersOK
<1>7. RetryPlanned'
  <2>1. ASSUME NEW q \in Packs, q \notin children', deaths'[q] > 0, q # p
        PROVE  backoff_until'[q] # NoBackoff
    BY <1>6, <2>1 DEF RetryInv, RetryPlanned
  <2>. QED
    BY <1>4, <2>1 DEF RetryPlanned
<1>8. DelayKept'
  <2>1. ASSUME NEW q \in Packs, backoff_until'[q] # NoBackoff
        PROVE  backoff_until'[q] <= now' + DelayMs(crash_count'[q])
    <3>1. CASE q = p
      BY <1>1, <1>4, <1>5, <3>1 DEF delay
    <3>2. CASE q # p
      <4>1. backoff_until[q] # NoBackoff
        BY <1>6, <2>1, <3>2
      <4>2. backoff_until[q] <= now + DelayMs(crash_count[q])
        BY <4>1 DEF RetryInv, DelayKept
      <4>. QED
        BY <1>6, <3>2, <4>2
    <3>. QED
      BY <3>1, <3>2
  <2>. QED
    BY <2>1 DEF DelayKept
<1>. QED
  BY <1>3, <1>7, <1>8 DEF RetryInv

(* A successful spawn forgets the failures.                                *)
LEMMA MarkReadyRetry ==
  ASSUME RetryInv, ThreadsOK, NEW t \in Threads, MarkReady(t)
  PROVE  RetryInv'
<1>. DEFINE p == threads[t].pack
<1>1. p \in Packs
  BY DEF ThreadsOK, MarkReady, AtPack
<1>2. /\ children' = children \union {p}
      /\ crash_count' = [crash_count EXCEPT ![p] = 0]
      /\ backoff_until' = [backoff_until EXCEPT ![p] = NoBackoff]
      /\ deaths' = [deaths EXCEPT ![p] = 0]
      /\ now' = now
  BY DEF MarkReady
<1>. HIDE DEF p
<1>. QED
  BY <1>1, <1>2 DEF RetryInv, CountersOK, RetryPlanned, DelayKept

(* A death that nobody has noted leaves the child in its place.            *)
LEMMA DeathRetry ==
  ASSUME RetryInv, ChildrenOK, NEW p \in alive,
         deaths' = [deaths EXCEPT ![p] = @ + 1],
         UNCHANGED << now, children, crash_count, backoff_until >>
  PROVE  RetryInv'
BY DEF RetryInv, CountersOK, RetryPlanned, DelayKept, ChildrenOK

(* A step that leaves clock, children and counters alone keeps it.         *)
LEMMA SameRetry ==
  ASSUME RetryInv,
         UNCHANGED << now, children, crash_count, backoff_until, deaths >>
  PROVE  RetryInv'
BY DEF RetryInv, CountersOK, RetryPlanned, DelayKept

(* Every step keeps clock, counters and backoff as they should be.         *)
LEMMA RetryInvInductive ==
  SupervisorInv /\ RetryInv /\ [Next]_vars => RetryInv'
<1>. SUFFICES ASSUME ThreadsOK, ChildrenOK, RetryInv, [Next]_vars
              PROVE  RetryInv'
  BY DEF SupervisorInv
<1>1. ASSUME NEW t \in Threads,
             PollHealth(t) \/ CheckBackoff(t) \/ SpawnRefused(t) \/ Due(t)
               \/ Call(t)
      PROVE  RetryInv'
  BY <1>1, SameRetry
  DEF PollHealth, CheckBackoff, SpawnRefused, Due, Call, Look,
      TrySpawnRegistered, Tick, AbortLanguage, state
<1>2. ASSUME NEW t \in Threads, NoteDead(t)
      PROVE  RetryInv'
  <2>1. PICK p \in threads[t].dead : NoteCrash(p)
    BY <1>2 DEF NoteDead
  <2>. QED
    BY <1>2, <2>1, ThreadFields, NoteCrashRetry DEF NoteDead
<1>3. ASSUME NEW t \in Threads, SpawnFailed(t)
      PROVE  RetryInv'
  <2>1. threads[t].pack \in Packs
    BY <1>3 DEF SpawnFailed, ThreadsOK, AtPack
  <2>. QED
    BY <1>3, <2>1, NoteCrashRetry DEF SpawnFailed
<1>4. ASSUME NEW t \in Threads, MarkReady(t)
      PROVE  RetryInv'
  BY <1>4, MarkReadyRetry
<1>5. ASSUME NEW t \in Threads, Terminate(t)
      PROVE  RetryInv'
  <2>1. PICK p \in threads[t].dead :
          deaths' = IF p \in alive THEN [deaths EXCEPT ![p] = @ + 1] ELSE deaths
    BY <1>5 DEF Terminate
  <2>2. UNCHANGED << now, children, crash_count, backoff_until >>
    BY <1>5 DEF Terminate, state
  <2>. QED
    BY <2>1, <2>2, DeathRetry, SameRetry
<1>6. ASSUME NEW t \in Threads, NoteAborted(t)
      PROVE  RetryInv'
  <2>1. threads[t].pack \in Packs
    BY <1>6 DEF NoteAborted, ThreadsOK, AtPack
  <2>. QED
    BY <1>6, <2>1, NoteCrashRetry DEF NoteAborted
<1>7. ASSUME NEW p \in Packs, Exit(p)
      PROVE  RetryInv'
  BY <1>7, DeathRetry DEF Exit, state
<1>8. CASE Advance
  <2>1. /\ now' = now + 1
        /\ UNCHANGED << children, crash_count, backoff_until, deaths >>
    BY <1>8 DEF Advance, state
  <2>2. CountersOK' /\ RetryPlanned'
    BY <2>1 DEF RetryInv, CountersOK, RetryPlanned
  <2>3. \A p \in Packs : DelayMs(crash_count[p]) \in Nat
    BY DelayRange DEF RetryInv, CountersOK
  <2>4. DelayKept'
    BY <2>1, <2>3 DEF RetryInv, CountersOK, DelayKept
  <2>. QED
    BY <2>2, <2>4 DEF RetryInv
<1>9. CASE UNCHANGED vars
  BY <1>9, SameRetry DEF vars, state
<1>. QED
  BY <1>1, <1>2, <1>3, <1>4, <1>5, <1>6, <1>7, <1>8, <1>9 DEF Next, Step

(* At the start nothing has failed.                                        *)
LEMMA RetryInvInit == Init => RetryInv
BY DEF Init, RetryInv, CountersOK, RetryPlanned, DelayKept

(* Clock, counters and backoff: the invariant behind both retry properties *)
(* (note_crash_err, spawn_child, poll_health).                             *)
THEOREM RetryInvariant == Spec => []RetryInv
<1>1. Init => RetryInv
  BY RetryInvInit
<1>. QED
  BY <1>1, RetryInvInductive, SupervisorInvariant, PTL DEF Spec

(***************************************************************************)
(* For every set of packs and threads and every delay policy: whatever     *)
(* polls, spawns and aborts cross each other, a pack whose child died or   *)
(* whose spawn failed has its next attempt planned, at most the longest    *)
(* delay from now, so that tick() would find it (note_crash_err()).        *)
(***************************************************************************)
THEOREM CrashAlwaysRetried == Spec => []CrashIsRetried
<1>1. RetryInv => CrashIsRetried
  <2>. SUFFICES ASSUME RetryInv, NEW p \in Packs, p \notin children,
                       deaths[p] > 0
                PROVE  backoff_until[p] \in 0 .. now + MaxMs
    BY DEF CrashIsRetried
  <2>1. backoff_until[p] \in Nat /\ now \in Nat
    BY DEF RetryInv, RetryPlanned, CountersOK
  <2>2. backoff_until[p] <= now + DelayMs(crash_count[p])
    BY <2>1 DEF RetryInv, DelayKept, NoBackoff
  <2>3. DelayMs(crash_count[p]) \in 0 .. MaxMs
    BY DelayRange DEF RetryInv, CountersOK
  <2>. QED
    BY <2>1, <2>2, <2>3, PolicyAssumption
<1>. QED
  BY <1>1, RetryInvariant, PTL

(***************************************************************************)
(* For every policy: the shifts of delay_ms() are the recurrence that      *)
(* doubles and caps, and no pack waits longer than it allows for the       *)
(* failures since its last success.                                        *)
(***************************************************************************)
THEOREM DelayAlwaysDoublesThenCaps == Spec => []DelayDoublesThenCaps
<1>1. RetryInv => DelayDoublesThenCaps
  <2>. SUFFICES ASSUME RetryInv, NEW p \in Packs, InBackoff(p)
                PROVE  backoff_until[p]
                         <= now + Doubling[Smaller(crash_count[p], 11)]
    BY DelayDoubles DEF DelayDoublesThenCaps
  <2>1. crash_count[p] \in Nat
    BY DEF RetryInv, CountersOK
  <2>2. DelayMs(crash_count[p]) = Doubling[Smaller(crash_count[p], 11)]
    <3>1. CASE crash_count[p] <= 11
      BY <2>1, <3>1, DelayDoubles DEF Smaller
    <3>2. CASE crash_count[p] > 11
      BY <2>1, <3>2, DelayIs, DoublingIs DEF Smaller
    <3>. QED
      BY <2>1, <3>1, <3>2
  <2>. QED
    BY <2>2 DEF RetryInv, DelayKept, InBackoff
<1>. QED
  BY <1>1, RetryInvariant, PTL

(* The rest of the types.                                                  *)
Registered ==
  /\ ready \in SUBSET Languages
  /\ last_error \in SUBSET Packs
  /\ started \in BOOLEAN

(* Readiness, errors and the started flag keep their types.                *)
LEMMA RegisteredInductive ==
  SupervisorInv /\ Registered /\ [Next]_vars => Registered'
<1>. SUFFICES ASSUME ThreadsOK, Registered, [Next]_vars
              PROVE  Registered'
  BY DEF SupervisorInv
<1>1. ASSUME NEW p \in Packs, NoteCrash(p), started' = started
      PROVE  Registered'
  BY <1>1 DEF NoteCrash, Registered
<1>2. ASSUME NEW t \in Threads, NoteDead(t)
      PROVE  Registered'
  BY <1>1, <1>2, ThreadFields DEF NoteDead
<1>3. ASSUME NEW t \in Threads, SpawnFailed(t)
      PROVE  Registered'
  <2>1. threads[t].pack \in Packs
    BY <1>3 DEF SpawnFailed, ThreadsOK, AtPack
  <2>. QED
    BY <1>1, <1>3, <2>1 DEF SpawnFailed
<1>4. ASSUME NEW t \in Threads, NoteAborted(t)
      PROVE  Registered'
  <2>1. threads[t].pack \in Packs
    BY <1>4 DEF NoteAborted, ThreadsOK, AtPack
  <2>. QED
    BY <1>1, <1>4, <2>1 DEF NoteAborted
<1>5. ASSUME NEW t \in Threads, SpawnRefused(t) \/ MarkReady(t)
      PROVE  Registered'
  <2>1. threads[t].pack \in Packs
    BY <1>5 DEF SpawnRefused, MarkReady, ThreadsOK, AtPack
  <2>2. /\ LanguageOf[threads[t].pack] \in Languages
        /\ ExtraLanguages[threads[t].pack] \subseteq Languages
    BY <2>1, PacksAssumption
  <2>. QED
    BY <1>5, <2>1, <2>2 DEF SpawnRefused, MarkReady, Registered
<1>6. ASSUME NEW t \in Threads,
             PollHealth(t) \/ CheckBackoff(t) \/ Due(t) \/ Terminate(t)
               \/ Call(t)
      PROVE  Registered'
  BY <1>6
  DEF PollHealth, CheckBackoff, Due, Terminate, Call, Look,
      TrySpawnRegistered, Tick, AbortLanguage, state, Registered
<1>7. ASSUME (\E p \in Packs : Exit(p)) \/ Advance \/ UNCHANGED vars
      PROVE  Registered'
  BY <1>7 DEF Exit, Advance, vars, state, Registered
<1>. QED
  BY <1>2, <1>3, <1>4, <1>5, <1>6, <1>7 DEF Next, Step

(* Every variable stays within its type, only a supervised child runs, and *)
(* a thread that is about to act on a pack has one.                        *)
THEOREM SupervisorTypeCorrect == Spec => []TypeOK
<1>1. Init => Registered
  BY DEF Init, Registered
<1>2. SupervisorInv /\ RetryInv /\ Registered => TypeOK
  <2>. SUFFICES ASSUME SupervisorInv, RetryInv, Registered
                PROVE  TypeOK
    OBVIOUS
  <2>1. capabilities \in SUBSET Capabilities
    BY PacksAssumption
    DEF SupervisorInv, ChildrenOK, CapabilitiesOfChildren
  <2>. QED
    BY <2>1
    DEF SupervisorInv, ThreadsOK, ChildrenOK, RetryInv, CountersOK, Registered,
        TypeOK
<1>. QED
  BY <1>1, <1>2, RegisteredInductive, SupervisorInvariant, RetryInvariant, PTL
  DEF Spec
=============================================================================
