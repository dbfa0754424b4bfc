-------------------------- MODULE EngineSupervisor --------------------------
(***************************************************************************)
(* EngineSupervisor (progressive-lsp-engine/src/supervisor.rs): one child  *)
(* process per engine pack, shared by the threads of the server.  A method *)
(* takes the state's mutex several times, so its critical sections         *)
(* interleave with those of other threads.  Every query first calls        *)
(* poll_health, which lists the dead children in one section and notes     *)
(* each crash in a section of its own.                                     *)
(*                                                                         *)
(* PackAdapter's ready signal is Initialize, and a crash removes `ready`   *)
(* and `ready_languages` of a language together: one set stands for both.  *)
(***************************************************************************)
EXTENDS Integers, FiniteSets

CONSTANTS
  Packs,           \* registered adapters
  Languages,
  LanguageOf,      \* EngineAdapter::language_id
  ExtraLanguages,  \* EngineAdapter::extra_languages
  Capabilities,
  CapabilitiesOf,  \* what a child of the pack can answer
  Threads,
  Spawner,         \* the thread that handles initialize
  InitialMs,       \* BackoffPolicy.initial_ms
  MaxMs,           \* BackoffPolicy.max_ms
  MaxTime          \* bound: the clock

ASSUME PacksAssumption ==
  /\ LanguageOf \in [Packs -> Languages]
  /\ ExtraLanguages \in [Packs -> SUBSET Languages]
  /\ CapabilitiesOf \in [Packs -> SUBSET Capabilities]

(* One pack per language, as serve registers them (src/lib.rs:326-335).    *)
ASSUME LanguagesAssumption ==
  \A p, q \in Packs :
    /\ LanguageOf[p] \notin ExtraLanguages[q]
    /\ LanguageOf[p] = LanguageOf[q] => p = q

ASSUME PolicyAssumption ==
  /\ Spawner \in Threads
  /\ InitialMs \in Nat \ {0} /\ MaxMs \in Nat \ {0} /\ MaxTime \in Nat

VARIABLES
  now,            \* ClockPort::unix_ms
  children,       \* packs that have a supervised child
  alive,          \* those whose process still runs
  ready,          \* ready_languages
  capabilities,
  crash_count,
  backoff_until,
  last_error,     \* packs that have one
  threads,        \* where each thread is: [at, then, dead, jobs, pack]
  started,        \* initialize has spawned the registered packs
  deaths          \* deaths and failed spawns since the last successful one

state == << children, ready, capabilities, crash_count, backoff_until,
            last_error >>
vars  == << now, state, alive, threads, started, deaths >>

NoBackoff == -1
NoPack    == "none"

Places == {"idle", "polling", "noting", "due", "checking", "spawning",
           "terminating", "aborting"}

Thread == [at : Places, then : {"idle", "due", "checking"},
           dead : SUBSET Packs, jobs : SUBSET Packs,
           pack : Packs \union {NoPack}]

Idle == [at |-> "idle", then |-> "idle", dead |-> {}, jobs |-> {},
         pack |-> NoPack]

Init ==
  /\ now = 0
  /\ children = {} /\ alive = {} /\ ready = {} /\ capabilities = {}
  /\ crash_count = [p \in Packs |-> 0]
  /\ backoff_until = [p \in Packs |-> NoBackoff]
  /\ last_error = {}
  /\ threads = [t \in Threads |-> Idle]
  /\ started = FALSE
  /\ deaths = [p \in Packs |-> 0]

-----------------------------------------------------------------------------
(* BackoffPolicy: the delay doubles with each failure, by a shift of at    *)
(* most ten, up to the maximum.  OneShifted[n] is 1 << (n - 1).            *)
Smaller(a, b) == IF a < b THEN a ELSE b

OneShifted == << 1, 2, 4, 8, 16, 32, 64, 128, 256, 512, 1024 >>

(* Mutant: the shift is one too large. *)
DelayMsFromFirst(failures) ==
  IF failures = 0
    THEN 0
    ELSE Smaller(InitialMs * OneShifted[Smaller(failures + 1, 11)], MaxMs)

DelayMs(failures) ==
  IF failures = 0
    THEN 0
    ELSE Smaller(InitialMs * OneShifted[Smaller(failures, 11)], MaxMs)

InBackoff(p) == backoff_until[p] # NoBackoff /\ now < backoff_until[p]

-----------------------------------------------------------------------------
Goto(t, thread) == threads' = [threads EXCEPT ![t] = thread]

(* Begin try_spawn() for one of the packs, or return to the caller.        *)
Continue(t, jobs) ==
  \/ jobs = {} /\ Goto(t, Idle)
  \/ \E p \in jobs :
       Goto(t, [at |-> "polling", then |-> "checking", dead |-> {},
                jobs |-> jobs \ {p}, pack |-> p])

(* Mutant: a crash leaves readiness as it was. *)
NoteCrashKeepsReady(p) ==
  /\ children' = children \ {p}
  /\ UNCHANGED ready
  /\ capabilities' = UNION {CapabilitiesOf[q] : q \in alive \ {p}}
  /\ crash_count' = [crash_count EXCEPT ![p] = @ + 1]
  /\ backoff_until' = [backoff_until EXCEPT ![p] = now + DelayMs(crash_count'[p])]
  /\ last_error' = last_error \union {p}
  /\ alive' = alive \ {p}

(* Mutant: a crash leaves the capabilities as they were. *)
NoteCrashKeepsCapabilities(p) ==
  /\ children' = children \ {p}
  /\ ready' = IF p \in children THEN ready \ {LanguageOf[p]} ELSE ready
  /\ UNCHANGED capabilities
  /\ crash_count' = [crash_count EXCEPT ![p] = @ + 1]
  /\ backoff_until' = [backoff_until EXCEPT ![p] = now + DelayMs(crash_count'[p])]
  /\ last_error' = last_error \union {p}
  /\ alive' = alive \ {p}

(* Mutant: backs off only when a child was supervised. *)
NoteCrashOfChildOnly(p) ==
  /\ children' = children \ {p}
  /\ ready' = IF p \in children THEN ready \ {LanguageOf[p]} ELSE ready
  /\ capabilities' = UNION {CapabilitiesOf[q] : q \in alive \ {p}}
  /\ crash_count' = [crash_count EXCEPT ![p] = @ + 1]
  /\ backoff_until' =
       IF p \in children
         THEN [backoff_until EXCEPT ![p] = now + DelayMs(crash_count'[p])]
         ELSE backoff_until
  /\ last_error' = last_error \union {p}
  /\ alive' = alive \ {p}

(* note_crash_err(), the whole section under the mutex.  A process whose   *)
(* child is removed while it runs is no longer anybody's.                  *)
NoteCrash(p) ==
  /\ children' = children \ {p}
  /\ ready' = IF p \in children THEN ready \ {LanguageOf[p]} ELSE ready
  /\ capabilities' = UNION {CapabilitiesOf[q] : q \in alive \ {p}}
  /\ crash_count' = [crash_count EXCEPT ![p] = @ + 1]
  /\ backoff_until' = [backoff_until EXCEPT ![p] = now + DelayMs(crash_count'[p])]
  /\ last_error' = last_error \union {p}
  /\ alive' = alive \ {p}

(***************************************************************************)
(* poll_health(): list, then note.  is_ready, engine_session_warmed,       *)
(* resolve and the forwards change nothing else.                           *)
(***************************************************************************)
Look(t) ==
  /\ threads[t].at = "idle"
  /\ Goto(t, [Idle EXCEPT !.at = "polling"])
  /\ UNCHANGED << now, state, alive, started, deaths >>

PollHealth(t) ==
  LET dead == children \ alive
  IN  /\ threads[t].at = "polling"
      /\ Goto(t, [threads[t] EXCEPT
                   !.at = IF dead = {} THEN threads[t].then ELSE "noting",
                   !.dead = dead])
      /\ UNCHANGED << now, state, alive, started, deaths >>

NoteDead(t) ==
  /\ threads[t].at = "noting"
  /\ \E p \in threads[t].dead :
       LET rest == threads[t].dead \ {p}
       IN  /\ NoteCrash(p)
           /\ Goto(t, [threads[t] EXCEPT
                        !.at = IF rest = {} THEN threads[t].then ELSE "noting",
                        !.dead = rest])
  /\ UNCHANGED << now, started, deaths >>

-----------------------------------------------------------------------------
(***************************************************************************)
(* try_spawn(): after the poll, the backoff is read in one section, and    *)
(* the outcome of the spawn is written in another.                         *)
(***************************************************************************)
TrySpawnRegistered(t) ==
  /\ t = Spawner
  /\ ~started
  /\ threads[t].at = "idle"
  /\ started' = TRUE
  /\ Continue(t, Packs)
  /\ UNCHANGED << now, state, alive, deaths >>

CheckBackoff(t) ==
  /\ threads[t].at = "checking"
  /\ IF InBackoff(threads[t].pack)
       THEN Continue(t, threads[t].jobs)
       ELSE Goto(t, [threads[t] EXCEPT !.at = "spawning"])
  /\ UNCHANGED << now, state, alive, started, deaths >>

(* Not discovered, a hash mismatch, or a script that aborts the spawn.     *)
SpawnRefused(t) ==
  /\ threads[t].at = "spawning"
  /\ last_error' = last_error \union {threads[t].pack}
  /\ Continue(t, threads[t].jobs)
  /\ UNCHANGED << now, children, ready, capabilities, crash_count,
                  backoff_until, alive, started, deaths >>

SpawnFailed(t) ==
  /\ threads[t].at = "spawning"
  /\ NoteCrash(threads[t].pack)
  /\ deaths' = [deaths EXCEPT ![threads[t].pack] = @ + 1]
  /\ Continue(t, threads[t].jobs)
  /\ UNCHANGED << now, started >>

MarkReady(t) ==
  LET p == threads[t].pack
  IN  /\ threads[t].at = "spawning"
      /\ children' = children \union {p}
      /\ alive' = alive \union {p}
      /\ ready' = ready \union {LanguageOf[p]} \union ExtraLanguages[p]
      /\ capabilities' = capabilities \union CapabilitiesOf[p]
      /\ crash_count' = [crash_count EXCEPT ![p] = 0]
      /\ backoff_until' = [backoff_until EXCEPT ![p] = NoBackoff]
      /\ last_error' = last_error \ {p}
      /\ deaths' = [deaths EXCEPT ![p] = 0]
      /\ Continue(t, threads[t].jobs)
      /\ UNCHANGED << now, started >>

(* tick(): after a poll, list the packs whose backoff has passed.          *)
Tick(t) ==
  /\ threads[t].at = "idle"
  /\ Goto(t, [Idle EXCEPT !.at = "polling", !.then = "due"])
  /\ UNCHANGED << now, state, alive, started, deaths >>

Due(t) ==
  /\ threads[t].at = "due"
  /\ Continue(t, {p \in Packs \ children :
                    backoff_until[p] # NoBackoff /\ ~InBackoff(p)})
  /\ UNCHANGED << now, state, alive, started, deaths >>

-----------------------------------------------------------------------------
(* abort_language(): kill the children that serve a language, one by one,  *)
(* each killed in one section and noted as crashed in another.             *)
Serves(p, l) == l = LanguageOf[p] \/ l \in ExtraLanguages[p]

AbortLanguage(t, l) ==
  LET stuck == {p \in children : Serves(p, l)}
  IN  /\ threads[t].at = "idle"
      /\ stuck # {}
      /\ Goto(t, [Idle EXCEPT !.at = "terminating", !.dead = stuck])
      /\ UNCHANGED << now, state, alive, started, deaths >>

Terminate(t) ==
  /\ threads[t].at = "terminating"
  /\ \E p \in threads[t].dead :
       /\ alive' = alive \ {p}
       /\ deaths' = IF p \in alive THEN [deaths EXCEPT ![p] = @ + 1] ELSE deaths
       /\ Goto(t, [threads[t] EXCEPT !.at = "aborting", !.pack = p,
                                     !.dead = @ \ {p}])
  /\ UNCHANGED << now, state, started >>

NoteAborted(t) ==
  /\ threads[t].at = "aborting"
  /\ NoteCrash(threads[t].pack)
  /\ Goto(t, IF threads[t].dead = {} THEN Idle
             ELSE [threads[t] EXCEPT !.at = "terminating"])
  /\ UNCHANGED << now, started, deaths >>

-----------------------------------------------------------------------------
(* The environment: a child process exits, time passes.                    *)
Exit(p) ==
  /\ p \in alive
  /\ alive' = alive \ {p}
  /\ deaths' = [deaths EXCEPT ![p] = @ + 1]
  /\ UNCHANGED << now, state, threads, started >>

Advance ==
  /\ now < MaxTime
  /\ now' = now + 1
  /\ UNCHANGED << state, alive, threads, started, deaths >>

Step(t) ==
  \/ PollHealth(t)
  \/ NoteDead(t)
  \/ CheckBackoff(t)
  \/ SpawnRefused(t)
  \/ SpawnFailed(t)
  \/ MarkReady(t)
  \/ Due(t)
  \/ Terminate(t)
  \/ NoteAborted(t)

Call(t) ==
  \/ Look(t)
  \/ TrySpawnRegistered(t)
  \/ Tick(t)
  \/ \E l \in Languages : AbortLanguage(t, l)

Next ==
  \/ \E t \in Threads : Step(t) \/ Call(t)
  \/ \E p \in Packs : Exit(p)
  \/ Advance

Spec == Init /\ [][Next]_vars

-----------------------------------------------------------------------------
AtPack(thread) == \/ thread.at \in {"checking", "spawning", "aborting"}
                  \/ thread.then = "checking"

(* Every variable stays within its type, only a supervised child runs, and *)
(* a thread that is about to act on a pack has one.                        *)
TypeOK ==
  /\ now \in Nat
  /\ children \in SUBSET Packs
  /\ alive \in SUBSET children
  /\ ready \in SUBSET Languages
  /\ capabilities \in SUBSET Capabilities
  /\ crash_count \in [Packs -> Nat]
  /\ backoff_until \in [Packs -> Nat \union {NoBackoff}]
  /\ last_error \in SUBSET Packs
  /\ threads \in [Threads -> Thread]
  /\ \A t \in Threads : AtPack(threads[t]) => threads[t].pack \in Packs
  /\ started \in BOOLEAN
  /\ deaths \in [Packs -> Nat]

(***************************************************************************)
(* "poll_health must unready": the engine row of a pack, which is_ready of *)
(* its own language decides, says ready exactly while the pack has a       *)
(* supervised child, and the sibling languages of a child are ready too.   *)
(***************************************************************************)
ReadyMeansChild ==
  \A p \in Packs :
    /\ LanguageOf[p] \in ready <=> p \in children
    /\ p \in children => ExtraLanguages[p] \subseteq ready

(***************************************************************************)
(* The advertised capabilities are those of the children: none that only a *)
(* crashed engine had, and all of every engine that still runs.            *)
(***************************************************************************)
CapabilitiesOfChildren ==
  /\ UNION {CapabilitiesOf[p] : p \in alive} \subseteq capabilities
  /\ capabilities \subseteq UNION {CapabilitiesOf[p] : p \in children}

(***************************************************************************)
(* A pack whose child or spawn has failed is scheduled for another attempt *)
(* no later than the longest delay from now, so that tick() finds it.      *)
(***************************************************************************)
CrashIsRetried ==
  \A p \in Packs :
    (p \notin children /\ deaths[p] > 0) =>
      backoff_until[p] \in 0 .. now + MaxMs

(***************************************************************************)
(* "Delay doubles then caps": no pack is made to wait longer than the      *)
(* plain recurrence allows for its failures since the last success, and    *)
(* the shifts of delay_ms() are that recurrence up to where they stop.     *)
(***************************************************************************)
Doubling[n \in 0 .. 11] ==
  IF n = 0 THEN 0
  ELSE IF n = 1 THEN Smaller(InitialMs, MaxMs)
  ELSE Smaller(2 * Doubling[n - 1], MaxMs)

DelayDoublesThenCaps ==
  /\ \A p \in Packs :
       InBackoff(p) =>
         backoff_until[p] <= now + Doubling[Smaller(crash_count[p], 11)]
  /\ \A n \in 0 .. 11 : DelayMs(n) = Doubling[n]
=============================================================================
