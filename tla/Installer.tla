------------------------------ MODULE Installer ------------------------------
(***************************************************************************)
(* Installing an engine pack and discovering it                            *)
(* (progressive-lsp-install, install_verified_pack of the CLI,             *)
(* install_pack_from_inbox_or_stub of the control plane, discover_pack).   *)
(* A pack is two files, the binary and the manifest that names the hash of *)
(* the binary.  A call places them one after the other: write a temporary  *)
(* file named after the destination and the expected hash, hash it, ask    *)
(* the hook, rename, hash again.  A call may run in any process or control *)
(* thread, nothing excludes another, and it may die between any two steps. *)
(* The contents of a file are a version, Partial while they are being      *)
(* written, or Missing; a hash tells versions and partial files apart.     *)
(***************************************************************************)
EXTENDS Integers, FiniteSets

CONSTANTS
  Callers,     \* processes and control threads that install the pack
  Versions,    \* contents of the binary
  MaxCalls,    \* bound: calls of install
  MaxFaults    \* bound: I/O errors and kills

ASSUME InstallerAssumption ==
  /\ IsFiniteSet(Callers) /\ IsFiniteSet(Versions)
  /\ MaxCalls \in Nat /\ MaxFaults \in Nat
  /\ Versions \intersect {"final", "partial", "missing"} = {}

VARIABLES
  disk,      \* contents under each name in the pack's directory
  call,      \* what each caller is doing, and how its last call ended
  spawner,   \* the supervisor: [pc, want]
  ran,       \* the contents last executed
  approved,  \* versions that were hashed and accepted by the hook
  shared,    \* whether two calls for one version have ever run at once
  calls, faults

vars == << disk, call, spawner, ran, approved, shared, calls, faults >>

Files == {"binary", "manifest"}
Final == "final"
Names == Files \X (Versions \union {Final})
Partial == "partial"
Missing == "missing"
Contents == Versions \union {Partial, Missing}
Closed == << >>

Binary   == << "binary", Final >>
Manifest == << "manifest", Final >>

(* `bytes` is what the caller was given and `expected` the hash it was     *)
(* given with them; `alone` and `before` are not in the code: no other     *)
(* call has run since this one began, and the files as it found them.      *)
Idle(v) == [pc |-> "idle", file |-> "binary", bytes |-> v, expected |-> v,
            handle |-> Closed, alone |-> FALSE, result |-> "none",
            before |-> << Missing, Missing >>]

(* A fresh prefix, or one that holds a complete pack.                      *)
Init ==
  /\ \E v \in Versions \union {Missing} :
       /\ disk = [n \in Names |-> IF n[2] = Final THEN v ELSE Missing]
       /\ approved = {v} \ {Missing}
  /\ \E v \in Versions : call = [i \in Callers |-> Idle(v)]
  /\ spawner = [pc |-> "idle", want |-> Missing]
  /\ ran = Missing
  /\ shared = FALSE
  /\ calls = 0
  /\ faults = 0

Running(i) == call[i].pc # "idle"
Tmp(i)     == << call[i].file, call[i].expected >>
Dest(i)    == << call[i].file, Final >>

(* The manifest is made by the call itself from the expected hash.         *)
Payload(i) ==
  IF call[i].file = "binary" THEN call[i].bytes ELSE call[i].expected

Goto(i, pc)    == call' = [call EXCEPT ![i].pc = pc]
Return(i, how) == call' = [call EXCEPT ![i].pc = "idle", ![i].result = how]

(* remove_file on the way out: an open handle is left without a name.      *)
RemoveAndReturn(i, name, how) ==
  /\ disk' = [disk EXCEPT ![name] = Missing]
  /\ call' = [j \in Callers |->
       [call[j] EXCEPT !.handle = IF @ = name THEN Closed ELSE @,
                       !.pc     = IF j = i THEN "idle" ELSE @,
                       !.result = IF j = i THEN how ELSE @]]

rest == << spawner, ran, shared, calls, faults >>

-----------------------------------------------------------------------------
(***************************************************************************)
(* A call begins with the bytes and the hash it found: equal for a stub,   *)
(* read from two files of the inbox otherwise.                             *)
(***************************************************************************)
Begin(i, bytes, expected) ==
  /\ ~Running(i)
  /\ calls < MaxCalls
  /\ calls' = calls + 1
  /\ call' = [j \in Callers |->
       IF j = i
         THEN [Idle(bytes) EXCEPT !.pc = "open", !.expected = expected,
                                  !.alone = \A k \in Callers : ~Running(k),
                                  !.before = << disk[Binary], disk[Manifest] >>]
         ELSE [call[j] EXCEPT !.alone = FALSE]]
  /\ shared' = (shared \/ \E j \in Callers :
                           Running(j) /\ call[j].expected = expected)
  /\ UNCHANGED << disk, spawner, ran, approved, faults >>

(* Mutant: takes a new file only, not one that was left behind. *)
OpenNew(i) ==
  /\ call[i].pc = "open"
  /\ IF disk[Tmp(i)] = Missing
       THEN /\ disk' = [disk EXCEPT ![Tmp(i)] = Partial]
            /\ call' = [call EXCEPT ![i].pc = "write", ![i].handle = Tmp(i)]
       ELSE Return(i, "io") /\ UNCHANGED disk
  /\ UNCHANGED << rest, approved >>

(* put(): fs::write creates or truncates the file ...                      *)
Open(i) ==
  /\ call[i].pc = "open"
  /\ disk' = [disk EXCEPT ![Tmp(i)] = Partial]
  /\ call' = [call EXCEPT ![i].pc = "write", ![i].handle = Tmp(i)]
  /\ UNCHANGED << rest, approved >>

(* ... and writes to it under whatever name it has by now, if any.         *)
Write(i) ==
  LET handle == call[i].handle
  IN  /\ call[i].pc = "write"
      /\ disk' = IF handle = Closed THEN disk
                 ELSE [disk EXCEPT ![handle] = Payload(i)]
      /\ call' = [call EXCEPT ![i].pc = "check", ![i].handle = Closed]
      /\ UNCHANGED << rest, approved >>

(* Mutant: no comparison with the expected hash. *)
CheckHookOnly(i) ==
  /\ call[i].pc = "check"
  /\ \/ /\ Goto(i, "rename")
        /\ approved' = approved \union
             (IF disk[Tmp(i)] = call[i].expected THEN {call[i].expected} ELSE {})
        /\ UNCHANGED disk
     \/ /\ call[i].file = "binary"
        /\ RemoveAndReturn(i, Tmp(i), "refused")
        /\ UNCHANGED approved
  /\ UNCHANGED rest

(* Mutant: a refusal clears the destination too. *)
CheckRemovesFinal(i) ==
  /\ call[i].pc = "check"
  /\ \/ /\ disk[Tmp(i)] = call[i].expected
        /\ Goto(i, "rename")
        /\ approved' = approved \union {call[i].expected}
        /\ UNCHANGED disk
     \/ /\ disk[Tmp(i)] # call[i].expected
        /\ disk' = [disk EXCEPT ![Tmp(i)] = Missing, ![Dest(i)] = Missing]
        /\ Return(i, "mismatch")
        /\ UNCHANGED approved
  /\ UNCHANGED rest

(* chmod and hash the temporary file; then on_install_verify, which the    *)
(* CLI asks for the binary only.                                           *)
Check(i) ==
  /\ call[i].pc = "check"
  /\ \/ /\ disk[Tmp(i)] = Missing
        /\ Return(i, "io")
        /\ UNCHANGED << disk, approved >>
     \/ /\ disk[Tmp(i)] \notin {Missing, call[i].expected}
        /\ RemoveAndReturn(i, Tmp(i), "mismatch")
        /\ UNCHANGED approved
     \/ /\ disk[Tmp(i)] = call[i].expected
        /\ Goto(i, "rename")
        /\ approved' = approved \union {call[i].expected}
        /\ UNCHANGED disk
     \/ /\ disk[Tmp(i)] = call[i].expected
        /\ call[i].file = "binary"
        /\ RemoveAndReturn(i, Tmp(i), "refused")
        /\ UNCHANGED approved
  /\ UNCHANGED rest

(* rename_atomic(): an open handle follows its file.                       *)
Rename(i) ==
  LET moved(name) ==
        IF name = Tmp(i) THEN Dest(i) ELSE IF name = Dest(i) THEN Closed ELSE name
  IN  /\ call[i].pc = "rename"
      /\ IF disk[Tmp(i)] = Missing
           THEN Return(i, "io") /\ UNCHANGED disk
           ELSE /\ disk' = [disk EXCEPT ![Dest(i)] = disk[Tmp(i)],
                                        ![Tmp(i)] = Missing]
                /\ call' = [j \in Callers |->
                     [call[j] EXCEPT !.handle = moved(@),
                                     !.pc = IF j = i THEN "confirm" ELSE @]]
      /\ UNCHANGED << rest, approved >>

(* Hash the destination; then the next file, or Ok.                        *)
Confirm(i) ==
  /\ call[i].pc = "confirm"
  /\ \/ /\ disk[Dest(i)] = Missing
        /\ Return(i, "io")
        /\ UNCHANGED disk
     \/ /\ disk[Dest(i)] \notin {Missing, call[i].expected}
        /\ RemoveAndReturn(i, Dest(i), "mismatch")
     \/ /\ disk[Dest(i)] = call[i].expected
        /\ IF call[i].file = "binary"
             THEN call' = [call EXCEPT ![i].pc = "open", ![i].file = "manifest"]
             ELSE Return(i, "ok")
        /\ UNCHANGED disk
  /\ UNCHANGED << rest, approved >>

(* An I/O error, which returns at once, or the end of the process.         *)
Fault(i) ==
  /\ Running(i)
  /\ faults < MaxFaults
  /\ faults' = faults + 1
  /\ call' = [call EXCEPT ![i].pc = "idle", ![i].handle = Closed,
                          ![i].result = "fault"]
  /\ UNCHANGED << disk, spawner, ran, approved, shared, calls >>

CallStep(i) ==
  \/ Open(i)
  \/ Write(i)
  \/ Check(i)
  \/ Rename(i)
  \/ Confirm(i)

-----------------------------------------------------------------------------
(***************************************************************************)
(* The supervisor starts the engine: discover_pack() reads the manifest    *)
(* and hashes the binary, then the child is executed by its path.          *)
(***************************************************************************)
kept == << disk, call, approved, shared, calls, faults >>

ReadManifest ==
  /\ spawner.pc = "idle"
  /\ disk[Manifest] \in Versions
  /\ spawner' = [pc |-> "hash", want |-> disk[Manifest]]
  /\ UNCHANGED << kept, ran >>

HashBinary ==
  /\ spawner.pc = "hash"
  /\ spawner' = IF disk[Binary] = spawner.want
                  THEN [spawner EXCEPT !.pc = "spawn"]
                  ELSE [pc |-> "idle", want |-> Missing]
  /\ UNCHANGED << kept, ran >>

Spawn ==
  /\ spawner.pc = "spawn"
  /\ spawner' = [pc |-> "idle", want |-> Missing]
  /\ ran' = IF disk[Binary] = Missing THEN ran ELSE disk[Binary]
  /\ UNCHANGED kept

SpawnerStep == ReadManifest \/ HashBinary \/ Spawn

Next ==
  \/ \E i \in Callers, bytes, expected \in Versions : Begin(i, bytes, expected)
  \/ \E i \in Callers : CallStep(i) \/ Fault(i)
  \/ SpawnerStep

Spec == Init /\ [][Next]_vars

-----------------------------------------------------------------------------
CallState ==
  [pc : {"idle", "open", "write", "check", "rename", "confirm"},
   file : Files, bytes : Versions, expected : Versions,
   handle : Names \union {Closed}, alone : BOOLEAN,
   result : {"none", "ok", "io", "mismatch", "refused", "fault"},
   before : Contents \X Contents]

(* Every variable stays within its type, and a call has a file open only   *)
(* between put()'s open and its write.                                     *)
TypeOK ==
  /\ disk \in [Names -> Contents]
  /\ call \in [Callers -> CallState]
  /\ \A i \in Callers : call[i].handle # Closed => call[i].pc = "write"
  /\ spawner \in [pc : {"idle", "hash", "spawn"},
                  want : Versions \union {Missing}]
  /\ ran \in Contents
  /\ approved \in SUBSET Versions
  /\ shared \in BOOLEAN
  /\ calls \in Nat /\ faults \in Nat

(***************************************************************************)
(* "The server does not replace or execute a mismatched binary": whatever  *)
(* dies between whatever steps, the binary in place and the binary that    *)
(* was executed, even one replaced between discovery and exec, are whole   *)
(* versions that were hashed and accepted.  The code keeps this promise as *)
(* long as no two calls install one version at once.                       *)
(***************************************************************************)
OnlyVerified == {disk[Binary], ran} \subseteq approved \union {Missing}

(* The same unless two calls for one version ran at once: they share the   *)
(* temporary file, and one renames what the other has just truncated.      *)
OnlyVerifiedUnlessShared == shared \/ OnlyVerified

(***************************************************************************)
(* Installing again repairs: whatever earlier calls left when they died or *)
(* crossed each other (a partial temporary file of the same name, a binary *)
(* without its manifest, files of two versions), a call that runs alone    *)
(* with the right bytes fails by a fault or a refusal only, and when it    *)
(* returns Ok discovery finds its binary.                                  *)
(***************************************************************************)
Returned(i, results) ==
  ~Running(i) /\ call[i].alone /\ call[i].result \in results

RerunRepairs ==
  \A i \in Callers :
    /\ Returned(i, {"ok"}) =>
         {disk[Binary], disk[Manifest]} = {call[i].expected}
    /\ Returned(i, {"io", "mismatch"}) => call[i].bytes # call[i].expected

(***************************************************************************)
(* "Hash mismatch or on_install_verify Abort: no rename": a call that is   *)
(* refused leaves both files as it found them.                             *)
(***************************************************************************)
RefusalKeepsPrevious ==
  \A i \in Callers :
    Returned(i, {"mismatch", "refused"}) =>
      << disk[Binary], disk[Manifest] >> = call[i].before

=============================================================================
