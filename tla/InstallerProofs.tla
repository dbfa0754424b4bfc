--------------------------- MODULE InstallerProofs ---------------------------
(***************************************************************************)
(* What holds of every installation, whatever the callers and versions.    *)
(* TypeOK is inductive.  OnlyVerified is not, nor does it hold when two    *)
(* calls for one version have run at once; until they have, each running   *)
(* call is the only one that touches its temporary file, so what it hashed *)
(* is what it renames.  RerunRepairs and RefusalKeepsPrevious need how far *)
(* a call that runs alone has come: nothing it meets is another call's     *)
(* doing, since a call that begins tells the others they are not alone.    *)
(***************************************************************************)
EXTENDS Installer, TLAPS

(* The names a call works with are names of the directory, and what it     *)
(* writes is a version.                                                    *)
LEMMA CallNames ==
  ASSUME TypeOK, NEW i \in Callers
  PROVE  /\ call[i] \in CallState
         /\ Tmp(i) \in Names /\ Dest(i) \in Names
         /\ Binary \in Names /\ Manifest \in Names
         /\ Payload(i) \in Versions
         /\ Versions \subseteq Contents
<1>1. call[i] \in CallState
  BY DEF TypeOK
<1>2. call[i].file \in Files /\ call[i].expected \in Versions
      /\ call[i].bytes \in Versions
  BY <1>1 DEF CallState
<1>. QED
  BY <1>1, <1>2 DEF Tmp, Dest, Names, Files, Final, Payload, Contents,
                    Binary, Manifest

(* A caller's own step that changes its record and no other's.             *)
LEMMA OwnRecord ==
  ASSUME TypeOK, NEW i \in Callers, NEW c \in CallState,
         c.handle # Closed => c.pc = "write",
         call' = [call EXCEPT ![i] = c]
  PROVE  /\ call' \in [Callers -> CallState]
         /\ \A j \in Callers : call'[j].handle # Closed => call'[j].pc = "write"
         /\ \A j \in Callers : j # i => call'[j] = call[j]
         /\ call'[i] = c
<1>1. call \in [Callers -> CallState]
  BY DEF TypeOK
<1>2. \A j \in Callers : call'[j] = IF j = i THEN c ELSE call[j]
  BY <1>1
<1>. HIDE DEF CallState
<1>3. call' \in [Callers -> CallState]
  BY <1>1
<1>. QED
  BY <1>2, <1>3 DEF TypeOK

(* The records that RemoveAndReturn and Rename write for all callers at    *)
(* once: a caller may lose its handle, none gains one, and only i moves on *)
Moved(j, handle, pc, how) ==
  /\ handle \in Names \union {Closed}
  /\ call[j].handle = Closed => handle = Closed
  /\ pc \in {"idle", "open", "write", "check", "rename", "confirm"}
  /\ how \in {"none", "ok", "io", "mismatch", "refused", "fault"}
  /\ call'[j] = [call[j] EXCEPT !.handle = handle, !.pc = pc, !.result = how]

(* Records that are moved one by one are records still.                    *)
LEMMA EveryRecord ==
  ASSUME TypeOK, NEW i \in Callers, call[i].handle = Closed,
         call' = [j \in Callers |-> call'[j]],
         \A j \in Callers : \E handle, pc, how :
           Moved(j, handle, pc, how) /\ (j # i => pc = call[j].pc)
  PROVE  /\ call' \in [Callers -> CallState]
         /\ \A j \in Callers : call'[j].handle # Closed => call'[j].pc = "write"
<1>1. ASSUME NEW j \in Callers
      PROVE  /\ call'[j] \in CallState
             /\ call'[j].handle # Closed => call'[j].pc = "write"
  <2>1. PICK handle, pc, how :
          Moved(j, handle, pc, how) /\ (j # i => pc = call[j].pc)
    OBVIOUS
  <2>2. /\ call[j] \in CallState
        /\ call[j].handle # Closed => call[j].pc = "write"
    BY DEF TypeOK
  <2>3. /\ call'[j] \in CallState
        /\ call'[j].handle = handle /\ call'[j].pc = pc
    BY <2>1, <2>2 DEF Moved, CallState
  <2>. QED
    BY <2>1, <2>2, <2>3 DEF Moved
<1>. HIDE DEF CallState
<1>. QED
  BY <1>1

(* An installation starts in a typed state.                                *)
LEMMA InitTypeOK == Init => TypeOK
<1>. SUFFICES ASSUME Init  PROVE TypeOK
  OBVIOUS
<1>1. PICK v \in Versions : call = [i \in Callers |-> Idle(v)]
  BY DEF Init
<1>2. Idle(v) \in CallState /\ Idle(v).handle = Closed
  BY DEF Idle, CallState, Contents, Files
<1>3. PICK w \in Versions \union {Missing} :
        /\ disk = [n \in Names |-> IF n[2] = Final THEN w ELSE Missing]
        /\ approved = {w} \ {Missing}
  BY DEF Init
<1>4. disk \in [Names -> Contents] /\ approved \in SUBSET Versions
  BY <1>3 DEF Contents
<1>5. call \in [Callers -> CallState] /\ \A i \in Callers : call[i].handle = Closed
  BY <1>1, <1>2
<1>. QED
  BY <1>4, <1>5 DEF Init, TypeOK, Contents

(***************************************************************************)
(* The steps of a call: what each does to the disk and to the record of    *)
(* its caller, in typed form.                                              *)
(***************************************************************************)
LEMMA CallStepTypeOK ==
  ASSUME TypeOK, NEW i \in Callers, CallStep(i)
  PROVE  TypeOK'
<1>1. /\ call[i] \in CallState /\ Tmp(i) \in Names /\ Dest(i) \in Names
      /\ Payload(i) \in Versions /\ Versions \subseteq Contents
      /\ {Partial, Missing} \subseteq Contents
      /\ call[i].expected \in Versions
  BY CallNames DEF Contents, CallState
<1>2. /\ disk \in [Names -> Contents] /\ call \in [Callers -> CallState]
      /\ call[i].handle # Closed => call[i].pc = "write"
  BY DEF TypeOK
<1>3. UNCHANGED rest
  BY DEF CallStep, Open, Write, Check, Rename, Confirm
<1>4. SUFFICES /\ disk' \in [Names -> Contents]
               /\ call' \in [Callers -> CallState]
               /\ \A j \in Callers :
                    call'[j].handle # Closed => call'[j].pc = "write"
               /\ approved' \in SUBSET Versions
  BY <1>3 DEF TypeOK, rest
<1>5. ASSUME NEW pc \in {"idle", "open", "check", "rename", "confirm"},
             NEW how \in {"none", "ok", "io", "mismatch", "refused", "fault"},
             NEW file \in Files,
             call' = [call EXCEPT ![i] = [call[i] EXCEPT
                       !.pc = pc, !.handle = Closed, !.result = how, !.file = file]]
      PROVE  /\ call' \in [Callers -> CallState]
             /\ \A j \in Callers :
                  call'[j].handle # Closed => call'[j].pc = "write"
  <2>. DEFINE c == [call[i] EXCEPT !.pc = pc, !.handle = Closed,
                                   !.result = how, !.file = file]
  <2>1. c \in CallState /\ c.handle = Closed
    BY <1>1 DEF CallState
  <2>2. call' = [call EXCEPT ![i] = c]
    BY <1>5
  <2>. HIDE DEF c
  <2>. QED
    BY <2>1, <2>2, OwnRecord
<1>6. CASE Open(i)
  <2>. DEFINE c == [call[i] EXCEPT !.pc = "write", !.handle = Tmp(i)]
  <2>1. c \in CallState /\ c.pc = "write"
    BY <1>1 DEF CallState
  <2>2. call' = [call EXCEPT ![i] = c]
    BY <1>2, <1>6 DEF Open
  <2>3. disk' \in [Names -> Contents]
    BY <1>1, <1>2, <1>6 DEF Open
  <2>. HIDE DEF c
  <2>. QED
    BY <1>6, <2>1, <2>2, <2>3, OwnRecord DEF Open, TypeOK
<1>7. CASE Write(i)
  <2>1. disk' \in [Names -> Contents]
    <3>1. call[i].handle \in Names \union {Closed}
      BY <1>1 DEF CallState
    <3>. QED
      BY <1>1, <1>2, <1>7, <3>1 DEF Write
  <2>2. call' = [call EXCEPT ![i] = [call[i] EXCEPT
                  !.pc = "check", !.handle = Closed,
                  !.result = call[i].result, !.file = call[i].file]]
    BY <1>1, <1>2, <1>7 DEF Write, CallState
  <2>3. call[i].result \in {"none", "ok", "io", "mismatch", "refused", "fault"}
        /\ call[i].file \in Files
    BY <1>1 DEF CallState
  <2>4. /\ call' \in [Callers -> CallState]
        /\ \A j \in Callers : call'[j].handle # Closed => call'[j].pc = "write"
    BY <1>5, <2>2, <2>3
  <2>. QED
    BY <1>7, <2>1, <2>4 DEF Write, TypeOK
<1>9. ASSUME call[i].pc # "write", NEW pc \in {"check", "rename", "confirm"}, Goto(i, pc)
      PROVE  /\ call' \in [Callers -> CallState]
             /\ \A j \in Callers :
                  call'[j].handle # Closed => call'[j].pc = "write"
  <2>1. call' = [call EXCEPT ![i] = [call[i] EXCEPT
                  !.pc = pc, !.handle = Closed,
                  !.result = call[i].result, !.file = call[i].file]]
    BY <1>1, <1>2, <1>9 DEF Goto, CallState
  <2>2. call[i].result \in {"none", "ok", "io", "mismatch", "refused", "fault"}
        /\ call[i].file \in Files
    BY <1>1 DEF CallState
  <2>. QED
    BY <1>5, <2>1, <2>2
<1>10. ASSUME call[i].pc # "write", NEW how \in {"ok", "io", "mismatch"}, Return(i, how)
       PROVE  /\ call' \in [Callers -> CallState]
              /\ \A j \in Callers :
                   call'[j].handle # Closed => call'[j].pc = "write"
  <2>1. call' = [call EXCEPT ![i] = [call[i] EXCEPT
                  !.pc = "idle", !.handle = Closed,
                  !.result = how, !.file = call[i].file]]
    BY <1>1, <1>2, <1>10 DEF Return, CallState
  <2>2. call[i].file \in Files
    BY <1>1 DEF CallState
  <2>. QED
    BY <1>5, <2>1, <2>2
<1>11. ASSUME call[i].pc # "write", NEW name \in Names,
              NEW how \in {"mismatch", "refused"}, RemoveAndReturn(i, name, how)
       PROVE  /\ disk' \in [Names -> Contents]
              /\ call' \in [Callers -> CallState]
              /\ \A j \in Callers :
                   call'[j].handle # Closed => call'[j].pc = "write"
  <2>1. ASSUME NEW j \in Callers
        PROVE  \E handle, pc, done :
                 Moved(j, handle, pc, done) /\ (j # i => pc = call[j].pc)
    <3>. DEFINE handle == IF call[j].handle = name THEN Closed ELSE call[j].handle
                pc     == IF j = i THEN "idle" ELSE call[j].pc
                done   == IF j = i THEN how ELSE call[j].result
    <3>1. call[j] \in CallState
      BY <1>2
    <3>2. call'[j] = [call[j] EXCEPT !.handle = handle, !.pc = pc, !.result = done]
      BY <1>11 DEF RemoveAndReturn
    <3>3. Moved(j, handle, pc, done)
      BY <3>1, <3>2 DEF Moved, CallState
    <3>4. j # i => pc = call[j].pc
      OBVIOUS
    <3>. HIDE DEF handle, pc, done
    <3>. QED
      BY <3>3, <3>4
  <2>2. call[i].handle = Closed
    BY <1>2, <1>11
  <2>3. disk' \in [Names -> Contents]
    BY <1>1, <1>2, <1>11 DEF RemoveAndReturn
  <2>4. call' = [j \in Callers |-> call'[j]]
    BY <1>11 DEF RemoveAndReturn
  <2>. QED
    BY <2>1, <2>2, <2>3, <2>4, EveryRecord
<1>12. CASE Check(i)
  <2>1. call[i].pc # "write"
    BY <1>12 DEF Check
  <2>2. CASE Return(i, "io") /\ UNCHANGED << disk, approved >>
    BY <1>2, <1>10, <2>1, <2>2 DEF TypeOK
  <2>3. CASE RemoveAndReturn(i, Tmp(i), "mismatch") /\ UNCHANGED approved
    BY <1>1, <1>11, <2>1, <2>3 DEF TypeOK
  <2>4. CASE /\ Goto(i, "rename")
             /\ approved' = approved \union {call[i].expected}
             /\ UNCHANGED disk
    BY <1>1, <1>2, <1>9, <2>1, <2>4 DEF TypeOK
  <2>5. CASE RemoveAndReturn(i, Tmp(i), "refused") /\ UNCHANGED approved
    BY <1>1, <1>11, <2>1, <2>5 DEF TypeOK
  <2>. QED
    BY <1>12, <2>2, <2>3, <2>4, <2>5 DEF Check
<1>13. CASE Rename(i)
  <2>1. call[i].pc # "write" /\ approved' = approved
    BY <1>13 DEF Rename
  <2>2. CASE Return(i, "io") /\ UNCHANGED disk
    BY <1>2, <1>10, <2>1, <2>2 DEF TypeOK
  <2>3. CASE disk[Tmp(i)] # Missing
    <3>1. ASSUME NEW j \in Callers
          PROVE  \E handle, pc, how :
                   Moved(j, handle, pc, how) /\ (j # i => pc = call[j].pc)
      <4>. DEFINE old    == call[j].handle
                  handle == IF old = Tmp(i) THEN Dest(i)
                            ELSE IF old = Dest(i) THEN Closed ELSE old
                  pc     == IF j = i THEN "confirm" ELSE call[j].pc
                  how    == call[j].result
      <4>1. call[j] \in CallState
        BY <1>2
      <4>2. call'[j] = [call[j] EXCEPT !.handle = handle, !.pc = pc, !.result = how]
        <5>1. call'[j] = [call[j] EXCEPT !.handle = handle, !.pc = pc]
          BY <1>13, <2>3 DEF Rename
        <5>. HIDE DEF handle, pc
        <5>. QED
          BY <4>1, <5>1 DEF CallState
      <4>3. /\ handle \in Names \union {Closed}
            /\ old = Closed => handle = Closed
        <5>1. old \in Names \union {Closed}
          BY <4>1 DEF CallState
        <5>2. Closed # Tmp(i) /\ Closed # Dest(i)
          BY DEF Closed, Tmp, Dest
        <5>. HIDE DEF old
        <5>. QED
          BY <1>1, <5>1, <5>2
      <4>4. Moved(j, handle, pc, how)
        <5>. HIDE DEF handle
        <5>. QED
          BY <4>1, <4>2, <4>3 DEF Moved, CallState
      <4>5. j # i => pc = call[j].pc
        OBVIOUS
      <4>. HIDE DEF handle, pc, how
      <4>. QED
        BY <4>4, <4>5
    <3>4. call[i].handle = Closed
      BY <1>2, <2>1
    <3>5. disk' \in [Names -> Contents]
      BY <1>1, <1>2, <1>13, <2>3 DEF Rename
    <3>6. call' = [j \in Callers |-> call'[j]]
      BY <1>13, <2>3 DEF Rename
    <3>7. /\ call' \in [Callers -> CallState]
          /\ \A j \in Callers : call'[j].handle # Closed => call'[j].pc = "write"
      BY <3>1, <3>4, <3>6, EveryRecord
    <3>. QED
      BY <2>1, <3>5, <3>7 DEF TypeOK
  <2>. QED
    BY <1>13, <2>2, <2>3 DEF Rename
<1>14. CASE Confirm(i)
  <2>1. call[i].pc # "write" /\ approved' = approved
    BY <1>14 DEF Confirm
  <2>2. CASE Return(i, "io") /\ UNCHANGED disk
    BY <1>2, <1>10, <2>1, <2>2 DEF TypeOK
  <2>3. CASE RemoveAndReturn(i, Dest(i), "mismatch")
    BY <1>1, <1>11, <2>1, <2>3 DEF TypeOK
  <2>4. CASE Return(i, "ok") /\ UNCHANGED disk
    BY <1>2, <1>10, <2>1, <2>4 DEF TypeOK
  <2>5. CASE /\ call' = [call EXCEPT ![i].pc = "open", ![i].file = "manifest"]
             /\ UNCHANGED disk
    <3>1. call' = [call EXCEPT ![i] = [call[i] EXCEPT
                    !.pc = "open", !.handle = Closed,
                    !.result = call[i].result, !.file = "manifest"]]
      BY <1>1, <1>2, <2>1, <2>5 DEF CallState
    <3>2. call[i].result \in {"none", "ok", "io", "mismatch", "refused", "fault"}
          /\ "manifest" \in Files
      BY <1>1 DEF CallState, Files
    <3>3. /\ call' \in [Callers -> CallState]
          /\ \A j \in Callers : call'[j].handle # Closed => call'[j].pc = "write"
      BY <1>5, <3>1, <3>2
    <3>. QED
      BY <1>2, <2>1, <2>5, <3>3 DEF TypeOK
  <2>. QED
    BY <1>14, <2>2, <2>3, <2>4, <2>5 DEF Confirm
<1>. QED
  BY <1>6, <1>7, <1>12, <1>13, <1>14 DEF CallStep

(* The start of a call gives the caller a fresh record, and the others may *)
(* learn only that they are not alone.                                     *)
LEMMA BeginTypeOK ==
  ASSUME TypeOK, NEW i \in Callers, NEW bytes \in Versions, NEW expected \in Versions,
         Begin(i, bytes, expected)
  PROVE  TypeOK'
<1>. DEFINE new == call'[i]
<1>1. /\ disk \in [Names -> Contents] /\ call \in [Callers -> CallState]
      /\ Binary \in Names /\ Manifest \in Names
  BY CallNames DEF TypeOK
<1>2. \A j \in Callers : j # i => call'[j] = [call[j] EXCEPT !.alone = FALSE]
  BY DEF Begin
<1>3. call'[i] = [Idle(bytes) EXCEPT !.pc = "open", !.expected = expected,
                    !.alone = \A k \in Callers : ~Running(k),
                    !.before = << disk[Binary], disk[Manifest] >>]
  BY DEF Begin
<1>4. call'[i] \in CallState /\ call'[i].handle = Closed
  <2>. DEFINE quiet == \A k \in Callers : ~Running(k)
              found == << disk[Binary], disk[Manifest] >>
  <2>1. quiet \in BOOLEAN /\ found \in Contents \X Contents
    BY <1>1
  <2>2. call'[i] = [Idle(bytes) EXCEPT !.pc = "open", !.expected = expected,
                                       !.alone = quiet, !.before = found]
    BY <1>3
  <2>. HIDE DEF quiet, found
  <2>. QED
    BY <2>1, <2>2 DEF Idle, CallState, Files
<1>5. ASSUME NEW j \in Callers
      PROVE  /\ call'[j] \in CallState
             /\ call'[j].handle # Closed => call'[j].pc = "write"
  <2>1. CASE j = i
    BY <1>4, <2>1
  <2>2. CASE j # i
    <3>1. call[j] \in CallState /\ (call[j].handle # Closed => call[j].pc = "write")
      BY DEF TypeOK
    <3>. DEFINE no == FALSE
    <3>2. no \in BOOLEAN /\ call'[j] = [call[j] EXCEPT !.alone = no]
      BY <1>2, <2>2
    <3>. HIDE DEF no
    <3>. QED
      BY <3>1, <3>2 DEF CallState
  <2>. QED
    BY <2>1, <2>2
<1>6. call' \in [Callers -> CallState]
  <2>1. call' = [j \in Callers |-> call'[j]]
    BY DEF Begin
  <2>. QED
    BY <1>5, <2>1
<1>7. shared' \in BOOLEAN /\ calls' \in Nat
  <2>. DEFINE clash == \E j \in Callers :
                         Running(j) /\ call[j].expected = expected
  <2>1. shared' = (shared \/ clash)
    BY DEF Begin
  <2>. HIDE DEF clash
  <2>2. shared' \in BOOLEAN
    BY <2>1, Zenon
  <2>3. calls \in Nat /\ calls' = calls + 1
    BY DEF Begin, TypeOK
  <2>4. calls' \in Nat
    BY <2>3
  <2>. QED
    BY <2>2, <2>4, Zenon
<1>. QED
  BY <1>5, <1>6, <1>7 DEF Begin, TypeOK

(* Every step keeps every variable within its type.                        *)
LEMMA NextTypeOK ==
  ASSUME TypeOK, [Next]_vars
  PROVE  TypeOK'
<1>1. ASSUME NEW i \in Callers, NEW bytes \in Versions, NEW expected \in Versions,
             Begin(i, bytes, expected)
      PROVE  TypeOK'
  BY <1>1, BeginTypeOK
<1>2. ASSUME NEW i \in Callers, CallStep(i)
      PROVE  TypeOK'
  BY <1>2, CallStepTypeOK
<1>3. ASSUME NEW i \in Callers, Fault(i)
      PROVE  TypeOK'
  <2>. DEFINE c == [call[i] EXCEPT !.pc = "idle", !.handle = Closed, !.result = "fault"]
  <2>1. call[i] \in CallState /\ call \in [Callers -> CallState]
    BY DEF TypeOK
  <2>2. c \in CallState /\ c.handle = Closed
    BY <2>1 DEF CallState
  <2>3. call' = [call EXCEPT ![i] = c]
    BY <1>3, <2>1 DEF Fault
  <2>. HIDE DEF c
  <2>4. /\ call' \in [Callers -> CallState]
        /\ \A j \in Callers : call'[j].handle # Closed => call'[j].pc = "write"
    BY <2>2, <2>3, OwnRecord
  <2>. QED
    BY <1>3, <2>4 DEF Fault, TypeOK
<1>4. CASE SpawnerStep
  <2>1. UNCHANGED kept /\ disk[Binary] \in Contents
    BY <1>4, CallNames DEF SpawnerStep, ReadManifest, HashBinary, Spawn, TypeOK, Names, Binary, Files
  <2>2. spawner' \in [pc : {"idle", "hash", "spawn"}, want : Versions \union {Missing}]
        /\ ran' \in Contents
    BY <1>4, <2>1 DEF SpawnerStep, ReadManifest, HashBinary, Spawn, TypeOK
  <2>. QED
    BY <2>1, <2>2 DEF kept, TypeOK
<1>5. CASE UNCHANGED vars
  BY <1>5 DEF vars, TypeOK
<1>. QED
  BY <1>1, <1>2, <1>3, <1>4, <1>5 DEF Next

(***************************************************************************)
(* Names, contents and records keep their types, and only a call between   *)
(* put()'s open and its write has a file open, whatever dies meanwhile.    *)
(***************************************************************************)
THEOREM InstallerTypeCorrect == Spec => []TypeOK
<1>1. Init => TypeOK
  BY InitTypeOK
<1>2. TypeOK /\ [Next]_vars => TypeOK'
  BY NextTypeOK
<1>. QED
  BY <1>1, <1>2, PTL DEF Spec

-----------------------------------------------------------------------------
(***************************************************************************)
(* The inductive invariant behind OnlyVerifiedUnlessShared.  Until two     *)
(* calls for one version have run at once: running calls expect different  *)
(* versions, so their temporary files differ; an open handle is the        *)
(* caller's own temporary file, which nobody has renamed; and a binary     *)
(* that was hashed is still what was hashed when it is renamed.            *)
(***************************************************************************)
Distinct ==
  \A i, j \in Callers :
    i # j /\ Running(i) /\ Running(j) => call[i].expected # call[j].expected

OwnHandle == \A i \in Callers : call[i].handle \in {Closed, Tmp(i)}

StillChecked ==
  \A i \in Callers :
    call[i].pc = "rename" /\ call[i].file = "binary" =>
      disk[Tmp(i)] = call[i].expected /\ call[i].expected \in approved

Alone == Distinct /\ OwnHandle /\ StillChecked /\ OnlyVerified

Inv == TypeOK /\ (shared \/ Alone)

(* A fresh prefix or a complete pack satisfies it.                         *)
LEMMA InitInv == Init => Inv
<1>. SUFFICES ASSUME Init  PROVE Inv
  OBVIOUS
<1>1. PICK v \in Versions : call = [i \in Callers |-> Idle(v)]
  BY DEF Init
<1>2. \A i \in Callers : call[i].pc = "idle" /\ call[i].handle = Closed
  BY <1>1 DEF Idle
<1>3. Distinct /\ OwnHandle /\ StillChecked
  BY <1>2 DEF Distinct, OwnHandle, StillChecked, Running
<1>4. OnlyVerified
  <2>1. Binary \in Names /\ Binary[2] = Final
    BY DEF Binary, Names, Files
  <2>. QED
    BY <2>1 DEF Init, OnlyVerified
<1>. QED
  BY <1>3, <1>4, InitTypeOK DEF Inv, Alone

(* A call that begins and meets no other for its version.                  *)
LEMMA BeginAlone ==
  ASSUME TypeOK, TypeOK', Alone, NEW i \in Callers,
         NEW bytes \in Versions, NEW expected \in Versions,
         Begin(i, bytes, expected), ~shared'
  PROVE  Alone'
<1>1. /\ \A j \in Callers : j # i => call'[j] = [call[j] EXCEPT !.alone = FALSE]
      /\ call'[i].pc = "open" /\ call'[i].expected = expected
      /\ call'[i].handle = Closed
      /\ UNCHANGED << disk, ran, approved >>
  BY DEF Begin, Idle
<1>2. \A j \in Callers : j # i =>
        /\ call'[j].pc = call[j].pc /\ call'[j].expected = call[j].expected
        /\ call'[j].file = call[j].file /\ call'[j].handle = call[j].handle
  BY <1>1 DEF TypeOK, CallState
<1>3. \A j \in Callers : Running(j) => call[j].expected # expected
  BY DEF Begin
<1>4. Distinct'
  BY <1>1, <1>2, <1>3 DEF Alone, Distinct, Running
<1>5. OwnHandle'
  BY <1>1, <1>2 DEF Alone, OwnHandle, Tmp
<1>6. StillChecked'
  BY <1>1, <1>2 DEF Alone, StillChecked, Tmp
<1>7. OnlyVerified'
  BY <1>1 DEF Alone, OnlyVerified
<1>. QED
  BY <1>4, <1>5, <1>6, <1>7 DEF Alone

(* The temporary file of a running call is no other call's, and no         *)
(* destination.                                                            *)
LEMMA OwnTmp ==
  ASSUME TypeOK, Distinct, NEW i \in Callers, NEW j \in Callers,
         i # j, Running(i), Running(j)
  PROVE  Tmp(i) # Tmp(j)
BY DEF Distinct, Tmp

(* No call's temporary file is an installed one.                           *)
LEMMA TmpIsNotFinal ==
  ASSUME TypeOK, NEW i \in Callers, NEW j \in Callers
  PROVE  Tmp(i) # Dest(j) /\ Tmp(i) # Binary /\ (Dest(j) = Binary <=> call[j].file = "binary")
<1>1. call[i].expected # Final
  BY CallNames, InstallerAssumption DEF CallState, Final
<1>. QED
  BY <1>1 DEF Tmp, Dest, Binary

(***************************************************************************)
(* A step of one call keeps Alone if it leaves the others' records and     *)
(* temporary files, and what it does to its own is in order.               *)
(***************************************************************************)
Own(i) ==
  /\ call'[i].expected = call[i].expected
  /\ call'[i].handle \in {Closed, << call'[i].file, call[i].expected >>}
  /\ call'[i].pc = "rename" /\ call'[i].file = "binary" =>
       /\ disk'[<< "binary", call[i].expected >>] = call[i].expected
       /\ call[i].expected \in approved'

Others(i) ==
  \A j \in Callers : j # i =>
    /\ call'[j].pc = call[j].pc /\ call'[j].expected = call[j].expected
    /\ call'[j].file = call[j].file /\ call'[j].handle \in {Closed, call[j].handle}
    /\ Running(j) => disk'[Tmp(j)] = disk[Tmp(j)]

(* A step of one call disturbs no other.                                   *)
LEMMA StepAlone ==
  ASSUME TypeOK, Alone, NEW i \in Callers, Running(i), Own(i), Others(i),
         approved \subseteq approved', OnlyVerified'
  PROVE  Alone'
<1>1. Distinct'
  BY DEF Alone, Distinct, Running, Own, Others
<1>2. OwnHandle'
  <2>. SUFFICES ASSUME NEW j \in Callers
                PROVE  call'[j].handle \in {Closed, Tmp(j)'}
    BY DEF OwnHandle
  <2>1. CASE j = i
    BY <2>1 DEF Own, Tmp
  <2>2. CASE j # i
    <3>1. Tmp(j)' = Tmp(j)
      BY <2>2 DEF Others, Tmp
    <3>. QED
      BY <2>2, <3>1 DEF Alone, OwnHandle, Others
  <2>. QED
    BY <2>1, <2>2
<1>3. StillChecked'
  <2>. SUFFICES ASSUME NEW j \in Callers, call'[j].pc = "rename",
                       call'[j].file = "binary"
                PROVE  disk'[Tmp(j)'] = call'[j].expected /\ call'[j].expected \in approved'
    BY DEF StillChecked
  <2>1. CASE j = i
    BY <2>1 DEF Own, Tmp
  <2>2. CASE j # i
    <3>1. /\ Tmp(j)' = Tmp(j) /\ call[j].pc = "rename" /\ call[j].file = "binary"
          /\ call'[j].expected = call[j].expected /\ Running(j)
      BY <2>2 DEF Others, Tmp, Running
    <3>2. disk[Tmp(j)] = call[j].expected /\ call[j].expected \in approved
      BY <3>1 DEF Alone, StillChecked
    <3>. QED
      BY <2>2, <3>1, <3>2 DEF Others
  <2>. QED
    BY <2>1, <2>2
<1>. QED
  BY <1>1, <1>2, <1>3 DEF Alone

(* What Goto and Return leave of the records.                              *)
LEMMA OneMoves ==
  ASSUME TypeOK, NEW i \in Callers, NEW pc, NEW how,
         \/ Goto(i, pc)
         \/ pc = "idle" /\ Return(i, how)
  PROVE  /\ call'[i].pc = pc
         /\ call'[i].expected = call[i].expected /\ call'[i].file = call[i].file
         /\ call'[i].handle = call[i].handle
         /\ \A j \in Callers : j # i => call'[j] = call[j]
BY DEF Goto, Return, TypeOK, CallState

(* What RemoveAndReturn leaves of the records and the disk.                *)
LEMMA RemoveMoves ==
  ASSUME TypeOK, NEW i \in Callers, NEW name \in Names, NEW how,
         RemoveAndReturn(i, name, how)
  PROVE  /\ call'[i].pc = "idle" /\ call'[i].expected = call[i].expected
         /\ call'[i].file = call[i].file
         /\ \A j \in Callers : j # i =>
              /\ call'[j].pc = call[j].pc /\ call'[j].expected = call[j].expected
              /\ call'[j].file = call[j].file
         /\ \A j \in Callers : call'[j].handle \in {Closed, call[j].handle}
         /\ disk'[name] = Missing
         /\ \A n \in Names \ {name} : disk'[n] = disk[n]
<1>1. ASSUME NEW j \in Callers
      PROVE  /\ call'[j].pc = IF j = i THEN "idle" ELSE call[j].pc
             /\ call'[j].expected = call[j].expected
             /\ call'[j].file = call[j].file
             /\ call'[j].handle \in {Closed, call[j].handle}
  <2>. DEFINE handle == IF call[j].handle = name THEN Closed ELSE call[j].handle
              pc     == IF j = i THEN "idle" ELSE call[j].pc
              done   == IF j = i THEN how ELSE call[j].result
  <2>1. call[j] \in CallState
    BY DEF TypeOK
  <2>2. call'[j] = [call[j] EXCEPT !.handle = handle, !.pc = pc, !.result = done]
    BY DEF RemoveAndReturn
  <2>3. handle \in {Closed, call[j].handle}
    OBVIOUS
  <2>4. pc = IF j = i THEN "idle" ELSE call[j].pc
    OBVIOUS
  <2>. HIDE DEF handle, pc, done
  <2>. QED
    BY <2>1, <2>2, <2>3, <2>4 DEF CallState
<1>2. disk' = [disk EXCEPT ![name] = Missing] /\ disk \in [Names -> Contents]
  BY DEF RemoveAndReturn, TypeOK
<1>3. /\ disk'[name] = Missing
      /\ \A n \in Names \ {name} : disk'[n] = disk[n]
  BY <1>2
<1>. QED
  BY <1>1, <1>3

(* What a rename that finds its file leaves of the records and the disk.   *)
LEMMA RenameMoves ==
  ASSUME TypeOK, OwnHandle, Distinct, NEW i \in Callers, Rename(i),
         disk[Tmp(i)] # Missing
  PROVE  /\ call'[i].pc = "confirm" /\ call'[i].expected = call[i].expected
         /\ call'[i].file = call[i].file /\ call'[i].handle = Closed
         /\ \A j \in Callers : j # i =>
              /\ call'[j].pc = call[j].pc /\ call'[j].expected = call[j].expected
              /\ call'[j].file = call[j].file /\ call'[j].handle = call[j].handle
         /\ disk'[Dest(i)] = disk[Tmp(i)]
         /\ \A n \in Names \ {Tmp(i), Dest(i)} : disk'[n] = disk[n]
<1>1. /\ Tmp(i) \in Names /\ Dest(i) \in Names /\ disk \in [Names -> Contents]
      /\ call[i].pc = "rename" /\ Running(i) /\ Tmp(i) # Dest(i)
  BY CallNames, TmpIsNotFinal DEF TypeOK, Rename, Running
<1>2. ASSUME NEW j \in Callers
      PROVE  /\ call'[j].pc = IF j = i THEN "confirm" ELSE call[j].pc
             /\ call'[j].expected = call[j].expected
             /\ call'[j].file = call[j].file
             /\ call'[j].handle = call[j].handle
  <2>. DEFINE old    == call[j].handle
              handle == IF old = Tmp(i) THEN Dest(i)
                        ELSE IF old = Dest(i) THEN Closed ELSE old
              pc     == IF j = i THEN "confirm" ELSE call[j].pc
  <2>1. call[j] \in CallState
    BY DEF TypeOK
  <2>2. call'[j] = [call[j] EXCEPT !.handle = handle, !.pc = pc]
    BY <1>1 DEF Rename
  <2>3. old # Tmp(i) /\ old # Dest(i)
    <3>1. Closed # Tmp(i) /\ Closed # Dest(i)
      BY DEF Closed, Tmp, Dest
    <3>2. CASE old = Closed
      BY <3>1, <3>2
    <3>3. CASE old # Closed
      <4>1. old = Tmp(j) /\ call[j].pc = "write"
        BY <3>3 DEF OwnHandle, TypeOK
      <4>2. Running(j) /\ j # i
        BY <1>1, <4>1 DEF Running
      <4>3. Tmp(i) # Tmp(j)
        BY <1>1, <4>2, OwnTmp
      <4>4. Tmp(j) # Dest(i)
        BY TmpIsNotFinal
      <4>. QED
        BY <4>1, <4>3, <4>4
    <3>. QED
      BY <3>2, <3>3
  <2>4. handle = call[j].handle
    BY <2>3
  <2>5. pc = IF j = i THEN "confirm" ELSE call[j].pc
    OBVIOUS
  <2>. HIDE DEF handle, pc, old
  <2>. QED
    BY <2>1, <2>2, <2>4, <2>5 DEF CallState
<1>3. call[i].handle = Closed
  BY <1>1 DEF TypeOK
<1>4. disk' = [disk EXCEPT ![Dest(i)] = disk[Tmp(i)], ![Tmp(i)] = Missing]
  BY <1>1 DEF Rename
<1>5. /\ disk'[Dest(i)] = disk[Tmp(i)]
      /\ \A n \in Names \ {Tmp(i), Dest(i)} : disk'[n] = disk[n]
  BY <1>1, <1>4
<1>. QED
  BY <1>2, <1>3, <1>5

(* Steps that touch no record but i's and, on the disk, only names that    *)
(* are no other running call's temporary file.                             *)
LEMMA OthersKept ==
  ASSUME TypeOK, Distinct, NEW i \in Callers, Running(i),
         \A j \in Callers : j # i =>
           /\ call'[j].pc = call[j].pc /\ call'[j].expected = call[j].expected
           /\ call'[j].file = call[j].file /\ call'[j].handle \in {Closed, call[j].handle},
         \A n \in Names \ {Tmp(i), Dest(i)} : disk'[n] = disk[n]
  PROVE  Others(i)
<1>. SUFFICES ASSUME NEW j \in Callers, j # i, Running(j)
              PROVE  disk'[Tmp(j)] = disk[Tmp(j)]
  BY DEF Others
<1>1. Tmp(j) \in Names /\ Tmp(j) # Tmp(i) /\ Tmp(j) # Dest(i)
  BY CallNames, OwnTmp, TmpIsNotFinal
<1>. QED
  BY <1>1
(* A step of a call that keeps its record's names.                         *)
LEMMA CallStepAlone ==
  ASSUME TypeOK, Alone, NEW i \in Callers, CallStep(i)
  PROVE  Alone'
<1>. DEFINE tmp == Tmp(i)
<1>1. /\ Running(i) /\ Distinct /\ OwnHandle /\ OnlyVerified
      /\ tmp \in Names /\ Dest(i) \in Names /\ disk \in [Names -> Contents]
      /\ Binary \in Names /\ Tmp(i) # Binary /\ ran' = ran
  BY CallNames, TmpIsNotFinal DEF CallStep, Open, Write, Check, Rename, Confirm,
     Running, Alone, TypeOK, rest
<1>2. call[i] \in CallState /\ (call[i].handle # Closed => call[i].pc = "write")
  BY DEF TypeOK
<1>3. ASSUME UNCHANGED approved, disk'[Binary] \in {disk[Binary], Missing}
      PROVE  OnlyVerified' /\ approved \subseteq approved'
  BY <1>1, <1>3 DEF OnlyVerified
<1>4. ASSUME NEW c, call' = [call EXCEPT ![i] = c], c.expected = call[i].expected,
             c.handle \in {Closed, << c.file, call[i].expected >>},
             c.pc = "rename" /\ c.file = "binary" =>
               /\ disk'[<< "binary", call[i].expected >>] = call[i].expected
               /\ call[i].expected \in approved',
             \A n \in Names \ {Tmp(i), Dest(i)} : disk'[n] = disk[n],
             OnlyVerified', approved \subseteq approved'
      PROVE  Alone'
  <2>1. call'[i] = c /\ \A j \in Callers : j # i => call'[j] = call[j]
    BY <1>4 DEF TypeOK
  <2>2. Own(i)
    BY <1>4, <2>1 DEF Own
  <2>3. Others(i)
    BY <1>1, <1>4, <2>1, OthersKept
  <2>. QED
    BY <1>1, <1>4, <2>2, <2>3, StepAlone
<1>5. ASSUME NEW name \in {Tmp(i), Dest(i)}, NEW how,
             RemoveAndReturn(i, name, how), UNCHANGED approved, call[i].pc # "write"
      PROVE  Alone'
  <2>1. name \in Names
    BY <1>1, <1>5
  <2>2. /\ call'[i].pc = "idle" /\ call'[i].expected = call[i].expected
        /\ \A j \in Callers : j # i =>
              /\ call'[j].pc = call[j].pc /\ call'[j].expected = call[j].expected
              /\ call'[j].file = call[j].file
        /\ \A j \in Callers : call'[j].handle \in {Closed, call[j].handle}
        /\ disk'[name] = Missing
        /\ \A n \in Names \ {name} : disk'[n] = disk[n]
    BY <1>5, <2>1, RemoveMoves
  <2>3. Own(i)
    BY <1>2, <1>5, <2>2 DEF Own
  <2>4. Others(i)
    BY <1>1, <1>5, <2>2, OthersKept
  <2>5. OnlyVerified' /\ approved \subseteq approved'
    BY <1>1, <1>3, <1>5, <2>2
  <2>. QED
    BY <1>1, <2>3, <2>4, <2>5, StepAlone
<1>6. ASSUME NEW how, Return(i, how), UNCHANGED << disk, approved >>, call[i].pc # "write"
      PROVE  Alone'
  <2>1. /\ call'[i].pc = "idle" /\ call'[i].expected = call[i].expected
        /\ call'[i].handle = Closed
        /\ \A j \in Callers : j # i => call'[j] = call[j]
    BY <1>2, <1>6, OneMoves
  <2>2. Own(i)
    BY <2>1 DEF Own
  <2>3. Others(i)
    BY <1>6, <2>1 DEF Others
  <2>. QED
    BY <1>1, <1>3, <1>6, <2>2, <2>3, StepAlone
<1>7. CASE Open(i)
  <2>. DEFINE c == [call[i] EXCEPT !.pc = "write", !.handle = Tmp(i)]
  <2>1. /\ call' = [call EXCEPT ![i] = c]
        /\ c.expected = call[i].expected /\ c.pc = "write"
        /\ c.handle = << c.file, call[i].expected >>
    BY <1>2, <1>7 DEF Open, TypeOK, CallState, Tmp
  <2>2. disk' = [disk EXCEPT ![Tmp(i)] = Partial] /\ approved' = approved
    BY <1>7 DEF Open
  <2>3. OnlyVerified' /\ approved \subseteq approved'
        /\ \A n \in Names \ {Tmp(i), Dest(i)} : disk'[n] = disk[n]
    BY <1>1, <1>3, <2>2
  <2>. HIDE DEF c
  <2>. QED
    BY <1>4, <2>1, <2>3
<1>8. CASE Write(i)
  <2>. DEFINE c == [call[i] EXCEPT !.pc = "check", !.handle = Closed]
  <2>1. /\ call' = [call EXCEPT ![i] = c]
        /\ c.expected = call[i].expected /\ c.pc = "check" /\ c.handle = Closed
    BY <1>2, <1>8 DEF Write, TypeOK, CallState
  <2>2. call[i].handle \in {Closed, Tmp(i)} /\ approved' = approved
    BY <1>1, <1>8 DEF OwnHandle, Write
  <2>3. /\ disk'[Binary] = disk[Binary]
        /\ \A n \in Names \ {Tmp(i), Dest(i)} : disk'[n] = disk[n]
    BY <1>1, <1>8, <2>2 DEF Write
  <2>4. OnlyVerified' /\ approved \subseteq approved'
    BY <1>3, <2>2, <2>3
  <2>. HIDE DEF c
  <2>. QED
    BY <1>4, <2>1, <2>3, <2>4
<1>9. CASE Check(i)
  <2>1. call[i].pc # "write"
    BY <1>9 DEF Check
  <2>2. CASE Return(i, "io") /\ UNCHANGED << disk, approved >>
    BY <1>6, <2>1, <2>2
  <2>3. CASE RemoveAndReturn(i, Tmp(i), "mismatch") /\ UNCHANGED approved
    BY <1>5, <2>1, <2>3
  <2>4. CASE RemoveAndReturn(i, Tmp(i), "refused") /\ UNCHANGED approved
    BY <1>5, <2>1, <2>4
  <2>5. CASE /\ disk[Tmp(i)] = call[i].expected
             /\ Goto(i, "rename")
             /\ approved' = approved \union {call[i].expected}
             /\ UNCHANGED disk
    <3>1. /\ call'[i].pc = "rename" /\ call'[i].expected = call[i].expected
          /\ call'[i].file = call[i].file /\ call'[i].handle = Closed
          /\ \A j \in Callers : j # i => call'[j] = call[j]
      BY <1>2, <2>1, <2>5, OneMoves
    <3>2. Own(i)
      BY <2>5, <3>1 DEF Own, Tmp
    <3>3. Others(i)
      BY <2>5, <3>1 DEF Others
    <3>4. OnlyVerified' /\ approved \subseteq approved'
      BY <1>1, <2>5 DEF OnlyVerified
    <3>. QED
      BY <1>1, <3>2, <3>3, <3>4, StepAlone
  <2>. QED
    BY <1>9, <2>2, <2>3, <2>4, <2>5 DEF Check
<1>10. CASE Rename(i)
  <2>1. call[i].pc # "write" /\ approved' = approved /\ call[i].pc = "rename"
    BY <1>10 DEF Rename
  <2>2. CASE Return(i, "io") /\ UNCHANGED disk
    BY <1>6, <2>1, <2>2
  <2>3. CASE disk[Tmp(i)] # Missing
    <3>1. /\ call'[i].pc = "confirm" /\ call'[i].expected = call[i].expected
          /\ call'[i].file = call[i].file /\ call'[i].handle = Closed
          /\ \A j \in Callers : j # i =>
               /\ call'[j].pc = call[j].pc /\ call'[j].expected = call[j].expected
               /\ call'[j].file = call[j].file /\ call'[j].handle = call[j].handle
          /\ disk'[Dest(i)] = disk[Tmp(i)]
          /\ \A n \in Names \ {Tmp(i), Dest(i)} : disk'[n] = disk[n]
      BY <1>1, <1>10, <2>3, RenameMoves
    <3>2. Own(i)
      BY <3>1 DEF Own
    <3>3. Others(i)
      BY <1>1, <3>1, OthersKept
    <3>4. disk'[Binary] \in approved \union {Missing}
      <4>1. CASE call[i].file = "binary"
        <5>1. Dest(i) = Binary
          BY <4>1, TmpIsNotFinal
        <5>2. disk[Tmp(i)] \in approved
          BY <2>1, <4>1 DEF Alone, StillChecked
        <5>. QED
          BY <3>1, <5>1, <5>2
      <4>2. CASE call[i].file # "binary"
        <5>1. Binary \notin {Tmp(i), Dest(i)}
          BY <4>2, TmpIsNotFinal
        <5>. QED
          BY <1>1, <3>1, <5>1 DEF OnlyVerified
      <4>. QED
        BY <4>1, <4>2
    <3>5. OnlyVerified' /\ approved \subseteq approved'
      BY <1>1, <2>1, <3>4 DEF OnlyVerified
    <3>. QED
      BY <1>1, <3>2, <3>3, <3>5, StepAlone
  <2>. QED
    BY <1>10, <2>2, <2>3 DEF Rename
<1>11. CASE Confirm(i)
  <2>1. call[i].pc # "write" /\ approved' = approved
    BY <1>11 DEF Confirm
  <2>2. CASE Return(i, "io") /\ UNCHANGED disk
    BY <1>6, <2>1, <2>2
  <2>3. CASE RemoveAndReturn(i, Dest(i), "mismatch")
    BY <1>5, <2>1, <2>3
  <2>4. CASE Return(i, "ok") /\ UNCHANGED disk
    BY <1>6, <2>1, <2>4
  <2>5. CASE /\ call' = [call EXCEPT ![i].pc = "open", ![i].file = "manifest"]
             /\ UNCHANGED disk
    <3>. DEFINE c == [call[i] EXCEPT !.pc = "open", !.file = "manifest"]
    <3>1. /\ call' = [call EXCEPT ![i] = c]
          /\ c.expected = call[i].expected /\ c.pc = "open" /\ c.handle = Closed
      BY <1>2, <2>1, <2>5 DEF TypeOK, CallState
    <3>2. OnlyVerified' /\ approved \subseteq approved'
      BY <1>3, <2>1, <2>5
    <3>. HIDE DEF c
    <3>. QED
      BY <1>4, <2>5, <3>1, <3>2
  <2>. QED
    BY <1>11, <2>2, <2>3, <2>4, <2>5 DEF Confirm
<1>. QED
  BY <1>7, <1>8, <1>9, <1>10, <1>11 DEF CallStep

(* A call that dies leaves its file and forgets its handle.                *)
LEMMA FaultAlone ==
  ASSUME TypeOK, Alone, NEW i \in Callers, Fault(i)
  PROVE  Alone'
<1>1. /\ call'[i].pc = "idle" /\ call'[i].expected = call[i].expected
      /\ call'[i].handle = Closed
      /\ \A j \in Callers : j # i => call'[j] = call[j]
      /\ Running(i) /\ UNCHANGED << disk, ran, approved >>
  BY DEF Fault, TypeOK, CallState
<1>2. Own(i) /\ Others(i)
  BY <1>1 DEF Own, Others
<1>3. OnlyVerified' /\ approved \subseteq approved'
  BY <1>1 DEF Alone, OnlyVerified
<1>. QED
  BY <1>1, <1>2, <1>3, StepAlone

(* What is executed is what is in place when exec opens it.                *)
LEMMA SpawnerAlone ==
  ASSUME Alone, SpawnerStep
  PROVE  Alone'
<1>1. UNCHANGED << disk, call, approved >> /\ ran' \in {ran, disk[Binary]}
  BY DEF SpawnerStep, ReadManifest, HashBinary, Spawn, kept
<1>2. OnlyVerified'
  BY <1>1 DEF Alone, OnlyVerified
<1>. QED
  BY <1>1, <1>2 DEF Alone, Distinct, OwnHandle, StillChecked, Running, Tmp

(* The invariant is inductive; once two calls have shared a version it     *)
(* promises the types only.                                                *)
LEMMA NextInv ==
  ASSUME Inv, [Next]_vars
  PROVE  Inv'
<1>1. TypeOK /\ TypeOK'
  BY NextTypeOK DEF Inv
<1>2. SUFFICES ASSUME ~shared'  PROVE Alone'
  BY <1>1 DEF Inv
<1>3. ASSUME ~shared  PROVE Alone
  BY <1>3 DEF Inv
<1>4. ASSUME NEW i \in Callers, NEW bytes \in Versions, NEW expected \in Versions,
             Begin(i, bytes, expected)
      PROVE  Alone'
  <2>1. ~shared
    BY <1>2, <1>4 DEF Begin
  <2>. QED
    BY <1>1, <1>2, <1>3, <1>4, <2>1, BeginAlone
<1>5. ASSUME NEW i \in Callers, CallStep(i)
      PROVE  Alone'
  <2>1. ~shared
    BY <1>2, <1>5 DEF CallStep, Open, Write, Check, Rename, Confirm, rest
  <2>. QED
    BY <1>1, <1>3, <1>5, <2>1, CallStepAlone
<1>6. ASSUME NEW i \in Callers, Fault(i)
      PROVE  Alone'
  BY <1>1, <1>2, <1>3, <1>6, FaultAlone DEF Fault
<1>7. CASE SpawnerStep
  <2>1. ~shared
    BY <1>2, <1>7 DEF SpawnerStep, ReadManifest, HashBinary, Spawn, kept
  <2>. QED
    BY <1>3, <1>7, <2>1, SpawnerAlone
<1>8. CASE UNCHANGED vars
  BY <1>2, <1>3, <1>8 DEF vars, Alone, Distinct, OwnHandle, StillChecked,
     OnlyVerified, Running, Tmp
<1>. QED
  BY <1>4, <1>5, <1>6, <1>7, <1>8 DEF Next

(***************************************************************************)
(* As long as no two calls for one version have run at once, the binary in *)
(* place and every binary that was executed are whole versions that were   *)
(* hashed and accepted, whatever fails or dies between whatever steps.     *)
(***************************************************************************)
THEOREM OnlyVerifiedHolds == Spec => []OnlyVerifiedUnlessShared
<1>1. Init => Inv
  BY InitInv
<1>2. Inv /\ [Next]_vars => Inv'
  BY NextInv
<1>3. Inv => OnlyVerifiedUnlessShared
  BY DEF Inv, Alone, OnlyVerifiedUnlessShared
<1>. QED
  BY <1>1, <1>2, <1>3, PTL DEF Spec

-----------------------------------------------------------------------------
(***************************************************************************)
(* How far a call that runs alone has come.  What it finds on the disk is  *)
(* then its own work: the temporary file it writes, hashes and renames,    *)
(* whatever was left under that name, and what it placed; until its binary *)
(* is in place both files are as it found them.                            *)
(***************************************************************************)
InPlace == << disk[Binary], disk[Manifest] >>

BinaryPlaced(i) == call[i].file = "manifest" \/ call[i].pc = "confirm"

Under(i) ==
  /\ ~BinaryPlaced(i) => InPlace = call[i].before
  /\ BinaryPlaced(i) => disk[Binary] = call[i].expected
  /\ call[i].pc = "write"   => call[i].handle = Tmp(i)
  /\ call[i].pc = "check"   => disk[Tmp(i)] = Payload(i)
  /\ call[i].pc = "rename"  => disk[Tmp(i)] = call[i].expected
  /\ call[i].pc = "confirm" => disk[Dest(i)] = call[i].expected

Ended(i) ==
  /\ call[i].result # "io"
  /\ call[i].result = "ok" => InPlace = << call[i].expected, call[i].expected >>
  /\ call[i].result = "mismatch" => call[i].bytes # call[i].expected
  /\ call[i].result \in {"mismatch", "refused"} => InPlace = call[i].before

Progress(i) ==
  call[i].alone =>
    /\ \A j \in Callers : j # i => ~Running(j)
    /\ Running(i) => Under(i)
    /\ ~Running(i) => Ended(i)

Repairs == \A i \in Callers : Progress(i)

(* No call runs before the first one begins.                               *)
LEMMA InitRepairs == Init => Repairs
<1>. SUFFICES ASSUME Init  PROVE Repairs
  OBVIOUS
<1>1. PICK v \in Versions : call = [i \in Callers |-> Idle(v)]
  BY DEF Init
<1>2. \A i \in Callers : ~call[i].alone
  BY <1>1 DEF Idle
<1>. QED
  BY <1>2 DEF Repairs, Progress

(* A call that begins learns whether it is alone, and the others that they *)
(* are not.                                                                *)
LEMMA BeginRepairs ==
  ASSUME TypeOK, NEW i \in Callers, NEW bytes \in Versions, NEW expected \in Versions,
         Begin(i, bytes, expected)
  PROVE  Repairs'
<1>1. /\ \A j \in Callers : j # i => call'[j] = [call[j] EXCEPT !.alone = FALSE]
      /\ disk' = disk
  BY DEF Begin
<1>2. ASSUME NEW j \in Callers, j # i
      PROVE  ~call'[j].alone /\ call'[j].pc = call[j].pc
  <2>1. PICK no : no = FALSE
    OBVIOUS
  <2>2. call'[j] = [call[j] EXCEPT !.alone = no] /\ call[j] \in CallState
    BY <1>1, <1>2, <2>1 DEF TypeOK
  <2>3. call'[j].alone = no /\ call'[j].pc = call[j].pc
    BY <2>2 DEF CallState
  <2>. QED
    BY <2>1, <2>3
<1>3. /\ call'[i].pc = "open" /\ call'[i].file = "binary"
      /\ call'[i].before = InPlace
  BY DEF Begin, Idle, InPlace
<1>4. call'[i].alone => \A j \in Callers : ~Running(j)
  BY DEF Begin, Idle
<1>5. InPlace' = InPlace
  BY <1>1 DEF InPlace
<1>6. Under(i)'
  BY <1>3, <1>5 DEF Under, BinaryPlaced
<1>7. Progress(i)'
  BY <1>2, <1>3, <1>4, <1>6 DEF Progress, Running
<1>. QED
  BY <1>2, <1>7 DEF Repairs, Progress

(***************************************************************************)
(* What a step of a call never changes in any record: the bytes and the    *)
(* hash a call was given, whether it is alone, and the files it found.     *)
(***************************************************************************)
Turned(j, pc, file, handle, how) ==
  call'[j] = [call[j] EXCEPT !.pc = pc, !.file = file, !.handle = handle, !.result = how]

(* What a turned record keeps.                                             *)
LEMMA TurnedRecord ==
  ASSUME TypeOK, NEW j \in Callers, NEW pc, NEW file, NEW handle, NEW how,
         Turned(j, pc, file, handle, how)
  PROVE  /\ call'[j].pc = pc /\ call'[j].file = file
         /\ call'[j].handle = handle /\ call'[j].result = how
         /\ call'[j].alone = call[j].alone /\ call'[j].bytes = call[j].bytes
         /\ call'[j].expected = call[j].expected /\ call'[j].before = call[j].before
<1>1. call[j] \in CallState
  BY DEF TypeOK
<1>. QED
  BY <1>1 DEF CallState, Turned

(* A step that writes the record of its own caller only.                   *)
LEMMA OneTurns ==
  ASSUME TypeOK, NEW i \in Callers, NEW pc, NEW file, NEW handle, NEW how,
         call' = [call EXCEPT ![i] = [call[i] EXCEPT
                   !.pc = pc, !.file = file, !.handle = handle, !.result = how]]
  PROVE  /\ Turned(i, pc, file, handle, how)
         /\ \A j \in Callers : j # i => call'[j] = call[j]
BY DEF TypeOK, Turned

(* A removal closes handles, and a rename moves them.                      *)
LEMMA RemoveTurns ==
  ASSUME TypeOK, NEW i \in Callers, NEW name, NEW how, RemoveAndReturn(i, name, how)
  PROVE  \A j \in Callers : \E handle :
           IF j = i THEN Turned(j, "idle", call[j].file, handle, how)
                    ELSE Turned(j, call[j].pc, call[j].file, handle, call[j].result)
<1>. SUFFICES ASSUME NEW j \in Callers
     PROVE \E handle :
           IF j = i THEN Turned(j, "idle", call[j].file, handle, how)
                    ELSE Turned(j, call[j].pc, call[j].file, handle, call[j].result)
  OBVIOUS
<1>1. PICK handle, pc, done :
        /\ handle = (IF call[j].handle = name THEN Closed ELSE call[j].handle)
        /\ pc = (IF j = i THEN "idle" ELSE call[j].pc)
        /\ done = (IF j = i THEN how ELSE call[j].result)
  OBVIOUS
<1>2. call[j] \in CallState
  BY DEF TypeOK
<1>3. call'[j] = [call[j] EXCEPT !.handle = handle, !.pc = pc, !.result = done]
  BY <1>1 DEF RemoveAndReturn
<1>4. Turned(j, pc, call[j].file, handle, done)
  BY <1>2, <1>3 DEF CallState, Turned
<1>. QED
  BY <1>1, <1>4

(* A rename turns the records of all calls.                                *)
LEMMA RenameTurns ==
  ASSUME TypeOK, NEW i \in Callers, Rename(i), disk[Tmp(i)] # Missing
  PROVE  \A j \in Callers : \E handle :
           Turned(j, IF j = i THEN "confirm" ELSE call[j].pc, call[j].file, handle,
                  call[j].result)
<1>. SUFFICES ASSUME NEW j \in Callers
     PROVE \E handle :
           Turned(j, IF j = i THEN "confirm" ELSE call[j].pc, call[j].file, handle,
                  call[j].result)
  OBVIOUS
<1>1. PICK handle, pc :
        /\ handle = (IF call[j].handle = Tmp(i) THEN Dest(i)
                     ELSE IF call[j].handle = Dest(i) THEN Closed ELSE call[j].handle)
        /\ pc = (IF j = i THEN "confirm" ELSE call[j].pc)
  OBVIOUS
<1>2. call[j] \in CallState
  BY DEF TypeOK
<1>3. call'[j] = [call[j] EXCEPT !.handle = handle, !.pc = pc]
  BY <1>1 DEF Rename
<1>4. Turned(j, pc, call[j].file, handle, call[j].result)
  BY <1>2, <1>3 DEF CallState, Turned
<1>. QED
  BY <1>1, <1>4

(* A step of a running call keeps Repairs if it leaves the others where    *)
(* they are and, when the call is alone, its own work is in order: no      *)
(* other call is alone meanwhile.                                          *)
LEMMA StepRepairs ==
  ASSUME Repairs, NEW i \in Callers, Running(i),
         \A j \in Callers : call'[j].alone = call[j].alone,
         \A j \in Callers : j # i => call'[j].pc = call[j].pc,
         call[i].alone /\ Under(i) =>
           IF call'[i].pc = "idle" THEN Ended(i)' ELSE Under(i)'
  PROVE  Repairs'
<1>1. \A j \in Callers : j # i => ~call'[j].alone
  BY DEF Repairs, Progress
<1>2. Progress(i)'
  BY DEF Repairs, Progress, Running
<1>. QED
  BY <1>1, <1>2 DEF Repairs, Progress

(* A step that turns the record of one call, whose files stay under it,    *)
(* keeps the repair on its way.                                            *)
LEMMA TurnRepairs ==
  ASSUME TypeOK, Repairs, NEW i \in Callers, Running(i),
         NEW pc, pc # "idle", NEW file, NEW handle, NEW how,
         Turned(i, pc, file, handle, how),
         \A j \in Callers : j # i => call'[j] = call[j],
         Under(i) => Under(i)'
  PROVE  Repairs'
<1>1. call'[i].alone = call[i].alone /\ call'[i].pc # "idle"
  BY TurnedRecord
<1>. QED
  BY <1>1, StepRepairs

(* What a step leaves of the files in place, and a call's own names.       *)
LEMMA InPlaceKept ==
  ASSUME TypeOK, NEW i \in Callers,
         \A n \in Names \ {Tmp(i)} : disk'[n] = disk[n]
  PROVE  InPlace' = InPlace
<1>1. Binary \in Names /\ Manifest \in Names
  BY CallNames
<1>2. Tmp(i) # Manifest /\ Tmp(i) # Binary
  <2>1. call[i].expected # Final
    BY CallNames, InstallerAssumption DEF CallState, Final
  <2>. QED
    BY <2>1 DEF Tmp, Manifest, Binary
<1>. QED
  BY <1>1, <1>2 DEF InPlace

(* Each step of a call that runs alone leaves its work in order; what it   *)
(* meets is its own doing, so no step ends in an I/O error, and it ends in *)
(* a mismatch only before the binary is in place.                          *)
LEMMA CallStepRepairs ==
  ASSUME TypeOK, Repairs, NEW i \in Callers, CallStep(i)
  PROVE  Repairs'
<1>1. /\ Running(i) /\ disk \in [Names -> Contents]
      /\ Tmp(i) \in Names /\ Dest(i) \in Names /\ Payload(i) \in Versions
      /\ Binary \in Names /\ Manifest \in Names
  BY CallNames DEF CallStep, Open, Write, Check, Rename, Confirm, Running, TypeOK
<1>2. /\ call[i] \in CallState /\ call[i].file \in Files
      /\ call[i].expected \in Versions
      /\ call[i].handle # Closed => call[i].pc = "write"
  BY DEF TypeOK, CallState
<1>3. Payload(i) # Missing /\ call[i].expected # Missing
  BY <1>1, <1>2, InstallerAssumption DEF Missing
<1>4. ASSUME NEW file, NEW handle, NEW how,
             call' = [call EXCEPT ![i] = [call[i] EXCEPT
               !.pc = "idle", !.file = file, !.handle = handle, !.result = how]],
             Under(i) => Ended(i)'
      PROVE  Repairs'
  <2>1. /\ Turned(i, "idle", file, handle, how)
        /\ \A j \in Callers : j # i => call'[j] = call[j]
    BY <1>4, OneTurns
  <2>2. call'[i].alone = call[i].alone /\ call'[i].pc = "idle"
    BY <2>1, TurnedRecord
  <2>. QED
    BY <1>1, <1>4, <2>1, <2>2, StepRepairs
<1>5. ASSUME NEW name \in Names, NEW how, RemoveAndReturn(i, name, how),
             call[i].alone /\ Under(i) => Ended(i)'
      PROVE  Repairs'
  <2>1. ASSUME NEW j \in Callers
        PROVE  /\ call'[j].alone = call[j].alone
               /\ call'[j].pc = IF j = i THEN "idle" ELSE call[j].pc
    <3>1. PICK handle :
            IF j = i THEN Turned(j, "idle", call[j].file, handle, how)
                     ELSE Turned(j, call[j].pc, call[j].file, handle, call[j].result)
      BY <1>5, RemoveTurns
    <3>2. CASE j = i
      BY <3>1, <3>2, TurnedRecord
    <3>3. CASE j # i
      BY <3>1, <3>3, TurnedRecord
    <3>. QED
      BY <3>2, <3>3
  <2>. QED
    BY <1>1, <1>5, <2>1, StepRepairs
<1>6. CASE Open(i)
  <2>1. call' = [call EXCEPT ![i] = [call[i] EXCEPT !.pc = "write",
                  !.file = call[i].file, !.handle = Tmp(i), !.result = call[i].result]]
    BY <1>2, <1>6 DEF Open, TypeOK, CallState
  <2>2. /\ Turned(i, "write", call[i].file, Tmp(i), call[i].result)
        /\ \A j \in Callers : j # i => call'[j] = call[j]
    BY <2>1, OneTurns
  <2>3. /\ call'[i].pc = "write" /\ call'[i].file = call[i].file
        /\ call'[i].handle = Tmp(i) /\ call'[i].expected = call[i].expected
        /\ call'[i].before = call[i].before
    BY <2>2, TurnedRecord
  <2>4. InPlace' = InPlace
    BY <1>1, <1>6, InPlaceKept DEF Open
  <2>5. Tmp(i)' = Tmp(i) /\ call[i].pc = "open"
    BY <1>6, <2>3 DEF Tmp, Open
  <2>6. Under(i) => Under(i)'
    BY <2>3, <2>4, <2>5 DEF Under, BinaryPlaced, InPlace
  <2>. QED
    BY <1>1, <2>2, <2>6, TurnRepairs
<1>7. CASE Write(i)
  <2>1. call' = [call EXCEPT ![i] = [call[i] EXCEPT !.pc = "check",
                  !.file = call[i].file, !.handle = Closed, !.result = call[i].result]]
    BY <1>2, <1>7 DEF Write, TypeOK, CallState
  <2>2. /\ Turned(i, "check", call[i].file, Closed, call[i].result)
        /\ \A j \in Callers : j # i => call'[j] = call[j]
    BY <2>1, OneTurns
  <2>3. /\ call'[i].pc = "check" /\ call'[i].file = call[i].file
        /\ call'[i].bytes = call[i].bytes /\ call'[i].expected = call[i].expected
        /\ call'[i].before = call[i].before
    BY <2>2, TurnedRecord
  <2>4. ASSUME Under(i)
        PROVE  InPlace' = InPlace /\ disk'[Tmp(i)] = Payload(i)
    <3>1. call[i].handle = Tmp(i) /\ Tmp(i) # Closed
      BY <1>7, <2>4 DEF Under, Write, Tmp, Closed
    <3>2. disk' = [disk EXCEPT ![Tmp(i)] = Payload(i)]
      BY <1>7, <3>1 DEF Write
    <3>. QED
      BY <1>1, <3>2, InPlaceKept
  <2>5. Tmp(i)' = Tmp(i) /\ Payload(i)' = Payload(i) /\ call[i].pc = "write"
    BY <1>7, <2>3 DEF Tmp, Payload, Write
  <2>6. Under(i) => Under(i)'
    BY <2>3, <2>4, <2>5 DEF Under, BinaryPlaced, InPlace
  <2>. QED
    BY <1>1, <2>2, <2>6, TurnRepairs
<1>8. CASE Check(i)
  <2>1. /\ call[i].pc = "check" /\ call[i].handle = Closed
        /\ Under(i) => disk[Tmp(i)] = Payload(i)
        /\ call[i].file # "binary" => Payload(i) = call[i].expected
        /\ call[i].file = "binary" => Payload(i) = call[i].bytes
        /\ call[i].file = "binary" /\ Under(i) => InPlace = call[i].before
    BY <1>2, <1>8 DEF Check, Under, Payload, BinaryPlaced
  <2>2. CASE disk[Tmp(i)] = Missing /\ Return(i, "io")
    <3>1. call' = [call EXCEPT ![i] = [call[i] EXCEPT !.pc = "idle",
                    !.file = call[i].file, !.handle = call[i].handle, !.result = "io"]]
      BY <1>2, <2>2 DEF Return, TypeOK, CallState
    <3>2. ~Under(i)
      BY <1>3, <2>1, <2>2
    <3>. QED
      BY <1>4, <3>1, <3>2
  <2>3. ASSUME NEW how \in {"mismatch", "refused"}, RemoveAndReturn(i, Tmp(i), how),
               call[i].file = "binary",
               how = "mismatch" => disk[Tmp(i)] # call[i].expected
        PROVE  Repairs'
    <3>1. PICK handle : Turned(i, "idle", call[i].file, handle, how)
      BY <2>3, RemoveTurns
    <3>2. /\ call'[i].result = how /\ call'[i].bytes = call[i].bytes
          /\ call'[i].expected = call[i].expected /\ call'[i].before = call[i].before
      BY <3>1, TurnedRecord
    <3>3. InPlace' = InPlace
      BY <1>1, <2>3, InPlaceKept DEF RemoveAndReturn
    <3>4. Under(i) => Ended(i)'
      BY <2>1, <2>3, <3>2, <3>3 DEF Ended, InPlace
    <3>. QED
      BY <1>1, <1>5, <2>3, <3>4
  <2>4. CASE disk[Tmp(i)] # call[i].expected /\ RemoveAndReturn(i, Tmp(i), "mismatch")
    <3>1. CASE call[i].file = "binary"
      BY <2>3, <2>4, <3>1
    <3>2. CASE call[i].file # "binary"
      <4>1. ~Under(i)
        BY <2>1, <2>4, <3>2
      <4>. QED
        BY <1>1, <1>5, <2>4, <4>1
    <3>. QED
      BY <3>1, <3>2
  <2>5. CASE call[i].file = "binary" /\ RemoveAndReturn(i, Tmp(i), "refused")
    BY <2>3, <2>5
  <2>6. CASE /\ disk[Tmp(i)] = call[i].expected
             /\ Goto(i, "rename")
             /\ UNCHANGED disk
    <3>1. call' = [call EXCEPT ![i] = [call[i] EXCEPT !.pc = "rename",
                    !.file = call[i].file, !.handle = call[i].handle,
                    !.result = call[i].result]]
      BY <1>2, <2>6 DEF Goto, TypeOK, CallState
    <3>2. /\ Turned(i, "rename", call[i].file, call[i].handle, call[i].result)
          /\ \A j \in Callers : j # i => call'[j] = call[j]
      BY <3>1, OneTurns
    <3>3. /\ call'[i].pc = "rename" /\ call'[i].file = call[i].file
          /\ call'[i].expected = call[i].expected
          /\ call'[i].before = call[i].before
      BY <3>2, TurnedRecord
    <3>4. Tmp(i)' = Tmp(i)
      BY <3>3 DEF Tmp
    <3>5. Under(i) => Under(i)'
      BY <2>1, <2>6, <3>3, <3>4 DEF Under, BinaryPlaced, InPlace
    <3>. QED
      BY <1>1, <3>2, <3>5, TurnRepairs
  <2>. QED
    BY <1>8, <2>2, <2>4, <2>5, <2>6 DEF Check
<1>9. CASE Rename(i)
  <2>1. /\ call[i].pc = "rename"
        /\ Under(i) => disk[Tmp(i)] = call[i].expected
    BY <1>9 DEF Rename, Under
  <2>2. CASE disk[Tmp(i)] = Missing
    <3>1. call' = [call EXCEPT ![i] = [call[i] EXCEPT !.pc = "idle",
                    !.file = call[i].file, !.handle = call[i].handle, !.result = "io"]]
      <4>1. Return(i, "io")
        BY <1>9, <2>2 DEF Rename
      <4>. QED
        BY <1>2, <4>1 DEF Return, TypeOK, CallState
    <3>2. ~Under(i)
      BY <1>3, <2>1, <2>2
    <3>. QED
      BY <1>4, <3>1, <3>2
  <2>3. CASE disk[Tmp(i)] # Missing
    <3>1. ASSUME NEW j \in Callers
          PROVE  /\ call'[j].pc = IF j = i THEN "confirm" ELSE call[j].pc
                 /\ call'[j].alone = call[j].alone /\ call'[j].file = call[j].file
                 /\ call'[j].expected = call[j].expected
                 /\ call'[j].before = call[j].before
      <4>1. PICK handle :
              Turned(j, IF j = i THEN "confirm" ELSE call[j].pc, call[j].file, handle,
                     call[j].result)
        BY <1>9, <2>3, RenameTurns
      <4>. QED
        BY <4>1, TurnedRecord
    <3>2. disk' = [disk EXCEPT ![Dest(i)] = disk[Tmp(i)], ![Tmp(i)] = Missing]
      BY <1>9, <2>3 DEF Rename
    <3>3. /\ Tmp(i) # Dest(i) /\ Tmp(i) # Binary
          /\ (Dest(i) = Binary <=> call[i].file = "binary")
      BY TmpIsNotFinal
    <3>4. /\ disk'[Dest(i)] = disk[Tmp(i)]
          /\ disk'[Binary] = IF call[i].file = "binary" THEN disk[Tmp(i)] ELSE disk[Binary]
      BY <1>1, <3>2, <3>3
    <3>5. Dest(i)' = Dest(i)
      BY <3>1 DEF Dest
    <3>6. Under(i) => Under(i)'
      <4>1. SUFFICES ASSUME Under(i)  PROVE Under(i)'
        OBVIOUS
      <4>2. disk'[Binary] = call[i].expected
        BY <2>1, <3>4, <4>1, <1>2 DEF Under, BinaryPlaced, Files
      <4>. QED
        BY <2>1, <3>1, <3>4, <3>5, <4>1, <4>2 DEF Under, BinaryPlaced
    <3>7. /\ \A j \in Callers : call'[j].alone = call[j].alone
          /\ \A j \in Callers : j # i => call'[j].pc = call[j].pc
          /\ call'[i].pc # "idle"
      BY <3>1
    <3>. QED
      BY <1>1, <3>6, <3>7, StepRepairs
  <2>. QED
    BY <2>2, <2>3
<1>10. CASE Confirm(i)
  <2>1. /\ call[i].pc = "confirm" /\ call[i].handle = Closed
        /\ Under(i) => /\ disk[Dest(i)] = call[i].expected
                       /\ disk[Binary] = call[i].expected
    BY <1>2, <1>10 DEF Confirm, Under, BinaryPlaced
  <2>2. CASE disk[Dest(i)] = Missing /\ Return(i, "io")
    <3>1. call' = [call EXCEPT ![i] = [call[i] EXCEPT !.pc = "idle",
                    !.file = call[i].file, !.handle = call[i].handle, !.result = "io"]]
      BY <1>2, <2>2 DEF Return, TypeOK, CallState
    <3>2. ~Under(i)
      BY <1>3, <2>1, <2>2
    <3>. QED
      BY <1>4, <3>1, <3>2
  <2>3. CASE disk[Dest(i)] # call[i].expected /\ RemoveAndReturn(i, Dest(i), "mismatch")
    <3>1. ~Under(i)
      BY <2>1, <2>3
    <3>. QED
      BY <1>1, <1>5, <2>3, <3>1
  <2>4. CASE /\ call[i].file = "binary" /\ UNCHANGED disk
             /\ call' = [call EXCEPT ![i].pc = "open", ![i].file = "manifest"]
    <3>1. call' = [call EXCEPT ![i] = [call[i] EXCEPT !.pc = "open",
                    !.file = "manifest", !.handle = call[i].handle,
                    !.result = call[i].result]]
      BY <1>2, <2>4 DEF TypeOK, CallState
    <3>2. /\ Turned(i, "open", "manifest", call[i].handle, call[i].result)
          /\ \A j \in Callers : j # i => call'[j] = call[j]
      BY <3>1, OneTurns
    <3>3. /\ call'[i].pc = "open" /\ call'[i].file = "manifest"
          /\ call'[i].expected = call[i].expected
      BY <3>2, TurnedRecord
    <3>4. Under(i) => Under(i)'
      BY <2>1, <2>4, <3>3 DEF Under, BinaryPlaced
    <3>. QED
      BY <1>1, <3>2, <3>4, TurnRepairs
  <2>5. CASE /\ call[i].file # "binary" /\ UNCHANGED disk
             /\ Return(i, "ok")
    <3>1. call' = [call EXCEPT ![i] = [call[i] EXCEPT !.pc = "idle",
                    !.file = call[i].file, !.handle = call[i].handle, !.result = "ok"]]
      BY <1>2, <2>5 DEF Return, TypeOK, CallState
    <3>2. Turned(i, "idle", call[i].file, call[i].handle, "ok")
      BY <3>1, OneTurns
    <3>3. call'[i].result = "ok" /\ call'[i].expected = call[i].expected
      BY <3>2, TurnedRecord
    <3>4. Dest(i) = Manifest
      BY <1>2, <2>5 DEF Files, Dest, Manifest
    <3>5. Under(i) => Ended(i)'
      BY <2>1, <2>5, <3>3, <3>4 DEF Ended, InPlace
    <3>. QED
      BY <1>4, <3>1, <3>5
  <2>. QED
    BY <1>10, <2>2, <2>3, <2>4, <2>5 DEF Confirm
<1>. QED
  BY <1>6, <1>7, <1>8, <1>9, <1>10 DEF CallStep

(* Every step keeps what a call that runs alone has done; a call that dies *)
(* ends in a fault, and the supervisor touches no file.                    *)
LEMMA NextRepairs ==
  ASSUME TypeOK, Repairs, [Next]_vars
  PROVE  Repairs'
<1>1. ASSUME NEW i \in Callers, NEW bytes \in Versions, NEW expected \in Versions,
             Begin(i, bytes, expected)
      PROVE  Repairs'
  BY <1>1, BeginRepairs
<1>2. ASSUME NEW i \in Callers, CallStep(i)
      PROVE  Repairs'
  BY <1>2, CallStepRepairs
<1>3. ASSUME NEW i \in Callers, Fault(i)
      PROVE  Repairs'
  <2>1. call' = [call EXCEPT ![i] = [call[i] EXCEPT !.pc = "idle",
                  !.file = call[i].file, !.handle = Closed, !.result = "fault"]]
    BY <1>3 DEF Fault, TypeOK, CallState
  <2>2. /\ Turned(i, "idle", call[i].file, Closed, "fault")
        /\ \A j \in Callers : j # i => call'[j] = call[j]
    BY <2>1, OneTurns
  <2>3. /\ call'[i].result = "fault" /\ call'[i].pc = "idle"
        /\ call'[i].alone = call[i].alone
    BY <2>2, TurnedRecord
  <2>4. Ended(i)'
    BY <2>3 DEF Ended
  <2>. QED
    BY <1>3, <2>2, <2>3, <2>4, StepRepairs DEF Fault
<1>4. CASE UNCHANGED << disk, call >>
  BY <1>4 DEF Repairs, Progress, Running, Under, Ended, BinaryPlaced, InPlace,
     Tmp, Dest, Payload
<1>5. CASE SpawnerStep
  BY <1>4, <1>5 DEF SpawnerStep, ReadManifest, HashBinary, Spawn, kept
<1>6. CASE UNCHANGED vars
  BY <1>4, <1>6 DEF vars
<1>. QED
  BY <1>1, <1>2, <1>3, <1>5, <1>6 DEF Next

(* The types and the progress of the calls hold of every installation.     *)
LEMMA RepairsHolds == Spec => [](TypeOK /\ Repairs)
<1>1. Init => TypeOK /\ Repairs
  BY InitTypeOK, InitRepairs
<1>2. TypeOK /\ Repairs /\ [Next]_vars => TypeOK' /\ Repairs'
  BY NextTypeOK, NextRepairs
<1>. QED
  BY <1>1, <1>2, PTL DEF Spec

(***************************************************************************)
(* Installing again repairs, whatever earlier calls left when they died or *)
(* crossed each other, and whatever dies or installs before or after: a    *)
(* call that ran alone with the right bytes failed by a fault or a refusal *)
(* only, and after Ok both files are of its version.                       *)
(***************************************************************************)
THEOREM RerunAlwaysRepairs == Spec => []RerunRepairs
<1>1. TypeOK /\ Repairs => RerunRepairs
  BY DEF Repairs, Progress, Ended, InPlace, RerunRepairs, Returned
<1>. QED
  BY <1>1, RepairsHolds, PTL

(***************************************************************************)
(* A call that ran alone and was refused, by the hash or by the hook, has  *)
(* left the binary and the manifest as it found them.                      *)
(***************************************************************************)
THEOREM RefusalAlwaysKeepsPrevious == Spec => []RefusalKeepsPrevious
<1>1. TypeOK /\ Repairs => RefusalKeepsPrevious
  BY DEF Repairs, Progress, Ended, InPlace, RefusalKeepsPrevious, Returned
<1>. QED
  BY <1>1, RepairsHolds, PTL
=============================================================================
