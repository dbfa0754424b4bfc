---------------------------- MODULE LogWriterProofs ----------------------------
(***************************************************************************)
(* What holds of every log, whatever its caps and however many threads     *)
(* emit.  The order, the flush and the loss depend on each other only      *)
(* through what bounds the record ids: nothing on its way is newer than    *)
(* the last emit, the ring holds what is newer than everything it gave up, *)
(* and behind each flush in the mailbox there is only what was emitted     *)
(* after it was asked for.                                                 *)
(***************************************************************************)
EXTENDS LogWriter, FiniteSetTheorems, WellFoundedInduction, TLAPS

Kinds == {"record", "flush", "shutdown", "timeout", "none"}
Rows  == [id : Nat, drops : Nat]

Messages == {m \in [kind : Kinds, id : Nat, by : Loggers] : m.id > 0 <=> m.kind = "record"}

Typed ==
  /\ phase \in {"boot", "replay", "open", "memory", "closing", "stopped"}
  /\ opens \in Nat
  /\ ring \in Seq(Nat \ {0}) /\ shed \in Nat
  /\ emitted \in Nat
  /\ flushing \in [Loggers -> Int]
  /\ mailbox \in Seq(Messages) /\ dropped \in Nat
  /\ hand \in Messages
  /\ pending \in Seq(Rows) /\ retry \in Seq(Rows) /\ lost \in Nat
  /\ elapsed \in BOOLEAN /\ faults \in Nat
  /\ db \in Seq(Rows) /\ flushed \in Nat

(* The numbers of all records that are kept anywhere.                      *)
OnItsWay ==
  Ids(db) \union Ids(retry) \union Ids(pending) \union Ids(<< hand >>)
    \union Ids(mailbox) \union Ids(Waiting)

Closing(q) == \E k \in DOMAIN q : q[k].kind = "shutdown"

(* No record is newer than the last emit, the ring is empty once it was    *)
(* replayed, what it gave up is older than what it holds, and the mailbox  *)
(* is empty while there is no writer.                                      *)
Emitted ==
  /\ \A n \in OnItsWay : n <= emitted
  /\ shed <= emitted
  /\ \A i \in DOMAIN ring : ring[i] > shed
  /\ phase \in {"open", "closing", "stopped"} => ring = << >>
  /\ phase \in {"boot", "memory"} => mailbox = << >> /\ hand.kind = "none"
  /\ Closing(mailbox) \/ hand.kind = "shutdown" => ring = << >>

(* What a flush that is on its way has in front of it: everything emitted  *)
(* before it was asked for.  A logger has one flush on its way at a time,  *)
(* and only while it waits.                                                *)
Asked(m) == m.kind = "flush"

Behind(q, f, i) == \A j \in Records(q) : j > i => q[j].id > f

Flushes ==
  /\ \A l \in Loggers : flushing[l] <= emitted
  /\ flushed <= emitted
  /\ \A i \in DOMAIN ring : ring[i] > flushed
  /\ \A k \in DOMAIN mailbox : Asked(mailbox[k]) =>
       /\ flushing[mailbox[k].by] >= 0
       /\ Behind(mailbox, flushing[mailbox[k].by], k)
       /\ ring = << >>
       /\ \A n \in DOMAIN mailbox :
            Asked(mailbox[n]) /\ mailbox[n].by = mailbox[k].by => n = k
  /\ Asked(hand) =>
       /\ flushing[hand.by] >= 0
       /\ Behind(mailbox, flushing[hand.by], 0)
       /\ ring = << >>
       /\ \A n \in DOMAIN mailbox : Asked(mailbox[n]) => mailbox[n].by # hand.by

LogInv ==
  /\ Typed /\ Emitted /\ InEmitOrder /\ Flushes /\ FlushIsBarrier
  /\ CrashLosesBounded /\ LossIsTold

-----------------------------------------------------------------------------
(* Sequences of numbered items *)

(* Joining two sequences joins what they hold. *)
LEMMA IdsOfConcat ==
  ASSUME NEW S, NEW a \in Seq(S), NEW b \in Seq(S)
  PROVE  Ids(a \o b) = Ids(a) \union Ids(b)
<1>1. ASSUME NEW n \in Ids(a \o b) PROVE n \in Ids(a) \union Ids(b)
  <2>1. PICK i \in DOMAIN (a \o b) : n = (a \o b)[i].id /\ n # 0 BY <1>1 DEF Ids
  <2>2. CASE i <= Len(a)
    <3>1. i \in DOMAIN a /\ (a \o b)[i] = a[i] BY <2>1, <2>2
    <3> QED BY <2>1, <3>1 DEF Ids
  <2>3. CASE i > Len(a)
    <3>1. i - Len(a) \in DOMAIN b /\ (a \o b)[i] = b[i - Len(a)] BY <2>1, <2>3
    <3> QED BY <2>1, <3>1 DEF Ids
  <2> QED BY <2>1, <2>2, <2>3
<1>2. ASSUME NEW n \in Ids(a) PROVE n \in Ids(a \o b)
  <2>1. PICK i \in DOMAIN a : n = a[i].id /\ n # 0 BY <1>2 DEF Ids
  <2>2. i \in DOMAIN (a \o b) /\ (a \o b)[i] = a[i] BY <2>1
  <2> QED BY <2>1, <2>2 DEF Ids
<1>3. ASSUME NEW n \in Ids(b) PROVE n \in Ids(a \o b)
  <2>1. PICK i \in DOMAIN b : n = b[i].id /\ n # 0 BY <1>3 DEF Ids
  <2>2. i + Len(a) \in DOMAIN (a \o b) /\ (a \o b)[i + Len(a)] = b[i] BY <2>1
  <2> QED BY <2>1, <2>2 DEF Ids
<1> QED BY <1>1, <1>2, <1>3

(* and keeps the order if all of the first is older than the second. *)
LEMMA OrderOfConcat ==
  ASSUME NEW S, \A x \in S : x.id \in Nat, NEW a \in Seq(S), NEW b \in Seq(S),
         Ordered(a), Ordered(b), Before(a, b)
  PROVE  Ordered(a \o b)
<1> SUFFICES ASSUME NEW i \in DOMAIN (a \o b), NEW j \in DOMAIN (a \o b), i < j,
                    (a \o b)[i].id > 0, (a \o b)[j].id > 0
             PROVE  (a \o b)[i].id < (a \o b)[j].id
  BY DEF Ordered
<1>1. CASE j <= Len(a)
  <2>1. i \in DOMAIN a /\ j \in DOMAIN a /\ (a \o b)[i] = a[i] /\ (a \o b)[j] = a[j]
    BY <1>1
  <2> QED BY <2>1 DEF Ordered
<1>2. CASE i > Len(a)
  <2>1. /\ i - Len(a) \in DOMAIN b /\ j - Len(a) \in DOMAIN b /\ i - Len(a) < j - Len(a)
        /\ (a \o b)[i] = b[i - Len(a)] /\ (a \o b)[j] = b[j - Len(a)]
    BY <1>2
  <2> QED BY <2>1 DEF Ordered
<1>3. CASE i <= Len(a) /\ j > Len(a)
  <2>1. i \in DOMAIN a /\ j - Len(a) \in DOMAIN b
    BY <1>3
  <2>2. (a \o b)[i] = a[i] /\ (a \o b)[j] = b[j - Len(a)]
    BY <1>3
  <2>3. a[i].id \in Ids(a) /\ b[j - Len(a)].id \in Ids(b)
    BY <2>1, <2>2 DEF Ids
  <2> QED BY <2>2, <2>3 DEF Before
<1> QED BY <1>1, <1>2, <1>3

(* What is left of a sequence, in its order, holds no more and is ordered. *)
Thins(r, q, g) ==
  /\ g \in [DOMAIN r -> DOMAIN q]
  /\ \A i \in DOMAIN r : r[i] = q[g[i]]
  /\ \A i, j \in DOMAIN r : i < j => g[i] < g[j]

(* Thinning a queue keeps its order.                                       *)
LEMMA ThinOrder ==
  ASSUME NEW r, NEW q, NEW g, Thins(r, q, g)
  PROVE  /\ Ids(r) \subseteq Ids(q)
         /\ Ordered(q) => Ordered(r)
<1>1. \A i \in DOMAIN r : g[i] \in DOMAIN q /\ r[i] = q[g[i]]
  BY DEF Thins
<1>2. Ids(r) \subseteq Ids(q)
  BY <1>1 DEF Ids
<1>3. ASSUME Ordered(q) PROVE Ordered(r)
  BY <1>1, <1>3 DEF Thins, Ordered
<1> QED BY <1>2, <1>3

(* The end of a sequence is one of its thinnings. *)
LEMMA EndThins ==
  ASSUME NEW S, NEW q \in Seq(S), NEW k \in Nat, k <= Len(q)
  PROVE  /\ SubSeq(q, k + 1, Len(q)) \in Seq(S)
         /\ Len(SubSeq(q, k + 1, Len(q))) = Len(q) - k
         /\ \A i \in 1 .. Len(q) - k : SubSeq(q, k + 1, Len(q))[i] = q[i + k]
         /\ \E g : Thins(SubSeq(q, k + 1, Len(q)), q, g)
<1> DEFINE r == SubSeq(q, k + 1, Len(q))
           g == [i \in 1 .. Len(q) - k |-> i + k]
<1>1. r \in Seq(S) /\ Len(r) = Len(q) - k /\ \A i \in 1 .. Len(q) - k : r[i] = q[i + k]
  OBVIOUS
<1>2. DOMAIN r = 1 .. Len(q) - k /\ DOMAIN q = 1 .. Len(q) BY <1>1
<1> HIDE DEF r
<1>3. Thins(r, q, g) BY <1>1, <1>2 DEF Thins
<1> QED BY <1>1, <1>3 DEF r

-----------------------------------------------------------------------------
(* The mailbox *)

(* The oldest of the records in a mailbox that holds one. *)
LEMMA OldestIsFirst ==
  ASSUME NEW q \in Seq(Messages), Records(q) # {}
  PROVE  /\ Oldest(q) \in Records(q)
         /\ \A j \in Records(q) : Oldest(q) <= j
<1> DEFINE Less == OpToRel(<, Nat)
<1>1. Records(q) \subseteq Nat BY DEF Records
<1>2. \E i \in Records(q) : \A j \in Records(q) : << j, i >> \notin Less
  <2>1. IsWellFoundedOn(Less, Nat) BY NatLessThanWellFounded
  <2> HIDE DEF Less
  <2> QED BY <1>1, <2>1, WFMin
<1>3. \A i, j \in Nat : << j, i >> \notin Less => i <= j BY DEF OpToRel
<1> HIDE DEF Less
<1>4. \E i \in Records(q) : \A j \in Records(q) : i <= j BY <1>1, <1>2, <1>3
<1> QED BY <1>4 DEF Oldest

(* Removing a message from a mailbox shifts what is behind it. *)
LEMMA Removed ==
  ASSUME NEW q \in Seq(Messages), NEW o \in DOMAIN q, NEW m \in Messages
  PROVE  /\ Append(RemoveAt(q, o), m) \in Seq(Messages)
         /\ Len(Append(RemoveAt(q, o), m)) = Len(q)
         /\ \A i \in 1 .. Len(q) :
              Append(RemoveAt(q, o), m)[i] =
                IF i = Len(q) THEN m ELSE IF i < o THEN q[i] ELSE q[i + 1]
<1> DEFINE a == SubSeq(q, 1, o - 1)
           b == SubSeq(q, o + 1, Len(q))
<1>1. /\ a \in Seq(Messages) /\ Len(a) = o - 1 /\ \A i \in 1 .. o - 1 : a[i] = q[i]
      /\ b \in Seq(Messages) /\ Len(b) = Len(q) - o
      /\ \A i \in 1 .. Len(q) - o : b[i] = q[i + o]
  OBVIOUS
<1>2. RemoveAt(q, o) = a \o b BY DEF RemoveAt
<1> HIDE DEF a, b
<1>3. /\ a \o b \in Seq(Messages) /\ Len(a \o b) = Len(q) - 1
      /\ \A i \in 1 .. Len(q) - 1 : (a \o b)[i] = IF i < o THEN q[i] ELSE q[i + 1]
  <2>1. a \o b \in Seq(Messages) /\ Len(a \o b) = Len(q) - 1 BY <1>1
  <2>2. ASSUME NEW i \in 1 .. Len(q) - 1
        PROVE  (a \o b)[i] = IF i < o THEN q[i] ELSE q[i + 1]
    <3>1. CASE i < o BY <1>1, <3>1
    <3>2. CASE ~ (i < o)
      <4>1. PICK k : k = i - Len(a) OBVIOUS
      <4>2. k \in 1 .. Len(q) - o /\ k + o = i + 1 BY <1>1, <3>2, <4>1
      <4>3. (a \o b)[i] = b[k] BY <1>1, <3>2, <4>1
      <4>4. b[k] = q[k + o] BY <1>1, <4>2
      <4>5. b[k] = q[i + 1] BY <4>2, <4>4
      <4> QED BY <3>2, <4>3, <4>5
    <3> QED BY <3>1, <3>2
  <2> QED BY <2>1, <2>2
<1> DEFINE c == a \o b
<1>4. /\ c \in Seq(Messages) /\ Len(c) = Len(q) - 1
      /\ \A i \in 1 .. Len(q) - 1 : c[i] = IF i < o THEN q[i] ELSE q[i + 1]
  BY <1>3
<1> HIDE DEF c
<1>5. /\ Append(c, m) \in Seq(Messages)
      /\ Len(Append(c, m)) = Len(q)
      /\ \A i \in 1 .. Len(q) :
           Append(c, m)[i] = IF i = Len(q) THEN m ELSE IF i < o THEN q[i] ELSE q[i + 1]
  BY <1>4
<1> QED BY <1>2, <1>5 DEF c

(* What is put goes last, behind what was in the mailbox, of which one     *)
(* record may be gone, and then it is counted.                             *)
Puts(m, r, g) ==
  /\ mailbox' \in Seq(Messages)
  /\ r \in Seq(Messages)
  /\ Len(mailbox') = Len(r) + 1
  /\ mailbox'[Len(r) + 1] = m
  /\ \A i \in DOMAIN r : mailbox'[i] = r[i]
  /\ Thins(r, mailbox, g)
  /\ dropped' \in Nat
  /\ (r = mailbox /\ dropped' = dropped) \/ dropped' > 0

(* put() leaves a thinned mailbox with the message last, and counts what   *)
(* it dropped.                                                             *)
LEMMA PutIsLast ==
  ASSUME Typed, Cap \in Nat \ {0}, NEW m \in Messages, Put(m)
  PROVE  \E r, g : Puts(m, r, g)
<1> USE DEF Typed
<1>1. CASE m.kind = "record" /\ Full
  <2>1. PICK o : o = Oldest(mailbox) OBVIOUS
  <2>2. mailbox' = Append(RemoveAt(mailbox, o), m) /\ dropped' = dropped + 1
    BY <1>1, <2>1 DEF Put
  <2>3. ASSUME Records(mailbox) = {} PROVE FALSE
    <3>1. Cardinality(Records(mailbox)) = 0 BY <2>3, FS_EmptySet
    <3>2. Cardinality(Records(mailbox)) >= Cap BY <1>1 DEF Full
    <3> QED BY <3>1, <3>2
  <2>4. o \in DOMAIN mailbox BY <2>1, <2>3, OldestIsFirst DEF Records
  <2>5. /\ mailbox' \in Seq(Messages) /\ Len(mailbox') = Len(mailbox)
        /\ \A i \in 1 .. Len(mailbox) :
             mailbox'[i] = IF i = Len(mailbox) THEN m
                           ELSE IF i < o THEN mailbox[i] ELSE mailbox[i + 1]
    BY <2>2, <2>4, Removed
  <2> DEFINE r == SubSeq(mailbox', 1, Len(mailbox) - 1)
             g == [i \in 1 .. Len(mailbox) - 1 |-> IF i < o THEN i ELSE i + 1]
  <2>6. /\ r \in Seq(Messages) /\ Len(r) = Len(mailbox) - 1
        /\ \A i \in 1 .. Len(mailbox) - 1 : r[i] = mailbox'[i]
    BY <2>4, <2>5
  <2>7. DOMAIN r = 1 .. Len(mailbox) - 1 BY <2>6
  <2> HIDE DEF r
  <2>8. Thins(r, mailbox, g)
    <3>1. g \in [DOMAIN r -> DOMAIN mailbox] BY <2>4, <2>7
    <3>2. ASSUME NEW i \in DOMAIN r PROVE r[i] = mailbox[g[i]]
      <4>1. i \in 1 .. Len(mailbox) - 1 /\ i \in 1 .. Len(mailbox) /\ i # Len(mailbox)
        BY <2>7
      <4>2. r[i] = IF i < o THEN mailbox[i] ELSE mailbox[i + 1] BY <2>5, <2>6, <4>1
      <4>3. g[i] = IF i < o THEN i ELSE i + 1 BY <4>1
      <4> QED BY <4>2, <4>3
    <3>3. \A i, j \in DOMAIN r : i < j => g[i] < g[j] BY <2>7, <2>4
    <3> QED BY <3>1, <3>2, <3>3 DEF Thins
  <2> HIDE DEF g
  <2>9. Len(mailbox') = Len(r) + 1 /\ mailbox'[Len(r) + 1] = m
    <3>1. Len(mailbox) \in Nat \ {0} BY <2>4
    <3>2. Len(r) + 1 = Len(mailbox) /\ Len(mailbox) \in 1 .. Len(mailbox) BY <2>6, <3>1
    <3>3. mailbox'[Len(mailbox)] = m BY <2>5, <3>2
    <3> QED BY <2>5, <3>2, <3>3
  <2>10. dropped' \in Nat /\ dropped' > 0 BY <2>2
  <2>11. Puts(m, r, g) BY <2>5, <2>6, <2>7, <2>8, <2>9, <2>10 DEF Puts
  <2> QED BY <2>11
<1>2. CASE ~ (m.kind = "record" /\ Full)
  <2> DEFINE g == [i \in DOMAIN mailbox |-> i]
  <2>1. mailbox' = Append(mailbox, m) /\ dropped' = dropped BY <1>2 DEF Put
  <2>2. Thins(mailbox, mailbox, g) BY DEF Thins
  <2>3. /\ mailbox' \in Seq(Messages) /\ Len(mailbox') = Len(mailbox) + 1
        /\ mailbox'[Len(mailbox) + 1] = m
        /\ \A i \in DOMAIN mailbox : mailbox'[i] = mailbox[i]
    BY <2>1
  <2> HIDE DEF g
  <2>4. Puts(m, mailbox, g) BY <2>1, <2>2, <2>3 DEF Puts
  <2> QED BY <2>4
<1> QED BY <1>1, <1>2

(* What the mailbox holds after a put, and in which order. *)
LEMMA PutOrder ==
  ASSUME Typed, NEW m \in Messages, NEW r, NEW g, Puts(m, r, g)
  PROVE  /\ Ids(mailbox') \subseteq Ids(mailbox) \union ({m.id} \ {0})
         /\ dropped' = 0 => Ids(mailbox') = Ids(mailbox) \union ({m.id} \ {0})
         /\ Ordered(mailbox) /\ (\A n \in Ids(mailbox) : n < m.id \/ m.id = 0)
              => Ordered(mailbox')
<1>1. Ids(r) \subseteq Ids(mailbox) /\ (Ordered(mailbox) => Ordered(r))
  BY ThinOrder DEF Puts
<1>2. r \in Seq(Messages) /\ Thins(r, mailbox, g) BY DEF Puts
<1>3. mailbox' = r \o << m >>
  BY DEF Puts
<1>4. << m >> \in Seq(Messages) /\ Ids(<< m >>) = {m.id} \ {0} BY DEF Ids
<1>5. Ids(mailbox') = Ids(r) \union ({m.id} \ {0})
  <2>1. PICK b : b = << m >> OBVIOUS
  <2>2. r \in Seq(Messages) /\ b \in Seq(Messages) BY <1>2, <1>4, <2>1
  <2>3. Ids(r \o b) = Ids(r) \union Ids(b) BY <2>2, IdsOfConcat
  <2> QED BY <1>3, <1>4, <2>1, <2>3
<1>6. \A x \in Messages : x.id \in Nat BY DEF Messages
<1>7. Ordered(<< m >>) BY DEF Ordered
<1>8. ASSUME Ordered(mailbox), \A n \in Ids(mailbox) : n < m.id \/ m.id = 0
      PROVE  Ordered(mailbox')
  <2>1. Ordered(r) BY <1>1, <1>8
  <2>2. Before(r, << m >>) BY <1>1, <1>4, <1>8 DEF Before
  <2> QED BY <1>2, <1>3, <1>4, <1>6, <1>7, <2>1, <2>2, OrderOfConcat
<1>9. dropped' = 0 => r = mailbox BY DEF Puts
<1> QED BY <1>1, <1>5, <1>8, <1>9

(* What was behind a message stays behind it, and what is put is.          *)
LEMMA PutBehind ==
  ASSUME Typed, NEW m \in Messages, NEW r, NEW g, Puts(m, r, g), NEW f \in Int
  PROVE  /\ \A k \in DOMAIN r :
              Behind(mailbox, f, g[k]) /\ (m.kind = "record" => m.id > f)
                => Behind(mailbox', f, k)
         /\ Behind(mailbox, f, 0) /\ (m.kind = "record" => m.id > f)
              => Behind(mailbox', f, 0)
         /\ Behind(mailbox', f, Len(r) + 1)
<1> USE DEF Typed
<1>1. /\ DOMAIN mailbox' = 1 .. Len(r) + 1 /\ DOMAIN r = 1 .. Len(r) /\ Len(r) \in Nat
      /\ mailbox'[Len(r) + 1] = m
      /\ \A i \in DOMAIN r : mailbox'[i] = r[i] /\ r[i] = mailbox[g[i]] /\ g[i] \in DOMAIN mailbox
      /\ \A i, j \in DOMAIN r : i < j => g[i] < g[j]
  BY DEF Puts, Thins
<1>2. \A j \in Records(mailbox') :
        j = Len(r) + 1 \/ (j \in DOMAIN r /\ g[j] \in Records(mailbox) /\ mailbox'[j] = mailbox[g[j]])
  BY <1>1 DEF Records
<1>3. ASSUME NEW k \in DOMAIN r, Behind(mailbox, f, g[k]), m.kind = "record" => m.id > f,
             NEW j \in Records(mailbox'), j > k
      PROVE  mailbox'[j].id > f
  <2>1. CASE j = Len(r) + 1 BY <1>1, <1>3, <2>1 DEF Records
  <2>2. CASE j \in DOMAIN r
    <3>1. g[j] \in Records(mailbox) /\ g[j] > g[k] /\ mailbox'[j] = mailbox[g[j]]
      BY <1>1, <1>2, <1>3, <2>2
    <3> QED BY <1>3, <3>1 DEF Behind
  <2> QED BY <1>2, <2>1, <2>2
<1>4. ASSUME Behind(mailbox, f, 0), m.kind = "record" => m.id > f,
             NEW j \in Records(mailbox')
      PROVE  mailbox'[j].id > f
  <2>1. CASE j = Len(r) + 1 BY <1>1, <1>4, <2>1 DEF Records
  <2>2. CASE j \in DOMAIN r
    <3>1. g[j] \in Records(mailbox) /\ g[j] > 0 /\ mailbox'[j] = mailbox[g[j]]
      BY <1>1, <1>2, <2>2
    <3> QED BY <1>4, <3>1 DEF Behind
  <2> QED BY <1>2, <2>1, <2>2
<1>5. Behind(mailbox', f, Len(r) + 1) BY <1>1 DEF Behind, Records
<1> QED BY <1>3, <1>4, <1>5 DEF Behind

(* The records of a mailbox are finitely many. *)
LEMMA RecordsFinite ==
  ASSUME NEW q \in Seq(Messages)
  PROVE  IsFiniteSet(Records(q)) /\ Cardinality(Records(q)) \in Nat
<1>1. Records(q) \in SUBSET (1 .. Len(q)) BY DEF Records
<1>2. Len(q) \in Int /\ 1 \in Int OBVIOUS
<1>3. IsFiniteSet(1 .. Len(q)) BY <1>2, FS_Interval
<1> QED BY <1>1, <1>3, FS_Subset, FS_CardinalityType

(* A put never overfills the mailbox: in a full one the new record takes   *)
(* the place of the oldest.                                                *)
LEMMA PutBounded ==
  ASSUME Typed, Cap \in Nat \ {0}, NEW m \in Messages, Put(m),
         Cardinality(Records(mailbox)) <= Cap
  PROVE  Cardinality(Records(mailbox')) <= Cap
<1> USE DEF Typed
<1>1. IsFiniteSet(Records(mailbox)) /\ Cardinality(Records(mailbox)) \in Nat BY RecordsFinite
<1>2. CASE m.kind = "record" /\ Full
  <2>1. PICK o : o = Oldest(mailbox) OBVIOUS
  <2>2. mailbox' = Append(RemoveAt(mailbox, o), m) BY <1>2, <2>1 DEF Put
  <2>3. ASSUME Records(mailbox) = {} PROVE FALSE
    <3>1. Cardinality(Records(mailbox)) = 0 BY <2>3, FS_EmptySet
    <3>2. Cardinality(Records(mailbox)) >= Cap BY <1>2 DEF Full
    <3> QED BY <3>1, <3>2
  <2>4. o \in Records(mailbox) /\ o \in DOMAIN mailbox
    BY <2>1, <2>3, OldestIsFirst DEF Records
  <2>5. /\ mailbox' \in Seq(Messages) /\ Len(mailbox') = Len(mailbox)
        /\ \A i \in 1 .. Len(mailbox) :
             mailbox'[i] = IF i = Len(mailbox) THEN m
                           ELSE IF i < o THEN mailbox[i] ELSE mailbox[i + 1]
    BY <2>2, <2>4, Removed
  <2> DEFINE A == Records(mailbox')
             B == Records(mailbox)
             g == [i \in A |-> IF i = Len(mailbox) THEN o ELSE IF i < o THEN i ELSE i + 1]
  <2>6. A \subseteq 1 .. Len(mailbox) /\ B \subseteq 1 .. Len(mailbox) BY <2>5 DEF Records
  <2>7. g \in [A -> B]
    <3> SUFFICES ASSUME NEW i \in A PROVE g[i] \in B OBVIOUS
    <3>1. CASE i = Len(mailbox) BY <2>4, <3>1
    <3>2. CASE i # Len(mailbox) /\ i < o
      <4>1. mailbox'[i] = mailbox[i] /\ i \in DOMAIN mailbox BY <2>5, <2>6, <3>2
      <4> QED BY <3>2, <4>1 DEF Records
    <3>3. CASE i # Len(mailbox) /\ ~ (i < o)
      <4>1. mailbox'[i] = mailbox[i + 1] /\ i + 1 \in DOMAIN mailbox BY <2>5, <2>6, <3>3
      <4> QED BY <3>3, <4>1 DEF Records
    <3> QED BY <3>1, <3>2, <3>3
  <2>8. \A i, j \in A : g[i] = g[j] => i = j
    BY <2>4, <2>6
  <2>9. g \in Injection(A, B) BY <2>7, <2>8 DEF Injection, IsInjective
  <2> HIDE DEF g, A, B
  <2>10. Cardinality(A) <= Cardinality(B) BY <1>1, <2>9, FS_Injection DEF B
  <2>11. IsFiniteSet(A) /\ Cardinality(A) \in Nat BY <2>5, RecordsFinite DEF A
  <2> QED BY <1>1, <2>10, <2>11 DEF A, B
<1>3. CASE m.kind = "record" /\ ~ Full
  <2>1. mailbox' = Append(mailbox, m) BY <1>3 DEF Put
  <2>2. Records(mailbox') = Records(mailbox) \union {Len(mailbox) + 1}
    BY <1>3, <2>1 DEF Records
  <2>3. Len(mailbox) + 1 \notin Records(mailbox) BY DEF Records
  <2>4. Cardinality(Records(mailbox')) = Cardinality(Records(mailbox)) + 1
    BY <1>1, <2>2, <2>3, FS_AddElement
  <2> QED BY <1>1, <1>3, <2>4 DEF Full
<1>4. CASE m.kind # "record"
  <2>1. mailbox' = Append(mailbox, m) BY <1>4 DEF Put
  <2>2. Records(mailbox') = Records(mailbox) BY <1>4, <2>1 DEF Records
  <2> QED BY <2>2
<1> QED BY <1>2, <1>3, <1>4

-----------------------------------------------------------------------------
(* The six stages a record passes, each pair in order. *)
Staged(d, r, p, h, m, w) ==
  /\ Ordered(d) /\ Ordered(r) /\ Ordered(p) /\ Ordered(h) /\ Ordered(m) /\ Ordered(w)
  /\ Before(d, r) /\ Before(d, p) /\ Before(d, h) /\ Before(d, m) /\ Before(d, w)
  /\ Before(r, p) /\ Before(r, h) /\ Before(r, m) /\ Before(r, w)
  /\ Before(p, h) /\ Before(p, m) /\ Before(p, w)
  /\ Before(h, m) /\ Before(h, w)
  /\ Before(m, w)

(* The order of the six stages, pair by pair.                              *)
LEMMA StagesSpelled ==
  ASSUME NEW d, NEW r, NEW p, NEW h, NEW m, NEW w
  PROVE  (\A s \in 1 .. 6 :
            /\ Ordered(<< d, r, p, h, m, w >>[s])
            /\ \A t \in 1 .. 6 :
                 s < t => Before(<< d, r, p, h, m, w >>[s], << d, r, p, h, m, w >>[t]))
         <=> Staged(d, r, p, h, m, w)
<1> DEFINE q == << d, r, p, h, m, w >>
<1>1. q[1] = d /\ q[2] = r /\ q[3] = p /\ q[4] = h /\ q[5] = m /\ q[6] = w OBVIOUS
<1>2. 1 .. 6 = {1, 2, 3, 4, 5, 6} OBVIOUS
<1> HIDE DEF q
<1>3. (\A s \in 1 .. 6 : Ordered(q[s]) /\ \A t \in 1 .. 6 : s < t => Before(q[s], q[t]))
      => Staged(d, r, p, h, m, w)
  <2> SUFFICES ASSUME \A s \in 1 .. 6 : Ordered(q[s]) /\ \A t \in 1 .. 6 : s < t => Before(q[s], q[t])
               PROVE  Staged(d, r, p, h, m, w)
    OBVIOUS
  <2> QED BY <1>1 DEF Staged
<1>4. Staged(d, r, p, h, m, w)
      => \A s \in 1 .. 6 : Ordered(q[s]) /\ \A t \in 1 .. 6 : s < t => Before(q[s], q[t])
  <2> SUFFICES ASSUME Staged(d, r, p, h, m, w), NEW s \in 1 .. 6, NEW t \in 1 .. 6
               PROVE  Ordered(q[s]) /\ (s < t => Before(q[s], q[t]))
    OBVIOUS
  <2> QED BY <1>1, <1>2 DEF Staged
<1> QED BY <1>3, <1>4 DEF q

(* InEmitOrder is the order of the six stages, before and after a step.    *)
LEMMA OrderIsStaged ==
  /\ InEmitOrder <=> Staged(db, retry, pending, << hand >>, mailbox, Waiting)
  /\ InEmitOrder' <=> Staged(db', retry', pending', << hand' >>, mailbox', Waiting')
BY StagesSpelled DEF InEmitOrder

-----------------------------------------------------------------------------
(* The commit *)

(* The rows of a commit are the retried ones and the pending ones, in      *)
(* order; a warning is the last of them if anything was dropped.           *)
LEMMA RowsInOrder ==
  ASSUME Typed, NEW p \in Seq(Rows), Ordered(retry), Ordered(p), Before(retry, p)
  PROVE  /\ RowsOf(p) \in Seq(Rows)
         /\ Ids(RowsOf(p)) = Ids(retry) \union Ids(p)
         /\ Ordered(RowsOf(p))
         /\ lost + dropped > 0 =>
              RowsOf(p) # << >> /\ RowsOf(p)[Len(RowsOf(p))].drops > 0
         /\ Told(retry) => Told(RowsOf(p))
         /\ RowsOf(p) = << >> => retry = << >> /\ p = << >>
<1> USE DEF Typed
<1> DEFINE a == retry \o p
           b == IF lost + dropped = 0 THEN << >> ELSE << Meta(lost + dropped) >>
<1>1. \A x \in Rows : x.id \in Nat BY DEF Rows
<1>2. /\ a \in Seq(Rows) /\ Ids(a) = Ids(retry) \union Ids(p) /\ Ordered(a)
      /\ (a = << >> => retry = << >> /\ p = << >>)
      /\ (Told(retry) => Told(a))
  <2>1. a \in Seq(Rows) /\ (a = << >> => retry = << >> /\ p = << >>) OBVIOUS
  <2>2. Ids(a) = Ids(retry) \union Ids(p) BY IdsOfConcat
  <2>3. Ordered(a) BY <1>1, OrderOfConcat
  <2>4. ASSUME Told(retry) PROVE Told(a)
    <3>1. PICK i \in DOMAIN retry : retry[i].drops > 0 BY <2>4 DEF Told
    <3>2. i \in DOMAIN a /\ a[i] = retry[i] OBVIOUS
    <3> QED BY <3>1, <3>2 DEF Told
  <2> QED BY <2>1, <2>2, <2>3, <2>4
<1>3. /\ b \in Seq(Rows) /\ Ids(b) = {} /\ Ordered(b) /\ Len(b) \in {0, 1}
      /\ (lost + dropped > 0 => Len(b) = 1 /\ b[1].drops > 0)
  <2>1. CASE lost + dropped = 0 BY <2>1 DEF Ids, Ordered
  <2>2. CASE lost + dropped # 0
    <3>1. b = << Meta(lost + dropped) >> BY <2>2
    <3>2. lost + dropped \in Nat /\ lost + dropped > 0 BY <2>2
    <3>3. Meta(lost + dropped) \in Rows /\ Meta(lost + dropped).id = 0
          /\ Meta(lost + dropped).drops = lost + dropped
      BY <3>2 DEF Meta, Rows
    <3> HIDE DEF b
    <3> QED BY <3>1, <3>2, <3>3 DEF Ids, Ordered
  <2> QED BY <2>1, <2>2
<1>4. RowsOf(p) = a \o b
  <2>1. RowsOf(p) = retry \o p \o b BY DEF RowsOf
  <2> QED BY <2>1
<1> HIDE DEF a, b
<1>5. /\ a \o b \in Seq(Rows)
      /\ (a \o b = << >> => a = << >>)
      /\ (Len(b) = 1 => a \o b # << >> /\ (a \o b)[Len(a \o b)] = b[1])
  BY <1>2, <1>3
<1>6. Ids(a \o b) = Ids(a) BY <1>2, <1>3, IdsOfConcat
<1>7. Ordered(a \o b)
  <2>1. Before(a, b) BY <1>3 DEF Before
  <2> QED BY <1>1, <1>2, <1>3, <2>1, OrderOfConcat
<1>8. ASSUME Told(a) PROVE Told(a \o b)
  <2>1. PICK i \in DOMAIN a : a[i].drops > 0 BY <1>8 DEF Told
  <2>2. i \in DOMAIN (a \o b) /\ (a \o b)[i] = a[i] BY <1>2, <1>3
  <2> QED BY <2>1, <2>2 DEF Told
<1> QED BY <1>2, <1>3, <1>4, <1>5, <1>6, <1>7, <1>8

(* What a commit leaves of the rows: all of them written, or as many as    *)
(* the retry list takes, and whatever is gone is told.                     *)
LEMMA CommitKeeps ==
  ASSUME Typed, RetryCap \in Nat \ {0}, NEW p \in Seq(Rows), Commit(p),
         Ordered(db), Ordered(retry), Ordered(p),
         Before(db, retry), Before(db, p), Before(retry, p),
         Len(retry) <= RetryCap
  PROVE  /\ db' \in Seq(Rows) /\ retry' \in Seq(Rows) /\ pending' = << >>
         /\ lost' \in Nat /\ dropped' = 0 /\ elapsed' \in BOOLEAN /\ faults' \in Nat
         /\ Len(retry') <= RetryCap
         /\ Ordered(db') /\ Ordered(retry') /\ Before(db', retry')
         /\ Ids(db') \union Ids(retry') \subseteq Ids(db) \union Ids(retry) \union Ids(p)
         /\ Ids(retry') \subseteq Ids(retry) \union Ids(p)
         /\ lost' > 0 \/ Ids(db) \union Ids(retry) \union Ids(p)
                           \subseteq Ids(db') \union Ids(retry')
         /\ lost + dropped > 0 \/ Told(db) \/ Told(retry)
              => lost' > 0 \/ Told(db') \/ Told(retry')
<1> USE DEF Typed
<1>1. PICK rows : rows = RowsOf(p) OBVIOUS
<1>2. /\ rows \in Seq(Rows) /\ Ids(rows) = Ids(retry) \union Ids(p) /\ Ordered(rows)
      /\ (lost + dropped > 0 => rows # << >> /\ rows[Len(rows)].drops > 0)
      /\ (Told(retry) => Told(rows))
      /\ (rows = << >> => retry = << >> /\ p = << >>)
  BY <1>1, RowsInOrder
<1>3. Before(db, rows) BY <1>2 DEF Before
<1>4. dropped' = 0 /\ pending' = << >> BY DEF Commit
<1>5. Ids(<< >>) = {} /\ Ordered(<< >>) BY DEF Ids, Ordered
<1>6. CASE rows = << >> /\ UNCHANGED << retry, lost, elapsed, faults, db >>
  <2>1. retry = << >> /\ p = << >> BY <1>2, <1>6
  <2>2. db' = db /\ retry' = retry /\ lost' = lost /\ elapsed' = elapsed /\ faults' = faults
    BY <1>6
  <2>3. ~ (lost + dropped > 0) BY <1>2, <1>6
  <2>4. Told(db) \/ Told(retry) => Told(db') \/ Told(retry') BY <2>2
  <2>5. Ids(retry) = {} /\ Ids(p) = {} /\ Ids(retry') = {} /\ Ids(db') = Ids(db)
    BY <1>5, <2>1, <2>2
  <2>6. /\ db' \in Seq(Rows) /\ retry' \in Seq(Rows) /\ lost' \in Nat
        /\ elapsed' \in BOOLEAN /\ faults' \in Nat /\ Len(retry') <= RetryCap
    BY <2>2
  <2>7. Ordered(db') /\ Ordered(retry') /\ Before(db', retry') BY <2>2
  <2> QED BY <1>4, <2>3, <2>4, <2>5, <2>6, <2>7
<1>7. CASE rows # << >> /\ db' = db \o rows /\ retry' = << >> /\ lost' = 0
           /\ elapsed' = FALSE /\ UNCHANGED faults
  <2>1. Ids(db') = Ids(db) \union Ids(rows) BY <1>2, <1>7, IdsOfConcat
  <2>2. Ordered(db')
    <3>1. \A x \in Rows : x.id \in Nat BY DEF Rows
    <3> QED BY <1>2, <1>3, <1>7, <3>1, OrderOfConcat
  <2>3. db' \in Seq(Rows) BY <1>2, <1>7
  <2>4. Before(db', retry') BY <1>5, <1>7 DEF Before
  <2>5. ASSUME Told(db) PROVE Told(db')
    <3>1. PICK i \in DOMAIN db : db[i].drops > 0 BY <2>5 DEF Told
    <3>2. i \in DOMAIN db' /\ db'[i] = db[i] BY <1>2, <1>7
    <3> QED BY <3>1, <3>2 DEF Told
  <2>6. ASSUME Told(rows) PROVE Told(db')
    <3>1. PICK i \in DOMAIN rows : rows[i].drops > 0 BY <2>6 DEF Told
    <3>2. Len(db) + i \in DOMAIN db' /\ db'[Len(db) + i] = rows[i] BY <1>2, <1>7
    <3> QED BY <3>1, <3>2 DEF Told
  <2>7. lost + dropped > 0 => Told(rows)
    <3>1. rows # << >> => Len(rows) \in DOMAIN rows BY <1>2
    <3> QED BY <1>2, <3>1 DEF Told
  <2>8. lost + dropped > 0 \/ Told(db) \/ Told(retry) => Told(db')
    BY <1>2, <2>5, <2>6, <2>7
  <2>9. Ids(retry') = {} /\ Ordered(retry') BY <1>5, <1>7
  <2>10. /\ retry' \in Seq(Rows) /\ lost' \in Nat
         /\ elapsed' \in BOOLEAN /\ faults' \in Nat /\ Len(retry') <= RetryCap
    <3>1. elapsed' \in BOOLEAN BY <1>7
    <3>2. retry' \in Seq(Rows) /\ Len(retry') = 0 /\ lost' \in Nat /\ faults' \in Nat BY <1>7
    <3> QED BY <3>1, <3>2
  <2>11. /\ Ids(db') \union Ids(retry') = Ids(db) \union Ids(retry) \union Ids(p)
    BY <1>2, <2>1, <2>9
  <2> QED BY <1>4, <2>2, <2>3, <2>4, <2>8, <2>9, <2>10, <2>11
<1>8. CASE rows # << >> /\ faults' = faults + 1 /\ lost' = Overflow(rows)
           /\ retry' = SubSeq(rows, Overflow(rows) + 1, Len(rows))
           /\ UNCHANGED << elapsed, db >>
  <2>1. PICK k : k = Overflow(rows) OBVIOUS
  <2>2. Len(rows) \in Nat BY <1>2
  <2>3. k \in Nat /\ k <= Len(rows) /\ Len(rows) - k <= RetryCap
        /\ (k > 0 => Len(rows) - k = RetryCap)
    BY <2>1, <2>2 DEF Overflow
  <2>4. retry' = SubSeq(rows, k + 1, Len(rows)) /\ lost' = k BY <1>8, <2>1
  <2>5. /\ retry' \in Seq(Rows) /\ Len(retry') = Len(rows) - k
        /\ \A i \in 1 .. Len(rows) - k : retry'[i] = rows[i + k]
        /\ \E g : Thins(retry', rows, g)
    BY <1>2, <2>3, <2>4, EndThins
  <2>6. Ids(retry') \subseteq Ids(rows) /\ Ordered(retry') BY <1>2, <2>5, ThinOrder
  <2>7. Before(db', retry') BY <1>3, <1>8, <2>6 DEF Before
  <2>8. CASE k = 0
    <3>1. retry' = rows BY <1>2, <2>4, <2>8
    <3>2. lost + dropped > 0 => Told(rows)
      <4>1. rows # << >> => Len(rows) \in DOMAIN rows BY <1>2
      <4> QED BY <1>2, <4>1 DEF Told
    <3>3. lost + dropped > 0 \/ Told(db) \/ Told(retry) => Told(db') \/ Told(retry')
      BY <1>2, <1>8, <3>1, <3>2
    <3>4. Ids(db') = Ids(db) /\ Ids(retry') = Ids(retry) \union Ids(p) BY <1>2, <1>8, <3>1
    <3>5. elapsed' \in BOOLEAN /\ db' \in Seq(Rows) /\ Ordered(db') BY <1>8
    <3>6. faults' \in Nat /\ lost' \in Nat /\ Len(retry') <= RetryCap
      BY <1>8, <2>2, <2>3, <2>4, <2>5
    <3> QED BY <1>4, <2>5, <2>6, <2>7, <3>3, <3>4, <3>5, <3>6
  <2>9. CASE k > 0
    BY <1>2, <1>4, <1>8, <2>3, <2>4, <2>5, <2>6, <2>7, <2>9
  <2> QED BY <2>3, <2>8, <2>9
<1> QED BY <1>1, <1>6, <1>7, <1>8 DEF Commit

-----------------------------------------------------------------------------
(* The ring *)

Held(r) == [i \in DOMAIN r |-> Record(r[i])]

(* The ring as a queue of records.                                         *)
LEMMA HeldIds ==
  ASSUME NEW r \in Seq(Nat \ {0})
  PROVE  /\ Ids(Held(r)) = {r[i] : i \in DOMAIN r}
         /\ Ordered(Held(r)) <=> \A i, j \in DOMAIN r : i < j => r[i] < r[j]
<1>1. \A i \in DOMAIN r : r[i] \in Nat \ {0} OBVIOUS
<1>2. DOMAIN Held(r) = DOMAIN r /\ \A i \in DOMAIN r : Held(r)[i].id = r[i]
  BY DEF Held, Record
<1> HIDE DEF Held
<1>3. Ids(Held(r)) = {r[i] : i \in DOMAIN r} BY <1>1, <1>2 DEF Ids
<1>4. Ordered(Held(r)) <=> \A i, j \in DOMAIN r : i < j => r[i] < r[j]
  BY <1>1, <1>2 DEF Ordered
<1> QED BY <1>3, <1>4

(* Waiting is the ring, before and after a step.                           *)
LEMMA WaitingIsHeld ==
  Waiting = Held(ring) /\ Waiting' = Held(ring')
BY DEF Waiting, Held

(* Handing the oldest record of the ring over. *)
LEMMA HeldTail ==
  ASSUME NEW r \in Seq(Nat \ {0}), r # << >>, Ordered(Held(r))
  PROVE  /\ Tail(r) \in Seq(Nat \ {0}) /\ Head(r) \in Nat \ {0}
         /\ Head(r) = r[1] /\ 1 \in DOMAIN r
         /\ \A i \in DOMAIN Tail(r) : i + 1 \in DOMAIN r /\ Tail(r)[i] = r[i + 1]
         /\ Ordered(Held(Tail(r)))
         /\ Ids(Held(r)) = Ids(Held(Tail(r))) \union {Head(r)}
         /\ \A n \in Ids(Held(Tail(r))) : Head(r) < n
<1> DEFINE t == Tail(r)
<1>1. /\ t \in Seq(Nat \ {0}) /\ Len(t) = Len(r) - 1 /\ Len(r) >= 1
      /\ Head(r) = r[1] /\ r[1] \in Nat \ {0}
      /\ \A i \in 1 .. Len(r) - 1 : t[i] = r[i + 1]
  OBVIOUS
<1>2. DOMAIN t = 1 .. Len(r) - 1 /\ DOMAIN r = 1 .. Len(r) /\ Len(r) \in Nat BY <1>1
<1> HIDE DEF t
<1>3. \A i, j \in DOMAIN r : i < j => r[i] < r[j] BY HeldIds
<1>4. Ids(Held(r)) = {r[i] : i \in DOMAIN r} /\ Ids(Held(t)) = {t[i] : i \in DOMAIN t}
  BY <1>1, HeldIds
<1>5. \A i \in DOMAIN t : i + 1 \in DOMAIN r /\ t[i] = r[i + 1] BY <1>1, <1>2
<1>6. Ordered(Held(t))
  <2>1. \A i, j \in DOMAIN t : i < j => t[i] < t[j] BY <1>2, <1>3, <1>5
  <2> QED BY <1>1, <2>1, HeldIds
<1>7. ASSUME NEW n \in Ids(Held(t)) PROVE n \in Ids(Held(r)) /\ Head(r) < n
  <2>1. PICK i \in DOMAIN t : n = t[i] BY <1>4
  <2>2. i + 1 \in DOMAIN r /\ n = r[i + 1] /\ 1 < i + 1 /\ 1 \in DOMAIN r BY <1>1, <1>2, <1>5, <2>1
  <2> QED BY <1>1, <1>3, <1>4, <2>2
<1>8. ASSUME NEW n \in Ids(Held(r)) PROVE n \in Ids(Held(t)) \union {Head(r)}
  <2>1. PICK i \in DOMAIN r : n = r[i] BY <1>4
  <2>2. CASE i = 1 BY <1>1, <2>1, <2>2
  <2>3. CASE i # 1
    <3>1. PICK k \in DOMAIN t : i = k + 1
      <4>1. i - 1 \in DOMAIN t /\ i = (i - 1) + 1 BY <1>2, <2>3
      <4> QED BY <4>1
    <3> QED BY <1>4, <1>5, <2>1, <3>1
  <2> QED BY <2>2, <2>3
<1>9. Head(r) \in Ids(Held(r)) /\ 1 \in DOMAIN r BY <1>1, <1>2, <1>4
<1>10. Ids(Held(r)) = Ids(Held(t)) \union {Head(r)} BY <1>7, <1>8, <1>9
<1> QED BY <1>1, <1>5, <1>6, <1>7, <1>9, <1>10 DEF t

(* Taking a new record in. *)
LEMMA HeldAppend ==
  ASSUME NEW r \in Seq(Nat \ {0}), Ordered(Held(r)), NEW n \in Nat \ {0},
         \A m \in Ids(Held(r)) : m < n
  PROVE  /\ Append(r, n) \in Seq(Nat \ {0})
         /\ Ordered(Held(Append(r, n)))
         /\ Ids(Held(Append(r, n))) = Ids(Held(r)) \union {n}
<1> DEFINE t == Append(r, n)
<1>1. /\ t \in Seq(Nat \ {0}) /\ Len(t) = Len(r) + 1
      /\ t[Len(r) + 1] = n /\ \A i \in 1 .. Len(r) : t[i] = r[i]
  OBVIOUS
<1>2. DOMAIN t = 1 .. Len(r) + 1 /\ DOMAIN r = 1 .. Len(r) /\ Len(r) \in Nat BY <1>1
<1> HIDE DEF t
<1>3. \A i, j \in DOMAIN r : i < j => r[i] < r[j] BY HeldIds
<1>4. Ids(Held(r)) = {r[i] : i \in DOMAIN r} /\ Ids(Held(t)) = {t[i] : i \in DOMAIN t}
  BY <1>1, HeldIds
<1>5. \A i \in DOMAIN r : r[i] < n BY <1>4
<1>6. ASSUME NEW i \in DOMAIN t, NEW j \in DOMAIN t, i < j PROVE t[i] < t[j]
  <2>1. i \in DOMAIN r /\ t[i] = r[i] BY <1>1, <1>2, <1>6
  <2>2. CASE j = Len(r) + 1 BY <1>1, <1>5, <2>1, <2>2
  <2>3. CASE j \in DOMAIN r
    <3>1. t[j] = r[j] BY <1>1, <1>2, <2>3
    <3> QED BY <1>3, <1>6, <2>1, <2>3, <3>1
  <2> QED BY <1>2, <2>2, <2>3
<1>7. Ordered(Held(t)) BY <1>1, <1>6, HeldIds
<1>8. Ids(Held(t)) = Ids(Held(r)) \union {n} BY <1>1, <1>2, <1>4
<1> QED BY <1>1, <1>7, <1>8 DEF t

-----------------------------------------------------------------------------
(* What is on its way *)

(* The records LossIsTold looks for are those of the six stages. *)
LEMMA MissingIsNotOnItsWay ==
  /\ Typed  => Missing  = {i \in shed + 1 .. emitted : i \notin OnItsWay}
  /\ Typed' => Missing' = {i \in shed' + 1 .. emitted' : i \notin OnItsWay'}
<1>1. ASSUME NEW r \in Seq(Rows), NEW p \in Seq(Rows), NEW h \in Messages, NEW m \in Seq(Messages)
      PROVE  Ids(r \o p \o << h >> \o m) = Ids(r) \union Ids(p) \union Ids(<< h >>) \union Ids(m)
  <2> DEFINE S == Rows \union Messages
  <2>1. r \in Seq(S) /\ p \in Seq(S) /\ m \in Seq(S) OBVIOUS
  <2>2. PICK k \in Seq(S) : k = << h >>
    <3>1. << h >> \in Seq(S) OBVIOUS
    <3> QED BY <3>1
  <2> HIDE DEF S
  <2>3. PICK rp \in Seq(S) : rp = r \o p
    <3>1. r \o p \in Seq(S) BY <2>1
    <3> QED BY <3>1
  <2>4. PICK rpk \in Seq(S) : rpk = rp \o k
    <3>1. rp \o k \in Seq(S) BY <2>2
    <3> QED BY <3>1
  <2>5. Ids(rp) = Ids(r) \union Ids(p) BY <2>1, <2>3, IdsOfConcat
  <2>6. Ids(rpk) = Ids(rp) \union Ids(k) BY <2>4, IdsOfConcat
  <2>7. Ids(rpk \o m) = Ids(rpk) \union Ids(m) BY <2>1, IdsOfConcat
  <2> QED BY <2>2, <2>3, <2>4, <2>5, <2>6, <2>7
<1>2. ASSUME Typed PROVE Ids(InFlight) = Ids(retry) \union Ids(pending) \union Ids(<< hand >>) \union Ids(mailbox)
  BY <1>1, <1>2 DEF InFlight, Typed
<1>3. ASSUME Typed'
      PROVE  Ids(InFlight)' = Ids(retry') \union Ids(pending') \union Ids(<< hand' >>) \union Ids(mailbox')
  <2>1. retry' \in Seq(Rows) /\ pending' \in Seq(Rows) /\ hand' \in Messages /\ mailbox' \in Seq(Messages)
    BY <1>3 DEF Typed
  <2>2. Ids(InFlight)' = Ids(retry' \o pending' \o << hand' >> \o mailbox') BY DEF InFlight, Ids
  <2> QED BY <1>1, <2>1, <2>2
<1>4. ASSUME Typed PROVE Missing  = {i \in shed + 1 .. emitted : i \notin OnItsWay}
  <2>1. PICK fl : fl = Ids(InFlight) OBVIOUS
  <2>2. Missing = {i \in shed + 1 .. emitted : i \notin Ids(db) \union fl \union Ids(Waiting)}
    BY <2>1 DEF Missing
  <2>3. fl = Ids(retry) \union Ids(pending) \union Ids(<< hand >>) \union Ids(mailbox)
    BY <1>2, <1>4, <2>1
  <2> QED BY <2>2, <2>3 DEF OnItsWay
<1>5. ASSUME Typed' PROVE Missing' = {i \in shed' + 1 .. emitted' : i \notin OnItsWay'}
  <2>1. PICK fl : fl = Ids(InFlight)' OBVIOUS
  <2>2. Missing' = {i \in shed' + 1 .. emitted' : i \notin Ids(db') \union fl \union Ids(Waiting')}
    BY <2>1 DEF Missing
  <2>3. fl = Ids(retry') \union Ids(pending') \union Ids(<< hand' >>) \union Ids(mailbox')
    BY <1>3, <1>5, <2>1
  <2>4. OnItsWay' = Ids(db') \union Ids(retry') \union Ids(pending') \union Ids(<< hand' >>)
                      \union Ids(mailbox') \union Ids(Waiting')
    BY DEF OnItsWay
  <2> QED BY <2>2, <2>3, <2>4
<1> QED BY <1>4, <1>5

(* What is on its way has a number. *)
LEMMA NumbersOnTheWay ==
  ASSUME Typed
  PROVE  OnItsWay \subseteq Nat
<1> USE DEF Typed
<1>1. ASSUME NEW q \in Seq(Rows) PROVE Ids(q) \subseteq Nat
  <2>1. \A i \in DOMAIN q : q[i] \in Rows OBVIOUS
  <2>2. \A x \in Rows : x.id \in Nat BY DEF Rows
  <2> QED BY <2>1, <2>2 DEF Ids
<1>2. ASSUME NEW q \in Seq(Messages) PROVE Ids(q) \subseteq Nat
  <2>1. \A i \in DOMAIN q : q[i] \in Messages OBVIOUS
  <2>2. \A x \in Messages : x.id \in Nat BY DEF Messages
  <2> QED BY <2>1, <2>2 DEF Ids
<1>3. << hand >> \in Seq(Messages) OBVIOUS
<1>4. Ids(Waiting) \subseteq Nat BY HeldIds, WaitingIsHeld
<1>5. Ids(<< hand >>) \subseteq Nat BY <1>2, <1>3
<1> QED BY <1>1, <1>2, <1>4, <1>5 DEF OnItsWay

(* A step that loses nothing, or tells it, keeps LossIsTold. *)
LEMMA ToldStays ==
  ASSUME Typed, Typed', LossIsTold,
         \A i \in shed' + 1 .. emitted' :
           i \notin OnItsWay' => i \in shed + 1 .. emitted /\ i \notin OnItsWay,
         dropped + lost > 0 \/ Told(db) \/ Told(retry)
           => dropped' + lost' > 0 \/ Told(db') \/ Told(retry')
  PROVE  LossIsTold'
<1>1. Missing' \subseteq Missing BY MissingIsNotOnItsWay
<1>2. Missing # {} => dropped + lost > 0 \/ Told(db) \/ Told(retry) BY DEF LossIsTold
<1>3. LossIsTold' <=> (Missing' # {} => dropped' + lost' > 0 \/ Told(db') \/ Told(retry'))
  BY DEF LossIsTold, Told
<1> QED BY <1>1, <1>2, <1>3

-----------------------------------------------------------------------------
(* The threads that log *)

(* What is put fits behind everything on its way but the ring, which holds *)
(* only newer records, and nothing else appears or disappears.             *)
Fits(m) ==
  /\ \A n \in Ids(db) \union Ids(retry) \union Ids(pending) \union Ids(<< hand >>) \union Ids(mailbox) :
       n < m.id \/ m.id = 0
  /\ m.kind = "record" => m.id > flushed
  /\ ring' \in Seq(Nat \ {0})
  /\ \A i \in DOMAIN ring' : \E j \in DOMAIN ring : ring'[i] = ring[j]
  /\ Ordered(Waiting') /\ \A n \in Ids(Waiting') : m.id < n
  /\ Ids(Waiting') \subseteq Ids(Waiting)
  /\ Ids(Waiting) \subseteq Ids(Waiting') \union ({m.id} \ {0})
  /\ emitted' \in Nat /\ emitted <= emitted' /\ m.id <= emitted'
  /\ \A n \in emitted + 1 .. emitted' : n = m.id

(* An empty ring stays empty.                                              *)
LEMMA FitsEmpties ==
  ASSUME NEW m, Fits(m), ring = << >>
  PROVE  ring' = << >>
<1>1. DOMAIN ring = {} OBVIOUS
<1>2. DOMAIN ring' = {} BY <1>1 DEF Fits
<1>3. ring' \in Seq(Nat \ {0}) BY DEF Fits
<1> QED BY <1>2, <1>3

(* A put that fits keeps everything but what concerns the flushes. *)
LEMMA PutKeeps ==
  ASSUME LogInv, Cap \in Nat \ {0}, NEW m \in Messages, Put(m), Fits(m),
         UNCHANGED writer, shed' = shed,
         phase' \in {"replay", "open", "closing"},
         opens' \in Nat, flushing' \in [Loggers -> Int],
         phase' # "replay" => ring' = << >>,
         m.kind = "shutdown" => ring' = << >>
  PROVE  Typed' /\ Emitted' /\ InEmitOrder' /\ FlushIsBarrier' /\ CrashLosesBounded' /\ LossIsTold'
<1>1. Typed /\ Emitted /\ InEmitOrder /\ FlushIsBarrier /\ CrashLosesBounded /\ LossIsTold
  BY DEF LogInv
<1>2. /\ db' = db /\ retry' = retry /\ pending' = pending /\ hand' = hand /\ lost' = lost
      /\ elapsed' = elapsed /\ faults' = faults /\ flushed' = flushed
  BY DEF writer, batch
<1>3. PICK r, g : Puts(m, r, g) BY <1>1, PutIsLast
<1>4. /\ Ids(mailbox') \subseteq Ids(mailbox) \union ({m.id} \ {0})
      /\ dropped' = 0 => Ids(mailbox') = Ids(mailbox) \union ({m.id} \ {0})
      /\ Ordered(mailbox) /\ (\A n \in Ids(mailbox) : n < m.id \/ m.id = 0)
              => Ordered(mailbox')
  BY <1>1, <1>3, PutOrder
<1>5. /\ mailbox' \in Seq(Messages) /\ dropped' \in Nat
      /\ dropped' = 0 => dropped = 0 
  BY <1>1, <1>3 DEF Puts, Typed
<1>6. Typed'
  BY <1>1, <1>2, <1>5 DEF Typed, Fits
<1>7. Emitted'
  <2>1. \A n \in OnItsWay' : n <= emitted'
    <3>1. OnItsWay' = Ids(db) \union Ids(retry) \union Ids(pending) \union Ids(<< hand >>)
                      \union Ids(mailbox') \union Ids(Waiting')
      BY <1>2 DEF OnItsWay
    <3>2. \A n \in OnItsWay' : n \in OnItsWay \/ n = m.id
      BY <1>4, <3>1 DEF OnItsWay, Fits
    <3>3. \A n \in OnItsWay : n <= emitted /\ n \in Int
      <4>1. \A n \in OnItsWay : n <= emitted BY <1>1 DEF Emitted
      <4>2. OnItsWay \subseteq Nat BY <1>1, NumbersOnTheWay
      <4> QED BY <4>1, <4>2
    <3>4. emitted \in Nat /\ emitted' \in Nat /\ emitted <= emitted' /\ m.id <= emitted'
      BY <1>1 DEF Typed, Fits
    <3> QED BY <3>2, <3>3, <3>4
  <2>2. \A i \in DOMAIN ring' : ring'[i] > shed' BY <1>1 DEF Emitted, Fits
  <2>3. shed' <= emitted'
    <3>1. shed <= emitted /\ shed \in Nat BY <1>1 DEF Emitted, Typed
    <3>2. emitted \in Nat /\ emitted' \in Nat /\ emitted <= emitted' BY <1>1 DEF Typed, Fits
    <3> QED BY <3>1, <3>2
  <2>4. /\ phase' \in {"open", "closing", "stopped"} => ring' = << >>
        /\ phase' \notin {"boot", "memory"}
    OBVIOUS
  <2>5. Closing(mailbox') \/ hand'.kind = "shutdown" => ring' = << >>
    <3>1. Closing(mailbox') => Closing(mailbox) \/ m.kind = "shutdown"
      <4>1. /\ DOMAIN mailbox' = 1 .. Len(r) + 1 /\ DOMAIN r = 1 .. Len(r) /\ Len(r) \in Nat
            /\ mailbox'[Len(r) + 1] = m
            /\ \A i \in DOMAIN r : mailbox'[i] = mailbox[g[i]] /\ g[i] \in DOMAIN mailbox
        BY <1>3 DEF Puts, Thins
      <4>2. \A i \in DOMAIN mailbox' : i \in DOMAIN r \/ i = Len(r) + 1 BY <4>1
      <4> QED BY <4>1, <4>2 DEF Closing
    <3>2. ring = << >> => ring' = << >> BY FitsEmpties
    <3> QED BY <1>1, <1>2, <3>1, <3>2 DEF Emitted
  <2> QED BY <2>1, <2>2, <2>3, <2>4, <2>5 DEF Emitted
<1>8. InEmitOrder'
  <2>1. Staged(db, retry, pending, << hand >>, mailbox, Waiting) BY <1>1, OrderIsStaged
  <2>2. \A n \in Ids(db) \union Ids(retry) \union Ids(pending) \union Ids(<< hand >>) \union Ids(mailbox) :
          n < m.id \/ m.id = 0
    BY DEF Fits
  <2>3. Ids(Waiting') \subseteq Ids(Waiting) /\ Ordered(Waiting')
        /\ \A n \in Ids(Waiting') : m.id < n
    BY DEF Fits
  <2>4. Ordered(mailbox') BY <1>4, <2>1, <2>2 DEF Staged
  <2>5. /\ Before(db, mailbox') /\ Before(retry, mailbox') /\ Before(pending, mailbox')
        /\ Before(<< hand >>, mailbox')
    BY <1>4, <2>1, <2>2 DEF Staged, Before
  <2>6. /\ Before(db, Waiting') /\ Before(retry, Waiting') /\ Before(pending, Waiting')
        /\ Before(<< hand >>, Waiting')
    BY <2>1, <2>3 DEF Staged, Before
  <2>7. Before(mailbox', Waiting')
    BY <1>4, <2>1, <2>3 DEF Staged, Before
  <2>8. Staged(db, retry, pending, << hand >>, mailbox', Waiting')
    BY <2>1, <2>3, <2>4, <2>5, <2>6, <2>7 DEF Staged
  <2> QED BY <1>2, <2>8, OrderIsStaged
<1>9. FlushIsBarrier'
  <2>1. Behind(mailbox, flushed, 0) BY <1>1 DEF FlushIsBarrier, Behind
  <2>2. flushed \in Int /\ (m.kind = "record" => m.id > flushed) BY <1>1 DEF Typed, Fits
  <2>3. Behind(mailbox', flushed, 0) BY <1>1, <1>3, <2>1, <2>2, PutBehind
  <2>4. \A i \in Records(mailbox') : i > 0 BY <1>5 DEF Records
  <2>5. \A i \in Records(mailbox') : mailbox'[i].id > flushed BY <2>3, <2>4 DEF Behind
  <2> QED BY <1>1, <1>2, <2>5 DEF FlushIsBarrier
<1>10. CrashLosesBounded'
  <2>1. Cardinality(Records(mailbox')) <= Cap BY <1>1, PutBounded DEF CrashLosesBounded
  <2> QED BY <1>1, <1>2, <2>1 DEF CrashLosesBounded
<1>11. LossIsTold'
  <2>1. CASE dropped' > 0
    <3>1. lost' \in Nat /\ dropped' \in Nat BY <1>6 DEF Typed
    <3>2. \A d, n \in Nat : d > 0 => d + n > 0 OBVIOUS
    <3>3. dropped' + lost' > 0 BY <2>1, <3>1, <3>2
    <3> QED BY <3>3 DEF LossIsTold
  <2>2. CASE dropped' = 0
    <3>1. Ids(mailbox') = Ids(mailbox) \union ({m.id} \ {0}) BY <1>4, <2>2
    <3>2. OnItsWay' = Ids(db) \union Ids(retry) \union Ids(pending) \union Ids(<< hand >>)
                      \union Ids(mailbox') \union Ids(Waiting')
      BY <1>2 DEF OnItsWay
    <3>3. OnItsWay \union ({m.id} \ {0}) \subseteq OnItsWay' BY <3>1, <3>2 DEF OnItsWay, Fits
    <3>4. \A i \in shed' + 1 .. emitted' :
            i \notin OnItsWay' => i \in shed + 1 .. emitted /\ i \notin OnItsWay
      <4> SUFFICES ASSUME NEW i \in shed + 1 .. emitted', i \notin OnItsWay'
                   PROVE  i \in shed + 1 .. emitted /\ i \notin OnItsWay
        OBVIOUS
      <4>1. i # m.id \/ i = 0 BY <3>3
      <4>2. shed \in Nat /\ emitted \in Nat /\ emitted' \in Nat /\ emitted <= emitted'
            /\ \A n \in emitted + 1 .. emitted' : n = m.id
        BY <1>1 DEF Typed, Fits
      <4>3. i \notin emitted + 1 .. emitted' BY <4>1, <4>2
      <4> QED BY <3>3, <4>2, <4>3
    <3>5. dropped + lost > 0 \/ Told(db) \/ Told(retry)
           => dropped' + lost' > 0 \/ Told(db') \/ Told(retry')
      BY <1>2, <1>5, <2>2
    <3> QED BY <1>1, <1>6, <3>4, <3>5, ToldStays
  <2> QED BY <1>5, <2>1, <2>2
<1> QED BY <1>6, <1>7, <1>8, <1>9, <1>10, <1>11

(* A flush is put behind everything emitted before it was asked for, and   *)
(* whatever is put later is newer than that.                               *)
LEMMA PutFlushes ==
  ASSUME LogInv, Cap \in Nat \ {0}, NEW m \in Messages, Put(m), Fits(m),
         UNCHANGED writer,
         m.kind = "record" =>
           /\ \A k \in DOMAIN mailbox :
                Asked(mailbox[k]) => m.id > flushing[mailbox[k].by]
           /\ Asked(hand) => m.id > flushing[hand.by],
         m.kind # "flush" => flushing' = flushing,
         m.kind = "flush" =>
           /\ ring' = << >> /\ flushing[m.by] = -1
           /\ flushing' = [flushing EXCEPT ![m.by] = emitted]
  PROVE  Flushes'
<1> USE DEF Asked
<1>1. /\ flushing \in [Loggers -> Int] /\ emitted \in Nat /\ emitted' \in Nat
      /\ emitted <= emitted' /\ m.by \in Loggers /\ flushed \in Nat
      /\ \A k \in DOMAIN mailbox : mailbox[k].by \in Loggers
      /\ hand.by \in Loggers
  BY DEF LogInv, Typed, Fits, Messages
<1>2. hand' = hand /\ flushed' = flushed BY DEF writer, batch
<1>3. Typed /\ Flushes BY DEF LogInv
<1>4. PICK r, g : Puts(m, r, g) BY <1>3, PutIsLast
<1>5. /\ Len(r) \in Nat /\ DOMAIN r = 1 .. Len(r) /\ DOMAIN mailbox' = 1 .. Len(r) + 1
      /\ mailbox'[Len(r) + 1] = m
      /\ \A i \in DOMAIN r : mailbox'[i] = mailbox[g[i]] /\ g[i] \in DOMAIN mailbox
                             /\ g[i] \in Nat
      /\ \A i, j \in DOMAIN r : i < j => g[i] < g[j]
  <2>1. DOMAIN mailbox \subseteq Nat BY <1>3 DEF Typed
  <2> QED BY <1>4, <2>1 DEF Puts, Thins
<1>6. \A f \in Int :
        /\ \A k \in DOMAIN r :
              Behind(mailbox, f, g[k]) /\ (m.kind = "record" => m.id > f)
                => Behind(mailbox', f, k)
        /\ Behind(mailbox, f, 0) /\ (m.kind = "record" => m.id > f)
              => Behind(mailbox', f, 0)
        /\ Behind(mailbox', f, Len(r) + 1)
  BY <1>3, <1>4, PutBehind
<1>7. \A i \in DOMAIN ring' : \E j \in DOMAIN ring : ring'[i] = ring[j] BY DEF Fits
<1>15. ring = << >> => ring' = << >> BY FitsEmpties
<1>8. ASSUME NEW l \in Loggers PROVE flushing'[l] <= emitted'
  BY <1>1, <1>3 DEF Flushes, Messages
<1>9. flushed' <= emitted' BY <1>1, <1>2, <1>3 DEF Flushes
<1>10. \A i \in DOMAIN ring' : ring'[i] > flushed' BY <1>2, <1>3, <1>7 DEF Flushes
(* Who has a flush in the mailbox or in hand waits for it already. *)
<1>11. /\ \A k \in DOMAIN mailbox :
            Asked(mailbox[k]) => flushing'[mailbox[k].by] = flushing[mailbox[k].by]
                                 /\ (m.kind = "flush" => m.by # mailbox[k].by)
       /\ Asked(hand) => flushing'[hand.by] = flushing[hand.by]
                         /\ (m.kind = "flush" => m.by # hand.by)
  <2>1. CASE m.kind # "flush" BY <2>1
  <2>2. CASE m.kind = "flush"
    <3>1. \A k \in DOMAIN mailbox : Asked(mailbox[k]) => flushing[mailbox[k].by] >= 0
      BY <1>3 DEF Flushes
    <3>2. Asked(hand) => flushing[hand.by] >= 0 BY <1>3 DEF Flushes
    <3>3. \A l \in Loggers : flushing[l] >= 0 => l # m.by /\ flushing'[l] = flushing[l]
      BY <1>1, <2>2
    <3> QED BY <1>1, <3>1, <3>2, <3>3
  <2> QED BY <2>1, <2>2
<1>12. ASSUME NEW k \in DOMAIN mailbox', Asked(mailbox'[k])
       PROVE  /\ flushing'[mailbox'[k].by] >= 0
              /\ Behind(mailbox', flushing'[mailbox'[k].by], k)
              /\ ring' = << >>
              /\ \A n \in DOMAIN mailbox' :
                   Asked(mailbox'[n]) /\ mailbox'[n].by = mailbox'[k].by => n = k
  <2>1. CASE k \in DOMAIN r
    <3>1. PICK f \in Int : f = flushing[mailbox[g[k]].by] BY <1>1, <1>5, <2>1
    <3>2. mailbox'[k] = mailbox[g[k]] /\ g[k] \in DOMAIN mailbox BY <1>5, <2>1
    <3>3. Asked(mailbox[g[k]]) BY <1>12, <3>2
    <3>4. flushing'[mailbox'[k].by] = f BY <1>11, <3>1, <3>2, <3>3
    <3>5. /\ f >= 0 /\ Behind(mailbox, f, g[k]) /\ ring = << >>
          /\ \A n \in DOMAIN mailbox :
               Asked(mailbox[n]) /\ mailbox[n].by = mailbox[g[k]].by => n = g[k]
      BY <1>3, <3>1, <3>2, <3>3 DEF Flushes
    <3>6. m.kind = "record" => m.id > f BY <3>1, <3>2, <3>3
    <3>7. Behind(mailbox', f, k) BY <1>6, <2>1, <3>5, <3>6
    <3>8. ring' = << >> BY <1>15, <3>5
    <3>9. ASSUME NEW n \in DOMAIN mailbox', Asked(mailbox'[n]), mailbox'[n].by = mailbox'[k].by
          PROVE  n = k
      <4>1. CASE n \in DOMAIN r
        <5>1. g[n] \in DOMAIN mailbox /\ mailbox'[n] = mailbox[g[n]] BY <1>5, <4>1
        <5>2. g[n] = g[k] BY <3>2, <3>5, <3>9, <5>1
        <5>3. ~ (n < k) /\ ~ (k < n) BY <1>5, <2>1, <4>1, <5>2
        <5> QED BY <1>5, <2>1, <4>1, <5>3
      <4>2. CASE n = Len(r) + 1
        BY <1>5, <1>11, <3>2, <3>3, <3>9, <4>2
      <4> QED BY <1>5, <4>1, <4>2
    <3> QED BY <3>4, <3>5, <3>7, <3>8, <3>9
  <2>2. CASE k = Len(r) + 1
    <3>1. mailbox'[k] = m /\ m.kind = "flush" BY <1>5, <1>12, <2>2
    <3>2. flushing'[m.by] = emitted BY <1>1, <3>1
    <3>3. Behind(mailbox', emitted, k) BY <1>1, <1>6, <2>2
    <3>4. ring' = << >> BY <3>1
    <3>5. ASSUME NEW n \in DOMAIN mailbox', Asked(mailbox'[n]), mailbox'[n].by = m.by
          PROVE  n = k
      <4>1. CASE n \in DOMAIN r
        <5>1. g[n] \in DOMAIN mailbox /\ mailbox'[n] = mailbox[g[n]] BY <1>5, <4>1
        <5> QED BY <1>11, <3>1, <3>5, <5>1
      <4> QED BY <1>5, <2>2, <4>1
    <3> QED BY <1>1, <3>1, <3>2, <3>3, <3>4, <3>5
  <2> QED BY <1>5, <2>1, <2>2
<1>13. ASSUME Asked(hand)
       PROVE  /\ flushing'[hand.by] >= 0
              /\ Behind(mailbox', flushing'[hand.by], 0)
              /\ ring' = << >>
              /\ \A n \in DOMAIN mailbox' : Asked(mailbox'[n]) => mailbox'[n].by # hand.by
  <2>1. PICK f \in Int : f = flushing[hand.by] BY <1>1
  <2>2. flushing'[hand.by] = f BY <1>11, <1>13, <2>1
  <2>3. /\ f >= 0 /\ Behind(mailbox, f, 0) /\ ring = << >>
        /\ \A n \in DOMAIN mailbox : Asked(mailbox[n]) => mailbox[n].by # hand.by
    BY <1>3, <1>13, <2>1 DEF Flushes
  <2>4. m.kind = "record" => m.id > f BY <1>13, <2>1
  <2>5. Behind(mailbox', f, 0) BY <1>6, <2>3, <2>4
  <2>6. ring' = << >> BY <1>15, <2>3
  <2>7. ASSUME NEW n \in DOMAIN mailbox', Asked(mailbox'[n]) PROVE mailbox'[n].by # hand.by
    <3>1. CASE n \in DOMAIN r
      <4>1. g[n] \in DOMAIN mailbox /\ mailbox'[n] = mailbox[g[n]] BY <1>5, <3>1
      <4> QED BY <2>3, <2>7, <4>1
    <3>2. CASE n = Len(r) + 1 BY <1>5, <1>11, <1>13, <2>7, <3>2
    <3> QED BY <1>5, <3>1, <3>2
  <2> QED BY <2>2, <2>3, <2>5, <2>6, <2>7
<1> HIDE DEF Asked
<1>14. \A l \in Loggers : flushing'[l] <= emitted' BY <1>8
<1> QED BY <1>2, <1>9, <1>10, <1>12, <1>13, <1>14 DEF Flushes

(* The three kinds of put: a new record, the oldest of the ring, a flush   *)
(* or a shutdown.                                                          *)
LEMMA MessagesPut ==
  /\ \A i \in Nat \ {0} : Record(i) \in Messages /\ Record(i).id = i /\ Record(i).kind = "record"
  /\ \A l \in Loggers : Flush(l) \in Messages /\ Flush(l).id = 0
                        /\ Flush(l).kind = "flush" /\ Flush(l).by = l
  /\ Shutdown \in Messages /\ Shutdown.id = 0 /\ Shutdown.kind = "shutdown"
  /\ TimedOut \in Messages /\ TimedOut.id = 0 /\ TimedOut.kind = "timeout"
  /\ Nothing \in Messages /\ Nothing.id = 0 /\ Nothing.kind = "none"
<1>1. Main \in Loggers BY LogAssumption
<1>2. ASSUME NEW i \in Nat \ {0}
      PROVE  Record(i) \in Messages /\ Record(i).id = i /\ Record(i).kind = "record"
  <2>1. Record(i) \in [kind : Kinds, id : Nat, by : Loggers] BY <1>1 DEF Record, Kinds
  <2>2. Record(i).id = i /\ Record(i).kind = "record" /\ i > 0 BY DEF Record
  <2> QED BY <2>1, <2>2 DEF Messages
<1>3. ASSUME NEW l \in Loggers
      PROVE  Flush(l) \in Messages /\ Flush(l).id = 0 /\ Flush(l).kind = "flush" /\ Flush(l).by = l
  <2>1. Flush(l) \in [kind : Kinds, id : Nat, by : Loggers] BY DEF Flush, Kinds
  <2>2. Flush(l).id = 0 /\ Flush(l).kind = "flush" /\ Flush(l).by = l BY DEF Flush
  <2> QED BY <2>1, <2>2 DEF Messages
<1>4. Shutdown \in Messages /\ Shutdown.id = 0 /\ Shutdown.kind = "shutdown"
  <2>1. Shutdown \in [kind : Kinds, id : Nat, by : Loggers] BY <1>1 DEF Shutdown, Kinds
  <2>2. Shutdown.id = 0 /\ Shutdown.kind = "shutdown" BY DEF Shutdown
  <2> QED BY <2>1, <2>2 DEF Messages
<1>5. TimedOut \in Messages /\ TimedOut.id = 0 /\ TimedOut.kind = "timeout"
  <2>1. TimedOut \in [kind : Kinds, id : Nat, by : Loggers] BY <1>1 DEF TimedOut, Kinds
  <2>2. TimedOut.id = 0 /\ TimedOut.kind = "timeout" BY DEF TimedOut
  <2> QED BY <2>1, <2>2 DEF Messages
<1>6. Nothing \in Messages /\ Nothing.id = 0 /\ Nothing.kind = "none"
  <2>1. Nothing \in [kind : Kinds, id : Nat, by : Loggers] BY <1>1 DEF Nothing, Kinds
  <2>2. Nothing.id = 0 /\ Nothing.kind = "none" BY DEF Nothing
  <2> QED BY <2>1, <2>2 DEF Messages
<1> QED BY <1>2, <1>3, <1>4, <1>5, <1>6

(* A record just emitted fits: nothing on its way is as new. *)
LEMMA NewFits ==
  ASSUME LogInv, ring = << >>, ring' = ring, emitted' = emitted + 1
  PROVE  Fits(Record(emitted + 1))
<1>1. Typed /\ Emitted /\ Flushes BY DEF LogInv
<1>2. PICK m : m = Record(emitted + 1) OBVIOUS
<1>3. emitted \in Nat /\ emitted + 1 \in Nat \ {0} /\ flushed \in Nat BY <1>1 DEF Typed
<1>4. m.id = emitted + 1 /\ m.kind = "record" BY <1>2, <1>3, MessagesPut
<1>5. \A n \in OnItsWay : n <= emitted /\ n \in Nat BY <1>1, NumbersOnTheWay DEF Emitted
<1>6. ring \in Seq(Nat \ {0}) /\ DOMAIN ring = {} BY <1>1 DEF Typed
<1>7. Ids(Waiting') = {} /\ Ids(Waiting) = {} /\ Ordered(Waiting')
  <2>1. Held(ring) = Waiting' /\ Waiting = Held(ring) BY WaitingIsHeld
  <2>2. DOMAIN Held(ring) = {} BY <1>6 DEF Held
  <2> QED BY <2>1, <2>2 DEF Ids, Ordered
<1>8. \A n \in Ids(db) \union Ids(retry) \union Ids(pending) \union Ids(<< hand >>) \union Ids(mailbox) :
        n < m.id \/ m.id = 0
  BY <1>3, <1>4, <1>5 DEF OnItsWay
<1>9. m.id > flushed BY <1>1, <1>3, <1>4 DEF Flushes
<1>10. \A n \in emitted + 1 .. emitted' : n = m.id BY <1>3, <1>4
<1>11. Fits(m) BY <1>3, <1>4, <1>6, <1>7, <1>8, <1>9, <1>10 DEF Fits
<1> QED BY <1>2, <1>11

(* The oldest record of the ring fits: the ring comes last. *)
LEMMA ReplayedFits ==
  ASSUME LogInv, ring # << >>, ring' = Tail(ring), emitted' = emitted
  PROVE  Fits(Record(Head(ring))) /\ Head(ring) \in Nat \ {0}
<1>1. Typed /\ Emitted /\ Flushes /\ InEmitOrder BY DEF LogInv
<1>2. PICK m : m = Record(Head(ring)) OBVIOUS
<1>3. emitted \in Nat /\ flushed \in Nat /\ ring \in Seq(Nat \ {0}) BY <1>1 DEF Typed
<1>4. Staged(db, retry, pending, << hand >>, mailbox, Waiting) BY <1>1, OrderIsStaged
<1>5. Waiting = Held(ring) /\ Waiting' = Held(Tail(ring)) BY WaitingIsHeld
<1>6. Ordered(Held(ring)) BY <1>4, <1>5 DEF Staged
<1>7. /\ Tail(ring) \in Seq(Nat \ {0}) /\ Head(ring) \in Nat \ {0}
      /\ Head(ring) = ring[1] /\ 1 \in DOMAIN ring
      /\ \A i \in DOMAIN Tail(ring) : i + 1 \in DOMAIN ring /\ Tail(ring)[i] = ring[i + 1]
      /\ Ordered(Held(Tail(ring)))
      /\ Ids(Held(ring)) = Ids(Held(Tail(ring))) \union {Head(ring)}
      /\ \A n \in Ids(Held(Tail(ring))) : Head(ring) < n
  BY <1>3, <1>6, HeldTail
<1>8. m.id = Head(ring) /\ m.kind = "record" BY <1>2, <1>7, MessagesPut
<1>9. m.id \in Ids(Waiting) BY <1>5, <1>7, <1>8
<1>10. \A n \in Ids(db) \union Ids(retry) \union Ids(pending) \union Ids(<< hand >>) \union Ids(mailbox) :
         n < m.id
  BY <1>4, <1>9 DEF Staged, Before
<1>11. m.id > flushed BY <1>1, <1>7, <1>8 DEF Flushes
<1>12. m.id <= emitted BY <1>1, <1>9 DEF Emitted, OnItsWay
<1>13. \A i \in DOMAIN ring' : \E j \in DOMAIN ring : ring'[i] = ring[j] BY <1>7
<1>14. /\ Ordered(Waiting') /\ \A n \in Ids(Waiting') : m.id < n
       /\ Ids(Waiting') \subseteq Ids(Waiting)
       /\ Ids(Waiting) \subseteq Ids(Waiting') \union ({m.id} \ {0})
  BY <1>5, <1>7, <1>8
<1>15. ring' \in Seq(Nat \ {0}) BY <1>7
<1>16. \A n \in emitted + 1 .. emitted' : n = m.id BY <1>3
<1>17. emitted' \in Nat /\ emitted <= emitted' /\ m.id <= emitted' BY <1>3, <1>12
<1>18. \A n \in Ids(db) \union Ids(retry) \union Ids(pending) \union Ids(<< hand >>) \union Ids(mailbox) :
         n < m.id \/ m.id = 0
  BY <1>10
<1>19. Fits(m)
  <2>1. m.kind = "record" => m.id > flushed BY <1>11
  <2> QED BY <1>13, <1>14, <1>15, <1>16, <1>17, <1>18, <2>1 DEF Fits
<1> QED BY <1>2, <1>7, <1>19

(* A message that is no record fits anywhere. *)
LEMMA OtherFits ==
  ASSUME LogInv, ring' = ring, emitted' = emitted, NEW m, m.id = 0, m.kind # "record"
  PROVE  Fits(m)
<1>1. Typed /\ InEmitOrder BY DEF LogInv
<1>2. Staged(db, retry, pending, << hand >>, mailbox, Waiting) BY <1>1, OrderIsStaged
<1>3. ring \in Seq(Nat \ {0}) /\ emitted \in Nat BY <1>1 DEF Typed
<1>4. Waiting' = Waiting BY WaitingIsHeld
<1>5. Ordered(Waiting) BY <1>2 DEF Staged
<1>6. \A n \in Ids(Waiting) : n > 0
  <2>1. Ids(Waiting) = {ring[i] : i \in DOMAIN ring} BY <1>3, HeldIds, WaitingIsHeld
  <2> QED BY <1>3, <2>1
<1>7. \A n \in emitted + 1 .. emitted' : n = m.id BY <1>3
<1> QED BY <1>3, <1>4, <1>5, <1>6, <1>7 DEF Fits

(* All capacities are positive.                                            *)
LEMMA CapsPositive ==
  Cap \in Nat \ {0} /\ RetryCap \in Nat \ {0} /\ RingCap \in Nat \ {0} /\ BatchMax \in Nat \ {0}
BY LogAssumption

(* A put that fits keeps everything. *)
LEMMA PutStep ==
  ASSUME LogInv, NEW m \in Messages, Put(m), Fits(m), UNCHANGED writer, shed' = shed,
         phase' \in {"replay", "open", "closing"},
         opens' \in Nat,
         phase' # "replay" => ring' = << >>,
         m.kind = "shutdown" => ring' = << >>,
         m.kind = "record" =>
           /\ \A k \in DOMAIN mailbox :
                Asked(mailbox[k]) => m.id > flushing[mailbox[k].by]
           /\ Asked(hand) => m.id > flushing[hand.by],
         m.kind # "flush" => flushing' = flushing,
         m.kind = "flush" =>
           /\ ring' = << >> /\ flushing[m.by] = -1
           /\ flushing' = [flushing EXCEPT ![m.by] = emitted]
  PROVE  LogInv'
<1>1. flushing' \in [Loggers -> Int]
  <2>1. flushing \in [Loggers -> Int] /\ emitted \in Int BY DEF LogInv, Typed
  <2> QED BY <2>1
<1>2. Flushes' BY CapsPositive, PutFlushes
<1>3. Typed' /\ Emitted' /\ InEmitOrder' /\ FlushIsBarrier' /\ CrashLosesBounded' /\ LossIsTold'
  BY <1>1, CapsPositive, PutKeeps
<1> QED BY <1>2, <1>3 DEF LogInv

(* emit() into an open log.                                                *)
LEMMA EmitKeeps ==
  ASSUME LogInv, NEW l \in Loggers, Emit(l)
  PROVE  LogInv'
<1>1. Typed /\ Emitted /\ Flushes BY DEF LogInv
<1>2. PICK m : m = Record(emitted + 1) OBVIOUS
<1>3. emitted + 1 \in Nat \ {0} /\ emitted \in Nat BY <1>1 DEF Typed
<1>4. m \in Messages /\ m.id = emitted + 1 /\ m.kind = "record" BY <1>2, <1>3, MessagesPut
<1>5. /\ phase' = "open" /\ opens' = opens /\ ring' = ring /\ shed' = shed /\ flushing' = flushing
      /\ emitted' = emitted + 1 /\ UNCHANGED writer /\ Put(m) /\ ring = << >>
  BY <1>1, <1>2 DEF Emit, plan, Emitted
<1>6. Fits(m) BY <1>2, <1>5, NewFits
<1>7. /\ \A k \in DOMAIN mailbox : Asked(mailbox[k]) => m.id > flushing[mailbox[k].by]
      /\ Asked(hand) => m.id > flushing[hand.by]
  <2>1. \A k \in DOMAIN mailbox : mailbox[k].by \in Loggers BY <1>1 DEF Typed, Messages
  <2>2. hand.by \in Loggers BY <1>1 DEF Typed, Messages
  <2>3. \A x \in Loggers : flushing[x] <= emitted /\ flushing[x] \in Int
    BY <1>1 DEF Flushes, Typed
  <2> QED BY <1>3, <1>4, <2>1, <2>2, <2>3
<1>8. opens' \in Nat BY <1>1, <1>5 DEF Typed
<1> QED BY <1>4, <1>5, <1>6, <1>7, <1>8, PutStep

(* flush() puts its message.                                               *)
LEMMA CallFlushKeeps ==
  ASSUME LogInv, NEW l \in Loggers, CallFlush(l)
  PROVE  LogInv'
<1>1. Typed /\ Emitted /\ Flushes BY DEF LogInv
<1>2. PICK m : m = Flush(l) OBVIOUS
<1>3. m \in Messages /\ m.id = 0 /\ m.kind = "flush" /\ m.by = l BY <1>2, MessagesPut
<1>4. /\ phase' = "open" /\ opens' = opens /\ ring' = ring /\ shed' = shed
      /\ emitted' = emitted /\ UNCHANGED writer /\ Put(m) /\ ring = << >>
      /\ flushing[l] = -1 /\ flushing' = [flushing EXCEPT ![l] = emitted]
  BY <1>1, <1>2 DEF CallFlush, Ask, plan, Emitted
<1>5. Fits(m) BY <1>3, <1>4, OtherFits
<1>6. opens' \in Nat BY <1>1, <1>4 DEF Typed
<1> QED BY <1>3, <1>4, <1>5, <1>6, PutStep

(* close() puts the last message.                                          *)
LEMMA CloseKeeps ==
  ASSUME LogInv, Close
  PROVE  LogInv'
<1>1. Typed /\ Emitted /\ Flushes BY DEF LogInv
<1>2. PICK m : m = Shutdown OBVIOUS
<1>3. m \in Messages /\ m.id = 0 /\ m.kind = "shutdown" BY <1>2, MessagesPut
<1>4. /\ phase' = "closing" /\ opens' = opens /\ ring' = ring /\ shed' = shed
      /\ emitted' = emitted /\ UNCHANGED writer /\ Put(m) /\ ring = << >> /\ flushing' = flushing
  BY <1>1, <1>2 DEF Close, Emitted
<1>5. Fits(m) BY <1>3, <1>4, OtherFits
<1>6. opens' \in Nat BY <1>1, <1>4 DEF Typed
<1> QED BY <1>3, <1>4, <1>5, <1>6, PutStep

(* open() hands the ring over, record by record, and then flushes.         *)
LEMMA ReplayKeeps ==
  ASSUME LogInv, Replay
  PROVE  LogInv'
<1>1. Typed /\ Emitted /\ Flushes BY DEF LogInv
<1>2. /\ phase' = "replay" /\ shed' = shed /\ UNCHANGED writer /\ flushing[Main] = -1
      /\ opens \in Nat /\ Main \in Loggers /\ emitted \in Nat
  BY <1>1, LogAssumption DEF Replay, Typed
<1>3. /\ \A k \in DOMAIN mailbox : mailbox[k].by \in Loggers
      /\ hand.by \in Loggers
      /\ \A x \in Loggers : flushing[x] <= emitted /\ flushing[x] \in Int
  BY <1>1 DEF Typed, Messages, Flushes
<1>4. CASE ring # << >> /\ Put(Record(Head(ring))) /\ ring' = Tail(ring)
           /\ UNCHANGED << opens, emitted, flushing >>
  <2>1. PICK m : m = Record(Head(ring)) OBVIOUS
  <2>2. Fits(m) /\ Head(ring) \in Nat \ {0} BY <1>4, <2>1, ReplayedFits
  <2>3. m \in Messages /\ m.id = Head(ring) /\ m.kind = "record" BY <2>1, <2>2, MessagesPut
  <2>4. Head(ring) = ring[1] /\ 1 \in DOMAIN ring BY <1>1, <1>4 DEF Typed
  <2>5. /\ \A k \in DOMAIN mailbox : Asked(mailbox[k]) => m.id > flushing[mailbox[k].by]
        /\ Asked(hand) => m.id > flushing[hand.by]
    BY <1>1, <2>3, <2>4 DEF Flushes
  <2> QED BY <1>2, <1>4, <2>1, <2>2, <2>3, <2>5, PutStep
<1>5. CASE ring = << >> /\ emitted' = emitted + 1 /\ Put(Record(emitted + 1)) /\ opens' = 0
           /\ UNCHANGED << ring, flushing >>
  <2>1. PICK m : m = Record(emitted + 1) OBVIOUS
  <2>2. emitted + 1 \in Nat \ {0} BY <1>2
  <2>3. m \in Messages /\ m.id = emitted + 1 /\ m.kind = "record" BY <2>1, <2>2, MessagesPut
  <2>4. Fits(m) BY <1>5, <2>1, NewFits
  <2>5. /\ \A k \in DOMAIN mailbox : Asked(mailbox[k]) => m.id > flushing[mailbox[k].by]
        /\ Asked(hand) => m.id > flushing[hand.by]
    BY <1>2, <1>3, <2>3
  <2> QED BY <1>2, <1>5, <2>1, <2>3, <2>4, <2>5, PutStep
<1>6. CASE ring = << >> /\ Ask(Main) /\ UNCHANGED << opens, ring, emitted >>
  <2>1. PICK m : m = Flush(Main) OBVIOUS
  <2>2. m \in Messages /\ m.id = 0 /\ m.kind = "flush" /\ m.by = Main BY <1>2, <2>1, MessagesPut
  <2>3. Put(m) /\ flushing' = [flushing EXCEPT ![m.by] = emitted] BY <1>6, <2>1, <2>2 DEF Ask
  <2>4. Fits(m) BY <1>6, <2>2, OtherFits
  <2> QED BY <1>2, <1>6, <2>2, <2>3, <2>4, PutStep
<1> QED BY <1>4, <1>5, <1>6 DEF Replay

(* Steps that move no record. *)
LEMMA NothingMoves ==
  ASSUME LogInv, UNCHANGED << ring, shed, emitted, flushing, mailbox, dropped, hand, batch, db, flushed >>,
         phase' = phase \/ (phase = "boot" /\ phase' = "replay"),
         opens' \in Nat, elapsed' \in BOOLEAN, faults' \in Nat
  PROVE  LogInv'
<1>1. /\ ring' = ring /\ shed' = shed /\ emitted' = emitted /\ flushing' = flushing
      /\ mailbox' = mailbox /\ dropped' = dropped /\ hand' = hand /\ pending' = pending
      /\ retry' = retry /\ lost' = lost /\ db' = db /\ flushed' = flushed
  BY DEF batch
<1>2. Typed' BY <1>1 DEF LogInv, Typed
<1>3. Waiting' = Waiting /\ OnItsWay' = OnItsWay BY <1>1 DEF Waiting, OnItsWay
<1>4. Emitted' BY <1>1, <1>3 DEF LogInv, Emitted
<1>5. InEmitOrder'
  <2>1. Staged(db, retry, pending, << hand >>, mailbox, Waiting) BY OrderIsStaged DEF LogInv
  <2>2. Staged(db', retry', pending', << hand' >>, mailbox', Waiting') BY <1>1, <1>3, <2>1
  <2> QED BY <2>2, OrderIsStaged
<1>6. Flushes' BY <1>1 DEF LogInv, Flushes
<1>7. FlushIsBarrier' BY <1>1 DEF LogInv, FlushIsBarrier
<1>8. CrashLosesBounded' BY <1>1 DEF LogInv, CrashLosesBounded
<1>9. LossIsTold'
  <2>1. \A i \in shed' + 1 .. emitted' :
           i \notin OnItsWay' => i \in shed + 1 .. emitted /\ i \notin OnItsWay
    BY <1>1, <1>3
  <2>2. dropped + lost > 0 \/ Told(db) \/ Told(retry)
           => dropped' + lost' > 0 \/ Told(db') \/ Told(retry')
    BY <1>1
  <2> QED BY <1>2, <2>1, <2>2, ToldStays DEF LogInv
<1> QED BY <1>2, <1>4, <1>5, <1>6, <1>7, <1>8, <1>9 DEF LogInv

(* What the ring holds after a record went in: newer than what it gave up, *)
(* and nothing is missing that was not given up.                           *)
LEMMA RingTakes ==
  ASSUME ring \in Seq(Nat \ {0}), emitted \in Nat, shed \in Nat, Ordered(Waiting),
         \A n \in Ids(Waiting) : n <= emitted,
         \A i \in DOMAIN ring : ring[i] > shed, shed <= emitted,
         IntoRing(emitted + 1)
  PROVE  /\ ring' \in Seq(Nat \ {0}) /\ shed' \in Nat /\ shed <= shed'
         /\ Ordered(Waiting')
         /\ Ids(Waiting') \subseteq Ids(Waiting) \union {emitted + 1}
         /\ emitted + 1 \in Ids(Waiting')
         /\ \A i \in DOMAIN ring' : ring'[i] > shed'
         /\ \A i \in DOMAIN ring' : ring'[i] \in Ids(Waiting')
         /\ \A n \in Ids(Waiting) : n > shed' => n \in Ids(Waiting')
<1>1. Waiting = Held(ring) /\ Waiting' = Held(ring') BY WaitingIsHeld
<1>2. PICK e \in Nat \ {0} : e = emitted + 1
  <2>1. emitted + 1 \in Nat \ {0} OBVIOUS
  <2> QED BY <2>1
<1>3. Ids(Held(ring)) = {ring[i] : i \in DOMAIN ring} BY HeldIds
<1>4. \A n \in Ids(Held(ring)) : n \in Nat /\ n > shed /\ n < e
  <2>1. \A n \in Ids(Held(ring)) : n \in Nat /\ n > shed BY <1>3
  <2>2. \A n \in Ids(Held(ring)) : n <= emitted BY <1>1
  <2> QED BY <1>2, <2>1, <2>2
<1>5. CASE Len(ring) = RingCap
  <2>1. ring' = Append(Tail(ring), e) /\ shed' = Head(ring) BY <1>2, <1>5 DEF IntoRing
  <2>2. ring # << >> BY <1>5, CapsPositive
  <2>3. /\ Tail(ring) \in Seq(Nat \ {0}) /\ Head(ring) \in Nat \ {0}
        /\ Head(ring) = ring[1] /\ 1 \in DOMAIN ring
        /\ Ordered(Held(Tail(ring)))
        /\ Ids(Held(ring)) = Ids(Held(Tail(ring))) \union {Head(ring)}
        /\ \A n \in Ids(Held(Tail(ring))) : Head(ring) < n
    BY <1>1, <2>2, HeldTail
  <2>4. PICK t \in Seq(Nat \ {0}) : t = Tail(ring) BY <2>3
  <2>5. \A n \in Ids(Held(t)) : n < e BY <1>4, <2>3, <2>4
  <2>6. /\ Append(t, e) \in Seq(Nat \ {0})
        /\ Ordered(Held(Append(t, e)))
        /\ Ids(Held(Append(t, e))) = Ids(Held(t)) \union {e}
    BY <2>3, <2>4, <2>5, HeldAppend
  <2>7. ring' \in Seq(Nat \ {0}) /\ Ordered(Waiting') /\ Ids(Waiting') = Ids(Held(t)) \union {e}
    BY <1>1, <2>1, <2>4, <2>6
  <2>8. Ids(Waiting') = {ring'[i] : i \in DOMAIN ring'} BY <1>1, <2>7, HeldIds
  <2>9. Head(ring) \in Ids(Held(ring)) BY <2>3
  <2>10. shed' < e /\ shed < shed' /\ shed' \in Nat BY <1>4, <2>1, <2>3, <2>9
  <2>11. \A n \in Ids(Waiting') : n > shed'
    <3>1. \A n \in Ids(Held(t)) : n \in Nat /\ shed' < n BY <1>4, <2>1, <2>3, <2>4
    <3> QED BY <2>7, <2>10, <3>1
  <2>12. \A n \in Ids(Waiting) : n > shed' => n \in Ids(Waiting')
    BY <1>1, <2>1, <2>3, <2>4, <2>7, <2>10
  <2>13. Ids(Waiting') \subseteq Ids(Waiting) \union {e} BY <1>1, <2>3, <2>4, <2>7
  <2> QED BY <1>2, <2>7, <2>8, <2>10, <2>11, <2>12, <2>13
<1>6. CASE Len(ring) # RingCap
  <2>1. ring' = Append(ring, e) /\ shed' = shed BY <1>2, <1>6 DEF IntoRing
  <2>2. /\ Append(ring, e) \in Seq(Nat \ {0})
        /\ Ordered(Held(Append(ring, e)))
        /\ Ids(Held(Append(ring, e))) = Ids(Held(ring)) \union {e}
    BY <1>1, <1>4, HeldAppend
  <2>3. ring' \in Seq(Nat \ {0}) /\ Ordered(Waiting') /\ Ids(Waiting') = Ids(Waiting) \union {e}
    BY <1>1, <2>1, <2>2
  <2>4. Ids(Waiting') = {ring'[i] : i \in DOMAIN ring'} BY <1>1, <2>3, HeldIds
  <2>5. \A n \in Ids(Waiting') : n > shed'
    <3>1. e > shed BY <1>2
    <3> QED BY <1>1, <1>4, <2>1, <2>3, <3>1
  <2>6. shed' \in Nat /\ shed <= shed' BY <2>1
  <2>7. \A i \in DOMAIN ring' : ring'[i] \in Ids(Waiting') BY <2>4
  <2>8. \A i \in DOMAIN ring' : ring'[i] > shed' BY <2>5, <2>7
  <2> QED BY <1>2, <2>3, <2>6, <2>7, <2>8
<1> QED BY <1>5, <1>6

(* emit() before there is a log: into the ring.                            *)
LEMMA RingStep ==
  ASSUME LogInv, IntoRing(emitted + 1), emitted' = emitted + 1,
         UNCHANGED << flushing, mailbox, dropped, writer >>,
         phase \in {"boot", "memory"}, phase' \in {"boot", "memory"}, opens' \in Nat
  PROVE  LogInv'
<1>1. Typed /\ Emitted /\ Flushes /\ FlushIsBarrier /\ LossIsTold
      /\ Staged(db, retry, pending, << hand >>, mailbox, Waiting)
  BY OrderIsStaged DEF LogInv
<1>2. /\ flushing' = flushing /\ mailbox' = mailbox /\ dropped' = dropped /\ hand' = hand
      /\ pending' = pending /\ retry' = retry /\ lost' = lost /\ elapsed' = elapsed
      /\ faults' = faults /\ db' = db /\ flushed' = flushed
  BY DEF writer, batch
<1>3. ring \in Seq(Nat \ {0}) /\ emitted \in Nat /\ shed \in Nat /\ flushed \in Nat BY <1>1 DEF Typed
<1>4. \A n \in OnItsWay : n \in Nat /\ n <= emitted BY <1>1, NumbersOnTheWay DEF Emitted
<1>5. /\ ring' \in Seq(Nat \ {0}) /\ shed' \in Nat /\ shed <= shed'
      /\ Ordered(Waiting')
      /\ Ids(Waiting') \subseteq Ids(Waiting) \union {emitted + 1}
      /\ emitted + 1 \in Ids(Waiting')
      /\ \A i \in DOMAIN ring' : ring'[i] > shed'
      /\ \A i \in DOMAIN ring' : ring'[i] \in Ids(Waiting')
      /\ \A n \in Ids(Waiting) : n > shed' => n \in Ids(Waiting')
  <2>1. Ordered(Waiting) BY <1>1 DEF Staged
  <2>2. \A n \in Ids(Waiting) : n <= emitted BY <1>4 DEF OnItsWay
  <2>3. (\A i \in DOMAIN ring : ring[i] > shed) /\ shed <= emitted BY <1>1 DEF Emitted
  <2> QED BY <1>3, <2>1, <2>2, <2>3, RingTakes
<1>6. Typed' BY <1>1, <1>2, <1>5 DEF Typed
<1>7. OnItsWay' = Ids(db) \union Ids(retry) \union Ids(pending) \union Ids(<< hand >>)
                      \union Ids(mailbox) \union Ids(Waiting')
  BY <1>2 DEF OnItsWay
<1>8. \A n \in OnItsWay' : n \in OnItsWay \/ n = emitted + 1 BY <1>5, <1>7 DEF OnItsWay
<1>9. Emitted'
  <2>1. \A n \in OnItsWay' : n <= emitted' BY <1>3, <1>4, <1>8
  <2>2. shed' <= emitted'
    <3>1. 1 \in DOMAIN ring' \/ shed' = shed
      BY <1>3, CapsPositive DEF IntoRing
    <3>2. CASE shed' = shed BY <1>1, <1>3, <3>2 DEF Emitted
    <3>3. CASE 1 \in DOMAIN ring'
      <4>1. ring'[1] \in OnItsWay' /\ ring'[1] > shed' BY <1>5, <1>7, <3>3
      <4>2. ring'[1] <= emitted' /\ ring'[1] \in Nat BY <1>5, <2>1, <3>3, <4>1
      <4> QED BY <1>3, <1>5, <4>1, <4>2
    <3> QED BY <3>1, <3>2, <3>3
  <2>3. mailbox' = << >> /\ hand'.kind = "none" /\ phase' \notin {"open", "closing", "stopped"}
    BY <1>1, <1>2 DEF Emitted
  <2>4. ~ (Closing(mailbox') \/ hand'.kind = "shutdown")
    <3>1. DOMAIN mailbox' = {} BY <2>3
    <3> QED BY <2>3, <3>1 DEF Closing
  <2> QED BY <1>5, <2>1, <2>2, <2>3, <2>4 DEF Emitted
<1>10. InEmitOrder'
  <2>1. /\ Before(db, Waiting') /\ Before(retry, Waiting') /\ Before(pending, Waiting')
        /\ Before(<< hand >>, Waiting') /\ Before(mailbox, Waiting')
    <3>1. \A n \in OnItsWay : n < emitted + 1 BY <1>3, <1>4
    <3> QED BY <1>1, <1>5, <3>1 DEF Staged, Before, OnItsWay
  <2>2. Staged(db', retry', pending', << hand' >>, mailbox', Waiting')
    BY <1>1, <1>2, <1>5, <2>1 DEF Staged
  <2> QED BY <2>2, OrderIsStaged
(* What the ring holds now it held before, or it is newer than any flush. *)
<1>11. \A f \in Int : f <= emitted /\ (\A i \in DOMAIN ring : ring[i] > f)
                        => \A i \in DOMAIN ring' : ring'[i] > f
  <2>1. SUFFICES ASSUME NEW f \in Int, f <= emitted, \A i \in DOMAIN ring : ring[i] > f,
                        NEW i \in DOMAIN ring'
                 PROVE  ring'[i] > f
    OBVIOUS
  <2>2. ring'[i] \in Ids(Waiting) \/ ring'[i] = emitted + 1 BY <1>5
  <2>3. \A n \in Ids(Waiting) : n > f BY <1>3, <2>1, HeldIds, WaitingIsHeld
  <2> QED BY <1>3, <2>1, <2>2, <2>3
<1>12. Flushes'
  <2>1. \A l \in Loggers : flushing[l] \in Int /\ flushing[l] <= emitted BY <1>1 DEF Typed, Flushes
  <2>2. mailbox = << >> /\ hand.kind = "none" BY <1>1 DEF Emitted
  <2>3. DOMAIN mailbox = {} /\ ~ Asked(hand) BY <2>2 DEF Asked
  <2>4. \A l \in Loggers : flushing[l] <= emitted' BY <1>3, <2>1
  <2>5. flushed <= emitted' /\ \A i \in DOMAIN ring' : ring'[i] > flushed
    BY <1>1, <1>3, <1>11 DEF Flushes
  <2> QED BY <1>2, <2>3, <2>4, <2>5 DEF Flushes
<1>13. FlushIsBarrier' BY <1>1, <1>2 DEF FlushIsBarrier
<1>14. CrashLosesBounded' BY <1>2 DEF LogInv, CrashLosesBounded
<1>15. LossIsTold'
  <2>1. ASSUME NEW i \in shed' + 1 .. emitted', i \notin OnItsWay'
        PROVE  i \in shed + 1 .. emitted /\ i \notin OnItsWay
    <3>1. i # emitted + 1 BY <1>5, <1>7, <2>1
    <3>2. i > shed' /\ i > shed /\ i \in Int
      <4>1. PICK a \in Int, b \in Int : a = shed' /\ b = emitted' BY <1>3, <1>5
      <4>2. i \in shed' + 1 .. emitted' OBVIOUS
      <4>3. i \in a + 1 .. b BY <4>1, <4>2
      <4>4. shed \in Int BY <1>3
      <4>5. shed <= a BY <1>5, <4>1
      <4>6. i > a /\ i > shed /\ i \in Int BY <4>3, <4>4, <4>5
      <4> QED BY <4>1, <4>6
    <3>3. i \in shed + 1 .. emitted BY <1>3, <1>5, <3>1, <3>2
    <3>4. i \notin Ids(Waiting) BY <1>5, <1>7, <2>1, <3>2
    <3> QED BY <1>7, <2>1, <3>3, <3>4 DEF OnItsWay
  <2>2. dropped + lost > 0 \/ Told(db) \/ Told(retry)
           => dropped' + lost' > 0 \/ Told(db') \/ Told(retry')
    BY <1>2
  <2> QED BY <1>1, <1>6, <2>1, <2>2, ToldStays
<1> QED BY <1>6, <1>9, <1>10, <1>12, <1>13, <1>14, <1>15 DEF LogInv

-----------------------------------------------------------------------------
(* The writer thread *)

(* What the writer receives was the oldest in the mailbox. *)
LEMMA ReceiveSplits ==
  ASSUME NEW q \in Seq(Messages), q # << >>, Ordered(q)
  PROVE  /\ Head(q) \in Messages /\ Tail(q) \in Seq(Messages)
         /\ Head(q) = q[1] /\ 1 \in DOMAIN q
         /\ \A i \in DOMAIN Tail(q) : i + 1 \in DOMAIN q /\ Tail(q)[i] = q[i + 1]
         /\ \A i \in DOMAIN Tail(q) : i \in Nat \ {0}
         /\ Ids(q) = Ids(<< Head(q) >>) \union Ids(Tail(q))
         /\ Ordered(Tail(q)) /\ Before(<< Head(q) >>, Tail(q))
         /\ Cardinality(Records(Tail(q))) <= Cardinality(Records(q))
<1>1. PICK h \in Messages : h = Head(q) OBVIOUS
<1>2. PICK t \in Seq(Messages) : t = Tail(q)
  <2>1. Tail(q) \in Seq(Messages) OBVIOUS
  <2> QED BY <2>1
<1>3. /\ q[1] = h /\ 1 \in DOMAIN q
      /\ \A i \in DOMAIN t : i + 1 \in DOMAIN q /\ t[i] = q[i + 1] /\ i \in Nat \ {0}
      /\ \A i \in DOMAIN q : i = 1 \/ (i - 1 \in DOMAIN t /\ i = (i - 1) + 1)
  BY <1>1, <1>2
<1>4. Ids(<< h >>) = {h.id} \ {0} BY DEF Ids
<1>5. Ids(q) = Ids(<< h >>) \union Ids(t)
  <2>1. ASSUME NEW n \in Ids(q) PROVE n \in Ids(<< h >>) \union Ids(t)
    <3>1. PICK i \in DOMAIN q : n = q[i].id /\ n # 0 BY DEF Ids
    <3>2. CASE i = 1 BY <1>3, <1>4, <3>1, <3>2
    <3>3. CASE i # 1
      <4>1. PICK k \in DOMAIN t : i = k + 1 BY <1>3, <3>3
      <4>2. n = t[k].id BY <1>3, <3>1, <4>1
      <4> QED BY <3>1, <4>2 DEF Ids
    <3> QED BY <3>2, <3>3
  <2>2. ASSUME NEW n \in Ids(<< h >>) PROVE n \in Ids(q) BY <1>3, <1>4 DEF Ids
  <2>3. ASSUME NEW n \in Ids(t) PROVE n \in Ids(q) BY <1>3 DEF Ids
  <2> QED BY <2>1, <2>2, <2>3
<1>6. Ordered(t)
  <2> SUFFICES ASSUME NEW i \in DOMAIN t, NEW j \in DOMAIN t, i < j, t[i].id > 0, t[j].id > 0
               PROVE  t[i].id < t[j].id
    BY DEF Ordered
  <2>1. /\ i + 1 \in DOMAIN q /\ j + 1 \in DOMAIN q /\ i + 1 < j + 1
        /\ t[i] = q[i + 1] /\ t[j] = q[j + 1]
    BY <1>3
  <2> QED BY <2>1 DEF Ordered
<1>7. Before(<< h >>, t)
  <2> SUFFICES ASSUME NEW m \in Ids(<< h >>), NEW n \in Ids(t) PROVE m < n BY DEF Before
  <2>1. m = q[1].id /\ m # 0 BY <1>3, <1>4
  <2>2. PICK j \in DOMAIN t : n = t[j].id /\ n # 0 BY DEF Ids
  <2>3. j + 1 \in DOMAIN q /\ n = q[j + 1].id /\ 1 < j + 1 BY <1>3, <2>2
  <2>4. \A i \in DOMAIN q : q[i].id \in Nat BY DEF Messages
  <2>5. q[1].id > 0 /\ q[j + 1].id > 0 BY <1>3, <2>1, <2>2, <2>3, <2>4
  <2> QED BY <1>3, <2>1, <2>3, <2>5 DEF Ordered
<1>8. Cardinality(Records(t)) <= Cardinality(Records(q))
  <2> DEFINE g == [i \in Records(t) |-> i + 1]
  <2>1. \A i \in Records(t) : i + 1 \in Records(q) /\ i \in Nat BY <1>3 DEF Records
  <2>2. g \in [Records(t) -> Records(q)] BY <2>1
  <2>3. \A i, j \in Records(t) : g[i] = g[j] => i = j BY <2>1
  <2>4. g \in Injection(Records(t), Records(q)) BY <2>2, <2>3 DEF Injection, IsInjective
  <2>5. IsFiniteSet(Records(q)) BY RecordsFinite
  <2> HIDE DEF g
  <2> QED BY <2>4, <2>5, FS_Injection
<1> QED BY <1>1, <1>2, <1>3, <1>5, <1>6, <1>7, <1>8

(* The writer takes the first message.                                     *)
LEMMA ReceiveKeeps ==
  ASSUME LogInv, Receive
  PROVE  LogInv'
<1>1. Typed /\ Emitted /\ Flushes /\ FlushIsBarrier /\ CrashLosesBounded /\ LossIsTold
      /\ Staged(db, retry, pending, << hand >>, mailbox, Waiting)
  BY OrderIsStaged DEF LogInv
<1>2. /\ phase' = phase /\ opens' = opens /\ ring' = ring /\ shed' = shed /\ emitted' = emitted
      /\ flushing' = flushing /\ dropped' = dropped
      /\ pending' = pending /\ retry' = retry /\ lost' = lost /\ elapsed' = elapsed
      /\ faults' = faults /\ db' = db /\ flushed' = flushed /\ Waiting' = Waiting
      /\ hand = Nothing
  BY DEF Receive, plan, batch, Waiting
<1>3. hand.id = 0 /\ hand.kind = "none" BY <1>2, MessagesPut
<1>4. Ids(<< hand >>) = {} BY <1>3 DEF Ids
(* Either way the messages on their way stay those they were. *)
<1>5. SUFFICES
        /\ hand' \in Messages /\ mailbox' \in Seq(Messages)
        /\ Ids(mailbox) = Ids(<< hand' >>) \union Ids(mailbox')
        /\ Ordered(mailbox') /\ Before(<< hand' >>, mailbox')
        /\ Cardinality(Records(mailbox')) <= Cap
        /\ \A i \in Records(mailbox') : mailbox'[i].id > flushed
        /\ hand'.kind = "record" => hand'.id > flushed
        /\ Closing(mailbox') \/ hand'.kind = "shutdown" => Closing(mailbox)
        /\ Flushes'
  <2> SUFFICES ASSUME
        /\ hand' \in Messages /\ mailbox' \in Seq(Messages)
        /\ Ids(mailbox) = Ids(<< hand' >>) \union Ids(mailbox')
        /\ Ordered(mailbox') /\ Before(<< hand' >>, mailbox')
        /\ Cardinality(Records(mailbox')) <= Cap
        /\ \A i \in Records(mailbox') : mailbox'[i].id > flushed
        /\ hand'.kind = "record" => hand'.id > flushed
        /\ Closing(mailbox') \/ hand'.kind = "shutdown" => Closing(mailbox)
        /\ Flushes'
      PROVE LogInv'
    OBVIOUS
  <2>1. Typed' BY <1>1, <1>2 DEF Typed
  <2>2. OnItsWay' = OnItsWay
    <3>1. OnItsWay' = Ids(db) \union Ids(retry) \union Ids(pending) \union Ids(<< hand' >>)
                      \union Ids(mailbox') \union Ids(Waiting)
      BY <1>2 DEF OnItsWay
    <3> QED BY <1>4, <3>1 DEF OnItsWay
  <2>3. Emitted'
    <3>1. phase' \notin {"boot", "memory"} BY <1>2 DEF Receive, Running
    <3> QED BY <1>1, <1>2, <2>2, <3>1 DEF Emitted
  <2>4. InEmitOrder'
    <3>1. Ordered(<< hand' >>) BY DEF Ordered
    <3>2. Staged(db, retry, pending, << hand' >>, mailbox', Waiting)
      BY <1>1, <3>1 DEF Staged, Before
    <3> QED BY <1>2, <3>2, OrderIsStaged
  <2>5. FlushIsBarrier' BY <1>1, <1>2 DEF FlushIsBarrier
  <2>6. CrashLosesBounded' BY <1>1, <1>2 DEF CrashLosesBounded
  <2>7. LossIsTold'
    <3>1. \A i \in shed' + 1 .. emitted' :
            i \notin OnItsWay' => i \in shed + 1 .. emitted /\ i \notin OnItsWay
      BY <1>2, <2>2
    <3>2. dropped + lost > 0 \/ Told(db) \/ Told(retry)
           => dropped' + lost' > 0 \/ Told(db') \/ Told(retry')
      BY <1>2
    <3> QED BY <1>1, <2>1, <3>1, <3>2, ToldStays
  <2> QED BY <2>1, <2>3, <2>4, <2>5, <2>6, <2>7 DEF LogInv
<1>6. /\ Ordered(mailbox) /\ mailbox \in Seq(Messages) /\ Cardinality(Records(mailbox)) <= Cap
      /\ \A i \in Records(mailbox) : mailbox[i].id > flushed
  BY <1>1 DEF Staged, Typed, CrashLosesBounded, FlushIsBarrier
<1>7. CASE mailbox # << >> /\ hand' = Head(mailbox) /\ mailbox' = Tail(mailbox)
  <2>1. /\ hand' \in Messages /\ mailbox' \in Seq(Messages)
        /\ hand' = mailbox[1] /\ 1 \in DOMAIN mailbox
        /\ \A i \in DOMAIN mailbox' : i + 1 \in DOMAIN mailbox /\ mailbox'[i] = mailbox[i + 1]
        /\ \A i \in DOMAIN mailbox' : i \in Nat \ {0}
        /\ Ids(mailbox) = Ids(<< hand' >>) \union Ids(mailbox')
        /\ Ordered(mailbox') /\ Before(<< hand' >>, mailbox')
        /\ Cardinality(Records(mailbox')) <= Cardinality(Records(mailbox))
    BY <1>6, <1>7, ReceiveSplits
  <2>2. Cardinality(Records(mailbox')) <= Cap
    <3>1. Cardinality(Records(mailbox')) \in Nat /\ Cardinality(Records(mailbox)) \in Nat
      BY <1>6, <2>1, RecordsFinite
    <3> QED BY <1>6, <2>1, <3>1, CapsPositive
  <2>3. \A i \in Records(mailbox') : i + 1 \in Records(mailbox) /\ mailbox'[i] = mailbox[i + 1]
    BY <2>1 DEF Records
  <2>4. hand'.kind = "record" => 1 \in Records(mailbox) BY <2>1 DEF Records
  <2>5. ASSUME NEW f \in Int, NEW i \in Nat, Behind(mailbox, f, i + 1)
        PROVE  Behind(mailbox', f, i)
    <3> SUFFICES ASSUME NEW j \in Records(mailbox'), j > i PROVE mailbox'[j].id > f
      BY DEF Behind
    <3>1. j \in Nat BY <2>1 DEF Records
    <3>2. j + 1 > i + 1 BY <3>1
    <3> QED BY <2>3, <2>5, <3>2 DEF Behind
  <2>6. /\ \A k \in DOMAIN mailbox : mailbox[k].by \in Loggers
        /\ \A l \in Loggers : flushing[l] \in Int
    BY <1>1 DEF Typed, Messages
  <2>7. ASSUME NEW k \in DOMAIN mailbox', Asked(mailbox'[k])
        PROVE  /\ flushing[mailbox'[k].by] >= 0
               /\ Behind(mailbox', flushing[mailbox'[k].by], k)
               /\ ring = << >>
               /\ \A n \in DOMAIN mailbox' :
                    Asked(mailbox'[n]) /\ mailbox'[n].by = mailbox'[k].by => n = k
    <3>1. k + 1 \in DOMAIN mailbox /\ mailbox'[k] = mailbox[k + 1] /\ k \in Nat BY <2>1
    <3>2. PICK f \in Int : f = flushing[mailbox[k + 1].by] BY <2>6, <3>1
    <3>3. /\ f >= 0 /\ Behind(mailbox, f, k + 1) /\ ring = << >>
          /\ \A n \in DOMAIN mailbox :
               Asked(mailbox[n]) /\ mailbox[n].by = mailbox[k + 1].by => n = k + 1
      BY <1>1, <2>7, <3>1, <3>2 DEF Flushes
    <3>4. Behind(mailbox', f, k) BY <2>5, <3>1, <3>3
    <3>5. ASSUME NEW n \in DOMAIN mailbox', Asked(mailbox'[n]), mailbox'[n].by = mailbox'[k].by
          PROVE  n = k
      <4>1. n + 1 \in DOMAIN mailbox /\ mailbox'[n] = mailbox[n + 1] /\ n \in Nat BY <2>1
      <4>2. n + 1 = k + 1 BY <3>1, <3>3, <3>5, <4>1
      <4> QED BY <3>1, <4>1, <4>2
    <3> QED BY <3>1, <3>2, <3>3, <3>4, <3>5
  <2>8. ASSUME Asked(hand')
        PROVE  /\ flushing[hand'.by] >= 0
               /\ Behind(mailbox', flushing[hand'.by], 0)
               /\ ring = << >>
               /\ \A n \in DOMAIN mailbox' : Asked(mailbox'[n]) => mailbox'[n].by # hand'.by
    <3>1. PICK f \in Int : f = flushing[mailbox[1].by] BY <2>1, <2>6
    <3>2. /\ f >= 0 /\ Behind(mailbox, f, 1) /\ ring = << >>
          /\ \A n \in DOMAIN mailbox :
               Asked(mailbox[n]) /\ mailbox[n].by = mailbox[1].by => n = 1
      BY <1>1, <2>1, <2>8, <3>1 DEF Flushes
    <3>3. Behind(mailbox', f, 0)
      <4>1. 0 + 1 = 1 OBVIOUS
      <4> QED BY <2>5, <3>2, <4>1
    <3>4. ASSUME NEW n \in DOMAIN mailbox', Asked(mailbox'[n]), mailbox'[n].by = hand'.by
          PROVE  FALSE
      <4>1. n + 1 \in DOMAIN mailbox /\ mailbox'[n] = mailbox[n + 1] /\ n \in Nat \ {0} BY <2>1
      <4>2. n + 1 = 1 BY <2>1, <3>2, <3>4, <4>1
      <4> QED BY <4>1, <4>2
    <3> QED BY <2>1, <3>1, <3>2, <3>3, <3>4
  <2>9. Flushes' BY <1>1, <1>2, <2>7, <2>8 DEF Flushes
  <2>10. \A i \in Records(mailbox') : mailbox'[i].id > flushed BY <1>6, <2>3
  <2>11. hand'.kind = "record" => hand'.id > flushed BY <1>6, <2>1, <2>4
  <2>12. Closing(mailbox') \/ hand'.kind = "shutdown" => Closing(mailbox) BY <2>1 DEF Closing
  <2> QED BY <2>1, <2>2, <2>9, <2>10, <2>11, <2>12
<1>8. CASE mailbox = << >> /\ hand' = TimedOut /\ UNCHANGED mailbox
  <2>1. hand' \in Messages /\ hand'.id = 0 /\ hand'.kind = "timeout" BY <1>8, MessagesPut
  <2>2. Ids(<< hand' >>) = {} BY <2>1 DEF Ids
  <2>3. Before(<< hand' >>, mailbox') BY <2>2 DEF Before
  <2>4. mailbox' = mailbox BY <1>8
  <2>5. Flushes' BY <1>1, <1>2, <2>1, <2>4 DEF Flushes, Asked
  <2> QED BY <1>6, <2>1, <2>2, <2>3, <2>4, <2>5
<1> QED BY <1>7, <1>8 DEF Receive

(* The rows handed to a commit or kept for it: what is pending, and the    *)
(* record in hand.                                                         *)
Takes(p) ==
  /\ p \in Seq(Rows) /\ Ordered(p)
  /\ Ids(p) = Ids(pending) \union Ids(<< hand >>)

(* The rows that are pending once the message in hand is dealt with.       *)
LEMMA PendingTaken ==
  ASSUME LogInv
  PROVE  /\ hand.kind # "record" => Takes(pending)
         /\ hand.kind = "record" => Takes(Append(pending, Row(hand.id)))
<1>1. /\ Typed /\ Staged(db, retry, pending, << hand >>, mailbox, Waiting)
  BY OrderIsStaged DEF LogInv
<1>2. hand.id \in Nat /\ (hand.id > 0 <=> hand.kind = "record") /\ pending \in Seq(Rows)
  BY <1>1 DEF Typed, Messages
<1>3. Ids(<< hand >>) = {hand.id} \ {0} BY DEF Ids
<1>4. ASSUME hand.kind # "record" PROVE Takes(pending)
  BY <1>1, <1>2, <1>3, <1>4 DEF Takes, Staged
<1>5. ASSUME hand.kind = "record" PROVE Takes(Append(pending, Row(hand.id)))
  <2>1. PICK b : b = << Row(hand.id) >> OBVIOUS
  <2>2. b \in Seq(Rows)
    <3>1. Row(hand.id) \in Rows BY <1>2 DEF Row, Rows
    <3> QED BY <2>1, <3>1
  <2>3. Append(pending, Row(hand.id)) = pending \o b BY <1>2, <2>1
  <2>4. Ids(b) = Ids(<< hand >>) /\ Ordered(b)
    <3>1. Row(hand.id).id = hand.id BY DEF Row
    <3> QED BY <2>1, <3>1 DEF Ids, Ordered
  <2>5. Before(pending, b) BY <1>1, <2>4 DEF Staged, Before
  <2>6. \A x \in Rows : x.id \in Nat BY DEF Rows
  <2>7. Ordered(pending) BY <1>1 DEF Staged
  <2>8. Ordered(pending \o b) BY <1>2, <2>2, <2>4, <2>5, <2>6, <2>7, OrderOfConcat
  <2>9. Ids(pending \o b) = Ids(pending) \union Ids(b) BY <1>2, <2>2, IdsOfConcat
  <2>10. pending \o b \in Seq(Rows) BY <1>2, <2>2
  <2> QED BY <2>3, <2>4, <2>8, <2>9, <2>10 DEF Takes
<1> QED BY <1>4, <1>5

(* A commit keeps everything, whatever else its step answers. *)
LEMMA CommitStep ==
  ASSUME LogInv, NEW p, Takes(p), Commit(p), hand' = Nothing,
         UNCHANGED << opens, ring, shed, emitted, mailbox >>,
         phase' \in {"boot", "replay", "open", "memory", "closing", "stopped"},
         phase' \in {"open", "closing", "stopped"} => ring = << >>,
         phase' \in {"boot", "memory"} => mailbox = << >>,
         flushing' \in [Loggers -> Int], flushed' \in Nat,
         \A i \in Records(mailbox) : mailbox[i].id > flushed',
         Flushes'
  PROVE  LogInv'
<1>1. /\ Typed /\ Emitted /\ CrashLosesBounded /\ LossIsTold
      /\ Staged(db, retry, pending, << hand >>, mailbox, Waiting)
  BY OrderIsStaged DEF LogInv
<1>2. /\ opens' = opens /\ ring' = ring /\ shed' = shed /\ emitted' = emitted
      /\ mailbox' = mailbox /\ Waiting' = Waiting
  BY DEF Waiting
<1>3. p \in Seq(Rows) /\ Ordered(p) /\ Ids(p) = Ids(pending) \union Ids(<< hand >>)
  BY DEF Takes
<1>4. /\ Ordered(db) /\ Ordered(retry) /\ Before(db, retry)
      /\ Before(db, p) /\ Before(retry, p) /\ Before(p, mailbox) /\ Before(p, Waiting)
  BY <1>1, <1>3 DEF Staged, Before
<1>5. Len(retry) <= RetryCap BY <1>1 DEF CrashLosesBounded
<1>6. /\ db' \in Seq(Rows) /\ retry' \in Seq(Rows) /\ pending' = << >>
      /\ lost' \in Nat /\ dropped' = 0 /\ elapsed' \in BOOLEAN /\ faults' \in Nat
      /\ Len(retry') <= RetryCap
      /\ Ordered(db') /\ Ordered(retry') /\ Before(db', retry')
      /\ Ids(db') \union Ids(retry') \subseteq Ids(db) \union Ids(retry) \union Ids(p)
      /\ Ids(retry') \subseteq Ids(retry) \union Ids(p)
      /\ lost' > 0 \/ Ids(db) \union Ids(retry) \union Ids(p)
                        \subseteq Ids(db') \union Ids(retry')
      /\ lost + dropped > 0 \/ Told(db) \/ Told(retry)
           => lost' > 0 \/ Told(db') \/ Told(retry')
  BY <1>1, <1>3, <1>4, <1>5, CapsPositive, CommitKeeps
<1>7. hand' \in Messages /\ hand'.id = 0 /\ hand'.kind = "none" BY MessagesPut
<1>8. Ids(<< hand' >>) = {} /\ Ids(pending') = {} /\ Ordered(<< hand' >>) /\ Ordered(pending')
  BY <1>6, <1>7 DEF Ids, Ordered
<1>9. Typed'
  <2>1. << >> \in Seq(Rows) OBVIOUS
  <2> QED BY <1>1, <1>2, <1>6, <1>7, <2>1 DEF Typed
<1>10. OnItsWay' = Ids(db') \union Ids(retry') \union Ids(mailbox) \union Ids(Waiting)
  BY <1>2, <1>8 DEF OnItsWay
<1>11. OnItsWay' \subseteq OnItsWay BY <1>3, <1>6, <1>10 DEF OnItsWay
<1>12. Emitted' BY <1>1, <1>2, <1>7, <1>11 DEF Emitted
<1>13. InEmitOrder'
  <2>1. \A n \in Ids(db') \union Ids(retry') : n \in Ids(db) \union Ids(retry) \union Ids(p)
    BY <1>6
  <2>2. /\ Before(db', mailbox) /\ Before(retry', mailbox)
        /\ Before(db', Waiting) /\ Before(retry', Waiting)
    BY <1>1, <1>4, <2>1 DEF Staged, Before
  <2>3. /\ Before(db', pending') /\ Before(retry', pending')
        /\ Before(db', << hand' >>) /\ Before(retry', << hand' >>) /\ Before(pending', << hand' >>)
        /\ Before(pending', mailbox) /\ Before(pending', Waiting)
        /\ Before(<< hand' >>, mailbox) /\ Before(<< hand' >>, Waiting)
    BY <1>8 DEF Before
  <2>4. Staged(db', retry', pending', << hand' >>, mailbox, Waiting)
    BY <1>1, <1>6, <1>8, <2>2, <2>3 DEF Staged
  <2> QED BY <1>2, <2>4, OrderIsStaged
<1>14. FlushIsBarrier' BY <1>2, <1>6, <1>7 DEF FlushIsBarrier
<1>15. CrashLosesBounded'
  <2>1. Len(pending') = 0 /\ 0 < BatchMax BY <1>6, CapsPositive
  <2> QED BY <1>1, <1>2, <1>6, <2>1 DEF CrashLosesBounded
<1>16. LossIsTold'
  <2>1. CASE lost' > 0
    <3>1. \A n \in Nat : n > 0 => 0 + n > 0 OBVIOUS
    <3>2. dropped' + lost' > 0 BY <1>6, <2>1, <3>1
    <3> QED BY <3>2 DEF LossIsTold
  <2>2. CASE ~ (lost' > 0)
    <3>1. OnItsWay \subseteq OnItsWay' BY <1>3, <1>6, <1>10, <2>2 DEF OnItsWay
    <3>2. \A i \in shed' + 1 .. emitted' :
            i \notin OnItsWay' => i \in shed + 1 .. emitted /\ i \notin OnItsWay
      BY <1>2, <3>1
    <3>3. dropped + lost > 0 <=> lost + dropped > 0 BY <1>1 DEF Typed
    <3>4. dropped + lost > 0 \/ Told(db) \/ Told(retry)
           => dropped' + lost' > 0 \/ Told(db') \/ Told(retry')
      BY <1>6, <2>2, <3>3
    <3> QED BY <1>1, <1>9, <3>2, <3>4, ToldStays
  <2> QED BY <2>1, <2>2
<1> QED BY <1>9, <1>12, <1>13, <1>14, <1>15, <1>16 DEF LogInv

(* A record that opens or extends a batch. *)
LEMMA BatchStep ==
  ASSUME LogInv, hand.kind = "record",
         LET p == Append(pending, Row(hand.id))
         IN  Len(p) < BatchMax /\ pending' = p,
         hand' = Nothing,
         UNCHANGED << plan, emitted, flushing, mailbox, dropped, retry, lost, elapsed, faults, db, flushed >>
  PROVE  LogInv'
<1>1. /\ Typed /\ Emitted /\ Flushes /\ FlushIsBarrier /\ CrashLosesBounded /\ LossIsTold
      /\ Staged(db, retry, pending, << hand >>, mailbox, Waiting)
  BY OrderIsStaged DEF LogInv
<1>2. /\ phase' = phase /\ opens' = opens /\ ring' = ring /\ shed' = shed /\ emitted' = emitted
      /\ flushing' = flushing /\ mailbox' = mailbox /\ dropped' = dropped
      /\ retry' = retry /\ lost' = lost /\ elapsed' = elapsed
      /\ faults' = faults /\ db' = db /\ flushed' = flushed /\ Waiting' = Waiting
  BY DEF plan, Waiting
<1>3. /\ pending' \in Seq(Rows) /\ Ordered(pending')
      /\ Ids(pending') = Ids(pending) \union Ids(<< hand >>)
      /\ Len(pending') < BatchMax
  <2>1. PICK p : p = Append(pending, Row(hand.id)) OBVIOUS
  <2>2. Takes(p) /\ pending' = p /\ Len(p) < BatchMax BY <2>1, PendingTaken
  <2> QED BY <2>2 DEF Takes
<1>4. hand' \in Messages /\ hand'.id = 0 /\ hand'.kind = "none" BY MessagesPut
<1>5. Ids(<< hand' >>) = {} /\ Ordered(<< hand' >>) BY <1>4 DEF Ids, Ordered
<1>6. Typed' BY <1>1, <1>2, <1>3, <1>4 DEF Typed
<1>7. OnItsWay' = OnItsWay
  <2>1. OnItsWay' = Ids(db) \union Ids(retry) \union Ids(pending') \union Ids(<< hand' >>)
                      \union Ids(mailbox) \union Ids(Waiting)
    BY <1>2 DEF OnItsWay
  <2> QED BY <1>3, <1>5, <2>1 DEF OnItsWay
<1>8. Emitted' BY <1>1, <1>2, <1>4, <1>7 DEF Emitted
<1>9. InEmitOrder'
  <2>1. /\ Before(db, pending') /\ Before(retry, pending')
        /\ Before(pending', mailbox) /\ Before(pending', Waiting)
    BY <1>1, <1>3 DEF Staged, Before
  <2>2. /\ Before(db, << hand' >>) /\ Before(retry, << hand' >>) /\ Before(pending', << hand' >>)
        /\ Before(<< hand' >>, mailbox) /\ Before(<< hand' >>, Waiting)
    BY <1>5 DEF Before
  <2>3. Staged(db, retry, pending', << hand' >>, mailbox, Waiting)
    BY <1>1, <1>3, <1>5, <2>1, <2>2 DEF Staged
  <2> QED BY <1>2, <2>3, OrderIsStaged
<1>10. Flushes' BY <1>1, <1>2, <1>4 DEF Flushes, Asked
<1>11. FlushIsBarrier'
  <2>1. ASSUME NEW i \in DOMAIN pending' PROVE pending'[i].id > flushed
    <3>1. pending' = Append(pending, Row(hand.id)) OBVIOUS
    <3>2. pending \in Seq(Rows) BY <1>1 DEF Typed
    <3>3. CASE i \in DOMAIN pending
      <4>1. pending'[i] = pending[i] BY <3>1, <3>2, <3>3
      <4> QED BY <1>1, <3>3, <4>1 DEF FlushIsBarrier
    <3>4. CASE i \notin DOMAIN pending
      <4>1. pending'[i] = Row(hand.id) BY <3>1, <3>2, <3>4
      <4>2. pending'[i].id = hand.id BY <4>1 DEF Row
      <4> QED BY <1>1, <4>2 DEF FlushIsBarrier
    <3> QED BY <3>3, <3>4
  <2> QED BY <1>1, <1>2, <1>4, <2>1 DEF FlushIsBarrier
<1>12. CrashLosesBounded' BY <1>1, <1>2, <1>3 DEF CrashLosesBounded
<1>13. LossIsTold'
  <2>1. \A i \in shed' + 1 .. emitted' :
           i \notin OnItsWay' => i \in shed + 1 .. emitted /\ i \notin OnItsWay
    BY <1>2, <1>7
  <2>2. dropped + lost > 0 \/ Told(db) \/ Told(retry)
           => dropped' + lost' > 0 \/ Told(db') \/ Told(retry')
    BY <1>2
  <2> QED BY <1>1, <1>6, <2>1, <2>2, ToldStays
<1> QED BY <1>6, <1>8, <1>9, <1>10, <1>11, <1>12, <1>13 DEF LogInv

(* The writer deals with the message in hand.                              *)
LEMMA HandleKeeps ==
  ASSUME LogInv, Handle
  PROVE  LogInv'
<1>1. Typed /\ Emitted /\ Flushes /\ FlushIsBarrier BY DEF LogInv
<1>2. /\ hand' = Nothing /\ opens' = opens /\ ring' = ring /\ shed' = shed
      /\ emitted' = emitted /\ mailbox' = mailbox
  BY DEF Handle
<1>3. hand'.kind = "none" BY <1>2, MessagesPut
<1>4. hand.by \in Loggers /\ flushing \in [Loggers -> Int] /\ flushed \in Nat BY <1>1 DEF Typed, Messages
<1>5. /\ phase \in {"boot", "replay", "open", "memory", "closing", "stopped"}
      /\ phase \in {"open", "closing", "stopped"} => ring = << >>
      /\ phase \in {"boot", "memory"} => hand.kind = "none"
  BY <1>1 DEF Typed, Emitted
<1>6. \A i \in Records(mailbox) : mailbox[i].id > flushed BY <1>1 DEF FlushIsBarrier
(* Only an acknowledged flush changes what the loggers wait for. *)
<1>7. flushing' = flushing /\ flushed' = flushed => Flushes'
  BY <1>1, <1>2, <1>3 DEF Flushes, Asked
<1>8. CASE HandleRecord
  <2>1. hand.kind = "record" /\ phase' = phase /\ flushing' = flushing /\ flushed' = flushed
    BY <1>8 DEF HandleRecord
  <2>2. PICK p : p = Append(pending, Row(hand.id)) OBVIOUS
  <2>3. Takes(p) BY <2>1, <2>2, PendingTaken
  <2>4. CASE Commit(p)
    <3>1. phase' \notin {"boot", "memory"} BY <1>5, <2>1
    <3> QED BY <1>2, <1>4, <1>5, <1>6, <1>7, <2>1, <2>3, <2>4, <3>1, CommitStep
  <2>5. CASE /\ ~ Len(p) >= BatchMax /\ pending' = p
             /\ UNCHANGED << dropped, retry, lost, elapsed, faults, db >>
    <3>1. Len(p) < BatchMax
      <4>1. Len(p) \in Nat BY <2>3 DEF Takes
      <4> QED BY <2>5, <4>1, CapsPositive
    <3>2. LET q == Append(pending, Row(hand.id)) IN Len(q) < BatchMax /\ pending' = q
      BY <2>2, <2>5, <3>1
    <3>3. UNCHANGED << plan, emitted, flushing, mailbox, dropped, retry, lost, elapsed, faults, db, flushed >>
      BY <1>2, <2>1, <2>5 DEF plan
    <3> QED BY <1>2, <2>1, <3>2, <3>3, BatchStep
  <2>6. Commit(p) \/ (/\ ~ Len(p) >= BatchMax /\ pending' = p
                      /\ UNCHANGED << dropped, retry, lost, elapsed, faults, db >>)
    BY <1>8, <2>2 DEF HandleRecord
  <2> QED BY <2>4, <2>5, <2>6
<1>9. CASE HandleTimeout
  <2>1. /\ hand.kind = "timeout" /\ phase' = phase /\ flushing' = flushing /\ flushed' = flushed
        /\ Commit(pending)
    BY <1>9 DEF HandleTimeout
  <2>2. Takes(pending) BY <2>1, PendingTaken
  <2>3. phase' \notin {"boot", "memory"} BY <1>5, <2>1
  <2> QED BY <1>2, <1>4, <1>5, <1>6, <1>7, <2>1, <2>2, <2>3, CommitStep
<1>10. CASE HandleFlush
  <2>1. /\ hand.kind = "flush" /\ Commit(pending)
        /\ flushing' = [flushing EXCEPT ![hand.by] = -1]
        /\ phase' = IF phase = "replay" THEN "open" ELSE phase
    BY <1>10 DEF HandleFlush, Answer
  <2>2. Takes(pending) BY <2>1, PendingTaken
  <2>3. PICK f \in Int : f = flushing[hand.by] BY <1>4
  <2>4. /\ f >= 0 /\ f <= emitted /\ Behind(mailbox, f, 0) /\ ring = << >>
        /\ \A n \in DOMAIN mailbox : Asked(mailbox[n]) => mailbox[n].by # hand.by
    BY <1>1, <1>4, <2>1, <2>3 DEF Flushes, Asked
  <2>5. flushed' = IF f > flushed THEN f ELSE flushed BY <1>10, <2>3 DEF HandleFlush
  <2>6. flushed' \in Nat /\ flushed' <= emitted
    BY <1>1, <1>4, <2>4, <2>5 DEF Flushes
  <2>7. \A i \in Records(mailbox) : mailbox[i].id > flushed'
    <3>1. \A i \in Records(mailbox) : i > 0 BY <1>1 DEF Typed, Records
    <3>2. \A i \in Records(mailbox) : mailbox[i].id > f BY <2>4, <3>1 DEF Behind
    <3> QED BY <1>6, <2>5, <3>2
  <2>8. Flushes'
    <3>1. \A l \in Loggers : flushing'[l] <= emitted
      <4>1. \A l \in Loggers : flushing[l] <= emitted BY <1>1 DEF Flushes
      <4>2. emitted \in Nat BY <1>1 DEF Typed
      <4>3. \A l \in Loggers : flushing'[l] = IF l = hand.by THEN -1 ELSE flushing[l]
        BY <1>4, <2>1
      <4> QED BY <4>1, <4>2, <4>3
    <3>2. \A k \in DOMAIN mailbox : Asked(mailbox[k]) => flushing'[mailbox[k].by] = flushing[mailbox[k].by]
      <4>1. \A k \in DOMAIN mailbox : mailbox[k].by \in Loggers BY <1>1 DEF Typed, Messages
      <4> QED BY <1>4, <2>1, <2>4, <4>1
    <3>3. DOMAIN ring = {} BY <2>4
    <3> QED BY <1>1, <1>2, <1>3, <2>6, <3>1, <3>2, <3>3 DEF Flushes, Asked
  <2>9. flushing' \in [Loggers -> Int] BY <1>4, <2>1
  <2>10. /\ phase' \in {"boot", "replay", "open", "memory", "closing", "stopped"}
         /\ phase' \notin {"boot", "memory"}
    BY <1>5, <2>1
  <2> QED BY <1>2, <2>1, <2>2, <2>4, <2>6, <2>7, <2>8, <2>9, <2>10, CommitStep
<1>11. CASE HandleShutdown
  <2>1. /\ hand.kind = "shutdown" /\ phase' = "stopped" /\ flushing' = flushing
        /\ flushed' = flushed /\ Commit(pending)
    BY <1>11 DEF HandleShutdown
  <2>2. Takes(pending) BY <2>1, PendingTaken
  <2>3. ring = << >> BY <1>1, <2>1 DEF Emitted
  <2> QED BY <1>2, <1>4, <1>6, <1>7, <2>1, <2>2, <2>3, CommitStep
<1> QED BY <1>8, <1>9, <1>10, <1>11 DEF Handle

-----------------------------------------------------------------------------
(* The invariant *)

(* At the start nothing is emitted.                                        *)
LEMMA LogStarts ==
  ASSUME Init
  PROVE  LogInv
<1> USE DEF Init
<1>1. hand \in Messages /\ hand.id = 0 /\ hand.kind = "none" BY MessagesPut
<1>2. Typed
  <2>1. << >> \in Seq(Rows) /\ << >> \in Seq(Messages) /\ << >> \in Seq(Nat \ {0}) OBVIOUS
  <2>2. flushing \in [Loggers -> Int] OBVIOUS
  <2> QED BY <1>1, <2>1, <2>2 DEF Typed
<1>3. Ids(<< >>) = {} /\ Ordered(<< >>) /\ ~ Told(<< >>) BY DEF Ids, Ordered, Told
<1>4. Ids(<< hand >>) = {} /\ Ordered(<< hand >>) BY <1>1 DEF Ids, Ordered
<1>5. Waiting = << >>
  <2>1. Waiting = [i \in {} |-> Record(ring[i])] BY DEF Waiting
  <2> QED BY <2>1
<1>6. OnItsWay = {} BY <1>3, <1>4, <1>5 DEF OnItsWay
<1>7. DOMAIN mailbox = {} /\ DOMAIN ring = {} OBVIOUS
<1>8. Emitted BY <1>1, <1>6, <1>7 DEF Emitted, Closing
<1>9. InEmitOrder
  <2>1. Staged(db, retry, pending, << hand >>, mailbox, Waiting)
    BY <1>3, <1>4, <1>5 DEF Staged, Before
  <2> QED BY <2>1, OrderIsStaged
<1>10. Flushes BY <1>1, <1>7 DEF Flushes, Asked
<1>11. Records(mailbox) = {} BY <1>7 DEF Records
<1>12. FlushIsBarrier BY <1>1, <1>11 DEF FlushIsBarrier
<1>13. CrashLosesBounded
  <2>1. Cardinality(Records(mailbox)) = 0 BY <1>11, FS_EmptySet
  <2> QED BY <2>1, CapsPositive DEF CrashLosesBounded
<1>14. LossIsTold
  <2>1. Missing = {i \in 1 .. 0 : i \notin OnItsWay} BY <1>2, MissingIsNotOnItsWay
  <2> QED BY <2>1 DEF LossIsTold
<1> QED BY <1>2, <1>8, <1>9, <1>10, <1>12, <1>13, <1>14 DEF LogInv

(* Every step keeps the invariant.                                         *)
LEMMA LogKeeps ==
  ASSUME LogInv, [Next]_vars
  PROVE  LogInv'
<1>1. opens \in Nat /\ emitted \in Nat /\ elapsed \in BOOLEAN /\ faults \in Nat BY DEF LogInv, Typed
<1>2. ASSUME NEW l \in Loggers, Emit(l) PROVE LogInv' BY <1>2, EmitKeeps
<1>3. ASSUME NEW l \in Loggers, CallFlush(l) PROVE LogInv' BY <1>3, CallFlushKeeps
<1>4. CASE EmitRing
  <2>1. /\ phase' = phase /\ opens' = opens /\ phase \in {"boot", "memory"}
        /\ emitted' = emitted + 1 /\ IntoRing(emitted + 1)
        /\ UNCHANGED << flushing, mailbox, dropped, writer >>
    BY <1>4 DEF EmitRing
  <2> QED BY <1>1, <2>1, RingStep
<1>5. CASE OpenFails
  <2>1. CASE opens' = 3
    <3>1. /\ phase = "boot" /\ phase' = "memory" /\ emitted' = emitted + 1
          /\ IntoRing(emitted + 1) /\ UNCHANGED << flushing, mailbox, dropped, writer >>
      BY <1>5, <2>1 DEF OpenFails
    <3>2. opens' \in Nat BY <2>1
    <3> QED BY <3>1, <3>2, RingStep
  <2>2. CASE opens' # 3
    <3>1. /\ phase' = phase /\ opens' = opens + 1
          /\ UNCHANGED << emitted, ring, shed, flushing, mailbox, dropped, writer >>
      BY <1>5, <2>2 DEF OpenFails
    <3>2. /\ opens' \in Nat /\ elapsed' \in BOOLEAN /\ faults' \in Nat
          /\ UNCHANGED << ring, shed, emitted, flushing, mailbox, dropped, hand, batch, db, flushed >>
      BY <1>1, <3>1 DEF writer
    <3> QED BY <3>1, <3>2, NothingMoves
  <2> QED BY <2>1, <2>2
<1>6. CASE OpenSucceeds
  <2>1. /\ phase = "boot" /\ phase' = "replay" /\ opens' \in Nat
        /\ elapsed' \in BOOLEAN /\ faults' \in Nat
        /\ UNCHANGED << ring, shed, emitted, flushing, mailbox, dropped, hand, batch, db, flushed >>
    BY <1>1, <1>6 DEF OpenSucceeds, writer
  <2> QED BY <2>1, NothingMoves
<1>7. CASE Replay BY <1>7, ReplayKeeps
<1>8. CASE Close BY <1>8, CloseKeeps
<1>9. CASE Receive BY <1>9, ReceiveKeeps
<1>10. CASE Handle BY <1>10, HandleKeeps
<1>11. CASE Elapse
  <2>1. /\ phase' = phase /\ opens' \in Nat /\ elapsed' = TRUE /\ faults' \in Nat
        /\ UNCHANGED << ring, shed, emitted, flushing, mailbox, dropped, hand, batch, db, flushed >>
    BY <1>1, <1>11 DEF Elapse, plan
  <2>2. elapsed' \in BOOLEAN BY <2>1
  <2> QED BY <2>1, <2>2, NothingMoves
<1>12. CASE UNCHANGED vars
  <2>1. /\ phase' = phase /\ opens' \in Nat /\ elapsed' \in BOOLEAN /\ faults' \in Nat
        /\ UNCHANGED << ring, shed, emitted, flushing, mailbox, dropped, hand, batch, db, flushed >>
    BY <1>1, <1>12 DEF vars, plan, writer
  <2> QED BY <2>1, NothingMoves
<1> QED
  BY <1>2, <1>3, <1>4, <1>5, <1>6, <1>7, <1>8, <1>9, <1>10, <1>11, <1>12 DEF Next, WriterStep

(* LogInv holds of the log whatever the caps, the number of threads and    *)
(* the faults.                                                             *)
THEOREM LogInvariant == Spec => []LogInv
<1>1. Init => LogInv BY LogStarts
<1>2. LogInv /\ [Next]_vars => LogInv' BY LogKeeps
<1> QED BY <1>1, <1>2, PTL DEF Spec

(* Records are written, retried and dropped in the order of their emit,    *)
(* and none twice (batch.rs, mailbox.rs).                                  *)
THEOREM LogAlwaysInOrder == Spec => []InEmitOrder
<1>1. LogInv => InEmitOrder BY DEF LogInv
<1> QED BY <1>1, LogInvariant, PTL

(* No record is lost between an emit on the opened log and the table       *)
(* without a count or a warning (batch.rs).                                *)
THEOREM LossAlwaysTold == Spec => []LossIsTold
<1>1. LogInv => LossIsTold BY DEF LogInv
<1> QED BY <1>1, LogInvariant, PTL

(* An acknowledged flush has nothing behind it that is older (actor.rs).   *)
THEOREM FlushAlwaysBarrier == Spec => []FlushIsBarrier
<1>1. LogInv => FlushIsBarrier BY DEF LogInv
<1> QED BY <1>1, LogInvariant, PTL

(* The records a crash can take with it are bounded by the caps.           *)
THEOREM CrashAlwaysLosesBounded == Spec => []CrashLosesBounded
<1>1. LogInv => CrashLosesBounded BY DEF LogInv
<1> QED BY <1>1, LogInvariant, PTL
=============================================================================
