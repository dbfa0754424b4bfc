------------------------------ MODULE WatchFeed ------------------------------
(***************************************************************************)
(* What a feed of file changes promises its readers, without a window, a   *)
(* limit or a journal.  Every generation either is one batch, handed on in *)
(* the order of its events, or stands for changes that were given up.  A   *)
(* reader that has seen a generation may ask what changed since: the       *)
(* answer is complete or says that it is truncated, it is truncated        *)
(* wherever changes were given up, and a cursor that has expired stays so. *)
(***************************************************************************)
EXTENDS Integers, Sequences

CONSTANTS Paths, Events

VARIABLES
  unsent,      \* events offered to the feed and in no generation yet
  generation,
  delivered,   \* the batches handed on, in order
  changed,     \* which path changed under which generation
  catchUp      \* the answer for each cursor a reader may hold

feed == << unsent, generation, delivered, changed, catchUp >>

Answer == [paths : SUBSET Paths, truncated : BOOLEAN, generation : Nat]

PathsIn(evs) == {evs[i].path : i \in DOMAIN evs}

Since(changes, g) == {c.path : c \in {d \in changes : d.generation > g}}

Init ==
  /\ unsent = << >>
  /\ generation = 0
  /\ delivered = << >>
  /\ changed = {}
  /\ catchUp = [g \in {0} |->
                 [paths |-> {}, truncated |-> FALSE, generation |-> 0]]

(* These paths changed under the next generation.                          *)
Changed(paths) == [path : paths, generation : {generation + 1}]

(* A generation of its own, and the answers after it.                      *)
NewGeneration ==
  /\ unsent' = << >>
  /\ generation' = generation + 1
  /\ catchUp' \in [0 .. generation + 1 -> Answer]
  /\ \A g \in 0 .. generation + 1 :
       /\ catchUp'[g].generation = generation + 1
       /\ catchUp'[g].truncated \/ catchUp'[g].paths = Since(changed', g)
  /\ \A g \in 0 .. generation :
       catchUp[g].truncated => catchUp'[g].truncated

Offer ==
  /\ unsent' \in Seq(Events)
  /\ Len(unsent') > Len(unsent)
  /\ SubSeq(unsent', 1, Len(unsent)) = unsent
  /\ UNCHANGED << generation, delivered, changed, catchUp >>

Deliver ==
  /\ unsent # << >>
  /\ changed' = changed \union Changed(PathsIn(unsent))
  /\ NewGeneration
  /\ \E overflow, need_rescan \in BOOLEAN :
       delivered' = Append(delivered,
                      [events |-> unsent, overflow |-> overflow,
                       need_rescan |-> need_rescan,
                       generation |-> generation + 1])

GiveUp ==
  /\ \E paths \in (SUBSET Paths) \ {{}} :
       /\ PathsIn(unsent) \subseteq paths
       /\ changed' = changed \union Changed(paths)
  /\ NewGeneration
  /\ \A g \in 0 .. generation : catchUp'[g].truncated
  /\ UNCHANGED delivered

Next == Offer \/ Deliver \/ GiveUp

Spec == Init /\ [][Next]_feed
=============================================================================
