---------------------------- MODULE MCTypesCache ----------------------------
(* TypesCache with two open files, two edits, one query and one file that *)
(* a control thread reindexes: a batch may hold both files, and the second *)
(* edit's batch can overtake a fill that began under the first.            *)
EXTENDS TypesCache
=============================================================================
