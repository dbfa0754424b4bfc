---------------------------- MODULE MCServeWatch ----------------------------
(* ServeWatch with one or two connections and two files.  Connections may  *)
(* be exchanged in a run that checks invariants only; paths may not, since *)
(* JournalBatch picks the order of a batch with CHOOSE.                    *)
EXTENDS ServeWatch, TLC

ConnSymmetry == Permutations(Conns)
=============================================================================
