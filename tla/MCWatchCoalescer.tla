-------------------------- MODULE MCWatchCoalescer --------------------------
(* WatchCoalescer on a small instance: the journal keeps at most four      *)
(* entries per unit of Limit, so five events are enough to trim it, and    *)
(* OverflowLimit + 1 of them overflow.                                     *)
EXTENDS WatchCoalescer
=============================================================================
