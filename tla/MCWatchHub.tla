---------------------------- MODULE MCWatchHub ----------------------------
(* WatchHub with a channel of one or two commands and lists short enough   *)
(* to overflow: MaxEvents exceeds ChanCap and OverflowLimit together.      *)
EXTENDS WatchHub
=============================================================================
