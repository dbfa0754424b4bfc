---------------------------- MODULE MCLogWriter ----------------------------
(* LogWriter with caps small enough for the ring, the mailbox and the      *)
(* retry list to overflow, and as many failed commits as it takes to drop  *)
(* a warning about dropped records.                                        *)
EXTENDS LogWriter
=============================================================================
