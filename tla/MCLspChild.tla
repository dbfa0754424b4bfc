----------------------------- MODULE MCLspChild -----------------------------
(* LspChild with two files, three edits and two queries: enough for a      *)
(* second didOpen during the handshake and an edit during a query.         *)
EXTENDS LspChild
=============================================================================
