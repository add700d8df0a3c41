----------------------------- MODULE MCLocalWriter -----------------------------
(***************************************************************************)
(* An instance of LocalWriter for TLC: its constants are plain values.     *)
(***************************************************************************)
EXTENDS LocalWriter
=============================================================================
