----------------------------- MODULE MCConsole -----------------------------
(***************************************************************************)
(* Console for TLC: the main thread and the read thread beside the          *)
(* application's own, a buffer of three lines, a window of up to three rows.    *)
(***************************************************************************)
EXTENDS Console
=============================================================================
