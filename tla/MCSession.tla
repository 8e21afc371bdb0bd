----------------------------- MODULE MCSession -----------------------------
(***************************************************************************)
(* Session for TLC, and what the comments and messages of readthread.cpp    *)
(* say of the read thread that its code does not do.                        *)
(***************************************************************************)
EXTENDS Session

\* "read until failure, command to EXIT, or remote EOF" (readthread.cpp:111): a
\* read thread that has its channel does not end on its own.
ReadsUntilEnd ==
  [][rpc = "channel" /\ rpc' = "ending"
       => lost \/ channel' # "set" \/ read_thread_command = "Exit"]_vars

\* "Failure getting autentication methods" (readthread.cpp:89): when there is no
\* list to be had, the read thread reports it and ends.
AuthFailureReported ==
  rpc = "authlist" ~> rpc # "authlist" \/ crashed
=============================================================================
