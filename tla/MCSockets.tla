----------------------------- MODULE MCSockets -----------------------------
(***************************************************************************)
(* Sockets for TLC: the main thread and the read thread call PowerNet.  The *)
(* bounds are in the .cfg files.  Besides the properties of Sockets, the    *)
(* runs check what the repository says of PowerNet and its code does not    *)
(* keep: each of these claims has a run that ends in a counterexample.      *)
(***************************************************************************)
EXTENDS Sockets

\* What PowerNet is offered as - "Implementations of the unix networking
\* library" (PowerNet/README.md:3) - asks of connect(): 0 means connected.
ConnectedWhenZero ==
  [][\A c \in Callers : pc[c] = "connect" /\ pc'[c] = "idle"
       => st[skt[c]] \notin {"null", "unbound", "idle", "outcon"}]_vars

\* ... and of select() on a descriptor in writefds: it waits for that socket.
SelectWatchesItsSocket ==
  [][\A c \in Callers :
       pc[c] = "select" /\ pc'[c] = "idle" /\ "write" \in wset[c]
       => ~send_halt[skt[c]]]_vars

\* send() returns: "in non-blocking mode, returns instantly always" (send.cpp:20).
SendReturns ==
  \A c \in Callers : pc[c] = "send" ~> pc[c] \notin {"send", "sendwait"} \/ crashed
=============================================================================
