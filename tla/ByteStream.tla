----------------------------- MODULE ByteStream -----------------------------
(***************************************************************************)
(* What a connection promises whoever reads from it: the chunks the peer     *)
(* sends, each once, in the order in which it sends them, and none before.   *)
(* Endpoints, events, the notifier and the halts of PowerNet do not appear.  *)
(***************************************************************************)
EXTENDS Integers, Sequences

CONSTANT Socket

VARIABLES sent, got     \* how many chunks the peer sent; the ones received

vars == <<sent, got>>

Init ==
  /\ sent = [o \in Socket |-> 0]
  /\ got = [o \in Socket |-> << >>]

Send(o) ==
  /\ sent' = [sent EXCEPT ![o] = @ + 1]
  /\ UNCHANGED got

\* Any number of the chunks that come next.
Receive(o) ==
  /\ \E n \in (Len(got[o]) + 1)..sent[o] : got' = [got EXCEPT ![o] = [i \in 1..n |-> i]]
  /\ UNCHANGED sent

Next == \E o \in Socket : Send(o) \/ Receive(o)

Spec == Init /\ [][Next]_vars
=============================================================================
