----------------------------- MODULE RemoteFile -----------------------------
(***************************************************************************)
(* What a caller of the transfer protocol's operations may rely on, although *)
(* transfer.hpp only declares them: whatever goes over the connection, an    *)
(* operation takes effect once, between its call and its return; one that    *)
(* returns has taken effect; one that fails is the last, and may or may not  *)
(* take effect.                                                              *)
(***************************************************************************)
EXTENDS Remote

VARIABLES
  caller,     \* "idle", "calling", or "stopped": the thread is gone
  call,       \* the operation
  taken,      \* it has taken effect
  answer,     \* what the server said of it
  off         \* the offset of the handle

vars == <<remote, caller, call, taken, answer, off>>

Init ==
  /\ RemoteInit
  /\ caller = "idle" /\ call = [op |-> "none"] /\ ~taken
  /\ answer = Done /\ off = 0

\* Any operation.
Begin ==
  /\ caller = "idle" /\ caller' = "calling"
  /\ UNCHANGED <<remote, taken, answer, off>>

\* A write takes a beginning of the buffer, all of it if a packet can carry it;
\* a read takes bytes from the offset on.
Write(reply) ==
  /\ call.op = "write"
  /\ \E n \in 1..Len(call.buf) :
       /\ n = Len(call.buf) \/ n >= Packet
       /\ data' = Overwritten(data, off, SubSeq(call.buf, 1, n))
       /\ reply = Reply(SubSeq(call.buf, 1, n), n, NoField)
  /\ UNCHANGED <<names, attrs>>

Read(reply) ==
  /\ call.op = "read"
  /\ \E n \in 0..Packet : reply = Reply(Portion(data, off, n), 0, NoField)
  /\ UNCHANGED remote

Take ==
  /\ ~taken /\ caller # "idle"
  /\ taken' = TRUE
  /\ \/ ServePath(call, answer') \/ ServeAttributes(call, answer')
     \/ ServeFile(call, answer') \/ Write(answer') \/ Read(answer')
     \/ ServeRefusal(answer')
  /\ UNCHANGED <<caller, call, off>>

Return ==
  /\ caller = "calling" /\ taken /\ answer.ok
  /\ caller' = "idle"
  /\ off' = IF call.op \in {"openfile", "close"} THEN 0 ELSE off + Len(answer.bytes)
  /\ taken' = FALSE /\ answer' = Done
  /\ UNCHANGED remote

Stop ==
  /\ caller = "calling" /\ caller' = "stopped"
  /\ UNCHANGED <<remote, call, taken, answer, off>>

Seek ==
  /\ caller = "idle" /\ off' \in Nat
  /\ UNCHANGED <<remote, caller, call, taken, answer>>

Elsewhere == Outside /\ UNCHANGED <<caller, call, taken, answer, off>>

Next == Begin \/ Take \/ Return \/ Stop \/ Seek \/ Elsewhere

Spec == Init /\ [][Next]_vars
=============================================================================
