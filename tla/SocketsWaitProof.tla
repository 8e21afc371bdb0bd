-------------------------- MODULE SocketsWaitProof --------------------------
(***************************************************************************)
(* Proofs about the waits of PowerNet.  As long as a program connects once, *)
(* connect() returns no earlier than Open Transport's answer, and it never  *)
(* waits for nothing, but for failures that ThrowOSErr() does not know.     *)
(* With two connections at a time neither holds, for `finished` is one flag *)
(* for all of them: the run sockets_connect shows it.                       *)
(* recv() waits for nothing, and send() for another thread.                 *)
(***************************************************************************)
EXTENDS SocketsProof

----------------------------------------------------------------------------
(***************************************************************************)
(* What no step takes back.                                                 *)
(***************************************************************************)

\* The notifier of o reports a failure, or that has stopped the main thread, or
\* a failure at o passed ThrowOSErr().
Excused(o) == npc[o] \in {"failing", "throw"} \/ ~MainAlive \/ o \in unnoticed

\* The steps of socket(), recv(), send() and select() leave connect() alone.
LEMMA ConnectingKept ==
  ASSUME TypeOK, NEW c \in Callers,
         \/ SocketInit(c) \/ SocketConfigure(c) \/ CallerThrow(c) \/ Insert(c)
         \/ RecvStep(c) \/ RecvResume(c) \/ SendStep(c) \/ SendResume(c)
         \/ SelectFails(c) \/ SelectStep(c)
  PROVE  /\ \A d \in Callers : pc'[d] = "connect" => pc[d] = "connect"
         /\ \A d \in Callers : pc[d] \in {"connect", "dead"} => skt'[d] = skt[d]
<1> USE DEF TypeOK, CallerType
<1>1. CASE SocketInit(c) \/ SocketConfigure(c)
  BY <1>1 DEF SocketInit, SocketConfigure, At
<1>2. CASE CallerThrow(c)
  BY <1>2, MainAssumption, ThrowPlaces DEF CallerThrow, DisposeMain, InSocket
<1>3. CASE Insert(c)
  BY <1>3 DEF Insert, Return, At
<1>4. CASE RecvStep(c) \/ RecvResume(c)
  BY <1>4 DEF RecvStep, RecvResume, Return, At
<1>5. CASE SendStep(c) \/ SendResume(c)
  BY <1>5 DEF SendStep, SendResume, Return, At
<1>6. CASE SelectFails(c) \/ SelectStep(c)
  BY <1>6, MainAssumption DEF SelectFails, SelectStep, Return, At
<1> QED BY <1>1, <1>2, <1>3, <1>4, <1>5, <1>6

LEMMA NothingTakenBack ==
  ASSUME TypeOK, ThreadsApart, [Next]_vars
  PROVE  /\ MainAlive' => MainAlive
         /\ \A o \in Socket : Excused(o) => Excused(o)'
         /\ nConnect' <= 1 => nConnect <= 1
         /\ nOther' = 0 => nOther = 0
<1> USE DEF TypeOK, CallerType, NotifierType, MainAlive
<1>0. nConnect \in Nat /\ nOther \in Nat
  BY Bounds DEF CounterType
<1>1. ASSUME NEW c \in Callers, Call(c) \/ CallerStep(c) \/ ThreadStep(c)
      PROVE  npc' = npc /\ unnoticed \subseteq unnoticed' /\ nOther' = nOther
  <2>1. CASE Call(c)
    BY <2>1 DEF Call, SocketInit, Connect, Recv, Send, Select, notif, counters
  <2>2. CASE CallerStep(c)
    BY <2>2 DEF CallerStep, SocketConfigure, SocketOpen, CallerThrow, Insert, ConnectReturn,
       RecvStep, RecvResume, SendStep, SendResume, SelectFails, SelectStep, Unnoticed,
       notif, counters
  <2>3. CASE ThreadStep(c)
    <3>1. CASE CtSetup(c)
      <4>1. skt[c] \in Socket
        BY <3>1, SetupBegun, ThreadSocket
      <4>2. unnoticed \subseteq unnoticed'
        BY <3>1, <4>1, SetupSteps
      <4> QED BY <3>1, <4>2 DEF CtSetup, notif, counters
    <3>2. CASE CtIssue(c) \/ CtThrow(c)
      BY <3>2 DEF CtIssue, CtThrow, Unnoticed, notif, counters
    <3> QED BY <2>3, <3>1, <3>2 DEF ThreadStep
  <2> QED BY <1>1, <2>1, <2>2, <2>3
<1>2. ASSUME NEW c \in Callers, Call(c) \/ CallerStep(c) \/ ThreadStep(c)
      PROVE  (MainAlive' => MainAlive) /\ nConnect' \in {nConnect, nConnect + 1}
  <2>1. CASE Call(c)
    BY <2>1, MainAssumption
    DEF Call, SocketInit, Connect, Recv, Send, Select, Enter, At, counters
  <2>2. CASE SocketConfigure(c) \/ SocketOpen(c) \/ CallerThrow(c) \/ Insert(c)
    BY <2>2, MainAssumption DEF SocketConfigure, SocketOpen, CallerThrow, Insert, Return,
       At, DisposeMain, counters
  <2>3. CASE \/ ConnectReturn(c) \/ RecvStep(c) \/ RecvResume(c) \/ SendStep(c)
             \/ SendResume(c) \/ SelectFails(c) \/ SelectStep(c)
    BY <2>3, MainAssumption DEF ConnectReturn, RecvStep, RecvResume, SendStep, SendResume,
       SelectFails, SelectStep, Return, At, counters
  <2>4. CASE ThreadStep(c)
    BY <2>4, MainAssumption DEF ThreadStep, CtSetup, CtIssue, CtThrow, caller, counters
  <2> QED BY <1>2, <2>1, <2>2, <2>3, <2>4 DEF CallerStep
<1>3. ASSUME NEW o \in Socket, NotifierRun(o) \/ NotifierResume(o)
      PROVE  /\ UNCHANGED <<pc, nConnect, nOther>> /\ unnoticed \subseteq unnoticed'
             /\ \A p \in Socket : npc[p] \in {"failing", "throw"} => npc'[p] = npc[p]
  <2>1. npc[o] \in {"entered", "switch"} /\ ev[o] # << >>
    BY <1>3 DEF NotifierRun, NotifierResume, NotifierAt
  <2>2. CASE NotifierSwitch(o)
    <3>1. unnoticed \subseteq unnoticed' /\ \A p \in Socket \ {o} : npc'[p] = npc[p]
      BY <2>1, <2>2, SwitchSteps
    <3> QED BY <1>3, <2>1, <3>1 DEF NotifierRun, NotifierResume, caller, counters
  <2>3. CASE npc' = [npc EXCEPT ![o] = "failing"] /\ UNCHANGED unnoticed
    BY <1>3, <2>1, <2>3 DEF NotifierRun, NotifierResume, caller, counters
  <2> QED BY <1>3, <2>2, <2>3 DEF NotifierRun, NotifierResume
<1>4. ASSUME NEW o \in Socket, NotifierFail(o) \/ NotifierThrow(o)
      PROVE  ~MainAlive' /\ UNCHANGED <<nConnect, nOther>>
  BY <1>4, MainAssumption DEF NotifierFail, NotifierThrow, counters
<1>5. ASSUME NEW o \in Socket, NotifierEnter(o) \/ NotifierData(o)
      PROVE  /\ MainAlive' => MainAlive
             /\ UNCHANGED <<nConnect, nOther, unnoticed>>
             /\ \A p \in Socket : npc[p] \in {"failing", "throw"} => npc'[p] = npc[p]
  BY <1>5, MainAssumption DEF NotifierEnter, NotifierData, NotifierAt, caller, counters
<1>6. ASSUME NEW o \in Socket, Duty(o) \/ Peer(o)
      PROVE  UNCHANGED <<pc, npc, unnoticed, nConnect>> /\ nOther' \in {nOther, nOther + 1}
  BY <1>6 DEF Duty, Peer, Connected, FlowOn, Disconnected, PeerClose, PeerSend, FlowOff,
     Other, caller, notif, counters
<1>7. ASSUME UNCHANGED vars
      PROVE  UNCHANGED <<pc, npc, unnoticed, nConnect, nOther>>
  BY <1>7 DEF vars, caller, notif, counters
<1> HIDE DEF TypeOK, CallerType, NotifierType
<1>8. ASSUME NEW c \in Callers, Call(c) \/ CallerStep(c) \/ ThreadStep(c)
      PROVE  /\ MainAlive' => MainAlive
             /\ \A o \in Socket : Excused(o) => Excused(o)'
             /\ nConnect' <= 1 => nConnect <= 1
             /\ nOther' = 0 => nOther = 0
  BY <1>0, <1>1, <1>2, <1>8 DEF Excused
<1>9. ASSUME NEW o \in Socket, NotifierStep(o)
      PROVE  /\ MainAlive' => MainAlive
             /\ \A p \in Socket : Excused(p) => Excused(p)'
             /\ UNCHANGED <<nConnect, nOther>>
  <2>1. CASE NotifierRun(o) \/ NotifierResume(o)
    BY <1>3, <2>1 DEF Excused
  <2>2. CASE NotifierFail(o) \/ NotifierThrow(o)
    BY <1>4, <2>2 DEF Excused
  <2>3. CASE NotifierEnter(o) \/ NotifierData(o)
    BY <1>5, <2>3 DEF Excused
  <2> QED BY <1>9, <2>1, <2>2, <2>3 DEF NotifierStep
<1>10. ASSUME (\E o \in Socket : Duty(o) \/ Peer(o)) \/ UNCHANGED vars
       PROVE  /\ MainAlive' => MainAlive
              /\ \A o \in Socket : Excused(o) => Excused(o)'
              /\ nConnect' <= 1 => nConnect <= 1
              /\ nOther' = 0 => nOther = 0
  BY <1>0, <1>6, <1>7, <1>10 DEF Excused
<1> QED BY <1>8, <1>9, <1>10 DEF Next

----------------------------------------------------------------------------
(***************************************************************************)
(* connect() returns after the answer.                                      *)
(***************************************************************************)

Early == {"null", "unbound", "idle"}

\* Nothing has happened at the endpoint of o, or it is over.
Fresh(o) == st[o] \in Early /\ ev[o] = << >> /\ flow[o] = "open"

\* OTConnect() has not been called.
NotIssued == ~finished /\ \A o \in Socket : Fresh(o)

\* Until the one connect() is called, and until its thread is through, nothing
\* has happened anywhere.
BeforeIssue ==
  /\ nConnect = 0 =>
       NotIssued /\ \A c \in Callers : cpc[c] = "none" /\ pc[c] # "connect"
  /\ \A c \in Callers : cpc[c] \notin {"none", "done"} => NotIssued
  /\ \A c \in Callers : cpc[c] = "throw" => ccont[c] \in Resumed \cup {"issue", "done"}

\* There is one connect thread, and the caller in connect() has it.
OneThread ==
  /\ \A c \in Callers : pc[c] = "connect" => cpc[c] # "none"
  /\ \A c, d \in Callers : cpc[c] # "none" /\ cpc[d] # "none" => c = d

\* There is one endpoint where anything happens.  Until it has its answer it has
\* no event, then the answer is the first one, and after it `finished` is set.
OneAnswer ==
  /\ \A o, p \in Socket : ~Fresh(o) /\ ~Fresh(p) => o = p
  /\ \A o \in Socket : st[o] = "outcon" => ev[o] = << >> /\ flow[o] = "open"
  /\ \A o \in Socket : st[o] = "conind" =>
       /\ flow[o] = "open"
       /\ installed[o] /\ ~finished => ev[o] # << >> /\ Head(ev[o]) = "T_CONNECT"
       /\ ~installed[o] => ev[o] = << >>
  /\ finished => \A o \in Socket :
       st[o] # "outcon" /\ (st[o] = "conind" => Excused(o))
  /\ \A o \in Socket : npc[o] \in {"failing", "switch"} => finished

SettledInv == BeforeIssue /\ OneThread /\ OneAnswer

\* A step that is not about connections or endpoints.
LEMMA SettledKept ==
  ASSUME SettledInv,
         UNCHANGED <<st, ev, flow, installed, finished, cpc, ccont, nConnect>>,
         \A o \in Socket : Excused(o) => Excused(o)',
         \A o \in Socket : npc'[o] \in {"failing", "switch"} => finished',
         \A c \in Callers : pc'[c] = "connect" => pc[c] = "connect"
  PROVE  SettledInv'
BY DEF SettledInv, BeforeIssue, OneThread, OneAnswer, NotIssued, Fresh

\* A step at the one endpoint where things happen.
LEMMA SettledAt ==
  ASSUME SettledInv, NEW o \in Socket, ~Fresh(o),
         UNCHANGED <<installed, cpc, ccont, nConnect>>,
         \A c \in Callers : pc'[c] = "connect" => pc[c] = "connect",
         \A p \in Socket \ {o} : st'[p] = st[p] /\ ev'[p] = ev[p] /\ flow'[p] = flow[p],
         st'[o] # "outcon" \/ (st[o] = "outcon" /\ UNCHANGED <<ev, flow>>),
         st'[o] = "conind" =>
           /\ flow'[o] = "open"
           /\ installed[o] /\ ~finished' => ev'[o] # << >> /\ Head(ev'[o]) = "T_CONNECT"
           /\ ~installed[o] => ev'[o] = << >>,
         finished' => st'[o] # "outcon" /\ (st'[o] = "conind" => Excused(o)'),
         \A p \in Socket : npc'[p] \in {"failing", "switch"} => finished'
  PROVE  SettledInv'
<1>1. ~NotIssued
  BY DEF NotIssued
<1>2. \A p \in Socket \ {o} : Fresh(p) /\ Fresh(p)'
  BY DEF SettledInv, OneAnswer, Fresh
<1>3. BeforeIssue'
  BY <1>1 DEF SettledInv, BeforeIssue
<1>4. OneThread'
  BY DEF SettledInv, OneThread
<1>5. OneAnswer'
  <2>1. \A p, q \in Socket : ~Fresh(p)' /\ ~Fresh(q)' => p = q
    BY <1>2
  <2>2. \A p \in Socket \ {o} : st'[p] \notin {"outcon", "conind"}
    BY <1>2 DEF Fresh, Early
  <2>3. st'[o] = "outcon" => ev'[o] = << >> /\ flow'[o] = "open"
    BY DEF SettledInv, OneAnswer
  <2> QED BY <2>1, <2>2, <2>3 DEF OneAnswer
<1> QED BY <1>3, <1>4, <1>5 DEF SettledInv

\* noErr is no error the switch knows.
LEMMA NoErrThrows == ~Throws("noErr")
BY DEF Throws, Known, GeneralErrors, XTIErrors, SystemErrors, SocketErrors, StreamErrors,
       PortErrors

LEMMA HeadOfAppend ==
  ASSUME NEW S, NEW s \in Seq(S), NEW x \in S, s # << >>
  PROVE  Append(s, x) # << >> /\ Head(Append(s, x)) = Head(s)
<1>1. Len(s) \in Nat /\ Len(s) # 0
  OBVIOUS
<1>2. Append(s, x) # << >>
  BY SeqFacts
<1>3. Append(s, x)[1] = s[1]
  BY <1>1
<1>4. Head(Append(s, x)) = Append(s, x)[1] /\ Head(s) = s[1]
  BY <1>2
<1> QED BY <1>2, <1>3, <1>4

LEMMA SettledStep ==
  ASSUME TypeOK, TableInv, ThreadsApart, SettledInv, [Next]_vars,
         nConnect' <= 1, nOther' = 0
  PROVE  SettledInv'
<1> USE DEF TypeOK, CallerType, EndpointType, NotifierType
<1>0. \A o \in Socket : Excused(o) => Excused(o)'
  BY NothingTakenBack
<1>0a. \A o \in Socket : npc[o] \in {"failing", "switch"} => finished
  BY DEF SettledInv, OneAnswer
<1>1. ASSUME NEW c \in Callers, SocketOpen(c)
      PROVE  SettledInv'
  <2>1. /\ UNCHANGED <<ev, flow, installed, finished, npc, cpc, ccont, nConnect>>
        /\ \A d \in Callers : pc'[d] = "connect" => pc[d] = "connect"
    BY <1>1 DEF SocketOpen, AfterOpen, thread, notif, counters
  <2>2. \A o \in Socket : st'[o] = st[o] \/ st'[o] \in {"null", "unbound"}
    BY <1>1 DEF SocketOpen
  <2>3. \A o \in Socket : Fresh(o) => Fresh(o)'
    BY <2>1, <2>2 DEF Fresh, Early
  <2>4. NotIssued => NotIssued'
    BY <2>1, <2>3 DEF NotIssued
  <2>5. BeforeIssue' /\ OneThread'
    BY <2>1, <2>4 DEF SettledInv, BeforeIssue, OneThread
  <2>6. OneAnswer'
    <3>1. \A o \in Socket : st'[o] \in {"outcon", "conind"} => st'[o] = st[o]
      BY <2>2
    <3>2. \A o, q \in Socket : ~Fresh(o)' /\ ~Fresh(q)' => o = q
      BY <2>3 DEF SettledInv, OneAnswer
    <3> QED BY <1>0, <2>1, <3>1, <3>2 DEF SettledInv, OneAnswer
  <2> QED BY <2>5, <2>6 DEF SettledInv
<1>2. ASSUME NEW c \in Callers,
             \/ SocketInit(c) \/ SocketConfigure(c) \/ CallerThrow(c) \/ Insert(c)
             \/ RecvStep(c) \/ RecvResume(c) \/ SendResume(c)
             \/ SelectFails(c) \/ SelectStep(c)
      PROVE  SettledInv'
  <2>1. UNCHANGED <<st, ev, flow, installed, finished, npc, cpc, ccont, nConnect>>
    BY <1>2 DEF SocketInit, SocketConfigure, CallerThrow, Insert, RecvStep, RecvResume,
       SendResume, SelectFails, SelectStep, endpoint, thread, notif, counters
  <2>2. \A d \in Callers : pc'[d] = "connect" => pc[d] = "connect"
    BY <1>2, ConnectingKept
  <2> QED BY <1>0, <1>0a, <2>1, <2>2, SettledKept
<1>3. ASSUME NEW c \in Callers, NEW f \in DOMAIN openSockets,
             Recv(c, f) \/ Send(c, f) \/ Select(c, f)
      PROVE  SettledInv'
  <2>1. UNCHANGED <<st, ev, flow, installed, finished, npc, cpc, ccont, nConnect>>
    BY <1>3 DEF Recv, Send, Select, endpoint, thread, notif, counters
  <2>2. \A d \in Callers : pc'[d] = "connect" => pc[d] = "connect"
    BY <1>3 DEF Recv, Send, Select, Enter
  <2> QED BY <1>0, <1>0a, <2>1, <2>2, SettledKept
<1>4. ASSUME NEW c \in Callers, NEW f \in DOMAIN openSockets, Connect(c, f)
      PROVE  SettledInv'
  <2>1. nConnect = 0 /\ nConnect' # 0
    <3>1. nConnect \in Nat /\ nConnect' = nConnect + 1
      BY <1>4, Bounds DEF Connect, CounterType
    <3> QED BY <3>1
  <2>2. /\ UNCHANGED <<st, ev, flow, installed, finished, npc, ccont>>
        /\ cpc'[c] \in {"blocking", "failed"}
        /\ \A d \in Callers \ {c} : cpc'[d] = cpc[d] /\ pc'[d] = pc[d]
    BY <1>4, SetupPlaces DEF Connect, Enter, endpoint, notif
  <2>3. NotIssued /\ NotIssued'
    BY <2>1, <2>2 DEF SettledInv, BeforeIssue, NotIssued, Fresh
  <2>4. \A d \in Callers : cpc[d] = "none" /\ pc[d] # "connect"
    BY <2>1 DEF SettledInv, BeforeIssue
  <2>5. BeforeIssue' /\ OneThread'
    BY <2>1, <2>2, <2>3, <2>4 DEF BeforeIssue, OneThread
  <2>6. OneAnswer'
    BY <1>0, <2>2 DEF SettledInv, OneAnswer, Fresh
  <2> QED BY <2>5, <2>6 DEF SettledInv
<1>5. ASSUME NEW c \in Callers, ConnectReturn(c)
      PROVE  SettledInv'
  <2>1. /\ UNCHANGED <<st, ev, flow, installed, finished, npc, nConnect>>
        /\ pc'[c] # "connect" /\ cpc'[c] = "none"
        /\ \A d \in Callers \ {c} : pc'[d] = pc[d] /\ cpc'[d] = cpc[d] /\ ccont'[d] = ccont[d]
    BY <1>5 DEF ConnectReturn, Return, endpoint, notif, counters
  <2>2. NotIssued' = NotIssued
    BY <2>1 DEF NotIssued, Fresh
  <2>3. nConnect' = nConnect
    BY <2>1
  <2>4. BeforeIssue'
    BY <2>1, <2>2, <2>3 DEF SettledInv, BeforeIssue
  <2>5. OneThread'
    BY <2>1 DEF SettledInv, OneThread
  <2>6. OneAnswer'
    BY <1>0, <2>1 DEF SettledInv, OneAnswer, Fresh
  <2> QED BY <2>4, <2>5, <2>6 DEF SettledInv
<1>6. ASSUME NEW c \in Callers, CtSetup(c)
      PROVE  SettledInv'
  <2>0. cpc[c] # "none" /\ skt[c] \in Socket
    BY <1>6, SetupBegun, ThreadSocket
  <2>1. /\ UNCHANGED <<ev, flow, finished, npc, nConnect, pc>>
        /\ cpc[c] \in Preparing /\ cpc'[c] \in {"throw", "issue"}
        /\ cpc'[c] = "throw" => ccont'[c] \in Resumed \cup {"issue"}
        /\ \A d \in Callers \ {c} : cpc'[d] = cpc[d] /\ ccont'[d] = ccont[d]
    BY <1>6, <2>0, SetupSteps DEF CtSetup, caller, notif, counters
  <2>2. \A o \in Socket : st'[o] = st[o] \/ st'[o] = "idle"
    <3>1. st' = st \/ st' = [st EXCEPT ![skt[c]] = "idle"]
      BY <1>6, <2>0, SetupSteps
    <3> QED BY <3>1
  <2>3. NotIssued
    BY <2>0, <2>1 DEF SettledInv, BeforeIssue, Preparing, Resumed
  <2>4. NotIssued'
    BY <2>1, <2>2, <2>3 DEF NotIssued, Fresh, Early
  <2>5. BeforeIssue' /\ OneThread'
    BY <2>0, <2>1, <2>4 DEF SettledInv, BeforeIssue, OneThread
  <2>6. OneAnswer'
    <3>1. \A o \in Socket : npc'[o] \notin {"failing", "switch"}
      BY <1>0a, <2>1, <2>3 DEF NotIssued
    <3> QED BY <2>4, <3>1 DEF OneAnswer, NotIssued, Fresh, Early
  <2> QED BY <2>5, <2>6 DEF SettledInv
<1>7. ASSUME NEW c \in Callers, CtIssue(c)
      PROVE  SettledInv'
  <2> DEFINE o == skt[c]
  <2>1. /\ UNCHANGED <<ev, flow, installed, npc, nConnect, pc>> /\ ~finished'
        /\ cpc[c] = "issue"
        /\ \A d \in Callers \ {c} : cpc'[d] = cpc[d] /\ ccont'[d] = ccont[d]
        /\ \A p \in Socket \ {o} : st'[p] = st[p]
    BY <1>7 DEF CtIssue, ThreadAt, caller, notif, counters
  <2>2. \/ st' = st /\ cpc'[c] = "throw" /\ ccont'[c] = "done"
        \/ cpc'[c] = "done" /\ \A p \in Socket : st'[p] = st[p] \/ st'[p] = "outcon"
    <3> DEFINE Answer(a) == Answered(skt[c], {"idle"}, a)
               Fails(a)  == Answer(a) # "kOTNoDataErr" /\ Throws(Answer(a))
    <3>1. PICK a \in Answers \cup {"kOTNoDataErr"} :
            /\ st' = [st EXCEPT ![o] =
                        IF Answer(a) \in {"noErr", "kOTNoDataErr"} THEN "outcon" ELSE @]
            /\ cpc' = [cpc EXCEPT ![c] = IF Fails(a) THEN "throw" ELSE "done"]
            /\ ccont' = [ccont EXCEPT ![c] = IF Fails(a) THEN "done" ELSE "none"]
      BY <1>7 DEF CtIssue
    <3> HIDE DEF Answer
    <3>2. st \in [Socket -> EndpointState]
      BY DEF EndpointType
    <3>3. CASE Fails(a)
      <4>1. Answer(a) \notin {"noErr", "kOTNoDataErr"}
        BY <3>3, NoErrThrows
      <4>2. st' = st
        BY <3>1, <3>2, <4>1
      <4> QED BY <3>1, <3>3, <4>2
    <3>4. CASE ~Fails(a)
      <4>1. \A p \in Socket : st'[p] = st[p] \/ st'[p] = "outcon"
        BY <3>1, <3>2
      <4> QED BY <3>1, <3>4, <4>1
    <3> QED BY <3>3, <3>4
  <2>3. NotIssued
    BY <2>1 DEF SettledInv, BeforeIssue
  <2>4. cpc'[c] = "throw" => NotIssued'
    BY <2>1, <2>2, <2>3 DEF NotIssued, Fresh
  <2>5. nConnect # 0
    BY <2>1 DEF SettledInv, BeforeIssue
  <2>6. \A d \in Callers \ {c} : cpc[d] = "none"
    BY <2>1 DEF SettledInv, OneThread
  <2>7. BeforeIssue' /\ OneThread'
    <3>1. \A d \in Callers \ {c} : cpc'[d] = "none"
      BY <2>1, <2>6
    <3>2. nConnect' # 0
      BY <2>1, <2>5
    <3>3. cpc'[c] \in {"throw", "done"}
      BY <2>2
    <3>4. BeforeIssue'
      BY <2>2, <2>4, <3>1, <3>2, <3>3 DEF BeforeIssue
    <3>5. OneThread'
      BY <2>1, <3>1, <3>3 DEF SettledInv, OneThread
    <3> QED BY <3>4, <3>5
  <2>8. OneAnswer'
    <3>1. \A p \in Socket : st'[p] \in Early \cup {"outcon"} /\ ev'[p] = << >> /\ flow'[p] = "open"
      BY <2>1, <2>2, <2>3 DEF NotIssued, Fresh, Early
    <3>2. \A p \in Socket \ {o} : Fresh(p)'
      BY <2>1, <2>3 DEF NotIssued, Fresh
    <3>3. \A p \in Socket : npc'[p] \notin {"failing", "switch"}
      BY <1>0a, <2>1, <2>3 DEF NotIssued
    <3> QED BY <2>1, <3>1, <3>2, <3>3 DEF OneAnswer, Early
  <2> QED BY <2>7, <2>8 DEF SettledInv
<1>8. ASSUME NEW c \in Callers, CtThrow(c)
      PROVE  SettledInv'
  <2>1. /\ UNCHANGED <<st, ev, flow, installed, finished, npc, nConnect>>
        /\ cpc[c] = "throw" /\ cpc'[c] = ccont[c]
        /\ \A d \in Callers : pc'[d] = "connect" => pc[d] = "connect"
        /\ \A d \in Callers \ {c} : cpc'[d] = cpc[d] /\ ccont'[d] = ccont[d]
    BY <1>8, MainAssumption DEF CtThrow, ThreadAt, endpoint, notif, counters
  <2>2. ccont[c] \in Resumed \cup {"issue", "done"} /\ NotIssued /\ NotIssued'
    BY <2>1 DEF SettledInv, BeforeIssue, NotIssued, Fresh
  <2>3. BeforeIssue' /\ OneThread'
    BY <2>1, <2>2 DEF SettledInv, BeforeIssue, OneThread, Resumed
  <2>4. OneAnswer'
    BY <1>0, <2>1 DEF SettledInv, OneAnswer, Fresh
  <2> QED BY <2>3, <2>4 DEF SettledInv
<1>9. ASSUME NEW c \in Callers, SendStep(c)
      PROVE  SettledInv'
  <2> DEFINE o == skt[c]
  <2>1. /\ UNCHANGED <<st, ev, installed, finished, npc, cpc, ccont, nConnect>>
        /\ \A d \in Callers : pc'[d] = "connect" => pc[d] = "connect"
    BY <1>9 DEF SendStep, Return, thread, notif, counters
  <2>2. flow' = flow \/ (Writable(o) /\ flow[o] # "open" /\ flow' = [flow EXCEPT ![o] = "wanted"])
    BY <1>9 DEF SendStep
  <2>3. CASE flow' = flow \/ o \notin Socket
    <3>1. flow' = flow
      BY <2>2, <2>3
    <3> QED BY <1>0, <1>0a, <2>1, <3>1, SettledKept
  <2>4. CASE o \in Socket /\ Writable(o) /\ flow[o] # "open" /\ flow' = [flow EXCEPT ![o] = "wanted"]
    <3> HIDE DEF o
    <3>1. ~Fresh(o) /\ st[o] \notin {"outcon", "conind"}
      BY <2>4 DEF Fresh, Writable
    <3>2. \A p \in Socket \ {o} : st'[p] = st[p] /\ ev'[p] = ev[p] /\ flow'[p] = flow[p]
      BY <2>1, <2>4
    <3> QED BY <1>0a, <2>1, <2>4, <3>1, <3>2, SettledAt
  <2> QED BY <2>2, <2>3, <2>4
<1>10. ASSUME NEW o \in Socket,
              NotifierEnter(o) \/ NotifierFail(o) \/ NotifierData(o) \/ NotifierThrow(o)
       PROVE  SettledInv'
  <2>1. UNCHANGED <<st, ev, flow, installed, finished, cpc, ccont, nConnect>>
    BY <1>10 DEF NotifierEnter, NotifierFail, NotifierData, NotifierThrow, endpoint, thread,
       counters
  <2>2. \A d \in Callers : pc'[d] = "connect" => pc[d] = "connect"
    BY <1>10, MainAssumption DEF NotifierEnter, NotifierFail, NotifierData, NotifierThrow,
       caller
  <2>3. \A p \in Socket : npc'[p] \in {"failing", "switch"} => npc[p] \in {"failing", "switch"}
    BY <1>10 DEF NotifierEnter, NotifierFail, NotifierData, NotifierThrow, NotifierAt
  <2> QED BY <1>0, <1>0a, <2>1, <2>2, <2>3, SettledKept
<1>11. ASSUME NEW o \in Socket, NotifierRun(o) \/ NotifierResume(o)
       PROVE  SettledInv'
  <2>1. /\ UNCHANGED <<pc, cpc, ccont, flow, installed, nConnect>>
        /\ ev[o] # << >> /\ npc[o] \in {"entered", "switch"} /\ finished'
    BY <1>0a, <1>11 DEF NotifierRun, NotifierResume, NotifierAt, Signal, caller, thread,
       counters
  <2>2. /\ st[o] # "outcon" /\ ~Fresh(o)
        /\ st[o] = "conind" /\ ~finished => Head(ev[o]) = "T_CONNECT"
        /\ st[o] = "conind" => flow[o] = "open" /\ installed[o]
        /\ st[o] = "conind" /\ finished => Excused(o)
    BY <2>1 DEF SettledInv, OneAnswer, Fresh
  <2>3. CASE NotifierSwitch(o)
    <3>1. /\ \A p \in Socket \ {o} : st'[p] = st[p] /\ ev'[p] = ev[p]
          /\ st'[o] \in {"data", "idle", st[o]}
          /\ st'[o] = "conind" /\ Head(ev[o]) = "T_CONNECT"
               => npc'[o] = "throw" \/ o \in unnoticed'
      BY <2>1, <2>3, SwitchSteps
    <3>2. st'[o] = "conind" => Excused(o)'
      BY <1>0, <2>2, <3>1 DEF Excused
    <3> QED BY <2>1, <2>2, <3>1, <3>2, SettledAt
  <2>4. CASE npc' = [npc EXCEPT ![o] = "failing"] /\ UNCHANGED <<ev, st>>
    <3>1. Excused(o)'
      BY <2>4 DEF Excused
    <3> QED BY <2>1, <2>2, <2>4, <3>1, SettledAt
  <2> QED BY <1>11, <2>3, <2>4 DEF NotifierRun, NotifierResume
<1>12. ASSUME NEW o \in Socket, Connected(o)
       PROVE  SettledInv'
  <2>1. /\ UNCHANGED <<pc, cpc, ccont, flow, installed, finished, npc, nConnect>>
        /\ st[o] = "outcon" /\ st' = [st EXCEPT ![o] = "conind"] /\ Raise(o, "T_CONNECT")
    BY <1>12 DEF Connected, caller, thread, notif, counters
  <2>2. ev[o] = << >> /\ flow[o] = "open" /\ ~finished /\ ~Fresh(o)
    BY <2>1 DEF SettledInv, OneAnswer, Fresh, Early
  <2>3. ev' = IF installed[o] THEN [ev EXCEPT ![o] = << "T_CONNECT" >>] ELSE ev
    BY <2>1, <2>2 DEF Raise
  <2>4. /\ \A p \in Socket \ {o} : st'[p] = st[p] /\ ev'[p] = ev[p] /\ flow'[p] = flow[p]
        /\ installed[o] => ev'[o] # << >> /\ Head(ev'[o]) = "T_CONNECT"
        /\ ~installed[o] => ev'[o] = << >>
    BY <2>1, <2>2, <2>3
  <2> QED BY <1>0, <1>0a, <2>1, <2>2, <2>4, SettledAt
<1>13. ASSUME NEW o \in Socket, Disconnected(o) \/ PeerClose(o)
       PROVE  SettledInv'
  <2>1. /\ UNCHANGED <<pc, cpc, ccont, flow, installed, finished, npc, nConnect>>
        /\ st[o] \notin Early /\ st'[o] \in {"disind", "fin"}
        /\ \A p \in Socket \ {o} : st'[p] = st[p] /\ ev'[p] = ev[p]
    BY <1>13 DEF Disconnected, PeerClose, Raise, Early, caller, thread, notif, counters
  <2>2. ~Fresh(o)
    BY <2>1 DEF Fresh
  <2> QED BY <1>0, <1>0a, <2>1, <2>2, SettledAt
<1>14. ASSUME NEW o \in Socket, PeerSend(o)
       PROVE  SettledInv'
  <2>1. /\ UNCHANGED <<pc, cpc, ccont, st, flow, installed, finished, npc, nConnect>>
        /\ st[o] \in {"conind", "data"}
        /\ ev' = ev \/ (installed[o] /\ ev' = [ev EXCEPT ![o] = Append(@, "T_DATA")])
    BY <1>14 DEF PeerSend, Raise, caller, thread, notif, counters
  <2>2. ev[o] # << >> => Append(ev[o], "T_DATA") # << >> /\ Head(Append(ev[o], "T_DATA")) = Head(ev[o])
    <3>1. ev[o] \in Seq(Event) /\ "T_DATA" \in Event
      BY Names
    <3> QED BY <3>1, HeadOfAppend
  <2>3. /\ \A p \in Socket \ {o} : ev'[p] = ev[p]
        /\ installed[o] /\ ev[o] # << >> => ev'[o] # << >> /\ Head(ev'[o]) = Head(ev[o])
        /\ ~installed[o] => ev'[o] = ev[o]
    BY <2>1, <2>2
  <2>4. st[o] = "conind" =>
          /\ flow[o] = "open"
          /\ installed[o] /\ ~finished => ev[o] # << >> /\ Head(ev[o]) = "T_CONNECT"
          /\ ~installed[o] => ev[o] = << >>
    BY DEF SettledInv, OneAnswer
  <2>5. ~Fresh(o) /\ (finished => (st[o] = "conind" => Excused(o)))
    BY <2>1 DEF Fresh, Early, SettledInv, OneAnswer
  <2> QED BY <1>0, <1>0a, <2>1, <2>3, <2>4, <2>5, SettledAt
<1>15. ASSUME NEW o \in Socket, FlowOff(o) \/ FlowOn(o)
       PROVE  SettledInv'
  <2>1. /\ UNCHANGED <<pc, cpc, ccont, st, installed, finished, npc, nConnect>>
        /\ Writable(o) \/ flow[o] # "open"
        /\ \A p \in Socket \ {o} : ev'[p] = ev[p] /\ flow'[p] = flow[p]
    BY <1>15 DEF FlowOff, FlowOn, Raise, caller, thread, notif, counters
  <2>2. ~Fresh(o) /\ st[o] \notin {"outcon", "conind"}
    BY <2>1 DEF Fresh, Early, Writable, SettledInv, OneAnswer
  <2> QED BY <1>0, <1>0a, <2>1, <2>2, SettledAt
<1>16. ASSUME NEW o \in Socket, Other(o)
       PROVE  SettledInv'
  <2>1. nOther \in Nat /\ nOther' = nOther + 1
    BY <1>16, Bounds DEF Other, CounterType
  <2> QED BY <2>1
<1>17. ASSUME UNCHANGED vars PROVE SettledInv'
  BY <1>0, <1>0a, <1>17, SettledKept DEF vars, caller, thread, notif, endpoint, counters
<1> QED
  BY <1>1, <1>2, <1>3, <1>4, <1>5, <1>6, <1>7, <1>8, <1>9, <1>10, <1>11, <1>12, <1>13,
     <1>14, <1>15, <1>16, <1>17
  DEF Next, Call, CallerStep, ThreadStep, NotifierStep, Duty, Peer

\* A caller leaves connect() by ConnectReturn alone.
LEMMA OnlyReturn ==
  ASSUME TypeOK, [Next]_vars, NEW c \in Callers, pc[c] = "connect", pc'[c] = "idle"
  PROVE  ConnectReturn(c)
<1> USE DEF TypeOK, CallerType
<1>1. ASSUME NEW d \in Callers, SocketInit(d) \/ SocketConfigure(d) \/ SocketOpen(d)
      PROVE  FALSE
  BY <1>1 DEF SocketInit, SocketConfigure, SocketOpen, AfterOpen, At
<1>2. ASSUME NEW d \in Callers, NEW f \in DOMAIN openSockets,
             Connect(d, f) \/ Recv(d, f) \/ Send(d, f) \/ Select(d, f)
      PROVE  FALSE
  BY <1>2 DEF Connect, Recv, Send, Select, Enter, At
<1>3. ASSUME NEW d \in Callers, CallerThrow(d) \/ Insert(d)
      PROVE  FALSE
  BY <1>3, MainAssumption, ThrowPlaces
  DEF CallerThrow, DisposeMain, Insert, Return, At, InSocket
<1>4. ASSUME NEW d \in Callers, RecvStep(d) \/ RecvResume(d) \/ SendStep(d) \/ SendResume(d)
      PROVE  FALSE
  BY <1>4 DEF RecvStep, RecvResume, SendStep, SendResume, Return, At
<1>5. ASSUME NEW d \in Callers, SelectFails(d) \/ SelectStep(d)
      PROVE  FALSE
  BY <1>5, MainAssumption DEF SelectFails, SelectStep, Return, At
<1>6. ASSUME NEW d \in Callers, ThreadStep(d)
      PROVE  FALSE
  BY <1>6, MainAssumption DEF ThreadStep, CtSetup, CtIssue, CtThrow, caller
<1>7. ASSUME NEW o \in Socket, NotifierStep(o)
      PROVE  FALSE
  BY <1>7, MainAssumption
  DEF NotifierStep, NotifierEnter, NotifierRun, NotifierFail, NotifierResume, NotifierData,
      NotifierThrow, caller
<1>8. ASSUME NEW o \in Socket, Duty(o) \/ Peer(o)
      PROVE  FALSE
  BY <1>8 DEF Duty, Peer, Connected, FlowOn, Disconnected, PeerClose, PeerSend, FlowOff, Other,
              caller
<1>9. ASSUME NEW d \in Callers, ConnectReturn(d)
      PROVE  d = c
  BY <1>9 DEF ConnectReturn, Return
<1>10. ASSUME UNCHANGED vars PROVE FALSE
  BY <1>10 DEF vars, caller
<1> QED
  BY <1>1, <1>2, <1>3, <1>4, <1>5, <1>6, <1>7, <1>8, <1>9, <1>10
  DEF Next, Call, CallerStep

\* What one step means for the caller that waits in connect().
LEMMA SettledReturn ==
  ASSUME TypeOK, TableInv, ThreadsApart, SettledInv, [Next]_vars,
         NEW c \in Callers, pc[c] = "connect", pc'[c] = "idle"
  PROVE  /\ cpc[c] = "done" /\ st[skt[c]] # "outcon"
         /\ st[skt[c]] = "conind" => Excused(skt[c])
<1>1. finished
  BY OnlyReturn DEF ConnectReturn
<1>2. cpc[c] = "done"
  BY <1>1 DEF SettledInv, BeforeIssue, OneThread, NotIssued
<1>3. skt[c] \in Socket
  <2>1. skt[c] \in 1..nSkt /\ nSkt \in 0..MaxSockets
    BY <1>2 DEF ThreadsApart, TypeOK, TableType
  <2> QED BY <2>1, Bounds DEF Socket
<1> QED BY <1>1, <1>2, <1>3 DEF SettledInv, OneAnswer

\* The invariant holds until a second connection, or an event that is none of
\* the connection's.
Settling == nConnect <= 1 /\ nOther = 0 => SettledInv

LEMMA SettlingStep ==
  ASSUME TypeOK, TableInv, ThreadsApart, Settling, [Next]_vars
  PROVE  Settling'
BY NothingTakenBack, SettledStep DEF Settling

\* In a program that connected once, and whose endpoints reported nothing but the
\* connection, connect() returns when its thread is through and Open Transport
\* has answered, whatever fails on the way; with the connection not taken only
\* as far as the failure that is the reason stops the main thread, or has a code
\* that passes ThrowOSErr() (connect.cpp:48-55, 94-112, 140).
THEOREM SettledCorrect == Spec => ConnectReturnsSettled
<1>1. Init => Settling
  BY DEF Init, Settling, SettledInv, BeforeIssue, OneThread, OneAnswer, NotIssued, Fresh, Early
<1>2. TypeOK /\ TableInv /\ ThreadsApart /\ Settling /\ [Next]_vars => Settling'
  BY SettlingStep
<1>3. TypeOK /\ TableInv /\ ThreadsApart /\ Settling /\ [Next]_vars
        => [\A c \in Callers :
              pc[c] = "connect" /\ pc'[c] = "idle" /\ nConnect <= 1 /\ nOther = 0 =>
                /\ cpc[c] = "done" /\ st[skt[c]] # "outcon"
                /\ st[skt[c]] = "conind" =>
                     \/ npc[skt[c]] \in {"failing", "throw"}
                     \/ ~MainAlive \/ skt[c] \in unnoticed]_vars
  BY SettledReturn DEF Settling, Excused
<1> QED BY Inductive, <1>1, <1>2, <1>3, PTL DEF Spec, ConnectReturnsSettled
----------------------------------------------------------------------------
(***************************************************************************)
(* connect() does not wait for nothing.                                     *)
(***************************************************************************)

\* Something will set `finished` yet: an event is there, or one has to come.
Underway(o) == (st[o] = "outcon" /\ installed[o]) \/ ev[o] # << >>

\* The one connect thread calls OTConnect() on an idle endpoint, and leaves an
\* endpoint that is underway, if it never threw and no failure passed.
AnswerInv ==
  /\ nConnect = 0 => \A c \in Callers : cpc[c] = "none" /\ pc[c] # "connect"
  /\ OneThread
  /\ \A c \in Callers : cpc[c] = "throw" => ccont[c] \in Resumed \cup {"issue", "done"}
  /\ MainAlive => \A c \in Callers :
       /\ cpc[c] \notin Resumed
       /\ cpc[c] = "issue" => st[skt[c]] = "idle" \/ skt[c] \in unnoticed
       /\ cpc[c] = "done" /\ ~finished => Underway(skt[c]) \/ skt[c] \in unnoticed

\* The notifier goes on after an error result, but the main thread does not.
Disposed == \A o \in Socket : npc[o] = "switch" => ~MainAlive

LEMMA DisposedStep ==
  ASSUME TypeOK, ThreadsApart, Disposed, [Next]_vars
  PROVE  Disposed'
<1> USE DEF TypeOK, NotifierType
<1>1. MainAlive' => MainAlive
  BY NothingTakenBack
<1>2. ASSUME NEW o \in Socket, NotifierStep(o)
      PROVE  Disposed'
  <2>1. CASE NotifierFail(o)
    BY <2>1, MainAssumption DEF NotifierFail, CallerType, MainAlive, Disposed
  <2>2. CASE NotifierRun(o) \/ NotifierResume(o)
    <3>1. ev[o] # << >>
      BY <2>2 DEF NotifierRun, NotifierResume, NotifierAt
    <3>2. CASE NotifierSwitch(o)
      <4>1. npc'[o] # "switch" /\ \A p \in Socket \ {o} : npc'[p] = npc[p]
        BY <3>1, <3>2, SwitchSteps
      <4> QED BY <1>1, <4>1 DEF Disposed
    <3>3. CASE npc' = [npc EXCEPT ![o] = "failing"]
      BY <1>1, <3>3 DEF Disposed
    <3> QED BY <2>2, <3>2, <3>3 DEF NotifierRun, NotifierResume
  <2>3. CASE NotifierEnter(o) \/ NotifierData(o) \/ NotifierThrow(o)
    BY <1>1, <2>3 DEF NotifierEnter, NotifierData, NotifierThrow, Disposed
  <2> QED BY <1>2, <2>1, <2>2, <2>3 DEF NotifierStep
<1>3. ASSUME npc' = npc PROVE Disposed'
  BY <1>1, <1>3 DEF Disposed
<1>4. ASSUME NEW c \in Callers, Call(c) \/ CallerStep(c) \/ ThreadStep(c)
      PROVE  npc' = npc
  BY <1>4 DEF Call, SocketInit, Connect, Recv, Send, Select, CallerStep, SocketConfigure,
     SocketOpen, CallerThrow, Insert, ConnectReturn, RecvStep, RecvResume, SendStep,
     SendResume, SelectFails, SelectStep, ThreadStep, CtSetup, CtIssue, CtThrow, notif
<1>5. ASSUME (\E o \in Socket : Duty(o) \/ Peer(o)) \/ UNCHANGED vars
      PROVE  npc' = npc
  BY <1>5 DEF Duty, Peer, Connected, FlowOn, Disconnected, PeerClose, PeerSend, FlowOff,
     Other, notif, vars
<1> QED BY <1>2, <1>3, <1>4, <1>5 DEF Next

\* A step of anyone but the connect thread and connect(): it does not take back
\* what that thread reached.
LEMMA AnswerKept ==
  ASSUME TypeOK, ThreadsApart, AnswerInv, UNCHANGED <<cpc, ccont, nConnect>>,
         \A c \in Callers : pc'[c] = "connect" => pc[c] = "connect",
         \A c \in Callers : pc[c] \in {"connect", "dead"} => skt'[c] = skt[c],
         MainAlive' => MainAlive, MainAlive' => (finished => finished'),
         unnoticed \subseteq unnoticed',
         \A o \in 1..nSkt : st[o] = "idle" => st'[o] = "idle",
         MainAlive' => \A o \in 1..nSkt : Underway(o) => Underway(o)' \/ finished'
  PROVE  AnswerInv'
<1>1. OneThread'
  BY DEF AnswerInv, OneThread
<1>2. nConnect' = 0 => \A c \in Callers : cpc'[c] = "none" /\ pc'[c] # "connect"
  BY DEF AnswerInv
<1>3. \A c \in Callers : cpc[c] # "none" => skt[c] \in 1..nSkt /\ skt'[c] = skt[c]
  BY ThreadSocket DEF ThreadsApart
<1>4. ASSUME MainAlive', NEW c \in Callers
      PROVE  /\ cpc'[c] \notin Resumed
             /\ cpc'[c] = "issue" => st'[skt'[c]] = "idle" \/ skt'[c] \in unnoticed'
             /\ cpc'[c] = "done" /\ ~finished'
                  => (Underway(skt[c])' \/ skt[c] \in unnoticed') /\ skt'[c] = skt[c]
  BY <1>3, <1>4 DEF AnswerInv
<1>5. ASSUME MainAlive', NEW c \in Callers, cpc'[c] = "done", ~finished'
      PROVE  Underway(skt[c])' \/ skt'[c] \in unnoticed'
  BY <1>4, <1>5
<1> QED BY <1>1, <1>2, <1>4, <1>5 DEF AnswerInv

\* Where the notifier is, Raise() leaves an event, and it takes none away.
LEMMA RaiseGrows ==
  ASSUME TypeOK, NEW o \in Socket, NEW e \in Event, Raise(o, e) \/ UNCHANGED ev
  PROVE  /\ \A p \in Socket : ev[p] # << >> => ev'[p] # << >>
         /\ Raise(o, e) /\ installed[o] => ev'[o] # << >>
<1>1. Append(ev[o], e) # << >>
  BY SeqFacts DEF TypeOK, NotifierType
<1> QED BY <1>1 DEF Raise, TypeOK, NotifierType

LEMMA AnswerStep ==
  ASSUME TypeOK, TableInv, ThreadsApart, UsableInv, Disposed, AnswerInv, [Next]_vars,
         nConnect' <= 1
  PROVE  AnswerInv'
<1> USE DEF TypeOK, CallerType, EndpointType, NotifierType
<1>0. 1..nSkt \subseteq Socket /\ (MainAlive' => MainAlive)
  BY Bounds, NothingTakenBack DEF TableType, Socket
<1>1. ASSUME NEW c \in Callers, SocketOpen(c)
      PROVE  AnswerInv'
  <2> DEFINE s == skt[c]
  <2>1. /\ UNCHANGED <<skt, ev, installed, finished, cpc, ccont, nConnect>>
        /\ \A d \in Callers : pc'[d] = "connect" => pc[d] = "connect"
        /\ unnoticed \subseteq unnoticed'
    BY <1>1 DEF SocketOpen, AfterOpen, At, Unnoticed, thread, counters
  <2>2. s \in 1..nSkt /\ \A o \in 1..nSkt \ {s} : st'[o] = st[o]
    BY <1>1, OpeningSocket DEF SocketOpen, At, Opening, InSocket
  <2>3. MainAlive' => MainAlive
    BY NothingTakenBack
  <2>4. cpc[c] = "none" /\ pc[c] \in InSocket
    BY <1>1 DEF SocketOpen, At, ThreadsApart, InSocket
  <2>5. \A d \in Callers : cpc[d] # "none" => skt[d] \in 1..nSkt /\ skt[d] # s
    BY <2>4, ThreadSocket DEF ThreadsApart, TableInv, Apart, Opening
  <2>6. \A o \in 1..nSkt \ {s} : Underway(o) => Underway(o)'
    BY <2>1, <2>2 DEF Underway
  <2> QED BY <2>1, <2>2, <2>3, <2>5, <2>6 DEF AnswerInv, OneThread
<1>2. ASSUME NEW c \in Callers,
             \/ SocketInit(c) \/ SocketConfigure(c) \/ CallerThrow(c) \/ Insert(c)
             \/ RecvStep(c) \/ RecvResume(c) \/ SendStep(c) \/ SendResume(c)
             \/ SelectFails(c) \/ SelectStep(c)
      PROVE  AnswerInv'
  <2>1. UNCHANGED <<st, ev, installed, finished, unnoticed, cpc, ccont, nConnect>>
    BY <1>2 DEF SocketInit, SocketConfigure, CallerThrow, Insert, RecvStep, RecvResume,
       SendStep, SendResume, SelectFails, SelectStep, endpoint, thread, counters
  <2>2. /\ \A d \in Callers : pc'[d] = "connect" => pc[d] = "connect"
        /\ \A d \in Callers : pc[d] \in {"connect", "dead"} => skt'[d] = skt[d]
    BY <1>2, ConnectingKept
  <2>3. \A o \in 1..nSkt : Underway(o) => Underway(o)'
    BY <2>1 DEF Underway
  <2> QED BY <1>0, <2>1, <2>2, <2>3, AnswerKept
<1>3. ASSUME NEW c \in Callers, NEW f \in DOMAIN openSockets,
             Recv(c, f) \/ Send(c, f) \/ Select(c, f)
      PROVE  AnswerInv'
  <2>1. UNCHANGED <<st, ev, installed, finished, unnoticed, cpc, ccont, nConnect>>
    BY <1>3 DEF Recv, Send, Select, endpoint, thread, counters
  <2>2. /\ \A d \in Callers : pc'[d] = "connect" => pc[d] = "connect"
        /\ \A d \in Callers : pc[d] \in {"connect", "dead"} => skt'[d] = skt[d]
        /\ MainAlive' => MainAlive
    BY <1>3, MainAssumption DEF Recv, Send, Select, Enter, At, MainAlive
  <2>3. \A o \in 1..nSkt : Underway(o) => Underway(o)'
    BY <2>1 DEF Underway
  <2> QED BY <2>1, <2>2, <2>3, AnswerKept
<1>4. ASSUME NEW c \in Callers, NEW f \in DOMAIN openSockets, Connect(c, f)
      PROVE  AnswerInv'
  <2>1. nConnect = 0 /\ nConnect' # 0
    <3>1. nConnect \in Nat /\ nConnect' = nConnect + 1
      BY <1>4, Bounds DEF Connect, CounterType
    <3> QED BY <3>1
  <2>2. /\ cpc'[c] \in {"blocking", "failed"}
        /\ \A d \in Callers \ {c} : cpc'[d] = cpc[d] /\ pc'[d] = pc[d]
        /\ ccont' = ccont
    BY <1>4, SetupPlaces DEF Connect, Enter
  <2>3. \A d \in Callers \ {c} : cpc'[d] = "none" /\ pc'[d] # "connect"
    BY <2>1, <2>2 DEF AnswerInv
  <2> QED BY <2>1, <2>2, <2>3 DEF AnswerInv, OneThread, Resumed
<1>5. ASSUME NEW c \in Callers, ConnectReturn(c)
      PROVE  AnswerInv'
  <2>1. /\ pc[c] = "connect" /\ pc'[c] # "connect" /\ cpc'[c] = "none"
        /\ \A d \in Callers \ {c} : pc'[d] = pc[d] /\ cpc'[d] = cpc[d]
    BY <1>5 DEF ConnectReturn, Return, At
  <2>2. cpc[c] # "none"
    BY <2>1 DEF AnswerInv, OneThread
  <2>3. \A d \in Callers \ {c} : cpc[d] = "none"
    BY <2>2 DEF AnswerInv, OneThread
  <2>4. \A d \in Callers \ {c} : pc[d] # "connect"
    BY <2>3 DEF AnswerInv, OneThread
  <2>5. ASSUME NEW d \in Callers
        PROVE  cpc'[d] = "none" /\ pc'[d] # "connect"
    <3>1. CASE d = c
      BY <2>1, <3>1
    <3>2. CASE d # c
      BY <2>1, <2>3, <2>4, <3>2
    <3> QED BY <3>1, <3>2
  <2>6. nConnect' = nConnect
    BY <1>5 DEF ConnectReturn, counters
  <2> QED BY <2>5, <2>6 DEF AnswerInv, OneThread, Resumed
<1>6. ASSUME NEW c \in Callers, CtSetup(c) \/ CtIssue(c) \/ CtThrow(c)
      PROVE  /\ nConnect' # 0 /\ OneThread' /\ skt' = skt /\ skt[c] \in Socket
             /\ \A d \in Callers \ {c} : cpc'[d] = "none"
             /\ \A d \in Callers :
                  cpc'[d] = "throw" => ccont'[d] \in Resumed \cup {"issue", "done"}
  <2>0. cpc[c] # "none" /\ skt[c] \in Socket
    BY <1>6, SetupBegun, ThreadSocket DEF CtIssue, CtThrow, ThreadAt
  <2>1. /\ nConnect' = nConnect /\ skt' = skt
        /\ \A d \in Callers : pc'[d] = "connect" => pc[d] = "connect"
        /\ \A d \in Callers \ {c} : cpc'[d] = cpc[d]
    BY <1>6, MainAssumption DEF CtSetup, CtIssue, CtThrow, caller, counters
  <2>2. nConnect # 0 /\ \A d \in Callers \ {c} : cpc[d] = "none"
    BY <2>0 DEF AnswerInv, OneThread
  <2>3. cpc[c] = "throw" => ccont[c] \in Resumed \cup {"issue", "done"}
    BY DEF AnswerInv
  <2>4. /\ cpc'[c] # "none"
        /\ cpc'[c] = "throw" => ccont'[c] \in Resumed \cup {"issue", "done"}
    <3>1. CASE CtSetup(c)
      BY <2>0, <3>1, SetupSteps
    <3>2. CASE CtIssue(c)
      BY <3>2 DEF CtIssue
    <3>3. CASE CtThrow(c)
      BY <2>3, <3>3 DEF CtThrow, ThreadAt, Resumed
    <3> QED BY <1>6, <3>1, <3>2, <3>3
  <2>5. \A d \in Callers \ {c} : cpc'[d] = "none"
    BY <2>1, <2>2
  <2>6. OneThread'
    BY <2>1, <2>2, <2>4, <2>5 DEF AnswerInv, OneThread
  <2> QED BY <2>0, <2>1, <2>2, <2>4, <2>5, <2>6
<1>7. ASSUME NEW c \in Callers, CtSetup(c)
      PROVE  AnswerInv'
  <2>1. /\ cpc[c] \in Preparing /\ cpc'[c] \in {"issue", "throw"}
        /\ cpc[c] = "blocking" /\ cpc'[c] = "issue"
             => st'[skt[c]] = "idle" \/ skt[c] \in unnoticed'
    BY <1>6, <1>7, SetupSteps
  <2>2. MainAlive' => cpc[c] = "blocking"
    BY <1>0, <2>1 DEF AnswerInv, Preparing
  <2> QED BY <1>6, <1>7, <2>1, <2>2 DEF AnswerInv, Resumed
<1>8. ASSUME NEW c \in Callers, CtIssue(c)
      PROVE  AnswerInv'
  <2> DEFINE s == skt[c]
  <2>1. /\ UNCHANGED <<pc, skt, installed, ev>> /\ cpc[c] = "issue" /\ s \in Socket
    BY <1>6, <1>8 DEF CtIssue, ThreadAt, caller
  <2>2. cpc'[c] \in {"throw", "done"} /\ unnoticed \subseteq unnoticed'
    BY <1>8 DEF CtIssue, Unnoticed
  <2>3. ASSUME MainAlive, cpc'[c] = "done", s \notin unnoticed'
        PROVE  st'[s] = "outcon" /\ installed[s]
    <3>1. st[s] = "idle" /\ installed[s]
      BY <2>1, <2>2, <2>3 DEF AnswerInv, UsableInv
    <3>2. PICK a \in Answers \cup {"kOTNoDataErr"} :
            /\ st' = [st EXCEPT ![s] = IF a \in {"noErr", "kOTNoDataErr"} THEN "outcon" ELSE @]
            /\ a # "kOTNoDataErr" /\ Throws(a) => cpc' = [cpc EXCEPT ![c] = "throw"]
            /\ Unnoticed(s, a)
      BY <1>8, <3>1 DEF CtIssue, Answered
    <3>3. ~Unlisted(a)
      BY <2>3, <3>2 DEF Unnoticed
    <3>4. a = "noErr" \/ a = "kOTNoDataErr"
      BY <2>3, <3>2, <3>3, NoErrorPasses
    <3> QED BY <2>1, <3>1, <3>2, <3>4
  <2>4. MainAlive' = MainAlive
    BY <2>1 DEF MainAlive
  <2>5. MainAlive /\ cpc'[c] = "done" /\ skt'[c] \notin unnoticed'
          => st'[skt'[c]] = "outcon" /\ installed'[skt'[c]]
    BY <2>1, <2>3
  <2> QED BY <1>6, <1>8, <2>2, <2>4, <2>5 DEF AnswerInv, Underway, Resumed
<1>9. ASSUME NEW c \in Callers, CtThrow(c)
      PROVE  AnswerInv'
  <2>1. ~MainAlive'
    BY <1>9, MainAssumption DEF CtThrow, MainAlive
  <2> QED BY <1>6, <1>9, <2>1 DEF AnswerInv
<1>10. ASSUME NEW o \in Socket,
              NotifierEnter(o) \/ NotifierFail(o) \/ NotifierData(o) \/ NotifierThrow(o)
       PROVE  AnswerInv'
  <2>1. UNCHANGED <<skt, st, ev, installed, finished, unnoticed, cpc, ccont, nConnect>>
    BY <1>10 DEF NotifierEnter, NotifierFail, NotifierData, NotifierThrow, endpoint, thread,
       counters, caller
  <2>2. \A d \in Callers : pc'[d] = "connect" => pc[d] = "connect"
    BY <1>10, MainAssumption DEF NotifierEnter, NotifierFail, NotifierData, NotifierThrow,
       caller
  <2>3. \A p \in 1..nSkt : Underway(p) => Underway(p)'
    BY <2>1 DEF Underway
  <2> QED BY <1>0, <2>1, <2>2, <2>3, AnswerKept
<1>11. ASSUME NEW o \in Socket, NotifierRun(o) \/ NotifierResume(o)
       PROVE  AnswerInv'
  <2>1. UNCHANGED <<pc, skt, cpc, ccont, nConnect>> /\ (MainAlive => finished')
    BY <1>11 DEF NotifierRun, NotifierResume, NotifierAt, Signal, caller, thread, counters,
       Disposed
  <2>2. unnoticed \subseteq unnoticed' /\ \A p \in Socket : st[p] = "idle" => st'[p] = "idle"
    <3>1. ev[o] # << >>
      BY <1>11 DEF NotifierRun, NotifierResume, NotifierAt
    <3>2. CASE NotifierSwitch(o)
      BY <3>1, <3>2, SwitchSteps
    <3> QED BY <1>11, <3>2 DEF NotifierRun, NotifierResume
  <2> QED BY <1>0, <2>1, <2>2, AnswerKept
<1>12. ASSUME NEW o \in Socket, Duty(o) \/ Peer(o)
       PROVE  AnswerInv'
  <2>1. UNCHANGED <<pc, skt, installed, finished, unnoticed, cpc, ccont, nConnect>>
    BY <1>12 DEF Duty, Peer, Connected, FlowOn, Disconnected, PeerClose, PeerSend, FlowOff,
       Other, caller, thread, counters
  <2>2. \A p \in Socket : st[p] = "idle" => st'[p] = "idle"
    BY <1>12 DEF Duty, Peer, Connected, FlowOn, Disconnected, PeerClose, PeerSend, FlowOff,
       Other
  <2>3. PICK e \in Event :
          /\ Raise(o, e) \/ UNCHANGED ev
          /\ st' = st \/ (Raise(o, e) /\ \A p \in Socket \ {o} : st'[p] = st[p])
    BY <1>12, Names DEF Duty, Peer, Connected, FlowOn, Disconnected, PeerClose, PeerSend,
       FlowOff, Other
  <2>4. /\ \A p \in Socket : ev[p] # << >> => ev'[p] # << >>
        /\ Raise(o, e) /\ installed[o] => ev'[o] # << >>
    BY <2>3, RaiseGrows
  <2>5. \A p \in Socket : Underway(p) => Underway(p)'
    BY <2>1, <2>3, <2>4 DEF Underway
  <2> QED BY <1>0, <2>1, <2>2, <2>5, AnswerKept DEF MainAlive
<1>13. ASSUME UNCHANGED vars PROVE AnswerInv'
  <2>1. UNCHANGED <<pc, skt, st, ev, installed, finished, unnoticed, cpc, ccont, nConnect>>
    BY <1>13 DEF vars, caller, thread, endpoint, counters
  <2>2. \A p \in 1..nSkt : Underway(p) => Underway(p)'
    BY <2>1 DEF Underway
  <2> QED BY <2>1, <2>2, AnswerKept DEF MainAlive
<1> QED
  BY <1>1, <1>2, <1>3, <1>4, <1>5, <1>7, <1>8, <1>9, <1>10, <1>11, <1>12, <1>13
  DEF Next, Call, CallerStep, ThreadStep, NotifierStep

\* The invariant holds until a second connection.
Answering == nConnect <= 1 => AnswerInv

LEMMA AnsweringStep ==
  ASSUME TypeOK, TableInv, ThreadsApart, UsableInv, Disposed, Answering, [Next]_vars
  PROVE  Answering'
BY NothingTakenBack, AnswerStep DEF Answering

\* In a program that connected once, connect() never waits for nothing while the
\* main thread lives: whatever Open Transport's calls answer and the peer does, if
\* NewThread gave it its thread, `finished` is on its way, unless a failure had a
\* code that the switch of ThrowOSErr() has no case for (connect.cpp:45-55, 74-101,
\* internal.cpp:8-471).
THEOREM AnswerCorrect == Spec => []AnswerComes
<1>1. Init => UsableInv /\ Disposed /\ Answering
  BY DEF Init, UsableInv, Disposed, Answering, AnswerInv, OneThread, Resumed
<1>2. TypeOK /\ TableInv /\ ThreadsApart /\ UsableInv /\ Disposed /\ Answering /\ [Next]_vars
        => (UsableInv /\ Disposed /\ Answering)'
  BY UsableStep, DisposedStep, AnsweringStep
<1>3. TypeOK /\ Answering => AnswerComes
  <2> SUFFICES ASSUME TypeOK, AnswerInv, NEW c \in Callers,
                      MainAlive, pc[c] = "connect", cpc[c] # "failed", ~finished,
                      skt[c] \notin unnoticed, cpc[c] \notin {"blocking", "issue", "throw"}
               PROVE  Underway(skt[c])
    BY SetupPlaces DEF AnswerComes, Underway, Answering
  <2>1. cpc[c] \in Preparing \cup {"issue", "throw", "done"}
    BY SetupPlaces DEF TypeOK, CallerType, ThreadPC, AnswerInv, OneThread, Preparing, Resumed
  <2>2. cpc[c] = "done"
    BY <2>1 DEF AnswerInv, Preparing
  <2> QED BY <2>2 DEF AnswerInv
<1> QED BY Inductive, <1>1, <1>2, <1>3, PTL DEF Spec
----------------------------------------------------------------------------
(***************************************************************************)
(* The waits of recv() and send().                                          *)
(***************************************************************************)

\* recv() waits for nothing: recv_halt is never up, so the notifier drains no
\* endpoint and leaves nothing in recvBuf; of the two ways that data could come
\* by, one is dead code, on every socket (recv.cpp:28-38, connect.cpp:156-183).
THEOREM RecvNeverHalted ==
  Spec => [](\A o \in Socket : ~recv_halt[o] /\ recvBuf[o] = << >>)
<1>1. Init => StreamInv
  BY DEF Init, StreamInv, Ordered
<1>2. StreamInv => \A o \in Socket : ~recv_halt[o] /\ recvBuf[o] = << >>
  BY DEF StreamInv
<1> QED BY Inductive, StreamStep, <1>1, <1>2, PTL DEF Spec

LEMMA HaltLowered ==
  ASSUME TypeOK, [Next]_vars, NEW o \in Socket, send_halt[o], ~send_halt'[o]
  PROVE  \E d \in Callers : pc[d] = "send" /\ skt[d] = o
<1> USE DEF TypeOK, EndpointType
<1>1. ASSUME NEW d \in Callers, SendStep(d)
      PROVE  pc[d] = "send" /\ skt[d] = o
  BY <1>1 DEF SendStep, At
<1>2. ASSUME NEW d \in Callers, SocketInit(d) \/ SocketConfigure(d)
             \/ SocketOpen(d) \/ CallerThrow(d) \/ Insert(d)
             \/ ConnectReturn(d) \/ RecvStep(d) \/ RecvResume(d) \/ SendResume(d)
             \/ SelectFails(d) \/ SelectStep(d) \/ ThreadStep(d)
      PROVE  FALSE
  BY <1>2 DEF SocketInit, SocketConfigure, SocketOpen, CallerThrow, Insert, ConnectReturn,
     RecvStep, RecvResume, SendResume, SelectFails, SelectStep, ThreadStep, CtSetup, CtIssue,
     CtThrow, halts
<1>3. ASSUME NEW d \in Callers, NEW f \in DOMAIN openSockets,
             Connect(d, f) \/ Recv(d, f) \/ Send(d, f) \/ Select(d, f)
      PROVE  FALSE
  BY <1>3 DEF Connect, Recv, Send, Select, halts
<1>4. ASSUME NEW p \in Socket, NotifierStep(p) \/ Duty(p) \/ Peer(p)
      PROVE  FALSE
  BY <1>4 DEF NotifierStep, NotifierEnter, NotifierRun, NotifierFail, NotifierResume,
     NotifierData, NotifierThrow, Duty, Peer, Connected, FlowOn, Disconnected, PeerClose, PeerSend, FlowOff, Other, halts
<1>5. ASSUME UNCHANGED vars PROVE FALSE
  BY <1>5 DEF vars, halts
<1> QED BY <1>1, <1>2, <1>3, <1>4, <1>5 DEF Next, Call, CallerStep

\* send() waits for somebody else: the end of flow control, T_GODATA, does not
\* wake a send() that waits, only another thread's send() to the same socket
\* does.  With one thread on a socket, it waits for ever (send.cpp:21-42,
\* connect.cpp:212-248).
THEOREM SendWokenBySend ==
  Spec => [][\A c \in Callers :
               pc[c] = "sendwait" /\ send_halt[skt[c]] /\ ~send_halt'[skt[c]]
                 => \E d \in Callers \ {c} : pc[d] = "send" /\ skt[d] = skt[c]]_vars
<1>1. Init => Working
  BY DEF Init, Working
<1>2. ASSUME TypeOK, Working, [Next]_vars, NEW c \in Callers,
             pc[c] = "sendwait", send_halt[skt[c]], ~send_halt'[skt[c]]
      PROVE  \E d \in Callers \ {c} : pc[d] = "send" /\ skt[d] = skt[c]
  <2>1. skt[c] \in Socket
    BY <1>2 DEF Working, InSocket
  <2>2. PICK d \in Callers : pc[d] = "send" /\ skt[d] = skt[c]
    BY <1>2, <2>1, HaltLowered
  <2> QED BY <1>2, <2>2
<1>3. TypeOK /\ Working /\ [Next]_vars
        => [\A c \in Callers :
              pc[c] = "sendwait" /\ send_halt[skt[c]] /\ ~send_halt'[skt[c]]
                => \E d \in Callers \ {c} : pc[d] = "send" /\ skt[d] = skt[c]]_vars
  BY <1>2
<1> QED BY Inductive, WorkingStep, <1>1, <1>3, PTL DEF Spec
=============================================================================
