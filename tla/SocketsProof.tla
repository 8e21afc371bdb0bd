---------------------------- MODULE SocketsProof ----------------------------
(***************************************************************************)
(* Proofs about Sockets, for any number of callers, sockets and chunks.     *)
(***************************************************************************)
EXTENDS Sockets, FiniteSetTheorems, SequenceTheorems, TLAPS

Opening(c) == pc[c] \in InSocket

\* The keys are 0, 1, 2, ... without a gap.
Dense == \E n \in 0..MaxSockets : DOMAIN openSockets = 0..(n - 1)

\* The id field of a socket in the table is its key.
Inverses == \A f \in DOMAIN openSockets : id[openSockets[f]] = f

\* An object that socket() still works on is one thread's own.
Apart ==
  \A c \in Callers : Opening(c) =>
    /\ skt[c] \in 1..nSkt
    /\ \A f \in DOMAIN openSockets : openSockets[f] # skt[c]
    /\ \A d \in Callers \ {c} : Opening(d) => skt[d] # skt[c]

\* Every object is being worked on, or was when its thread was disposed of,
\* or is in the table under its id.
Accounted ==
  \A o \in 1..nSkt :
    \/ \E c \in Callers : skt[c] = o /\ pc[c] \in InSocket \cup {"dead"}
    \/ id[o] \in DOMAIN openSockets /\ openSockets[id[o]] = o

TableInv == Dense /\ Inverses /\ Apart /\ Accounted

LEMMA Bounds ==
  /\ MaxSockets \in Nat /\ MaxSockets <= 30
  /\ MaxChunks \in Nat /\ MaxConnects \in Nat
  /\ MaxFlow \in Nat /\ MaxOther \in Nat
BY BoundAssumption

LEMMA RoomForSocket ==
  ASSUME TypeOK, TableInv, NEW c \in Callers, Opening(c)
  PROVE  /\ NewFd \in 0..(MaxSockets - 1)
         /\ NewFd \notin DOMAIN openSockets
         /\ DOMAIN openSockets \cup {NewFd} = 0..NewFd
<1>1. PICK n \in 0..MaxSockets : DOMAIN openSockets = 0..(n - 1)
  BY DEF TableInv, Dense, Inverses, Apart
<1>2. n \in Nat /\ nSkt \in Nat /\ nSkt <= MaxSockets
  <2>1. nSkt \in 0..MaxSockets
    BY DEF TypeOK, TableType
  <2>. QED BY <2>1, Bounds
<1>3. NewFd = n
  <2>1. Cardinality(0..(n - 1)) = n
    BY <1>2, FS_Interval
  <2>. QED BY <1>1, <2>1 DEF NewFd
<1> DEFINE Others == (1..nSkt) \ {skt[c]}
<1>4. skt[c] \in 1..nSkt
  BY DEF TableInv, Dense, Inverses, Apart
<1>5. IsFiniteSet(Others) /\ Cardinality(Others) = nSkt - 1
  <2>1. IsFiniteSet(1..nSkt) /\ Cardinality(1..nSkt) = nSkt
    BY <1>2, FS_Interval
  <2>. QED BY <1>4, <2>1, FS_RemoveElement
<1>6. openSockets \in Injection(DOMAIN openSockets, Others)
  <2>1. openSockets \in [DOMAIN openSockets -> Others]
    BY DEF TypeOK, TableType, TableInv, Dense, Inverses, Apart
  <2>2. \A f, g \in DOMAIN openSockets : openSockets[f] = openSockets[g] => f = g
    BY DEF TableInv, Dense, Inverses, Apart
  <2>. QED BY <2>1, <2>2 DEF Injection, IsInjective
<1>7. n <= nSkt - 1
  <2>1. Cardinality(DOMAIN openSockets) <= Cardinality(Others)
    BY <1>5, <1>6, FS_Injection
  <2>. QED BY <1>3, <1>5, <2>1 DEF NewFd
<1>8. 0..(n - 1) \cup {n} = 0..n /\ n \notin 0..(n - 1)
  BY <1>2
<1>9. n \in 0..(MaxSockets - 1)
  BY <1>2, <1>7, Bounds
<1>. QED BY <1>1, <1>3, <1>8, <1>9

LEMMA Names ==
  /\ InSocket \subseteq CallerPC /\ "idle" \in CallerPC
  /\ "connect" \in CallerPC /\ "recv" \in CallerPC /\ "recvwait" \in CallerPC
  /\ "send" \in CallerPC /\ "sendwait" \in CallerPC /\ "select" \in CallerPC
  /\ "dead" \in CallerPC
  /\ "none" \in ThreadPC /\ \A i \in 1..6 : Setup[i] \in ThreadPC
  /\ "issue" \in ThreadPC /\ "throw" \in ThreadPC /\ "done" \in ThreadPC
  /\ "failed" \in ThreadPC
  /\ "idle" \in NotifierPC /\ "entered" \in NotifierPC /\ "data" \in NotifierPC
  /\ "failing" \in NotifierPC /\ "switch" \in NotifierPC /\ "throw" \in NotifierPC
  /\ "T_CONNECT" \in Event /\ "T_DATA" \in Event /\ "T_DISCONNECT" \in Event
  /\ "T_ORDREL" \in Event /\ "T_GODATA" \in Event /\ "other" \in Event
  /\ "null" \in EndpointState /\ "unbound" \in EndpointState
  /\ "idle" \in EndpointState /\ "outcon" \in EndpointState
  /\ "conind" \in EndpointState /\ "data" \in EndpointState
  /\ "fin" \in EndpointState /\ "disind" \in EndpointState
BY DEF CallerPC, ThreadPC, NotifierPC, Event, Unhandled, EndpointState

LEMMA SeqFacts ==
  ASSUME NEW S, NEW s \in Seq(S)
  PROVE  /\ \A x \in S : Append(s, x) \in Seq(S) /\ Append(s, x) # << >>
         /\ s # << >> => Head(s) \in S /\ Tail(s) \in Seq(S)
         /\ \A t \in Seq(S) : s \o t \in Seq(S)
         /\ << >> \in Seq(S)
<1>1. \A x \in S : Append(s, x) \in Seq(S) /\ Append(s, x) # << >>
  <2>1. \A x \in S : Append(s, x) \in Seq(S)
    OBVIOUS
  <2>2. \A x \in S : Len(Append(s, x)) = Len(s) + 1
    OBVIOUS
  <2>3. Len(s) \in Nat /\ Len(<< >>) = 0
    OBVIOUS
  <2>. QED BY <2>1, <2>2, <2>3
<1>2. s # << >> => Head(s) \in S /\ Tail(s) \in Seq(S)
  OBVIOUS
<1>3. \A t \in Seq(S) : s \o t \in Seq(S)
  OBVIOUS
<1>. QED BY <1>1, <1>2, <1>3

\* An event that Open Transport appends, or drops for want of a notifier.
LEMMA RaiseType ==
  ASSUME NotifierType, NEW o \in Socket, NEW e \in Event,
         Raise(o, e) \/ UNCHANGED ev, UNCHANGED <<npc, dataBuf>>
  PROVE  NotifierType'
<1>1. Append(ev[o], e) \in Seq(Event) /\ Append(ev[o], e) # << >>
  BY SeqFacts DEF NotifierType
<1>2. ev' = ev \/ ev' = [ev EXCEPT ![o] = Append(@, e)]
  BY DEF Raise
<1>. QED BY <1>1, <1>2 DEF NotifierType

LEMMA EntryIsSocket ==
  ASSUME TypeOK, NEW f \in DOMAIN openSockets
  PROVE  openSockets[f] \in Socket
<1>1. openSockets[f] \in 1..nSkt /\ nSkt \in 0..MaxSockets
  BY DEF TypeOK, TableType
<1>. QED BY <1>1, Bounds DEF Socket

\* Where a throw leaves socket(): still with its object.
LEMMA ThrowPlaces ==
  /\ DOMAIN AfterThrow = {"throwinit", "throwtype", "throw"}
  /\ \A p \in DOMAIN AfterThrow : p \in InSocket /\ AfterThrow[p] \in InSocket
  /\ \A p \in DOMAIN AfterThrow : AfterThrow[p] = "insert" => p = "throw"
BY DEF AfterThrow, InSocket

LEMMA SetupPlaces ==
  /\ Setup[1] = "blocking" /\ Setup[2] = "synchronous" /\ Setup[3] = "bind"
  /\ Setup[4] = "nonblocking" /\ Setup[5] = "asynchronous" /\ Setup[6] = "install"
  /\ \A i \in 1..6 : i = 1 \/ i = 2 \/ i = 3 \/ i = 4 \/ i = 5 \/ i = 6
BY DEF Setup

\* The places in the setup where a throw resumes, and all of them.
Resumed == {"synchronous", "bind", "nonblocking", "asynchronous", "install"}
Preparing == {"blocking"} \cup Resumed

\* What the setup of an endpoint makes of it, whatever its calls answer: when the
\* thread comes to OTConnect(), the endpoint has its notifier, or a failure passed;
\* and it is bound, if the thread never threw.
LEMMA SetupSteps ==
  ASSUME TypeOK, NEW c \in Callers, CtSetup(c), skt[c] \in Socket
  PROVE  /\ cpc[c] \in Preparing /\ cpc'[c] \in {"issue", "throw"}
         /\ ccont'[c] \in Resumed \cup {"issue", "none"}
         /\ cpc'[c] = "throw" => ccont'[c] # "none"
         /\ \A d \in Callers \ {c} : cpc'[d] = cpc[d] /\ ccont'[d] = ccont[d]
         /\ cpc' \in [Callers -> ThreadPC] /\ ccont' \in [Callers -> ThreadPC]
         /\ st' = st \/ st' = [st EXCEPT ![skt[c]] = "idle"]
         /\ \E b \in BOOLEAN : installed' = [installed EXCEPT ![skt[c]] = b]
         /\ installed[skt[c]] => installed'[skt[c]]
         /\ unnoticed' = unnoticed \/ unnoticed' = unnoticed \cup {skt[c]}
         /\ cpc'[c] = "issue" => installed'[skt[c]] \/ skt[c] \in unnoticed'
         /\ cpc[c] = "blocking" /\ cpc'[c] = "issue"
              => st'[skt[c]] = "idle" \/ skt[c] \in unnoticed'
<1> DEFINE o == skt[c]
<1> USE DEF TypeOK, CallerType, EndpointType
<1>1. PICK i \in 1..6, j \in 1..7 :
        /\ Setup[i] = cpc[c]
        /\ \E quiet \in SUBSET {Setup[k] : k \in i..(j - 1)} : SetupRun(o, i, j, quiet)
        /\ cpc' = [cpc EXCEPT ![c] = IF j = 7 THEN "issue" ELSE "throw"]
        /\ ccont' = [ccont EXCEPT ![c] = IF j = 7 THEN "none"
                                         ELSE IF j = 6 THEN "issue" ELSE Setup[j + 1]]
  BY DEF CtSetup
<1>2. PICK quiet \in SUBSET {Setup[k] : k \in i..(j - 1)} : SetupRun(o, i, j, quiet)
  BY <1>1
<1>3. j = 7 => "install" \in {Setup[k] : k \in i..(j - 1)}
  BY SetupPlaces
<1>4. i = 1 /\ j = 7 => "bind" \in {Setup[k] : k \in i..(j - 1)}
  BY SetupPlaces
<1>5. /\ st' = st \/ st' = [st EXCEPT ![o] = "idle"]
      /\ \E b \in BOOLEAN : installed' = [installed EXCEPT ![o] = b]
      /\ installed[o] => installed'[o]
      /\ unnoticed' = unnoticed \/ unnoticed' = unnoticed \cup {o}
      /\ quiet # {} => o \in unnoticed'
  BY <1>2 DEF SetupRun
<1>6. ASSUME j = 7 PROVE installed'[o] \/ o \in unnoticed'
  BY <1>2, <1>3, <1>6 DEF SetupRun
<1>7. ASSUME i = 1, j = 7 PROVE st'[o] = "idle" \/ o \in unnoticed'
  BY <1>2, <1>4, <1>7 DEF SetupRun
<1>8. /\ cpc[c] \in Preparing /\ (cpc[c] = "blocking" => i = 1)
  BY <1>1, SetupPlaces DEF Preparing, Resumed
<1>9. ASSUME j < 6 PROVE Setup[j + 1] \in Resumed \cap ThreadPC
  BY <1>9, SetupPlaces, Names DEF Resumed
<1>10. /\ cpc'[c] = IF j = 7 THEN "issue" ELSE "throw"
       /\ ccont'[c] = IF j = 7 THEN "none" ELSE IF j = 6 THEN "issue" ELSE Setup[j + 1]
       /\ \A d \in Callers \ {c} : cpc'[d] = cpc[d] /\ ccont'[d] = ccont[d]
  BY <1>1
<1>11. ccont'[c] \in Resumed \cup {"issue", "none"} /\ ccont'[c] \in ThreadPC
  BY <1>9, <1>10, Names
<1>12. cpc'[c] = "throw" => ccont'[c] # "none"
  BY <1>9, <1>10 DEF Resumed
<1>13. cpc' \in [Callers -> ThreadPC] /\ ccont' \in [Callers -> ThreadPC]
  BY <1>1, <1>10, <1>11, Names
<1>. QED BY <1>5, <1>6, <1>7, <1>8, <1>10, <1>11, <1>12, <1>13

\* What the switch of the notifier does at its endpoint.  A connection that is
\* there is taken, or the notifier throws, or a failure passed.
LEMMA SwitchSteps ==
  ASSUME TypeOK, NEW o \in Socket, NotifierSwitch(o), ev[o] # << >>
  PROVE  /\ ev' \in [Socket -> Seq(Event)]
         /\ \A p \in Socket \ {o} : ev'[p] = ev[p] /\ npc'[p] = npc[p] /\ st'[p] = st[p]
         /\ npc' \in [Socket -> NotifierPC] /\ npc'[o] \in {"idle", "data", "throw"}
         /\ dataBuf' \in [Socket -> 0..MaxChunks] /\ crashed' \in BOOLEAN
         /\ st' \in [Socket -> EndpointState]
         /\ st'[o] \in {"data", "idle", st[o]}
         /\ st'[o] # st[o] => st[o] \in {"conind", "disind"}
         /\ unnoticed' = unnoticed \/ unnoticed' = unnoticed \cup {o}
         /\ st'[o] = "conind" /\ Head(ev[o]) = "T_CONNECT"
              => npc'[o] = "throw" \/ o \in unnoticed'
<1> USE DEF TypeOK, NotifierType, EndpointType
<1> DEFINE e == Head(ev[o])
           states == IF e = "T_CONNECT" THEN {"conind"} ELSE {"disind"}
           Answer(a) == Answered(o, states, a)
           Taken(a) == Answer(a) \in {"noErr", "kOTBufferOverflowErr"}
<1>1. PICK a \in Answers \cup {"kOTBufferOverflowErr"} :
        /\ st' = [st EXCEPT ![o] = IF e = "T_CONNECT" /\ Taken(a) THEN "data"
                                   ELSE IF e = "T_DISCONNECT" /\ Taken(a) THEN "idle"
                                   ELSE @]
        /\ npc' = [npc EXCEPT ![o] =
                     IF e = "T_DATA" THEN "data"
                     ELSE IF e = "T_ORDREL" \/ (e = "T_CONNECT" /\ ~Throws(Answer(a)))
                     THEN "idle" ELSE "throw"]
        /\ Unnoticed(o, IF e = "T_CONNECT" THEN Answer(a) ELSE "noErr")
  BY DEF NotifierSwitch
<1>2. Tail(ev[o]) \in Seq(Event) /\ ev' = [ev EXCEPT ![o] = Tail(ev[o])]
  BY SeqFacts DEF NotifierSwitch
<1>3. dataBuf' \in [Socket -> 0..MaxChunks] /\ crashed' \in BOOLEAN
  <2>1. dataBuf' = [dataBuf EXCEPT ![o] = 0] /\ 0 \in 0..MaxChunks
    BY Bounds DEF NotifierSwitch
  <2>2. crashed' \in IF e \in {"T_CONNECT", "T_DISCONNECT"} THEN BOOLEAN ELSE {FALSE}
    BY DEF NotifierSwitch
  <2>. QED BY <2>1, <2>2
<1>4. Taken(a) => st[o] \in states
  BY DEF Answered
<1>5. /\ npc'[o] \in {"idle", "data", "throw"} /\ npc' \in [Socket -> NotifierPC]
      /\ \A p \in Socket \ {o} : npc'[p] = npc[p]
  BY <1>1, Names
<1>6. unnoticed' = unnoticed \/ unnoticed' = unnoticed \cup {o}
  BY <1>1 DEF Unnoticed
<1>7. ASSUME e = "T_CONNECT", ~Taken(a)
      PROVE  npc'[o] = "throw" \/ o \in unnoticed'
  <2>1. CASE Throws(Answer(a))
    BY <1>1, <1>7, <2>1
  <2>2. CASE ~Throws(Answer(a))
    <3>1. Unlisted(Answer(a))
      BY <1>7, <2>2 DEF Unlisted, Throws
    <3>. QED BY <1>1, <1>7, <3>1 DEF Unnoticed
  <2>. QED BY <2>1, <2>2
<1> HIDE DEF Answer
<1>8. /\ st' \in [Socket -> EndpointState]
      /\ \A p \in Socket \ {o} : st'[p] = st[p]
      /\ st'[o] = IF e = "T_CONNECT" /\ Taken(a) THEN "data"
                  ELSE IF e = "T_DISCONNECT" /\ Taken(a) THEN "idle" ELSE st[o]
  BY <1>1, Names
<1>. QED BY <1>2, <1>3, <1>4, <1>5, <1>6, <1>7, <1>8

\* After the switch of the notifier, what it touches has its type.
LEMMA SwitchType ==
  ASSUME TypeOK, NEW o \in Socket, NotifierSwitch(o), ev[o] # << >>,
         (CallerType /\ TableType /\ StreamType)', finished' \in BOOLEAN,
         UNCHANGED <<recv_halt, send_halt, installed, flow, counters>>
  PROVE  TypeOK'
<1>1. NotifierType'
  <2>1. /\ ev' \in [Socket -> Seq(Event)] /\ npc' \in [Socket -> NotifierPC]
        /\ dataBuf' \in [Socket -> 0..MaxChunks]
        /\ \A p \in Socket \ {o} : ev'[p] = ev[p] /\ npc'[p] = npc[p]
        /\ npc'[o] \in {"idle", "data", "throw"}
    BY SwitchSteps
  <2>. QED BY <2>1 DEF TypeOK, NotifierType
<1>2. EndpointType'
  <2>1. st' \in [Socket -> EndpointState] /\ unnoticed' \subseteq Socket
    BY SwitchSteps DEF TypeOK, EndpointType
  <2>. QED BY <2>1 DEF TypeOK, EndpointType
<1>3. CounterType'
  BY SwitchSteps DEF TypeOK, CounterType, counters
<1>. QED BY <1>1, <1>2, <1>3 DEF TypeOK

\* Connect threads: each works for a caller that waits in connect(), or for the
\* main thread after its end, on a socket of the table, and one of its own.
ThreadsApart ==
  /\ \A c \in Callers : cpc[c] # "none" =>
       /\ pc[c] \in {"connect", "dead"}
       /\ \E f \in DOMAIN openSockets : openSockets[f] = skt[c]
  /\ \A c, d \in Callers :
       c # d /\ cpc[c] # "none" /\ cpc[d] # "none" => skt[c] # skt[d]

LEMMA ThreadSocket ==
  ASSUME TypeOK, ThreadsApart, NEW c \in Callers, cpc[c] # "none"
  PROVE  skt[c] \in 1..nSkt /\ skt[c] \in Socket
BY Bounds DEF TypeOK, TableType, ThreadsApart, Socket

LEMMA OpeningSocket ==
  ASSUME TypeOK, TableInv, NEW c \in Callers, Opening(c)
  PROVE  skt[c] \in 1..nSkt /\ skt[c] \in Socket
BY Bounds DEF TypeOK, TableType, TableInv, Apart, Socket

LEMMA SetupBegun == \A c \in Callers : CtSetup(c) => cpc[c] # "none"
BY SetupPlaces DEF CtSetup

LEMMA TypeStep ==
  ASSUME TypeOK, TableInv, ThreadsApart, [Next]_vars
  PROVE  TypeOK'
<1> USE DEF TypeOK, caller, thread, notif, table, halts, endpoint, stream, counters
<1>1. ASSUME NEW c \in Callers, SocketInit(c)
      PROVE  TypeOK'
  <2>1. (NotifierType /\ EndpointType /\ StreamType /\ CounterType)'
    BY <1>1 DEF SocketInit, NotifierType, EndpointType, StreamType, CounterType
  <2>2. CallerType'
    <3>1. nSkt + 1 \in Socket
      BY <1>1, Bounds DEF SocketInit, TableType, Socket
    <3>2. PICK p \in {"configure", "throwinit"} : pc' = [pc EXCEPT ![c] = p]
      BY <1>1 DEF SocketInit
    <3>3. p \in CallerPC
      BY Names DEF InSocket
    <3>. QED BY <1>1, <3>1, <3>2, <3>3 DEF SocketInit, CallerType
  <2>3. TableType'
    BY <1>1, Bounds DEF SocketInit, TableType
  <2>. QED BY <2>1, <2>2, <2>3
<1>1a. ASSUME NEW c \in Callers, SocketConfigure(c)
       PROVE  TypeOK'
  <2>1. (NotifierType /\ TableType /\ EndpointType /\ StreamType /\ CounterType)'
    BY <1>1a DEF SocketConfigure, NotifierType, TableType, EndpointType, StreamType, CounterType
  <2>2. CallerType'
    <3>1. PICK p \in {"open", "throwtype"} : pc' = [pc EXCEPT ![c] = p]
      BY <1>1a DEF SocketConfigure
    <3>2. p \in CallerPC
      BY Names DEF InSocket
    <3>. QED BY <1>1a, <3>1, <3>2 DEF SocketConfigure, CallerType
  <2>. QED BY <2>1, <2>2
<1>1b. ASSUME NEW c \in Callers, SocketOpen(c)
       PROVE  TypeOK'
  <2>1. (NotifierType /\ TableType /\ StreamType /\ CounterType)'
    BY <1>1b DEF SocketOpen, NotifierType, TableType, StreamType, CounterType
  <2>2. skt[c] \in Socket
    BY <1>1b, OpeningSocket DEF SocketOpen, At, Opening, InSocket
  <2>3. PICK status : /\ st' = [st EXCEPT ![skt[c]] =
                                  IF status = "noErr" THEN "unbound" ELSE "null"]
                      /\ pc' = [pc EXCEPT ![c] = AfterOpen(status)]
                      /\ Unnoticed(skt[c], status)
    BY <1>1b DEF SocketOpen
  <2>4. CallerType'
    <3>1. AfterOpen(status) \in CallerPC
      BY Names DEF AfterOpen, InSocket
    <3>. QED BY <1>1b, <2>3, <3>1 DEF SocketOpen, CallerType
  <2>5. EndpointType'
    <3>1. unnoticed' \subseteq Socket
      BY <2>2, <2>3 DEF Unnoticed, EndpointType
    <3>2. st' \in [Socket -> EndpointState]
      BY <2>3, Names DEF EndpointType
    <3>. QED BY <1>1b, <3>1, <3>2 DEF SocketOpen, EndpointType
  <2>. QED BY <2>1, <2>4, <2>5
<1>2. ASSUME NEW c \in Callers, CallerThrow(c)
      PROVE  TypeOK'
  <2>1. (NotifierType /\ TableType /\ EndpointType /\ StreamType /\ CounterType)'
    BY <1>2 DEF CallerThrow, NotifierType, TableType, EndpointType, StreamType, CounterType
  <2>2. CallerType'
    BY <1>2, Names, ThrowPlaces DEF CallerThrow, DisposeMain, CallerType
  <2>. QED BY <2>1, <2>2
<1>3. ASSUME NEW c \in Callers, Insert(c)
      PROVE  TypeOK'
  <2>1. (NotifierType /\ EndpointType /\ StreamType /\ CounterType)'
    BY <1>3 DEF Insert, NotifierType, EndpointType, StreamType, CounterType
  <2>2. CallerType'
    BY <1>3, Names DEF Insert, Return, OPEN_SOCKET_INSERT, CallerType,
       Dir, NoSocket
  <2>3. TableType'
    <3>1. Opening(c) /\ skt[c] \in 1..nSkt
      BY <1>3 DEF Insert, At, Opening, InSocket, TableInv, Apart
    <3>2. NewFd \in 0..(MaxSockets - 1)
      BY <3>1, RoomForSocket
    <3>3. openSockets' \in [DOMAIN openSockets \cup {NewFd} -> 1..nSkt]
      BY <1>3, <3>1 DEF Insert, OPEN_SOCKET_INSERT, TableType
    <3>4. id' \in [Socket -> 0..MaxSockets]
      <4>1. NewFd \in 0..MaxSockets
        BY <3>2, Bounds
      <4>. QED BY <1>3, <4>1 DEF Insert, TableType
    <3>. QED BY <1>3, <3>2, <3>3, <3>4 DEF Insert, TableType
  <2>. QED BY <2>1, <2>2, <2>3
<1>4. ASSUME NEW c \in Callers, NEW f \in DOMAIN openSockets, Connect(c, f)
      PROVE  TypeOK'
  <2>1. (NotifierType /\ TableType /\ EndpointType /\ StreamType)'
    BY <1>4 DEF Connect, NotifierType, TableType, EndpointType, StreamType
  <2>2. CallerType'
    BY <1>4, Names, EntryIsSocket DEF Connect, Enter, Answers,
       CallerType, NoSocket
  <2>3. CounterType'
    BY <1>4, Bounds DEF Connect, Enter, Answers, CounterType
  <2>. QED BY <2>1, <2>2, <2>3
<1>5. ASSUME NEW c \in Callers, ConnectReturn(c)
      PROVE  TypeOK'
  <2>1. (NotifierType /\ TableType /\ EndpointType /\ StreamType /\ CounterType)'
    BY <1>5 DEF ConnectReturn, NotifierType, TableType, EndpointType, StreamType, CounterType
  <2>2. CallerType'
    BY <1>5, Names DEF ConnectReturn, Return, CallerType, Dir, NoSocket
  <2>. QED BY <2>1, <2>2
<1>6. ASSUME NEW c \in Callers, CtSetup(c)
      PROVE  TypeOK'
  <2>1. (NotifierType /\ TableType /\ StreamType)'
    BY <1>6 DEF CtSetup, NotifierType, TableType, StreamType
  <2>2. skt[c] \in Socket
    BY <1>6, ThreadSocket, SetupBegun
  <2>3. CallerType'
    BY <1>6, <2>2, SetupSteps DEF CtSetup, CallerType
  <2>4. EndpointType'
    <3>1. unnoticed' \subseteq Socket
      BY <1>6, <2>2, SetupSteps DEF EndpointType
    <3>2. st' \in [Socket -> EndpointState]
      BY <1>6, <2>2, SetupSteps, Names DEF EndpointType
    <3>3. installed' \in [Socket -> BOOLEAN]
      BY <1>6, <2>2, SetupSteps DEF EndpointType
    <3>. QED BY <1>6, <3>1, <3>2, <3>3 DEF CtSetup, EndpointType
  <2>5. CounterType'
    BY <1>6, Bounds DEF CtSetup, CounterType
  <2>. QED BY <2>1, <2>3, <2>4, <2>5
<1>8. ASSUME NEW c \in Callers, CtIssue(c)
      PROVE  TypeOK'
  <2>1. (NotifierType /\ TableType /\ StreamType)'
    BY <1>8 DEF CtIssue, NotifierType, TableType, StreamType
  <2>2. CallerType'
    BY <1>8, Names DEF CtIssue, Answers, CallerType
  <2>3. EndpointType'
    <3>1. PICK new \in {"outcon", st[skt[c]]} : st' = [st EXCEPT ![skt[c]] = new]
      BY <1>8 DEF CtIssue
    <3>2. skt[c] \in Socket
      BY <1>8, ThreadSocket DEF CtIssue, ThreadAt
    <3>3. unnoticed' \subseteq Socket
      BY <1>8, <3>2 DEF CtIssue, Unnoticed, EndpointType
    <3>. QED BY <1>8, <3>1, <3>2, <3>3, Names DEF CtIssue, EndpointType
  <2>4. CounterType'
    BY <1>8, Bounds DEF CtIssue, Answers, CounterType
  <2>. QED BY <2>1, <2>2, <2>3, <2>4
<1>9. ASSUME NEW c \in Callers, CtThrow(c)
      PROVE  TypeOK'
  <2>1. (NotifierType /\ TableType /\ EndpointType /\ StreamType /\ CounterType)'
    BY <1>9 DEF CtThrow, NotifierType, TableType, EndpointType, StreamType, CounterType
  <2>2. CallerType'
    BY <1>9, Names DEF CtThrow, CallerType
  <2>. QED BY <2>1, <2>2
<1>10. ASSUME NEW c \in Callers, NEW f \in DOMAIN openSockets, Recv(c, f)
      PROVE  TypeOK'
  <2>1. (NotifierType /\ TableType /\ EndpointType /\ StreamType /\ CounterType)'
    BY <1>10 DEF Recv, NotifierType, TableType, EndpointType, StreamType, CounterType
  <2>2. CallerType'
    BY <1>10, Names, EntryIsSocket DEF Recv, Enter, CallerType, NoSocket
  <2>. QED BY <2>1, <2>2
<1>11. ASSUME NEW c \in Callers, RecvStep(c)
      PROVE  TypeOK'
  <2>1. (NotifierType /\ TableType /\ CounterType)'
    BY <1>11 DEF RecvStep, NotifierType, TableType, CounterType
  <2>2. CallerType'
    BY <1>11, Names DEF RecvStep, Return, RecvHalt, CallerType, Dir,
       NoSocket
  <2>3. EndpointType'
    BY <1>11, Names DEF RecvStep, RecvHalt, EndpointType
  <2>4. StreamType'
    <3>1. CASE skt[c] \in Socket /\ Readable(skt[c]) /\ inq[skt[c]] # << >>
      <4>1. /\ Head(inq[skt[c]]) \in 1..MaxChunks
            /\ Tail(inq[skt[c]]) \in Seq(1..MaxChunks)
        BY <3>1, SeqFacts DEF StreamType
      <4>2. Append(got[skt[c]], Head(inq[skt[c]])) \in Seq(0..MaxChunks)
        <5>1. Head(inq[skt[c]]) \in 0..MaxChunks
          BY <4>1, Bounds
        <5>. QED BY <3>1, <5>1, SeqFacts DEF StreamType
      <4>. QED BY <1>11, <3>1, <4>1, <4>2 DEF RecvStep, StreamType
    <3>2. CASE ~(skt[c] \in Socket /\ Readable(skt[c]) /\ inq[skt[c]] # << >>)
      BY <1>11, <3>2 DEF RecvStep, StreamType
    <3>. QED BY <3>1, <3>2
  <2>. QED BY <2>1, <2>2, <2>3, <2>4
<1>12. ASSUME NEW c \in Callers, RecvResume(c)
      PROVE  TypeOK'
  <2>1. (NotifierType /\ TableType /\ EndpointType /\ CounterType)'
    BY <1>12 DEF RecvResume, NotifierType, TableType, EndpointType, CounterType
  <2>2. CallerType'
    BY <1>12, Names DEF RecvResume, Return, CallerType, Dir, NoSocket
  <2>3. StreamType'
    <3>1. \A o \in Socket : got[o] \o recvBuf[o] \in Seq(0..MaxChunks)
      BY SeqFacts DEF StreamType
    <3>. QED BY <1>12, <3>1, SeqFacts DEF RecvResume, StreamType
  <2>. QED BY <2>1, <2>2, <2>3
<1>13. ASSUME NEW c \in Callers, NEW f \in DOMAIN openSockets, Send(c, f)
      PROVE  TypeOK'
  <2>1. (NotifierType /\ TableType /\ EndpointType /\ StreamType /\ CounterType)'
    BY <1>13 DEF Send, NotifierType, TableType, EndpointType, StreamType, CounterType
  <2>2. CallerType'
    BY <1>13, Names, EntryIsSocket DEF Send, Enter, CallerType, NoSocket
  <2>. QED BY <2>1, <2>2
<1>14. ASSUME NEW c \in Callers, SendStep(c)
      PROVE  TypeOK'
  <2>1. (NotifierType /\ TableType /\ StreamType /\ CounterType)'
    BY <1>14 DEF SendStep, NotifierType, TableType, StreamType, CounterType
  <2>2. CallerType'
    BY <1>14, Names DEF SendStep, Return, SendHalt, CallerType, Dir,
       NoSocket
  <2>3. EndpointType'
    BY <1>14, Names DEF SendStep, SendHalt, EndpointType
  <2>. QED BY <2>1, <2>2, <2>3
<1>15. ASSUME NEW c \in Callers, SendResume(c)
      PROVE  TypeOK'
  <2>1. (NotifierType /\ TableType /\ EndpointType /\ StreamType /\ CounterType)'
    BY <1>15 DEF SendResume, NotifierType, TableType, EndpointType, StreamType, CounterType
  <2>2. CallerType'
    BY <1>15, Names DEF SendResume, Return, CallerType, Dir, NoSocket
  <2>. QED BY <2>1, <2>2
<1>16. ASSUME NEW c \in Callers, NEW f \in DOMAIN openSockets, Select(c, f)
      PROVE  TypeOK'
  <2>1. (NotifierType /\ TableType /\ EndpointType /\ StreamType /\ CounterType)'
    BY <1>16 DEF Select, NotifierType, TableType, EndpointType, StreamType, CounterType
  <2>2. CallerType'
    BY <1>16, Names, EntryIsSocket DEF Select, Enter, CallerType, Dir,
       NoSocket
  <2>. QED BY <2>1, <2>2
<1>17. ASSUME NEW c \in Callers, SelectFails(c)
      PROVE  TypeOK'
  <2>1. (NotifierType /\ TableType /\ EndpointType /\ StreamType)'
    BY <1>17 DEF SelectFails, NotifierType, TableType, EndpointType, StreamType
  <2>2. CallerType'
    BY <1>17, Names DEF SelectFails, CallerType
  <2>3. CounterType'
    BY <1>17, Bounds DEF SelectFails, CounterType
  <2>. QED BY <2>1, <2>2, <2>3
<1>18. ASSUME NEW c \in Callers, SelectStep(c)
      PROVE  TypeOK'
  <2>1. (NotifierType /\ TableType /\ EndpointType /\ StreamType /\ CounterType)'
    BY <1>18 DEF SelectStep, NotifierType, TableType, EndpointType, StreamType, CounterType
  <2>2. CallerType'
    BY <1>18, Names DEF SelectStep, Return, CallerType, Dir, NoSocket
  <2>. QED BY <2>1, <2>2
<1>19. ASSUME NEW o \in Socket, NotifierEnter(o)
      PROVE  TypeOK'
  <2>1. (CallerType /\ TableType /\ EndpointType /\ StreamType /\ CounterType)'
    BY <1>19 DEF NotifierEnter, CallerType, TableType, EndpointType, StreamType, CounterType
  <2>2. NotifierType'
    BY <1>19, Names DEF NotifierEnter, NotifierType
  <2>. QED BY <2>1, <2>2
<1>20. ASSUME NEW o \in Socket, NotifierRun(o)
      PROVE  TypeOK'
  <2>1. (CallerType /\ TableType /\ StreamType)'
    BY <1>20 DEF NotifierRun, CallerType, TableType, StreamType
  <2>2. npc[o] = "entered" /\ ev[o] # << >>
    BY <1>20 DEF NotifierRun, NotifierAt, NotifierType
  <2>3. finished' \in BOOLEAN /\ UNCHANGED <<recv_halt, send_halt, installed, flow, counters>>
    BY <1>20 DEF NotifierRun, Signal
  <2>4. CASE NotifierSwitch(o)
    BY <2>1, <2>2, <2>3, <2>4, SwitchType
  <2>5. CASE /\ npc' = [npc EXCEPT ![o] = "failing"]
             /\ UNCHANGED <<ev, st, dataBuf, crashed, unnoticed>>
    <3>1. NotifierType'
      BY <2>2, <2>5, Names DEF NotifierType
    <3>2. EndpointType' /\ CounterType'
      BY <2>3, <2>5 DEF EndpointType, CounterType
    <3>. QED BY <2>1, <3>1, <3>2
  <2>. QED BY <1>20, <2>4, <2>5 DEF NotifierRun
<1>20a. ASSUME NEW o \in Socket, NotifierFail(o)
        PROVE  TypeOK'
  <2>1. (TableType /\ EndpointType /\ StreamType /\ CounterType)'
    BY <1>20a DEF NotifierFail, TableType, EndpointType, StreamType, CounterType
  <2>2. CallerType'
    BY <1>20a, Names DEF NotifierFail, CallerType
  <2>3. NotifierType'
    BY <1>20a, Names DEF NotifierFail, NotifierAt, NotifierType
  <2>. QED BY <2>1, <2>2, <2>3
<1>20b. ASSUME NEW o \in Socket, NotifierResume(o)
        PROVE  TypeOK'
  <2>1. (CallerType /\ TableType /\ StreamType)'
    BY <1>20b DEF NotifierResume, CallerType, TableType, StreamType
  <2>2. npc[o] = "switch" /\ ev[o] # << >> /\ NotifierSwitch(o)
    BY <1>20b DEF NotifierResume, NotifierAt, NotifierType
  <2>3. finished' \in BOOLEAN /\ UNCHANGED <<recv_halt, send_halt, installed, flow, counters>>
    BY <1>20b DEF NotifierResume, CounterType
  <2>. QED BY <2>1, <2>2, <2>3, SwitchType
<1>21. ASSUME NEW o \in Socket, NotifierData(o)
      PROVE  TypeOK'
  <2>1. (TableType /\ EndpointType /\ CounterType)'
    BY <1>21 DEF NotifierData, TableType, EndpointType, CounterType
  <2>2. CallerType'
    BY <1>21, Names DEF NotifierData, Drains, CallerType
  <2>3. NotifierType'
    <3>1. npc' \in [Socket -> NotifierPC] /\ ev' = ev
      BY <1>21, Names DEF NotifierData, NotifierType
    <3>2. \A q \in Socket : npc'[q] \in {"entered", "failing", "switch"} => npc'[q] = npc[q]
      BY <1>21 DEF NotifierData, NotifierType
    <3>3. inq[o] # << >> => Head(inq[o]) \in 0..MaxChunks
      <4>1. inq[o] # << >> => Head(inq[o]) \in 1..MaxChunks
        BY SeqFacts DEF StreamType
      <4>. QED BY <4>1, Bounds
    <3>4. dataBuf' \in [Socket -> 0..MaxChunks]
      BY <1>21, <3>3 DEF NotifierData, NotifierType
    <3>. QED BY <3>1, <3>2, <3>4 DEF NotifierType
  <2>4. StreamType'
    <3>1. inq[o] # << >> => Tail(inq[o]) \in Seq(1..MaxChunks)
      BY SeqFacts DEF StreamType
    <3>2. Append(recvBuf[o], dataBuf[o]) \in Seq(0..MaxChunks)
      BY SeqFacts DEF StreamType, NotifierType
    <3>. QED BY <1>21, <3>1, <3>2 DEF NotifierData, StreamType
  <2>. QED BY <2>1, <2>2, <2>3, <2>4
<1>22. ASSUME NEW o \in Socket, NotifierThrow(o)
      PROVE  TypeOK'
  <2>1. (TableType /\ EndpointType /\ StreamType /\ CounterType)'
    BY <1>22 DEF NotifierThrow, TableType, EndpointType, StreamType, CounterType
  <2>2. CallerType'
    BY <1>22, Names DEF NotifierThrow, CallerType
  <2>3. NotifierType'
    BY <1>22, Names DEF NotifierThrow, NotifierType
  <2>. QED BY <2>1, <2>2, <2>3
<1>23. ASSUME NEW o \in Socket, Connected(o)
      PROVE  TypeOK'
  <2>1. (CallerType /\ TableType /\ StreamType /\ CounterType)'
    BY <1>23 DEF Connected, CallerType, TableType, StreamType, CounterType
  <2>2. NotifierType'
    BY <1>23, Names, RaiseType DEF Connected, NotifierType
  <2>3. EndpointType'
    BY <1>23, Names DEF Connected, Raise, EndpointType
  <2>. QED BY <2>1, <2>2, <2>3
<1>24. ASSUME NEW o \in Socket, FlowOn(o)
      PROVE  TypeOK'
  <2>1. (CallerType /\ TableType /\ StreamType /\ CounterType)'
    BY <1>24 DEF FlowOn, CallerType, TableType, StreamType, CounterType
  <2>2. NotifierType'
    BY <1>24, Names, RaiseType DEF FlowOn, NotifierType
  <2>3. EndpointType'
    BY <1>24, Names DEF FlowOn, Raise, EndpointType
  <2>. QED BY <2>1, <2>2, <2>3
<1>25. ASSUME NEW o \in Socket, Disconnected(o)
      PROVE  TypeOK'
  <2>1. (CallerType /\ TableType /\ StreamType /\ CounterType)'
    BY <1>25 DEF Disconnected, CallerType, TableType, StreamType, CounterType
  <2>2. NotifierType'
    BY <1>25, Names, RaiseType DEF Disconnected, NotifierType
  <2>3. EndpointType'
    BY <1>25, Names DEF Disconnected, Raise, EndpointType
  <2>. QED BY <2>1, <2>2, <2>3
<1>26. ASSUME NEW o \in Socket, PeerClose(o)
      PROVE  TypeOK'
  <2>1. (CallerType /\ TableType /\ StreamType /\ CounterType)'
    BY <1>26 DEF PeerClose, CallerType, TableType, StreamType, CounterType
  <2>2. NotifierType'
    BY <1>26, Names, RaiseType DEF PeerClose, NotifierType
  <2>3. EndpointType'
    BY <1>26, Names DEF PeerClose, Raise, EndpointType
  <2>. QED BY <2>1, <2>2, <2>3
<1>27. ASSUME NEW o \in Socket, PeerSend(o)
      PROVE  TypeOK'
  <2>1. (CallerType /\ TableType /\ EndpointType /\ CounterType)'
    BY <1>27 DEF PeerSend, CallerType, TableType, EndpointType, CounterType
  <2>2. NotifierType'
    BY <1>27, Names, RaiseType DEF PeerSend, NotifierType
  <2>3. StreamType'
    BY <1>27, Bounds DEF PeerSend, Raise, StreamType
  <2>. QED BY <2>1, <2>2, <2>3
<1>28. ASSUME NEW o \in Socket, FlowOff(o)
      PROVE  TypeOK'
  <2>1. (CallerType /\ NotifierType /\ TableType /\ StreamType)'
    BY <1>28 DEF FlowOff, CallerType, NotifierType, TableType, StreamType
  <2>2. EndpointType'
    BY <1>28, Names DEF FlowOff, EndpointType
  <2>3. CounterType'
    BY <1>28, Bounds DEF FlowOff, CounterType
  <2>. QED BY <2>1, <2>2, <2>3
<1>29. ASSUME NEW o \in Socket, Other(o)
      PROVE  TypeOK'
  <2>1. (CallerType /\ TableType /\ EndpointType /\ StreamType)'
    BY <1>29 DEF Other, CallerType, TableType, EndpointType, StreamType
  <2>2. NotifierType'
    BY <1>29, Names, RaiseType DEF Other, NotifierType
  <2>3. CounterType'
    BY <1>29, Bounds DEF Other, Raise, CounterType
  <2>. QED BY <2>1, <2>2, <2>3
<1>30. ASSUME UNCHANGED vars PROVE TypeOK'
  <2>1. (CallerType /\ NotifierType /\ TableType)'
    BY <1>30 DEF vars, CallerType, NotifierType, TableType
  <2>2. (EndpointType /\ StreamType /\ CounterType)'
    BY <1>30 DEF vars, EndpointType, StreamType,
       CounterType
  <2>. QED BY <2>1, <2>2
<1>. QED
  BY <1>1, <1>2, <1>3, <1>4, <1>5, <1>6, <1>8, <1>9, <1>10, <1>11,
     <1>12, <1>13, <1>14, <1>15, <1>16, <1>17, <1>18, <1>19, <1>20,
     <1>21, <1>22, <1>23, <1>24, <1>25, <1>26, <1>27, <1>28, <1>29,
     <1>30, <1>1a, <1>1b, <1>20a, <1>20b DEF Next, Call, CallerStep,
     ThreadStep, NotifierStep, Duty, Peer

\* The steps of callers that neither make a socket nor enter one in the table.
LEMMA TableKept ==
  ASSUME TypeOK, TableInv, UNCHANGED table,
         \A c \in Callers :
           \/ ~Opening(c) /\ pc[c] # "dead" /\ ~Opening(c)'
           \/ /\ skt'[c] = skt[c]
              /\ pc'[c] = pc[c] \/ pc'[c] = "dead" \/ (Opening(c) /\ Opening(c)')
  PROVE  TableInv'
<1>1. \A c \in Callers : Opening(c)' => Opening(c) /\ skt'[c] = skt[c]
  BY DEF Opening, InSocket
<1>2. \A c \in Callers : pc[c] \in InSocket \cup {"dead"} =>
        pc'[c] \in InSocket \cup {"dead"} /\ skt'[c] = skt[c]
  BY DEF Opening, InSocket
<1>. QED BY <1>1, <1>2 DEF TableInv, Dense, Inverses, Apart, Accounted, table

LEMMA TableStep ==
  ASSUME TypeOK, TableInv, [Next]_vars
  PROVE  TableInv'
<1> USE DEF TypeOK, CallerType
<1>1. ASSUME NEW c \in Callers, SocketInit(c)
      PROVE  TableInv'
  <2>1. /\ nSkt' = nSkt + 1 /\ nSkt \in Nat /\ openSockets' = openSockets
        /\ id' = id
    BY <1>1, Bounds DEF SocketInit, TableType
  <2>2. skt' = [skt EXCEPT ![c] = nSkt + 1]
    BY <1>1 DEF SocketInit
  <2>3. /\ \A d \in Callers \ {c} : pc'[d] = pc[d]
        /\ pc[c] = "idle" /\ pc'[c] \in InSocket
    BY <1>1 DEF SocketInit, At, InSocket
  <2>4. \A f \in DOMAIN openSockets : openSockets[f] \in 1..nSkt
    BY DEF TableType
  <2>5. Dense' /\ Inverses'
    BY <2>1 DEF TableInv, Dense, Inverses
  <2>6. Apart'
    BY <2>1, <2>2, <2>3, <2>4 DEF TableInv, Apart, Opening
  <2>7. Accounted'
    BY <2>1, <2>2, <2>3 DEF TableInv, Accounted, InSocket
  <2>. QED BY <2>5, <2>6, <2>7 DEF TableInv
<1>1a. ASSUME NEW c \in Callers, SocketConfigure(c)
      PROVE  TableInv'
  BY <1>1a, TableKept DEF SocketConfigure, Opening, InSocket, At, table
<1>1b. ASSUME NEW c \in Callers, SocketOpen(c)
      PROVE  TableInv'
  BY <1>1b, TableKept DEF SocketOpen, AfterOpen, Opening, InSocket, At, table
<1>2. ASSUME NEW c \in Callers, CallerThrow(c)
      PROVE  TableInv'
  BY <1>2, TableKept, ThrowPlaces DEF CallerThrow, DisposeMain, Opening, table
<1>3. ASSUME NEW c \in Callers, Insert(c)
      PROVE  TableInv'
  <2> DEFINE s == skt[c]
             n == NewFd
  <2>1. Opening(c) /\ s \in 1..nSkt /\ s \in Socket
    <3>1. Opening(c) /\ s \in 1..nSkt
      BY <1>3 DEF Insert, At, Opening, InSocket, TableInv, Apart
    <3>. QED BY <3>1, Bounds DEF TableType, Socket
  <2>2. /\ n \in 0..(MaxSockets - 1) /\ n \notin DOMAIN openSockets
        /\ DOMAIN openSockets \cup {n} = 0..n
    BY <2>1, RoomForSocket
  <2>3. /\ DOMAIN openSockets' = DOMAIN openSockets \cup {n}
        /\ openSockets'[n] = s
        /\ \A f \in DOMAIN openSockets : openSockets'[f] = openSockets[f]
    BY <1>3, <2>2 DEF Insert, OPEN_SOCKET_INSERT
  <2>4. /\ id'[s] = n /\ nSkt' = nSkt
        /\ \A o \in Socket \ {s} : id'[o] = id[o]
    BY <1>3, <2>1 DEF Insert, TableType
  <2>5. /\ pc'[c] = "idle"
        /\ \A d \in Callers \ {c} : pc'[d] = pc[d] /\ skt'[d] = skt[d]
    BY <1>3 DEF Insert, Return
  <2>6. \A f \in DOMAIN openSockets : openSockets[f] # s /\ openSockets[f] \in Socket
    BY <2>1, EntryIsSocket DEF TableInv, Apart
  <2>7. Dense'
    <3>1. n + 1 \in 0..MaxSockets /\ (n + 1) - 1 = n
      BY <2>2, Bounds
    <3>. QED BY <2>2, <2>3, <3>1 DEF Dense
  <2>8. Inverses'
    BY <2>3, <2>4, <2>6 DEF TableInv, Inverses
  <2>9. Apart'
    BY <2>1, <2>3, <2>4, <2>5 DEF TableInv, Apart, Opening, InSocket
  <2>10. Accounted'
    <3>1. \A o \in 1..nSkt : o \in Socket
      BY Bounds DEF TableType, Socket
    <3>2. ASSUME NEW o \in 1..nSkt, o # s
          PROVE  \/ \E d \in Callers : skt'[d] = o /\ pc'[d] \in InSocket \cup {"dead"}
                 \/ id'[o] \in DOMAIN openSockets' /\ openSockets'[id'[o]] = o
      BY <2>1, <2>3, <2>4, <2>5, <3>1, <3>2 DEF TableInv, Accounted
    <3>. QED BY <2>3, <2>4, <3>2 DEF Accounted
  <2>. QED BY <2>7, <2>8, <2>9, <2>10 DEF TableInv
<1>4. ASSUME NEW c \in Callers, NEW f \in DOMAIN openSockets, Connect(c, f)
      PROVE  TableInv'
  BY <1>4, TableKept DEF Connect, Enter, Opening, InSocket, At, caller, table
<1>5. ASSUME NEW c \in Callers, ConnectReturn(c)
      PROVE  TableInv'
  BY <1>5, TableKept DEF ConnectReturn, Return, Opening, InSocket, At, caller, table
<1>6. ASSUME NEW c \in Callers, CtThrow(c)
      PROVE  TableInv'
  BY <1>6, TableKept DEF CtThrow, Opening, InSocket, At, caller, table, ThreadAt
<1>7. ASSUME NEW c \in Callers, NEW f \in DOMAIN openSockets, Recv(c, f)
      PROVE  TableInv'
  BY <1>7, TableKept DEF Recv, Enter, Opening, InSocket, At, caller, table
<1>8. ASSUME NEW c \in Callers, RecvStep(c)
      PROVE  TableInv'
  BY <1>8, TableKept DEF RecvStep, Return, Opening, InSocket, At, caller, table
<1>9. ASSUME NEW c \in Callers, RecvResume(c)
      PROVE  TableInv'
  BY <1>9, TableKept DEF RecvResume, Return, Opening, InSocket, At, caller, table
<1>10. ASSUME NEW c \in Callers, NEW f \in DOMAIN openSockets, Send(c, f)
      PROVE  TableInv'
  BY <1>10, TableKept DEF Send, Enter, Opening, InSocket, At, caller, table
<1>11. ASSUME NEW c \in Callers, SendStep(c)
      PROVE  TableInv'
  BY <1>11, TableKept DEF SendStep, Return, Opening, InSocket, At, caller, table
<1>12. ASSUME NEW c \in Callers, SendResume(c)
      PROVE  TableInv'
  BY <1>12, TableKept DEF SendResume, Return, Opening, InSocket, At, caller, table
<1>13. ASSUME NEW c \in Callers, NEW f \in DOMAIN openSockets, Select(c, f)
      PROVE  TableInv'
  BY <1>13, TableKept DEF Select, Enter, Opening, InSocket, At, caller, table
<1>14. ASSUME NEW c \in Callers, SelectFails(c)
      PROVE  TableInv'
  BY <1>14, TableKept DEF SelectFails, Opening, InSocket, At, caller, table
<1>15. ASSUME NEW c \in Callers, SelectStep(c)
      PROVE  TableInv'
  BY <1>15, TableKept DEF SelectStep, Return, Opening, InSocket, At, caller, table
<1>16. ASSUME NEW o \in Socket, NotifierData(o)
      PROVE  TableInv'
  BY <1>16, TableKept DEF NotifierData, Opening, InSocket, At, caller, table
<1>17. ASSUME NEW o \in Socket, NotifierThrow(o) \/ NotifierFail(o)
      PROVE  TableInv'
  BY <1>17, TableKept DEF NotifierThrow, NotifierFail, Opening, InSocket, At, caller,
     table
<1>18. ASSUME NEW c \in Callers, CtSetup(c) \/ CtIssue(c)
      PROVE  TableInv'
  BY <1>18, TableKept DEF CtSetup, CtIssue, caller, table
<1>19. ASSUME NEW o \in Socket, NotifierEnter(o) \/ NotifierRun(o) \/
             NotifierResume(o) \/ Connected(o) \/ FlowOn(o) \/ Disconnected(o) \/ PeerClose(o)
             \/ PeerSend(o) \/ FlowOff(o) \/ Other(o)
      PROVE  TableInv'
  BY <1>19, TableKept DEF NotifierEnter, NotifierRun, NotifierResume, Connected, FlowOn,
     Disconnected, PeerClose, PeerSend, FlowOff, Other, caller, table
<1>20. ASSUME UNCHANGED vars PROVE TableInv'
  BY <1>20, TableKept DEF vars, caller, table
<1>. QED
  BY <1>1, <1>2, <1>3, <1>4, <1>5, <1>6, <1>7, <1>8, <1>9, <1>10, <1>11,
     <1>12, <1>13, <1>14, <1>15, <1>16, <1>17, <1>18, <1>19, <1>20, <1>1a,
     <1>1b DEF Next, Call, CallerStep, ThreadStep, NotifierStep, Duty, Peer

LEMMA ApartStep ==
  ASSUME TypeOK, TableInv, ThreadsApart, [Next]_vars
  PROVE  ThreadsApart'
<1> USE DEF TypeOK, CallerType
<1>1. ASSUME NEW c \in Callers, SocketInit(c)
      PROVE  ThreadsApart'
  <2>1. cpc[c] = "none" /\ UNCHANGED <<cpc, openSockets>>
    BY <1>1 DEF SocketInit, At, ThreadsApart, thread
  <2>2. \A d \in Callers \ {c} : pc'[d] = pc[d] /\ skt'[d] = skt[d]
    BY <1>1 DEF SocketInit
  <2>. QED BY <2>1, <2>2 DEF ThreadsApart
<1>1a. ASSUME NEW c \in Callers, SocketConfigure(c) \/ SocketOpen(c)
       PROVE  ThreadsApart'
  BY <1>1a DEF SocketConfigure, SocketOpen, At, table, thread, ThreadsApart
<1>2. ASSUME NEW c \in Callers, CallerThrow(c)
      PROVE  ThreadsApart'
  BY <1>2, ThrowPlaces DEF CallerThrow, DisposeMain, InSocket, table, thread,
     ThreadsApart
<1>3. ASSUME NEW c \in Callers, Insert(c)
      PROVE  ThreadsApart'
  <2>1. cpc[c] = "none" /\ cpc' = cpc
    BY <1>3 DEF Insert, At, ThreadsApart, thread
  <2>2. \A d \in Callers \ {c} : pc'[d] = pc[d] /\ skt'[d] = skt[d]
    BY <1>3 DEF Insert, Return
  <2>3. \A f \in DOMAIN openSockets :
          f \in DOMAIN openSockets' /\ openSockets'[f] = openSockets[f]
    BY <1>3 DEF Insert, OPEN_SOCKET_INSERT
  <2>. QED BY <2>1, <2>2, <2>3 DEF ThreadsApart
<1>4. ASSUME NEW c \in Callers, NEW f \in DOMAIN openSockets, Connect(c, f)
      PROVE  ThreadsApart'
  <2>1. openSockets' = openSockets
    BY <1>4 DEF Connect, table
  <2>2. /\ pc'[c] = "connect" /\ skt'[c] = openSockets[f]
        /\ cpc[c] = "none"
        /\ \A d \in Callers \ {c} :
             pc'[d] = pc[d] /\ skt'[d] = skt[d] /\ cpc'[d] = cpc[d]
    BY <1>4 DEF Connect, Enter, At, ThreadsApart
  <2>3. \A d \in Callers : cpc[d] = "none" \/ skt[d] # openSockets[f]
    BY <1>4 DEF Connect
  <2>. QED BY <2>1, <2>2, <2>3 DEF ThreadsApart
<1>5. ASSUME NEW c \in Callers, ConnectReturn(c)
      PROVE  ThreadsApart'
  BY <1>5, Bounds DEF ConnectReturn, Return, At, caller, table, thread, ThreadsApart
<1>6. ASSUME NEW c \in Callers, CtSetup(c)
      PROVE  ThreadsApart'
  <2>1. cpc[c] # "none" /\ \A d \in Callers \ {c} : cpc'[d] = cpc[d]
    BY <1>6, SetupBegun DEF CtSetup
  <2>. QED BY <1>6, <2>1 DEF CtSetup, caller, table, ThreadsApart
<1>8. ASSUME NEW c \in Callers, CtIssue(c)
      PROVE  ThreadsApart'
  BY <1>8, Bounds DEF CtIssue, ThreadAt, caller, table, thread, ThreadsApart
<1>9. ASSUME NEW c \in Callers, CtThrow(c)
      PROVE  ThreadsApart'
  BY <1>9, Bounds DEF CtThrow, ThreadAt, caller, table, thread, ThreadsApart
<1>10. ASSUME NEW c \in Callers, NEW f \in DOMAIN openSockets, Recv(c, f)
      PROVE  ThreadsApart'
  BY <1>10, Bounds DEF Recv, Enter, At, caller, table, thread, ThreadsApart
<1>11. ASSUME NEW c \in Callers, RecvStep(c)
      PROVE  ThreadsApart'
  BY <1>11, Bounds DEF RecvStep, Return, At, caller, table, thread, ThreadsApart
<1>12. ASSUME NEW c \in Callers, RecvResume(c)
      PROVE  ThreadsApart'
  BY <1>12, Bounds DEF RecvResume, Return, At, caller, table, thread, ThreadsApart
<1>13. ASSUME NEW c \in Callers, NEW f \in DOMAIN openSockets, Send(c, f)
      PROVE  ThreadsApart'
  BY <1>13, Bounds DEF Send, Enter, At, caller, table, thread, ThreadsApart
<1>14. ASSUME NEW c \in Callers, SendStep(c)
      PROVE  ThreadsApart'
  BY <1>14, Bounds DEF SendStep, Return, At, caller, table, thread, ThreadsApart
<1>15. ASSUME NEW c \in Callers, SendResume(c)
      PROVE  ThreadsApart'
  BY <1>15, Bounds DEF SendResume, Return, At, caller, table, thread, ThreadsApart
<1>16. ASSUME NEW c \in Callers, NEW f \in DOMAIN openSockets, Select(c, f)
      PROVE  ThreadsApart'
  BY <1>16, Bounds DEF Select, Enter, At, caller, table, thread, ThreadsApart
<1>17. ASSUME NEW c \in Callers, SelectFails(c)
      PROVE  ThreadsApart'
  BY <1>17, Bounds DEF SelectFails, At, caller, table, thread, ThreadsApart
<1>18. ASSUME NEW c \in Callers, SelectStep(c)
      PROVE  ThreadsApart'
  BY <1>18, Bounds DEF SelectStep, Return, At, caller, table, thread, ThreadsApart
<1>19. ASSUME NEW o \in Socket, NotifierRun(o) \/ NotifierResume(o)
      PROVE  ThreadsApart'
  BY <1>19, Bounds DEF NotifierRun, NotifierResume, caller, table, thread, ThreadsApart
<1>20. ASSUME NEW o \in Socket, NotifierData(o)
      PROVE  ThreadsApart'
  BY <1>20, Bounds DEF NotifierData, NotifierAt, caller, table, thread, ThreadsApart
<1>21. ASSUME NEW o \in Socket, NotifierThrow(o) \/ NotifierFail(o)
      PROVE  ThreadsApart'
  BY <1>21, Bounds DEF NotifierThrow, NotifierFail, caller, table, thread, ThreadsApart
<1>22. ASSUME NEW o \in Socket, Connected(o)
      PROVE  ThreadsApart'
  BY <1>22, Bounds DEF Connected, At, caller, table, thread, ThreadsApart
<1>23. ASSUME NEW o \in Socket, Disconnected(o)
      PROVE  ThreadsApart'
  BY <1>23, Bounds DEF Disconnected, At, caller, table, thread, ThreadsApart
<1>24. ASSUME NEW o \in Socket, PeerClose(o)
      PROVE  ThreadsApart'
  BY <1>24, Bounds DEF PeerClose, At, caller, table, thread, ThreadsApart
<1>25. ASSUME NEW o \in Socket, NotifierEnter(o) \/ FlowOn(o) \/
             PeerSend(o) \/ FlowOff(o) \/ Other(o)
      PROVE  ThreadsApart'
  BY <1>25, Bounds DEF NotifierEnter, FlowOn, PeerSend, FlowOff, Other,
     caller, table, thread, ThreadsApart
<1>26. ASSUME UNCHANGED vars PROVE ThreadsApart'
  BY <1>26, Bounds DEF vars, caller, table, thread, ThreadsApart
<1>. QED
  BY <1>1, <1>2, <1>3, <1>4, <1>5, <1>6, <1>8, <1>9, <1>10, <1>11,
     <1>12, <1>13, <1>14, <1>15, <1>16, <1>17, <1>18, <1>19, <1>20, <1>21,
     <1>22, <1>23, <1>24, <1>25, <1>26, <1>1a DEF Next, Call, CallerStep,
     ThreadStep, NotifierStep, Duty, Peer

LEMMA InitOK == Init => TypeOK /\ TableInv /\ ThreadsApart
<1> SUFFICES ASSUME Init PROVE TypeOK /\ TableInv /\ ThreadsApart
  OBVIOUS
<1>1. CallerType /\ NotifierType
  BY Names, Bounds DEF Init, CallerType, NotifierType
<1>2. TableType /\ EndpointType
  BY Names, Bounds DEF Init, TableType, EndpointType
<1>3. StreamType
  BY Bounds, SeqFacts DEF Init, StreamType
<1>6. CounterType
  <2>1. 0 \in 0..MaxConnects /\ 0 \in 0..MaxFlow /\ 0 \in 0..MaxOther
    BY Bounds
  <2>. QED BY <2>1 DEF Init, CounterType
<1>4. Dense
  <2>1. 0 \in 0..MaxSockets /\ 0..(0 - 1) = {}
    BY Bounds
  <2>. QED BY <2>1 DEF Init, Dense
<1>5. Inverses /\ Apart /\ Accounted /\ ThreadsApart
  BY DEF Init, Inverses, Apart, Accounted, Opening, InSocket, ThreadsApart
<1>. QED BY <1>1, <1>2, <1>3, <1>4, <1>5, <1>6 DEF TypeOK, TableInv

LEMMA Inductive == Spec => [](TypeOK /\ TableInv /\ ThreadsApart)
<1>1. TypeOK /\ TableInv /\ ThreadsApart /\ [Next]_vars
        => (TypeOK /\ TableInv /\ ThreadsApart)'
  BY TypeStep, TableStep, ApartStep
<1>. QED BY InitOK, <1>1, PTL DEF Spec

\* Every variable keeps its type; in particular a key given out by socket() is
\* below MaxSockets, so the table never outgrows the objects.
THEOREM TypeCorrect == Spec => []TypeOK
BY Inductive, PTL

\* However many threads open sockets at a time, and whatever fails meanwhile, a
\* descriptor names the socket it was returned for (socket.cpp:9-48).
THEOREM FdsCorrect == Spec => []FdsIdentifySockets
<1>1. TableInv => FdsIdentifySockets
  BY DEF TableInv, Inverses, Accounted, FdsIdentifySockets
<1>. QED BY Inductive, <1>1, PTL

LEMMA WaitersKept ==
  ASSUME HaltHasWaiter,
         \A o \in Socket : send_halt'[o] => send_halt[o],
         \A c \in Callers :
           pc[c] \in {"sendwait", "dead"} /\ send_halt[skt[c]]
             => pc'[c] \in {"sendwait", "dead"} /\ skt'[c] = skt[c]
  PROVE  HaltHasWaiter'
BY DEF HaltHasWaiter

LEMMA HaltStep ==
  ASSUME TypeOK, HaltHasWaiter, [Next]_vars
  PROVE  HaltHasWaiter'
<1> USE DEF TypeOK, CallerType
<1>1. ASSUME NEW c \in Callers, SocketInit(c)
      PROVE  HaltHasWaiter'
  BY <1>1, WaitersKept DEF SocketInit, At, halts
<1>1a. ASSUME NEW c \in Callers, SocketConfigure(c)
      PROVE  HaltHasWaiter'
  BY <1>1a, WaitersKept DEF SocketConfigure, At, halts
<1>1b. ASSUME NEW c \in Callers, SocketOpen(c)
      PROVE  HaltHasWaiter'
  BY <1>1b, WaitersKept DEF SocketOpen, At, halts
<1>2. ASSUME NEW c \in Callers, CallerThrow(c)
      PROVE  HaltHasWaiter'
  BY <1>2, WaitersKept, ThrowPlaces DEF CallerThrow, DisposeMain, halts
<1>3. ASSUME NEW c \in Callers, Insert(c)
      PROVE  HaltHasWaiter'
  BY <1>3, WaitersKept DEF Insert, Return, At, caller, halts
<1>4. ASSUME NEW c \in Callers, NEW f \in DOMAIN openSockets, Connect(c, f)
      PROVE  HaltHasWaiter'
  BY <1>4, WaitersKept DEF Connect, Enter, At, caller, halts
<1>5. ASSUME NEW c \in Callers, ConnectReturn(c)
      PROVE  HaltHasWaiter'
  BY <1>5, WaitersKept DEF ConnectReturn, Return, At, caller, halts
<1>6. ASSUME NEW c \in Callers, CtThrow(c)
      PROVE  HaltHasWaiter'
  BY <1>6, WaitersKept DEF CtThrow, ThreadAt, caller, halts
<1>7. ASSUME NEW c \in Callers, NEW f \in DOMAIN openSockets, Recv(c, f)
      PROVE  HaltHasWaiter'
  BY <1>7, WaitersKept DEF Recv, Enter, At, caller, halts
<1>8. ASSUME NEW c \in Callers, RecvStep(c)
      PROVE  HaltHasWaiter'
  BY <1>8, WaitersKept DEF RecvStep, Return, At, caller, halts
<1>9. ASSUME NEW c \in Callers, RecvResume(c)
      PROVE  HaltHasWaiter'
  BY <1>9, WaitersKept DEF RecvResume, Return, At, caller, halts
<1>10. ASSUME NEW c \in Callers, NEW f \in DOMAIN openSockets, Send(c, f)
      PROVE  HaltHasWaiter'
  BY <1>10, WaitersKept DEF Send, Enter, At, caller, halts
<1>11. ASSUME NEW c \in Callers, SendStep(c)
      PROVE  HaltHasWaiter'
  BY <1>11 DEF SendStep, Return, At, HaltHasWaiter, EndpointType, SendHalt
<1>12. ASSUME NEW c \in Callers, SendResume(c)
      PROVE  HaltHasWaiter'
  BY <1>12, WaitersKept DEF SendResume, Return, At, caller, halts
<1>13. ASSUME NEW c \in Callers, NEW f \in DOMAIN openSockets, Select(c, f)
      PROVE  HaltHasWaiter'
  BY <1>13, WaitersKept DEF Select, Enter, At, caller, halts
<1>14. ASSUME NEW c \in Callers, SelectFails(c)
      PROVE  HaltHasWaiter'
  BY <1>14, WaitersKept DEF SelectFails, At, caller, halts
<1>15. ASSUME NEW c \in Callers, SelectStep(c)
      PROVE  HaltHasWaiter'
  BY <1>15, WaitersKept DEF SelectStep, Return, At, caller, halts
<1>16. ASSUME NEW o \in Socket, NotifierData(o)
      PROVE  HaltHasWaiter'
  BY <1>16, WaitersKept DEF NotifierData, NotifierAt, caller, halts
<1>17. ASSUME NEW o \in Socket, NotifierThrow(o) \/ NotifierFail(o)
      PROVE  HaltHasWaiter'
  BY <1>17, WaitersKept DEF NotifierThrow, NotifierFail, NotifierAt, caller,
     halts
<1>18. ASSUME NEW c \in Callers, CtSetup(c) \/ CtIssue(c)
      PROVE  HaltHasWaiter'
  BY <1>18, WaitersKept DEF CtSetup, CtIssue, caller, halts
<1>19. ASSUME NEW o \in Socket, NotifierEnter(o) \/ NotifierRun(o) \/
             NotifierResume(o) \/ Connected(o) \/ FlowOn(o) \/ Disconnected(o) \/ PeerClose(o)
             \/ PeerSend(o) \/ FlowOff(o) \/ Other(o)
      PROVE  HaltHasWaiter'
  BY <1>19, WaitersKept DEF NotifierEnter, NotifierRun, NotifierResume, Connected, FlowOn,
     Disconnected, PeerClose, PeerSend, FlowOff, Other, caller, halts
<1>20. ASSUME UNCHANGED vars PROVE HaltHasWaiter'
  BY <1>20, WaitersKept DEF vars, caller, halts
<1>. QED
  BY <1>1, <1>2, <1>3, <1>4, <1>5, <1>6, <1>7, <1>8, <1>9, <1>10, <1>11,
     <1>12, <1>13, <1>14, <1>15, <1>16, <1>17, <1>18, <1>19, <1>20, <1>1a,
     <1>1b DEF Next, Call, CallerStep, ThreadStep, NotifierStep, Duty, Peer

\* Whatever the threads do, send_halt is up only for a send() that still waits
\* or whose thread was disposed of (send.cpp:10-42).
THEOREM HaltCorrect == Spec => []HaltHasWaiter
<1>1. Init => HaltHasWaiter
  BY DEF Init, HaltHasWaiter
<1>. QED BY Inductive, HaltStep, <1>1, PTL DEF Spec

\* What makes UsableOrStopped inductive: the same for the sockets and the
\* connections that are still being made.
UsableInv ==
  MainAlive =>
    /\ \A c \in Callers :
         pc[c] = "insert" => st[skt[c]] # "null" \/ skt[c] \in unnoticed
    /\ \A c \in Callers :
         cpc[c] = "issue" => installed[skt[c]] \/ skt[c] \in unnoticed
    /\ \A f \in DOMAIN openSockets :
         st[openSockets[f]] # "null" \/ openSockets[f] \in unnoticed
    /\ \A o \in Socket :
         st[o] \in {"null", "unbound", "idle"} \/ installed[o] \/ o \in unnoticed

\* An answer that does not throw is no error, or one that passes unnoticed.
LEMMA NoErrorPasses == \A a : ~Throws(a) => a = "noErr" \/ Unlisted(a)
BY DEF Throws, Unlisted

LEMMA UsableKept ==
  ASSUME ThreadsApart, UsableInv,
         UNCHANGED <<openSockets, cpc, st, installed, unnoticed>>,
         \A c \in Callers : pc'[c] = "insert" => pc[c] = "insert" /\ skt'[c] = skt[c],
         \A c \in Callers : pc[c] \in {"connect", "dead"} => skt'[c] = skt[c],
         MainAlive' => MainAlive
  PROVE  UsableInv'
BY DEF ThreadsApart, UsableInv

\* The switch of the notifier takes no endpoint away and opens none.
LEMMA SwitchKept ==
  ASSUME TypeOK, TableInv, ThreadsApart, UsableInv, NEW o \in Socket,
         NotifierSwitch(o), ev[o] # << >>,
         UNCHANGED <<caller, thread, table, installed>>
  PROVE  UsableInv'
<1> USE DEF TypeOK, CallerType, UsableInv, MainAlive
<1>1. UNCHANGED <<pc, skt, cpc, openSockets, installed>>
  BY DEF caller, thread, table
<1>2. /\ \A p \in Socket : st[p] # "null" => st'[p] # "null"
      /\ \A p \in Socket : st'[p] # st[p] => st[p] \in {"conind", "disind"}
      /\ unnoticed \subseteq unnoticed'
  BY SwitchSteps
<1>3. \A d \in Callers : pc[d] = "insert" => skt[d] \in Socket
  BY OpeningSocket DEF Opening, InSocket
<1>4. \A f \in DOMAIN openSockets : openSockets[f] \in Socket
  BY EntryIsSocket
<1>. QED BY <1>1, <1>2, <1>3, <1>4

LEMMA UsableStep ==
  ASSUME TypeOK, TableInv, ThreadsApart, UsableInv, [Next]_vars
  PROVE  UsableInv'
<1> USE DEF TypeOK, CallerType, UsableInv, MainAlive
<1>1. ASSUME NEW c \in Callers, SocketInit(c)
      PROVE  UsableInv'
  BY <1>1, UsableKept, MainAssumption DEF SocketInit, At, caller, table, thread,
     endpoint, ThreadsApart
<1>1a. ASSUME NEW c \in Callers, SocketConfigure(c)
       PROVE  UsableInv'
  BY <1>1a, UsableKept, MainAssumption DEF SocketConfigure, At, caller, table,
     thread, endpoint, ThreadsApart
<1>1b. ASSUME NEW c \in Callers, SocketOpen(c)
       PROVE  UsableInv'
  <2> DEFINE s == skt[c]
  <2>1. Opening(c) /\ s \in Socket
    BY <1>1b, OpeningSocket DEF SocketOpen, At, Opening, InSocket
  <2>2. /\ UNCHANGED <<skt, cpc, installed, openSockets>> /\ cpc[c] = "none"
        /\ \A d \in Callers \ {c} : pc'[d] = pc[d]
        /\ MainAlive' => MainAlive
    BY <1>1b, MainAssumption DEF SocketOpen, At, ThreadsApart, thread, table
  <2>3. /\ \A o \in Socket \ {s} : st'[o] = st[o]
        /\ st'[s] \in {"null", "unbound"} /\ unnoticed \subseteq unnoticed'
        /\ pc'[c] = "insert" => st'[s] # "null" \/ s \in unnoticed'
    <3>1. PICK status :
            /\ st' = [st EXCEPT ![s] = IF status = "noErr" THEN "unbound" ELSE "null"]
            /\ pc' = [pc EXCEPT ![c] = AfterOpen(status)]
            /\ Unnoticed(s, status)
      BY <1>1b DEF SocketOpen
    <3>2. AfterOpen(status) = "insert" => status = "noErr" \/ Unlisted(status)
      BY NoErrorPasses DEF AfterOpen
    <3>. QED BY <2>1, <3>1, <3>2 DEF EndpointType, Unnoticed
  <2>4. \A d \in Callers \ {c} : pc[d] = "insert" => skt[d] \in Socket /\ skt[d] # s
    BY <2>1, OpeningSocket DEF TableInv, Apart, Opening, InSocket
  <2>5. \A f \in DOMAIN openSockets : openSockets[f] \in Socket /\ openSockets[f] # s
    BY <2>1, EntryIsSocket DEF TableInv, Apart
  <2>. QED BY <2>1, <2>2, <2>3, <2>4, <2>5
<1>2. ASSUME NEW c \in Callers, CallerThrow(c)
      PROVE  UsableInv'
  BY <1>2, MainAssumption DEF CallerThrow, DisposeMain
<1>3. ASSUME NEW c \in Callers, Insert(c)
      PROVE  UsableInv'
  <2>1. /\ UNCHANGED <<cpc, st, installed, unnoticed>>
        /\ cpc[c] = "none" /\ pc'[c] = "idle"
        /\ \A d \in Callers \ {c} : pc'[d] = pc[d] /\ skt'[d] = skt[d]
    BY <1>3 DEF Insert, Return, At, ThreadsApart, thread, endpoint
  <2>2. \A f \in DOMAIN openSockets' :
          \/ f \in DOMAIN openSockets /\ openSockets'[f] = openSockets[f]
          \/ openSockets'[f] = skt[c]
    BY <1>3 DEF Insert, OPEN_SOCKET_INSERT
  <2>3. pc[c] = "insert" /\ (MainAlive' => MainAlive)
    BY <1>3, MainAssumption DEF Insert, Return, At
  <2>. QED BY <2>1, <2>2, <2>3
<1>4. ASSUME NEW c \in Callers, NEW f \in DOMAIN openSockets, Connect(c, f)
      PROVE  UsableInv'
  <2>1. /\ UNCHANGED <<st, installed, openSockets, unnoticed>>
        /\ \A d \in Callers \ {c} : pc'[d] = pc[d] /\ skt'[d] = skt[d] /\ cpc'[d] = cpc[d]
        /\ pc[c] = "idle" /\ pc'[c] = "connect" /\ cpc'[c] # "issue"
    BY <1>4, SetupPlaces DEF Connect, Enter, At, table, endpoint
  <2>. QED BY <2>1, MainAssumption
<1>5. ASSUME NEW c \in Callers, ConnectReturn(c)
      PROVE  UsableInv'
  BY <1>5, MainAssumption DEF ConnectReturn, Return, At, caller, table,
     thread, endpoint
<1>6. ASSUME NEW c \in Callers, CtSetup(c)
      PROVE  UsableInv'
  <2> DEFINE s == skt[c]
  <2>1. cpc[c] # "none" /\ s \in Socket /\ UNCHANGED <<pc, skt, openSockets>>
    BY <1>6, SetupBegun, ThreadSocket DEF CtSetup, caller, table
  <2>2. /\ \A d \in Callers \ {c} : cpc'[d] = cpc[d]
        /\ st' = st \/ st' = [st EXCEPT ![s] = "idle"]
        /\ \A o \in Socket \ {s} : installed'[o] = installed[o]
        /\ installed[s] => installed'[s]
        /\ unnoticed \subseteq unnoticed'
        /\ cpc'[c] = "issue" => installed'[s] \/ s \in unnoticed'
    BY <1>6, <2>1, SetupSteps DEF EndpointType
  <2>3. \A o \in Socket :
          /\ st[o] # "null" => st'[o] # "null"
          /\ st'[o] \in {"null", "unbound", "idle"} \/ st'[o] = st[o]
    BY <2>1, <2>2 DEF EndpointType
  <2>4. \A d \in Callers \ {c} : cpc[d] # "none" => skt[d] \in Socket /\ skt[d] # s
    BY <2>1, ThreadSocket DEF ThreadsApart
  <2>5. \A d \in Callers : pc[d] = "insert" => skt[d] \in Socket
    BY OpeningSocket DEF Opening, InSocket
  <2>6. \A f \in DOMAIN openSockets : openSockets[f] \in Socket
    BY EntryIsSocket
  <2>. QED BY <2>1, <2>2, <2>3, <2>4, <2>5, <2>6
<1>8. ASSUME NEW c \in Callers, CtIssue(c)
      PROVE  UsableInv'
  <2> DEFINE s == skt[c]
  <2>1. /\ UNCHANGED <<pc, skt, openSockets, installed>> /\ s \in Socket
        /\ cpc[c] = "issue"
        /\ \A d \in Callers \ {c} : cpc'[d] = cpc[d]
        /\ cpc'[c] # "issue"
    BY <1>8, ThreadSocket DEF CtIssue, ThreadAt, caller, table
  <2>2. unnoticed \subseteq unnoticed'
    BY <1>8 DEF CtIssue, Unnoticed
  <2>3. \A o \in Socket : st'[o] = st[o] \/ (o = s /\ st'[o] = "outcon")
    BY <1>8, <2>1 DEF CtIssue, EndpointType
  <2>4. \A d \in Callers : pc[d] = "insert" => skt[d] \in Socket
    BY OpeningSocket DEF Opening, InSocket
  <2>5. \A f \in DOMAIN openSockets : openSockets[f] \in Socket
    BY EntryIsSocket
  <2>. QED BY <2>1, <2>2, <2>3, <2>4, <2>5
<1>9. ASSUME NEW c \in Callers, CtThrow(c)
      PROVE  UsableInv'
  BY <1>9, MainAssumption DEF CtThrow
<1>10. ASSUME NEW c \in Callers, NEW f \in DOMAIN openSockets, Recv(c, f)
      PROVE  UsableInv'
  BY <1>10, UsableKept, MainAssumption DEF Recv, Enter, At, caller, table,
     thread, endpoint
<1>11. ASSUME NEW c \in Callers, RecvStep(c)
      PROVE  UsableInv'
  BY <1>11, UsableKept, MainAssumption DEF RecvStep, Return, At, caller,
     table, thread, endpoint
<1>12. ASSUME NEW c \in Callers, RecvResume(c)
      PROVE  UsableInv'
  BY <1>12, UsableKept, MainAssumption DEF RecvResume, Return, At, caller,
     table, thread, endpoint
<1>13. ASSUME NEW c \in Callers, NEW f \in DOMAIN openSockets, Send(c, f)
      PROVE  UsableInv'
  BY <1>13, UsableKept, MainAssumption DEF Send, Enter, At, caller, table,
     thread, endpoint
<1>14. ASSUME NEW c \in Callers, SendStep(c)
      PROVE  UsableInv'
  BY <1>14, UsableKept, MainAssumption DEF SendStep, Return, At, caller,
     table, thread, endpoint
<1>15. ASSUME NEW c \in Callers, SendResume(c)
      PROVE  UsableInv'
  BY <1>15, UsableKept, MainAssumption DEF SendResume, Return, At, caller,
     table, thread, endpoint
<1>16. ASSUME NEW c \in Callers, NEW f \in DOMAIN openSockets, Select(c, f)
      PROVE  UsableInv'
  BY <1>16, UsableKept, MainAssumption DEF Select, Enter, At, caller,
     table, thread, endpoint
<1>17. ASSUME NEW c \in Callers, SelectFails(c)
      PROVE  UsableInv'
  BY <1>17, MainAssumption DEF SelectFails, At, caller, table, thread,
     endpoint
<1>18. ASSUME NEW c \in Callers, SelectStep(c)
      PROVE  UsableInv'
  BY <1>18, UsableKept, MainAssumption DEF SelectStep, Return, At, caller,
     table, thread, endpoint
<1>19. ASSUME NEW o \in Socket, NotifierRun(o)
      PROVE  UsableInv'
  <2>1. ev[o] # << >>
    BY <1>19 DEF NotifierRun, NotifierAt, NotifierType
  <2>2. CASE NotifierSwitch(o)
    BY <1>19, <2>1, <2>2, SwitchKept DEF NotifierRun
  <2>3. CASE UNCHANGED <<st, unnoticed>>
    BY <1>19, <2>3, UsableKept DEF NotifierRun, caller, table, thread
  <2>. QED BY <1>19, <2>2, <2>3 DEF NotifierRun
<1>19a. ASSUME NEW o \in Socket, NotifierResume(o)
        PROVE  UsableInv'
  <2>1. ev[o] # << >>
    BY <1>19a DEF NotifierResume, NotifierAt, NotifierType
  <2>. QED BY <1>19a, <2>1, SwitchKept DEF NotifierResume
<1>20. ASSUME NEW o \in Socket, NotifierData(o)
      PROVE  UsableInv'
  BY <1>20, MainAssumption DEF NotifierData, NotifierAt, caller, table,
     thread, endpoint
<1>21. ASSUME NEW o \in Socket, NotifierThrow(o) \/ NotifierFail(o)
      PROVE  UsableInv'
  BY <1>21, MainAssumption DEF NotifierThrow, NotifierFail, caller, table,
     thread, endpoint
<1>22. ASSUME NEW o \in Socket, Connected(o)
      PROVE  UsableInv'
  BY <1>22, MainAssumption DEF Connected, At, caller, table, thread,
     endpoint
<1>23. ASSUME NEW o \in Socket, Disconnected(o)
      PROVE  UsableInv'
  BY <1>23, MainAssumption DEF Disconnected, At, caller, table, thread,
     endpoint
<1>24. ASSUME NEW o \in Socket, PeerClose(o)
      PROVE  UsableInv'
  BY <1>24, MainAssumption DEF PeerClose, At, caller, table, thread,
     endpoint
<1>25. ASSUME NEW o \in Socket, NotifierEnter(o) \/ FlowOn(o) \/
             PeerSend(o) \/ FlowOff(o) \/ Other(o)
      PROVE  UsableInv'
  BY <1>25, MainAssumption DEF NotifierEnter, FlowOn, PeerSend, FlowOff,
     Other, caller, table, thread, endpoint
<1>26. ASSUME UNCHANGED vars PROVE UsableInv'
  BY <1>26, MainAssumption DEF vars, caller, table, thread, endpoint
<1>. QED
  BY <1>1, <1>2, <1>3, <1>4, <1>5, <1>6, <1>8, <1>9, <1>10, <1>11,
     <1>12, <1>13, <1>14, <1>15, <1>16, <1>17, <1>18, <1>19, <1>20, <1>21,
     <1>22, <1>23, <1>24, <1>25, <1>26, <1>1a, <1>1b, <1>19a DEF Next, Call, CallerStep,
     ThreadStep, NotifierStep, Duty, Peer

\* While the main thread lives, every descriptor has an endpoint and every
\* connecting endpoint its notifier, although the calls that fail in another
\* thread go on after they threw; the sockets that go without are exactly those
\* with a failure that no case of the switch names (internal.cpp:8-471, 478-493).
THEOREM UsableCorrect == Spec => []UsableOrStopped
<1>1. Init => UsableInv
  BY DEF Init, UsableInv
<1>2. TypeOK /\ TableInv /\ ThreadsApart /\ UsableInv /\ [Next]_vars => UsableInv'
  BY UsableStep
<1>3. UsableInv => UsableOrStopped
  BY DEF UsableInv, UsableOrStopped
<1>. QED BY Inductive, <1>1, <1>2, <1>3, PTL DEF Spec

\* Of n chunks, the read ones g and the unread ones q are 1, 2, ..., n.
Ordered(g, q, n) ==
  /\ Len(g) + Len(q) = n
  /\ \A i \in 1..Len(g) : g[i] = i
  /\ \A i \in 1..Len(q) : q[i] = Len(g) + i

LEMMA TakeOrdered ==
  ASSUME NEW g \in Seq(Int), NEW q \in Seq(Int), NEW n \in Nat,
         Ordered(g, q, n), q # << >>
  PROVE  Ordered(Append(g, Head(q)), Tail(q), n)
<1>1. Len(q) \in Nat /\ Len(g) \in Nat /\ Len(q) > 0
  OBVIOUS
<1>2. Len(Tail(q)) = Len(q) - 1 /\ Len(Append(g, Head(q))) = Len(g) + 1
  BY <1>1
<1>3. \A i \in 1..(Len(q) - 1) : Tail(q)[i] = q[i + 1]
  BY <1>1
<1>4. Head(q) = Len(g) + 1
  BY <1>1 DEF Ordered
<1>5. \A i \in 1..(Len(g) + 1) :
        Append(g, Head(q))[i] = IF i = Len(g) + 1 THEN Head(q) ELSE g[i]
  BY <1>1
<1>6. \A i \in 1..(Len(g) + 1) : Append(g, Head(q))[i] = i
  BY <1>1, <1>4, <1>5 DEF Ordered
<1>7. \A i \in 1..(Len(q) - 1) : Tail(q)[i] = Len(g) + 1 + i
  BY <1>1, <1>3 DEF Ordered
<1>8. Len(g) + 1 + (Len(q) - 1) = n
  <2>1. Len(g) + Len(q) = n
    BY DEF Ordered
  <2>. QED BY <1>1, <2>1
<1>9. \A i \in 1..Len(Tail(q)) : Tail(q)[i] = Len(Append(g, Head(q))) + i
  BY <1>2, <1>7
<1>. QED BY <1>2, <1>6, <1>8, <1>9 DEF Ordered

LEMMA SendOrdered ==
  ASSUME NEW g \in Seq(Int), NEW q \in Seq(Int), NEW n \in Nat,
         Ordered(g, q, n)
  PROVE  Ordered(g, Append(q, n + 1), n + 1)
<1>1. Len(q) \in Nat /\ Len(g) \in Nat
  OBVIOUS
<1>2. Len(Append(q, n + 1)) = Len(q) + 1
  OBVIOUS
<1>3. \A i \in 1..(Len(q) + 1) :
        Append(q, n + 1)[i] = IF i = Len(q) + 1 THEN n + 1 ELSE q[i]
  BY <1>1
<1>4. \A i \in 1..(Len(q) + 1) : Append(q, n + 1)[i] = Len(g) + i
  BY <1>1, <1>3 DEF Ordered
<1>. QED BY <1>1, <1>2, <1>4 DEF Ordered

\* recv() only ever lowers recv_halt, so the notifier never drains an endpoint
\* and recvBuf stays empty; all data comes from OTRcv in recv() itself.
StreamInv ==
  \A o \in Socket : ~recv_halt[o] /\ recvBuf[o] = << >> /\ Ordered(got[o], inq[o], sent[o])

LEMMA StreamElements ==
  ASSUME TypeOK, NEW o \in Socket
  PROVE  got[o] \in Seq(Int) /\ inq[o] \in Seq(Int) /\ sent[o] \in Nat
<1>1. 0..MaxChunks \subseteq Int /\ 1..MaxChunks \subseteq Int
  BY Bounds
<1>2. sent[o] \in 0..MaxChunks
  BY DEF TypeOK, StreamType
<1>. QED BY <1>1, <1>2, SeqMonotonic, Bounds DEF TypeOK, StreamType

LEMMA StreamKept ==
  ASSUME StreamInv, UNCHANGED <<recv_halt, recvBuf, got, inq, sent>>
  PROVE  StreamInv'
BY DEF StreamInv

LEMMA StreamStep ==
  ASSUME TypeOK, StreamInv, [Next]_vars
  PROVE  StreamInv'
<1> USE DEF TypeOK
<1>1. ASSUME NEW c \in Callers, RecvStep(c)
      PROVE  StreamInv'
  <2> DEFINE o == skt[c]
  <2>1. \A q \in Socket : ~recv_halt'[q] /\ recvBuf'[q] = << >>
    BY <1>1 DEF RecvStep, RecvHalt, StreamInv, EndpointType
  <2>2. ASSUME NEW q \in Socket
        PROVE  Ordered(got'[q], inq'[q], sent'[q])
    <3>1. CASE q = o /\ Readable(o) /\ inq[o] # << >>
      <4>1. got'[q] = Append(got[q], Head(inq[q])) /\ inq'[q] = Tail(inq[q])
            /\ sent'[q] = sent[q]
        BY <1>1, <3>1 DEF RecvStep, StreamType
      <4>2. Ordered(got[q], inq[q], sent[q]) /\ inq[q] # << >>
        BY <3>1 DEF StreamInv
      <4>3. Ordered(Append(got[q], Head(inq[q])), Tail(inq[q]), sent[q])
        BY <4>2, StreamElements, TakeOrdered
      <4>. QED BY <4>1, <4>3
    <3>2. CASE ~(q = o /\ Readable(o) /\ inq[o] # << >>)
      <4>1. got'[q] = got[q] /\ inq'[q] = inq[q] /\ sent'[q] = sent[q]
        BY <1>1, <3>2 DEF RecvStep, StreamType
      <4>. QED BY <4>1 DEF StreamInv
    <3>. QED BY <3>1, <3>2
  <2>. QED BY <2>1, <2>2 DEF StreamInv
<1>2. ASSUME NEW c \in Callers, RecvResume(c)
      PROVE  StreamInv'
  <2>1. \A q \in Socket : got[q] \o << >> = got[q]
    BY DEF StreamType
  <2>2. got' = got
    BY <1>2, <2>1 DEF RecvResume, StreamInv, StreamType
  <2>3. recvBuf' = recvBuf
    BY <1>2 DEF RecvResume, StreamInv, StreamType
  <2>. QED BY <1>2, <2>2, <2>3, StreamKept DEF RecvResume
<1>3. ASSUME NEW o \in Socket, NotifierData(o)
      PROVE  StreamInv'
  <2>1. UNCHANGED <<recv_halt, recvBuf, got, inq, sent>>
    BY <1>3 DEF NotifierData, Drains, StreamInv
  <2>. QED BY <2>1, StreamKept
<1>4. ASSUME NEW o \in Socket, PeerSend(o)
      PROVE  StreamInv'
  <2>1. /\ inq'[o] = Append(inq[o], sent[o] + 1) /\ sent'[o] = sent[o] + 1
        /\ \A q \in Socket \ {o} : inq'[q] = inq[q] /\ sent'[q] = sent[q]
        /\ UNCHANGED <<got, recv_halt, recvBuf>>
    BY <1>4 DEF PeerSend, StreamType, halts
  <2>2. Ordered(got[o], Append(inq[o], sent[o] + 1), sent[o] + 1)
    BY StreamElements, SendOrdered DEF StreamInv
  <2>. QED BY <2>1, <2>2 DEF StreamInv
<1>5. ASSUME NEW c \in Callers, NEW f \in DOMAIN openSockets, Connect(c,
             f) \/ Recv(c, f) \/ Send(c, f) \/ Select(c, f)
      PROVE  StreamInv'
  BY <1>5, StreamKept DEF Connect, Recv, Send, Select, halts, stream
<1>6. ASSUME NEW c \in Callers, SocketInit(c) \/
             SocketConfigure(c) \/ SocketOpen(c) \/ CallerThrow(c) \/
             Insert(c) \/ ConnectReturn(c) \/ CtSetup(c) \/ CtIssue(c) \/ CtThrow(c) \/ SendStep(c) \/ SendResume(c) \/
             SelectFails(c) \/ SelectStep(c)
      PROVE  StreamInv'
  BY <1>6, StreamKept DEF SocketInit, SocketConfigure, SocketOpen, CallerThrow, Insert,
     ConnectReturn,
     CtSetup, CtIssue, CtThrow, SendStep, SendResume,
     SelectFails, SelectStep, halts, stream
<1>7. ASSUME NEW o \in Socket, NotifierEnter(o) \/ NotifierRun(o) \/
             NotifierFail(o) \/ NotifierResume(o) \/ NotifierThrow(o) \/ Connected(o) \/ FlowOn(o) \/
             Disconnected(o) \/ PeerClose(o) \/ FlowOff(o) \/ Other(o)
      PROVE  StreamInv'
  BY <1>7, StreamKept DEF NotifierEnter, NotifierRun, NotifierFail, NotifierResume, NotifierThrow,
     Connected, FlowOn, Disconnected, PeerClose, FlowOff, Other, halts,
     stream
<1>8. ASSUME UNCHANGED vars PROVE StreamInv'
  BY <1>8, StreamKept DEF vars, halts, stream
<1>. QED
  BY <1>1, <1>2, <1>3, <1>4, <1>5, <1>6, <1>7, <1>8 DEF Next, Call,
     CallerStep, ThreadStep, NotifierStep, Duty, Peer

LEMMA OrderedWhole ==
  ASSUME NEW g \in Seq(Int), NEW q \in Seq(Int), NEW n \in Nat,
         Ordered(g, q, n)
  PROVE  (g \o << >>) \o q = [i \in 1..n |-> i]
<1>1. Len(q) \in Nat /\ Len(g) \in Nat /\ Len(g) + Len(q) = n
  BY DEF Ordered
<1>2. g \o << >> = g
  OBVIOUS
<1>3. g \o q \in Seq(Int) /\ Len(g \o q) = n
  BY <1>1
<1>4. \A i \in 1..n : (g \o q)[i] = IF i <= Len(g) THEN g[i] ELSE q[i - Len(g)]
  BY <1>1
<1>5. \A i \in 1..n : (g \o q)[i] = i
  BY <1>1, <1>4 DEF Ordered
<1>6. g \o q \in [1..n -> Int]
  BY <1>3, LenProperties
<1>7. g \o q = [i \in 1..n |-> (g \o q)[i]]
  BY <1>6
<1>. QED BY <1>2, <1>5, <1>7

\* No chunk is lost, duplicated or reordered between the peer and the callers of
\* recv(), on any socket (recv.cpp:10-48, connect.cpp:144-194).
THEOREM StreamCorrect == Spec => []StreamIntact
<1>1. Init => StreamInv
  BY DEF Init, StreamInv, Ordered
<1>2. TypeOK /\ StreamInv => StreamIntact
  <2> SUFFICES ASSUME TypeOK, StreamInv, NEW o \in Socket
               PROVE  got[o] \o recvBuf[o] \o inq[o] = [i \in 1..sent[o] |-> i]
    BY DEF StreamIntact
  <2>1. Ordered(got[o], inq[o], sent[o]) /\ recvBuf[o] = << >>
    BY DEF StreamInv
  <2>. QED BY <2>1, StreamElements, OrderedWhole
<1>. QED BY Inductive, StreamStep, <1>1, <1>2, PTL DEF Spec

\* What recv() gives back, or the peer sends, is a step of ByteStream; all else
\* leaves the stream alone.
LEMMA StreamMaps ==
  ASSUME TypeOK, StreamInv, StreamInv', [Next]_vars
  PROVE  [Stream!Next]_(Stream!vars)
<1> USE DEF TypeOK, Stream!vars
<1>1. ASSUME NEW c \in Callers, RecvStep(c)
      PROVE  [Stream!Next]_(Stream!vars)
  <2> DEFINE o == skt[c]
  <2>1. sent' = sent
    BY <1>1 DEF RecvStep
  <2>2. CASE o \in Socket /\ Readable(o) /\ inq[o] # << >>
    <3>1. got' = [got EXCEPT ![o] = Append(got[o], Head(inq[o]))]
      BY <1>1, <2>2 DEF RecvStep
    <3>2. got'[o] = Append(got[o], Head(inq[o]))
      BY <2>2, <3>1 DEF StreamType
    <3>3. got[o] \in Seq(Int) /\ inq[o] \in Seq(Int) /\ sent[o] \in Nat
      BY <2>2, StreamElements
    <3>4. Head(inq[o]) \in Int /\ got'[o] \in Seq(Int) /\ Len(got'[o]) = Len(got[o]) + 1
      BY <2>2, <3>2, <3>3
    <3>5. Ordered(got[o], inq[o], sent[o]) /\ Ordered(got'[o], inq'[o], sent[o])
      BY <2>1, <2>2 DEF StreamInv
    <3>6. Len(got[o]) \in Nat /\ Len(inq[o]) \in Nat /\ Len(inq[o]) > 0
      BY <2>2, <3>3
    <3>7. Len(got[o]) + 1 \in (Len(got[o]) + 1)..sent[o]
      <4>1. Len(got[o]) + Len(inq[o]) = sent[o]
        BY <3>5 DEF Ordered
      <4>2. \A a, b, n \in Nat : a + b = n /\ b > 0 => a + 1 \in (a + 1)..n
        OBVIOUS
      <4>. QED BY <3>3, <3>6, <4>1, <4>2
    <3>8. got'[o] = [i \in 1..(Len(got[o]) + 1) |-> i]
      <4>1. \A i \in 1..(Len(got[o]) + 1) : got'[o][i] = i
        BY <3>4, <3>5 DEF Ordered
      <4>2. got'[o] = [i \in 1..(Len(got[o]) + 1) |-> got'[o][i]]
        BY <3>4, LenProperties
      <4>. QED BY <4>1, <4>2
    <3>9. got' = [got EXCEPT ![o] = [i \in 1..(Len(got[o]) + 1) |-> i]]
      BY <3>1, <3>2, <3>8
    <3>10. Stream!Receive(o)
      BY <2>1, <3>7, <3>9 DEF Stream!Receive
    <3>. QED BY <2>2, <3>10 DEF Stream!Next
  <2>3. CASE ~(o \in Socket /\ Readable(o) /\ inq[o] # << >>)
    <3>1. got' = got
      BY <1>1, <2>3 DEF RecvStep, StreamType
    <3>. QED BY <2>1, <3>1
  <2>. QED BY <2>2, <2>3
<1>2. ASSUME NEW c \in Callers, RecvResume(c)
      PROVE  UNCHANGED Stream!vars
  <2>1. \A q \in Socket : got[q] \o << >> = got[q]
    BY DEF StreamType
  <2>. QED BY <1>2, <2>1 DEF RecvResume, StreamInv, StreamType
<1>3. ASSUME NEW o \in Socket, PeerSend(o)
      PROVE  Stream!Next
  BY <1>3 DEF PeerSend, Stream!Next, Stream!Send
<1>4. ASSUME NEW c \in Callers, NEW f \in DOMAIN openSockets, Connect(c,
             f) \/ Recv(c, f) \/ Send(c, f) \/ Select(c, f)
      PROVE  UNCHANGED Stream!vars
  BY <1>4 DEF Connect, Recv, Send, Select, stream
<1>5. ASSUME NEW c \in Callers, SocketInit(c) \/
             SocketConfigure(c) \/ SocketOpen(c) \/ CallerThrow(c) \/
             Insert(c) \/ ConnectReturn(c) \/ CtSetup(c) \/ CtIssue(c) \/ CtThrow(c) \/ SendStep(c) \/ SendResume(c) \/
             SelectFails(c) \/ SelectStep(c)
      PROVE  UNCHANGED Stream!vars
  BY <1>5 DEF SocketInit, SocketConfigure, SocketOpen, CallerThrow, Insert,
     ConnectReturn,
     CtSetup, CtIssue, CtThrow, SendStep, SendResume,
     SelectFails, SelectStep, stream
<1>6. ASSUME NEW o \in Socket, NotifierEnter(o) \/ NotifierRun(o) \/
             NotifierFail(o) \/ NotifierResume(o) \/ NotifierData(o) \/
             NotifierThrow(o) \/ Connected(o) \/ FlowOn(o) \/
             Disconnected(o) \/ PeerClose(o) \/ FlowOff(o) \/ Other(o)
      PROVE  UNCHANGED Stream!vars
  BY <1>6 DEF NotifierEnter, NotifierRun, NotifierFail, NotifierResume,
     NotifierData, NotifierThrow,
     Connected, FlowOn, Disconnected, PeerClose, FlowOff, Other, stream
<1>7. ASSUME UNCHANGED vars PROVE UNCHANGED Stream!vars
  BY <1>7 DEF vars, stream
<1>. QED
  BY <1>1, <1>2, <1>3, <1>4, <1>5, <1>6, <1>7 DEF Next, Call,
     CallerStep, ThreadStep, NotifierStep, Duty, Peer

\* Seen from the peer and the callers of recv(), every socket is a ByteStream,
\* for any number of sockets, callers and chunks (recv.cpp:10-48,
\* connect.cpp:144-194).
THEOREM StreamImplemented == Spec => ImplementsStream
<1>1. Init => StreamInv
  BY DEF Init, StreamInv, Ordered
<1>2. Init => Stream!Init
  BY DEF Init, Stream!Init
<1>. QED
  BY Inductive, StreamStep, StreamMaps, <1>1, <1>2, PTL
     DEF Spec, ImplementsStream, Stream!Spec

LEMMA Word0IsNoDescriptor == \A d \in 0..30 : Word0(d) # d
<1> SUFFICES ASSUME NEW d \in 0..30 PROVE Word0(d) # d
  OBVIOUS
<1>1. d \div BitsPerWord = 0 /\ d % BitsPerWord = d
  BY DEF BitsPerWord
<1>2. Bit[d + 1] # d
  BY SMTT(60) DEF Bit
<1>. QED BY <1>1, <1>2 DEF Word0

\* A caller that is in connect(), recv(), send() or select() works on a socket.
Working ==
  \A c \in Callers : pc[c] \notin InSocket \cup {"idle", "dead"} => skt[c] \in Socket

LEMMA WorkingStep ==
  ASSUME TypeOK, Working, [Next]_vars
  PROVE  Working'
<1> USE DEF TypeOK, CallerType
<1>1. ASSUME NEW c \in Callers, SocketInit(c)
      PROVE  Working'
  BY <1>1 DEF SocketInit, Working, InSocket
<1>1a. ASSUME NEW c \in Callers, SocketConfigure(c)
      PROVE  Working'
  BY <1>1a DEF SocketConfigure, Working, InSocket
<1>1b. ASSUME NEW c \in Callers, SocketOpen(c)
      PROVE  Working'
  BY <1>1b DEF SocketOpen, AfterOpen, Working, InSocket
<1>2. ASSUME NEW c \in Callers, CallerThrow(c)
      PROVE  Working'
  BY <1>2, ThrowPlaces DEF CallerThrow, DisposeMain, Working
<1>3. ASSUME NEW c \in Callers, Insert(c)
      PROVE  Working'
  BY <1>3, EntryIsSocket DEF Insert, Return, At, Working, InSocket, caller
<1>4. ASSUME NEW c \in Callers, NEW f \in DOMAIN openSockets, Connect(c, f)
      PROVE  Working'
  BY <1>4, EntryIsSocket DEF Connect, Enter, At, Working, InSocket, caller
<1>5. ASSUME NEW c \in Callers, ConnectReturn(c)
      PROVE  Working'
  BY <1>5, EntryIsSocket DEF ConnectReturn, Return, At, Working, InSocket, caller
<1>6. ASSUME NEW c \in Callers, CtThrow(c)
      PROVE  Working'
  BY <1>6, EntryIsSocket DEF CtThrow, ThreadAt, Working, InSocket, caller
<1>7. ASSUME NEW c \in Callers, NEW f \in DOMAIN openSockets, Recv(c, f)
      PROVE  Working'
  BY <1>7, EntryIsSocket DEF Recv, Enter, At, Working, InSocket, caller
<1>8. ASSUME NEW c \in Callers, RecvStep(c)
      PROVE  Working'
  BY <1>8, EntryIsSocket DEF RecvStep, Return, At, Working, InSocket, caller
<1>9. ASSUME NEW c \in Callers, RecvResume(c)
      PROVE  Working'
  BY <1>9, EntryIsSocket DEF RecvResume, Return, At, Working, InSocket, caller
<1>10. ASSUME NEW c \in Callers, NEW f \in DOMAIN openSockets, Send(c, f)
      PROVE  Working'
  BY <1>10, EntryIsSocket DEF Send, Enter, At, Working, InSocket, caller
<1>11. ASSUME NEW c \in Callers, SendStep(c)
      PROVE  Working'
  BY <1>11, EntryIsSocket DEF SendStep, Return, At, Working, InSocket, caller
<1>12. ASSUME NEW c \in Callers, SendResume(c)
      PROVE  Working'
  BY <1>12, EntryIsSocket DEF SendResume, Return, At, Working, InSocket, caller
<1>13. ASSUME NEW c \in Callers, NEW f \in DOMAIN openSockets, Select(c, f)
      PROVE  Working'
  BY <1>13, EntryIsSocket DEF Select, Enter, At, Working, InSocket, caller
<1>14. ASSUME NEW c \in Callers, SelectFails(c)
      PROVE  Working'
  BY <1>14, EntryIsSocket DEF SelectFails, At, Working, InSocket, caller
<1>15. ASSUME NEW c \in Callers, SelectStep(c)
      PROVE  Working'
  BY <1>15, EntryIsSocket DEF SelectStep, Return, At, Working, InSocket, caller
<1>16. ASSUME NEW o \in Socket, NotifierData(o)
      PROVE  Working'
  BY <1>16, EntryIsSocket DEF NotifierData, NotifierAt, Working, InSocket, caller
<1>17. ASSUME NEW o \in Socket, NotifierThrow(o) \/ NotifierFail(o)
      PROVE  Working'
  BY <1>17, EntryIsSocket DEF NotifierThrow, NotifierFail, NotifierAt,
     Working, InSocket, caller
<1>18. ASSUME NEW c \in Callers, CtSetup(c) \/ CtIssue(c)
      PROVE  Working'
  BY <1>18, EntryIsSocket DEF CtSetup, CtIssue, Working,
     caller
<1>19. ASSUME NEW o \in Socket, NotifierEnter(o) \/ NotifierRun(o) \/
             NotifierResume(o) \/ Connected(o) \/ FlowOn(o) \/ Disconnected(o) \/ PeerClose(o)
             \/ PeerSend(o) \/ FlowOff(o) \/ Other(o)
      PROVE  Working'
  BY <1>19, EntryIsSocket DEF NotifierEnter, NotifierRun, NotifierResume, Connected,
     FlowOn, Disconnected, PeerClose, PeerSend, FlowOff, Other, Working,
     caller
<1>20. ASSUME UNCHANGED vars PROVE Working'
  BY <1>20, EntryIsSocket DEF vars, Working, caller
<1>. QED
  BY <1>1, <1>2, <1>3, <1>4, <1>5, <1>6, <1>7, <1>8, <1>9, <1>10, <1>11,
     <1>12, <1>13, <1>14, <1>15, <1>16, <1>17, <1>18, <1>19, <1>20, <1>1a,
     <1>1b DEF Next, Call, CallerStep, ThreadStep, NotifierStep, Duty, Peer

\* select() never looks up the socket it was asked about: fds_bits[0], which it
\* takes for a descriptor, is a power of two, and no d is 2^d (select.cpp:12-18,
\* select.h:27-29).  It waits for another socket, or at() throws.
THEOREM SelectLooksElsewhere ==
  Spec => [](\A c \in Callers : pc[c] = "select" => SelectKey(c) # id[skt[c]])
<1>1. Init => Working
  BY DEF Init, Working
<1>2. TypeOK /\ Working
        => \A c \in Callers : pc[c] = "select" => SelectKey(c) # id[skt[c]]
  <2> SUFFICES ASSUME TypeOK, Working, NEW c \in Callers, pc[c] = "select"
               PROVE  SelectKey(c) # id[skt[c]]
    OBVIOUS
  <2>1. id[skt[c]] \in 0..30
    <3>1. id[skt[c]] \in 0..MaxSockets
      BY DEF TypeOK, TableType, Working, InSocket
    <3>. QED BY <3>1, Bounds
  <2>. QED BY <2>1, Word0IsNoDescriptor DEF SelectKey
<1>. QED BY Inductive, WorkingStep, <1>1, <1>2, PTL DEF Spec

=============================================================================
