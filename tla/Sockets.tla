------------------------------ MODULE Sockets ------------------------------
(***************************************************************************)
(* PowerNet: socket(), connect(), recv(), send() and select() over Open     *)
(* Transport, called by the cooperative threads of one program.             *)
(*                                                                         *)
(* A thread runs until it yields: an action is the code between two yields  *)
(* (YieldToAnyThread, and every printf, which yields inside the console).   *)
(* Yields between which a thread touches only its own locals are fused.     *)
(* The notifier, which Open Transport calls with the events of an endpoint  *)
(* one at a time, yields too, so it is one more actor per socket.           *)
(*                                                                         *)
(* Left out: `halting` (written, never read), `sendBuf` (never filled, so   *)
(* flatten gives nothing), byte contents (a chunk is its number), and the   *)
(* mode of an endpoint: the calls that set it may fail, but only an endpoint *)
(* that neither OTSetNonBlocking nor OTSetAsynchronous got out of the mode   *)
(* of OTSetBlocking and OTSetSynchronous would behave otherwise than here.   *)
(***************************************************************************)
EXTENDS Integers, Sequences, FiniteSets, FdSet, OTErrors

CONSTANTS
  Callers,      \* the threads that call PowerNet
  Main,         \* the one whose id is main_thread_id
  Errors,       \* what NewThread and Open Transport's calls fail with, if at all
  Types,        \* the types of socket that callers ask socket() for
  MayRefuse,    \* may a peer refuse, or break, a connection?
  MaxSockets, MaxConnects,         \* calls of socket() and connect() in a run
  MaxChunks, MaxFlow, MaxOther     \* chunks a peer sends; flow stops; other events

ASSUME MainAssumption == Main \in Callers
ASSUME FailAssumption == "noErr" \notin Errors /\ MayRefuse \in BOOLEAN
ASSUME BoundAssumption ==
  /\ MaxSockets \in 0..30
  /\ {MaxConnects, MaxChunks, MaxFlow, MaxOther} \subseteq Nat

Socket == 1..MaxSockets            \* the objects `new Socket()` makes
NoSocket == 0

VARIABLES
  \* a caller: where it is, the object it works on, the sets it gave select()
  pc, skt, wset,
  \* the connect thread of a caller: where it is, where a throw resumes
  cpc, ccont,
  \* a notifier call: where it is, its dataBuf
  npc, dataBuf,
  \* the globals: connect.cpp's flag, the table, and whether the program died
  finished, openSockets, crashed,
  \* Socket objects: how many, and their fields
  nSkt, id, recv_halt, send_halt, recvBuf,
  \* Open Transport's side of an endpoint: state, notifier installed, events
  \* not handled yet, flow control, chunks arrived and unread
  st, installed, ev, flow, inq,
  \* what the peer sent and what recv() returned, and the counters of the bounds
  sent, got, nConnect, nFlow, nOther,
  \* history: the sockets with a failed call that ThrowOSErr() let pass
  unnoticed

caller   == <<pc, skt, wset>>
thread   == <<cpc, ccont>>
notif    == <<npc, dataBuf>>
table    == <<openSockets, nSkt, id>>
halts    == <<recv_halt, send_halt, recvBuf>>
endpoint == <<st, installed, ev, flow>>
stream   == <<inq, sent, got>>
counters == <<nConnect, nFlow, nOther>>
vars == <<caller, thread, notif, finished, crashed, table, halts, endpoint,
          stream, counters, unnoticed>>

\* The places in socket(), where a caller has an object that no other knows of.
InSocket == {"throwinit", "configure", "throwtype", "open", "opennull", "throw",
             "insert"}
CallerPC == InSocket \cup {"idle", "connect", "recv", "recvwait", "send",
                           "sendwait", "select", "dead"}
\* The calls that connect_thread() makes before it yields by itself, in order.
Setup == << "blocking", "synchronous", "bind", "nonblocking", "asynchronous",
            "install" >>
ThreadPC ==
  {Setup[i] : i \in 1..6} \cup {"none", "issue", "throw", "done", "failed"}
NotifierPC == {"idle", "entered", "failing", "switch", "data", "throw"}
\* The events whose case only throws: the end of flow control, and all others.
Unhandled == {"T_GODATA", "other"}
Event == {"T_CONNECT", "T_DATA", "T_DISCONNECT", "T_ORDREL"} \cup Unhandled
\* T_UNBND, T_IDLE, ... of Open Transport; null: no endpoint; conind, disind:
\* the event is out and not taken yet; fin: the peer closed its side.
EndpointState == {"null", "unbound", "idle", "outcon", "conind", "data", "fin",
                  "disind"}
Dir == {"read", "write"}

CallerType ==
  /\ pc \in [Callers -> CallerPC]
  /\ skt \in [Callers -> Socket \cup {NoSocket}]
  /\ wset \in [Callers -> SUBSET Dir]
  /\ cpc \in [Callers -> ThreadPC] /\ ccont \in [Callers -> ThreadPC]

NotifierType ==
  /\ npc \in [Socket -> NotifierPC] /\ dataBuf \in [Socket -> 0..MaxChunks]
  /\ ev \in [Socket -> Seq(Event)]
  /\ \A o \in Socket : npc[o] \in {"entered", "failing", "switch"} => ev[o] # << >>

TableType ==
  /\ nSkt \in 0..MaxSockets
  /\ DOMAIN openSockets \subseteq 0..(MaxSockets - 1)
  /\ openSockets \in [DOMAIN openSockets -> 1..nSkt]
  /\ id \in [Socket -> 0..MaxSockets]

EndpointType ==
  /\ recv_halt \in [Socket -> BOOLEAN] /\ send_halt \in [Socket -> BOOLEAN]
  /\ st \in [Socket -> EndpointState] /\ installed \in [Socket -> BOOLEAN]
  /\ flow \in [Socket -> {"open", "shut", "wanted"}]
  /\ unnoticed \subseteq Socket

StreamType ==
  /\ inq \in [Socket -> Seq(1..MaxChunks)]
  /\ recvBuf \in [Socket -> Seq(0..MaxChunks)]
  /\ got \in [Socket -> Seq(0..MaxChunks)] /\ sent \in [Socket -> 0..MaxChunks]

CounterType ==
  /\ finished \in BOOLEAN /\ crashed \in BOOLEAN
  /\ nConnect \in 0..MaxConnects
  /\ nFlow \in 0..MaxFlow /\ nOther \in 0..MaxOther

TypeOK ==
  /\ CallerType /\ NotifierType /\ TableType /\ EndpointType /\ StreamType
  /\ CounterType

Init ==
  /\ pc = [c \in Callers |-> "idle"]
  /\ skt = [c \in Callers |-> NoSocket]
  /\ wset = [c \in Callers |-> {}]
  /\ cpc = [c \in Callers |-> "none"] /\ ccont = [c \in Callers |-> "none"]
  /\ npc = [o \in Socket |-> "idle"] /\ dataBuf = [o \in Socket |-> 0]
  /\ finished = FALSE /\ crashed = FALSE
  /\ openSockets = [f \in {} |-> NoSocket] /\ nSkt = 0 /\ id = [o \in Socket |-> 0]
  /\ recv_halt = [o \in Socket |-> FALSE]
  /\ send_halt = [o \in Socket |-> FALSE]
  /\ recvBuf = [o \in Socket |-> << >>]
  /\ st = [o \in Socket |-> "null"]
  /\ installed = [o \in Socket |-> FALSE]
  /\ ev = [o \in Socket |-> << >>]
  /\ flow = [o \in Socket |-> "open"]
  /\ inq = [o \in Socket |-> << >>]
  /\ sent = [o \in Socket |-> 0] /\ got = [o \in Socket |-> << >>]
  /\ nConnect = 0 /\ nFlow = 0 /\ nOther = 0 /\ unnoticed = {}

----------------------------------------------------------------------------
\* What a call of the Thread Manager or of Open Transport may answer.
Answers == {"noErr"} \cup Errors

\* A failure that the switch of ThrowOSErr() has no case for.
Unlisted(answer) == answer # "noErr" /\ answer \notin Known
Unnoticed(o, answer) ==
  unnoticed' = IF Unlisted(answer) THEN unnoticed \cup {o} ELSE unnoticed

\* Who is where, in a program that still runs.
At(c, where) == ~crashed /\ pc[c] = where
ThreadAt(c, where) == ~crashed /\ cpc[c] = where
NotifierAt(o, where) == ~crashed /\ npc[o] = where

\* An endpoint that can carry data from the peer, and one that can carry ours.
Readable(o) == st[o] \in {"data", "fin"}
Writable(o) == st[o] \in {"data", "fin"}

\* mac_error_throw() after its printf: whoever calls it disposes of the main
\* thread; `c`, when it is another thread, goes on at `next`.
DisposeMain(c, next) == pc' = [pc EXCEPT ![c] = next, ![Main] = "dead"]

\* Caller c starts an operation on the socket it knows as f.
Enter(c, f, op) ==
  /\ At(c, "idle") /\ f \in DOMAIN openSockets
  /\ pc' = [pc EXCEPT ![c] = op]
  /\ skt' = [skt EXCEPT ![c] = openSockets[f]]

\* ... and returns from it; its locals are gone.
Return(c) ==
  /\ pc' = [pc EXCEPT ![c] = "idle"]
  /\ skt' = [skt EXCEPT ![c] = NoSocket]
  /\ wset' = [wset EXCEPT ![c] = {}]

----------------------------------------------------------------------------
(* socket() *)

\* InitOpenTransport(), whose every error throws.  The new object has its number
\* from here on; nobody but its caller sees it before Insert.
SocketInit(c) ==
  /\ At(c, "idle") /\ nSkt < MaxSockets
  /\ nSkt' = nSkt + 1
  /\ skt' = [skt EXCEPT ![c] = nSkt + 1]
  /\ \E err \in Answers :
       pc' = [pc EXCEPT ![c] = IF err = "noErr" THEN "configure" ELSE "throwinit"]
  /\ UNCHANGED <<wset, thread, notif, finished, crashed, openSockets, id, halts,
                 endpoint, stream, counters, unnoticed>>

\* The switch over the type; a type it does not know leaves cfg NULL.
SocketConfigure(c) ==
  /\ At(c, "configure")
  /\ \E type \in Types :
       pc' = [pc EXCEPT ![c] = IF type \in {"SOCK_STREAM", "SOCK_DGRAM"}
                                THEN "open" ELSE "throwtype"]
  /\ UNCHANGED <<skt, wset, thread, notif, finished, crashed, table, halts,
                 endpoint, stream, counters, unnoticed>>

\* ThrowOSErr(OTEndpointStatus).  [mutant: the status is not looked at]
AfterOpenUnchecked(status) == "insert"
AfterOpen(status) == IF Throws(status) THEN "throw" ELSE "insert"

\* OTOpenEndpoint(), which without a configuration fails.
SocketOpen(c) ==
  /\ At(c, "open") \/ At(c, "opennull")
  /\ \E status \in IF pc[c] = "open" THEN Answers ELSE {"kOTBadConfigurationErr"} :
       /\ st' = [st EXCEPT ![skt[c]] = IF status = "noErr" THEN "unbound" ELSE "null"]
       /\ pc' = [pc EXCEPT ![c] = AfterOpen(status)]
       /\ Unnoticed(skt[c], status)
  /\ UNCHANGED <<skt, wset, thread, notif, finished, crashed, table, halts,
                 installed, ev, flow, stream, counters>>

\* Where socket() goes on after a throw.
AfterThrow ==
  [throwinit |-> "configure", throwtype |-> "opennull", throw |-> "insert"]

\* The printf of mac_error_throw yields before the main thread is disposed of;
\* another caller goes on with what it has, in the end with a NULL endpoint.
CallerThrow(c) ==
  /\ ~crashed /\ pc[c] \in DOMAIN AfterThrow
  /\ DisposeMain(c, AfterThrow[pc[c]])
  /\ UNCHANGED <<skt, wset, thread, notif, finished, crashed, table, halts,
                 endpoint, stream, counters, unnoticed>>

\* The key for a new socket.  [mutants: counted from one; the size is read when
\* the object is made, before the yields]
NewFdFromOne == Cardinality(DOMAIN openSockets) + 1
NewFdEarly == nSkt - 1
NewFd == Cardinality(DOMAIN openSockets)

\* unordered_map::insert: nothing happens when the key is there already.
OPEN_SOCKET_INSERT(f, o) ==
  openSockets' = [g \in DOMAIN openSockets \cup {f} |->
                    IF g \in DOMAIN openSockets THEN openSockets[g] ELSE o]

Insert(c) ==
  /\ At(c, "insert")
  /\ id' = [id EXCEPT ![skt[c]] = NewFd]
  /\ OPEN_SOCKET_INSERT(NewFd, skt[c])
  /\ Return(c)
  /\ UNCHANGED <<thread, notif, finished, crashed, nSkt, halts, endpoint, stream,
                 counters, unnoticed>>

----------------------------------------------------------------------------
(* connect() and connect_thread() *)

\* A program connects a socket once.  NewThread's result is not looked at.
Connect(c, f) ==
  /\ nConnect < MaxConnects
  /\ Enter(c, f, "connect")
  /\ st[openSockets[f]] \in {"null", "unbound"}
  /\ \A d \in Callers : cpc[d] = "none" \/ skt[d] # openSockets[f]
  /\ nConnect' = nConnect + 1
  /\ \E err \in Answers :
       cpc' = [cpc EXCEPT ![c] = IF err = "noErr" THEN Setup[1] ELSE "failed"]
  /\ UNCHANGED <<wset, ccont, notif, finished, crashed, table, halts, endpoint,
                 stream, nFlow, nOther, unnoticed>>

\* The wait for `finished` is over: dispose of the connect thread, return 0.
ConnectReturn(c) ==
  /\ At(c, "connect") /\ finished
  /\ Return(c)
  /\ cpc' = [cpc EXCEPT ![c] = "none"]
  /\ ccont' = [ccont EXCEPT ![c] = "none"]
  /\ UNCHANGED <<notif, finished, crashed, table, halts,
                 endpoint, stream, counters, unnoticed>>

\* What a call on an endpoint answers: an error too when the endpoint is null,
\* or in another state than the call needs.
Answered(o, states, answer) ==
  IF st[o] \in states THEN answer
  ELSE IF st[o] = "null" THEN "kOTBadReferenceErr" ELSE "kOTOutStateErr"

\* The states in which an endpoint takes a call of Setup.
Takes(call) == IF call = "bind" THEN {"unbound"} ELSE EndpointState \ {"null"}

\* The calls of Setup from the i-th on, as far as the first that throws, the
\* j-th, if one does (j = 7: none).  Of those before it, the ones in `quiet`
\* fail too, with a code that does not throw.
SetupRun(o, i, j, quiet) ==
  LET Goes(call, answer) == Answered(o, Takes(call), answer)
      done == {Setup[k] : k \in i..(j - 1)}
  IN /\ i <= j
     /\ j < 7 => \E a \in Answers : Throws(Goes(Setup[j], a))
     /\ \A call \in quiet : \E a \in Answers : Unlisted(Goes(call, a))
     /\ \A call \in done \ quiet : Goes(call, "noErr") = "noErr"
     /\ st' = [st EXCEPT ![o] = IF "bind" \in done \ quiet THEN "idle" ELSE @]
     /\ installed' = [installed EXCEPT ![o] = @ \/ "install" \in done \ quiet]
     /\ unnoticed' = IF quiet = {} THEN unnoticed ELSE unnoticed \cup {o}

\* connect_thread() up to a throw or its next yield.  Its parameters are on the
\* stack of connect(): gone when the thread of that was disposed of.
CtSetup(c) ==
  /\ ~crashed
  /\ \E i \in {k \in 1..6 : Setup[k] = cpc[c]}, j \in 1..7 :
       /\ \E quiet \in SUBSET {Setup[k] : k \in i..(j - 1)} :
            SetupRun(skt[c], i, j, quiet)
       /\ cpc' = [cpc EXCEPT ![c] = IF j = 7 THEN "issue" ELSE "throw"]
       /\ ccont' = [ccont EXCEPT ![c] = IF j = 7 THEN "none"
                                       ELSE IF j = 6 THEN "issue" ELSE Setup[j + 1]]
  /\ crashed' \in IF cpc[c] = Setup[1] /\ pc[c] = "dead" THEN BOOLEAN ELSE {FALSE}
  /\ UNCHANGED <<caller, notif, finished, table, halts, ev, flow, stream,
                 counters>>

\* finished = false; OTConnect(): no yield between the two.  kOTNoDataErr is how
\* an asynchronous OTConnect says that the request is out.
CtIssue(c) ==
  /\ ThreadAt(c, "issue")
  /\ finished' = FALSE
  /\ \E a \in Answers \cup {"kOTNoDataErr"} :
       LET answer == Answered(skt[c], {"idle"}, a)
           throws == answer # "kOTNoDataErr" /\ Throws(answer)
       IN /\ st' = [st EXCEPT ![skt[c]] =
                      IF answer \in {"noErr", "kOTNoDataErr"} THEN "outcon" ELSE @]
          /\ cpc' = [cpc EXCEPT ![c] = IF throws THEN "throw" ELSE "done"]
          /\ ccont' = [ccont EXCEPT ![c] = IF throws THEN "done" ELSE "none"]
          /\ Unnoticed(skt[c], answer)
  /\ UNCHANGED <<caller, notif, crashed, table, halts, installed, ev, flow,
                 stream, counters>>

CtThrow(c) ==
  /\ ThreadAt(c, "throw")
  /\ pc' = [pc EXCEPT ![Main] = "dead"]
  /\ cpc' = [cpc EXCEPT ![c] = ccont[c]]
  /\ ccont' = [ccont EXCEPT ![c] = "none"]
  /\ UNCHANGED <<skt, wset, notif, finished, crashed, table, halts,
                 endpoint, stream, counters, unnoticed>>

----------------------------------------------------------------------------
(* recv() *)

Recv(c, f) ==
  /\ Enter(c, f, "recv")
  /\ UNCHANGED <<wset, thread, notif, finished, crashed, table, halts, endpoint,
                 stream, counters, unnoticed>>

\* recv_halt after OTRcv: only ever lowered.  [mutant: raised to wait for data]
RecvHaltRaised(o, noData) == noData
RecvHalt(o, noData) == IF noData THEN recv_halt[o] ELSE FALSE

\* OTRcv: a chunk; or kOTNoDataErr, and the printf that yields; or an error
\* code, returned like a byte count.
RecvStep(c) ==
  LET o == skt[c]
      chunk  == Readable(o) /\ inq[o] # << >>
      noData == st[o] = "data" /\ inq[o] = << >>
  IN /\ At(c, "recv")
     /\ IF noData THEN pc' = [pc EXCEPT ![c] = "recvwait"] /\ UNCHANGED <<skt, wset>>
                  ELSE Return(c)
     /\ recv_halt' = [recv_halt EXCEPT ![o] = RecvHalt(o, noData)]
     /\ got' = [got EXCEPT ![o] = IF chunk THEN Append(@, Head(inq[o])) ELSE @]
     /\ inq' = [inq EXCEPT ![o] = IF chunk THEN Tail(@) ELSE @]
     /\ UNCHANGED <<thread, notif, finished, crashed, table, send_halt, recvBuf,
                    endpoint, sent, counters, unnoticed>>

\* After kOTNoDataErr: what the notifier left in recvBuf, or nothing.
RecvResume(c) ==
  LET o == skt[c]
  IN /\ At(c, "recvwait") /\ ~recv_halt[o]
     /\ Return(c)
     /\ got' = [got EXCEPT ![o] = @ \o recvBuf[o]]
     /\ recvBuf' = [recvBuf EXCEPT ![o] = << >>]
     /\ UNCHANGED <<thread, notif, finished, crashed, table, recv_halt, send_halt,
                    endpoint, inq, sent, counters, unnoticed>>

----------------------------------------------------------------------------
(* send() *)

Send(c, f) ==
  /\ Enter(c, f, "send")
  /\ UNCHANGED <<wset, thread, notif, finished, crashed, table, halts, endpoint,
                 stream, counters, unnoticed>>

\* send_halt after OTSnd.  [mutant: not lowered when the bytes were taken]
SendHaltLeft(o, nbytes, stopped) == send_halt[o] \/ nbytes > 0
SendHalt(o, nbytes, stopped) == IF nbytes = 0 THEN send_halt[o] ELSE stopped

\* No bytes: return.  Otherwise send_halt is raised around OTSnd, and stays up
\* when it answers kOTFlowErr.
SendStep(c) ==
  LET o == skt[c]
      stopped == Writable(o) /\ flow[o] # "open"
  IN /\ At(c, "send")
     /\ \E nbytes \in {0, 1} :
          LET halted == nbytes > 0 /\ stopped
          IN /\ IF halted
                  THEN pc' = [pc EXCEPT ![c] = "sendwait"] /\ UNCHANGED <<skt, wset>>
                  ELSE Return(c)
             /\ send_halt' = [send_halt EXCEPT ![o] = SendHalt(o, nbytes, stopped)]
             /\ flow' = [flow EXCEPT ![o] = IF halted THEN "wanted" ELSE @]
     /\ UNCHANGED <<thread, notif, finished, crashed, table, recv_halt, recvBuf,
                    st, installed, ev, stream, counters, unnoticed>>

SendResume(c) ==
  /\ At(c, "sendwait") /\ ~send_halt[skt[c]]
  /\ Return(c)
  /\ UNCHANGED <<thread, notif, finished, crashed, table, halts, endpoint, stream,
                 counters, unnoticed>>

----------------------------------------------------------------------------
(* select() *)

Select(c, f) ==
  /\ Enter(c, f, "select")
  /\ \E dirs \in SUBSET Dir \ {{}} : wset' = [wset EXCEPT ![c] = dirs]
  /\ UNCHANGED <<thread, notif, finished, crashed, table, halts, endpoint,
                 stream, counters, unnoticed>>

\* The key select() looks up: fds_bits[0] of the set it was given.
SelectKey(c) == Word0(id[skt[c]])

\* unordered_map::at throws when the key is missing.  main_func catches it, and
\* the main thread ends; in any other thread it ends the program.
SelectFails(c) ==
  /\ At(c, "select") /\ SelectKey(c) \notin DOMAIN openSockets
  /\ IF c = Main
       THEN pc' = [pc EXCEPT ![Main] = "dead"] /\ UNCHANGED crashed
       ELSE crashed' = TRUE /\ UNCHANGED pc
  /\ UNCHANGED <<skt, wset, thread, notif, finished, table, halts, endpoint,
                 stream, counters, unnoticed>>

\* Wait while recv_halt of the socket that was found, then while send_halt.
SelectStep(c) ==
  LET o == openSockets[SelectKey(c)]
  IN /\ At(c, "select") /\ SelectKey(c) \in DOMAIN openSockets
     /\ "read" \in wset[c] => ~recv_halt[o]
     /\ IF "write" \in wset[c] /\ send_halt[o]
          THEN wset' = [wset EXCEPT ![c] = {"write"}] /\ UNCHANGED <<pc, skt>>
          ELSE Return(c)
     /\ UNCHANGED <<thread, notif, finished, crashed, table, halts, endpoint,
                    stream, counters, unnoticed>>

----------------------------------------------------------------------------
(* notifier(): Open Transport hands it the events of a socket one by one *)

\* [mutant: `finished` is set before the notifier's first yield]
NotifierEnterEager(o) ==
  /\ NotifierAt(o, "idle") /\ ev[o] # << >>
  /\ npc' = [npc EXCEPT ![o] = "entered"]
  /\ finished' = TRUE
  /\ UNCHANGED <<caller, thread, dataBuf, crashed, table, halts, endpoint, stream,
                 counters, unnoticed>>

NotifierEnter(o) ==
  /\ NotifierAt(o, "idle") /\ ev[o] # << >>
  /\ npc' = [npc EXCEPT ![o] = "entered"]
  /\ UNCHANGED <<caller, thread, dataBuf, finished, crashed, table, halts,
                 endpoint, stream, counters, unnoticed>>

\* Every event ends the wait of connect().  [mutant: only T_CONNECT does]
SignalOnConnect(e) == finished' = (finished \/ e = "T_CONNECT")
Signal(e) == finished' = TRUE

\* The switch up to its next yield.  OTRcvConnect fills an uninitialised TCall,
\* so it may succeed, find its buffer too small (and take the connection), or
\* write anywhere; the reason of a disconnection is an integer that is printed
\* as a string, so the program may die there too.
NotifierSwitch(o) ==
  LET e == Head(ev[o])
      states == IF e = "T_CONNECT" THEN {"conind"} ELSE {"disind"}
  IN /\ ev' = [ev EXCEPT ![o] = Tail(@)]
     /\ \E a \in Answers \cup {"kOTBufferOverflowErr"} :
          LET answer == Answered(o, states, a)
              taken  == answer \in {"noErr", "kOTBufferOverflowErr"}
          IN /\ st' = [st EXCEPT ![o] = IF e = "T_CONNECT" /\ taken THEN "data"
                                        ELSE IF e = "T_DISCONNECT" /\ taken THEN "idle"
                                        ELSE @]
             /\ npc' = [npc EXCEPT ![o] =
                          IF e = "T_DATA" THEN "data"
                          ELSE IF e = "T_ORDREL" \/ (e = "T_CONNECT" /\ ~Throws(answer))
                          THEN "idle" ELSE "throw"]
             /\ Unnoticed(o, IF e = "T_CONNECT" THEN answer ELSE "noErr")
     /\ dataBuf' = [dataBuf EXCEPT ![o] = 0]
     /\ crashed' \in IF e \in {"T_CONNECT", "T_DISCONNECT"} THEN BOOLEAN ELSE {FALSE}

\* After the yield it starts with: `finished`, then ThrowOSErr(res) for the
\* result that came with the event, then the switch.
NotifierRun(o) ==
  /\ NotifierAt(o, "entered")
  /\ Signal(Head(ev[o]))
  /\ \/ /\ \E res \in Answers : ~Throws(res)
        /\ NotifierSwitch(o)
     \/ /\ \E res \in Answers : Throws(res)
        /\ npc' = [npc EXCEPT ![o] = "failing"]
        /\ UNCHANGED <<ev, st, dataBuf, crashed, unnoticed>>
  /\ UNCHANGED <<caller, thread, table, halts, installed, flow, stream,
                 counters>>

\* The throw for an error result is over, and the switch comes all the same.
NotifierFail(o) ==
  /\ NotifierAt(o, "failing")
  /\ npc' = [npc EXCEPT ![o] = "switch"]
  /\ pc' = [pc EXCEPT ![Main] = "dead"]
  /\ UNCHANGED <<skt, wset, thread, dataBuf, finished, crashed, table, halts,
                 endpoint, stream, counters, unnoticed>>

NotifierResume(o) ==
  /\ NotifierAt(o, "switch")
  /\ NotifierSwitch(o)
  /\ UNCHANGED <<caller, thread, finished, table, halts, installed, flow, stream,
                 counters>>

\* `if (s->recv_halt)`.  [mutant: the notifier drains in any case]
DrainsAlways(o) == TRUE
Drains(o) == recv_halt[o]

\* T_DATA after its printf.  When a recv() is halted, drain the endpoint, one
\* OTRcv between two yields: every chunk overwrites dataBuf, and what
\* is there when kOTNoDataErr comes goes to recvBuf.
NotifierData(o) ==
  /\ NotifierAt(o, "data")
  /\ IF ~Drains(o)
       THEN /\ npc' = [npc EXCEPT ![o] = "idle"]
            /\ UNCHANGED <<pc, dataBuf, recvBuf, inq>>
     ELSE IF Readable(o) /\ inq[o] # << >>
       THEN /\ dataBuf' = [dataBuf EXCEPT ![o] = Head(inq[o])]
            /\ inq' = [inq EXCEPT ![o] = Tail(@)]
            /\ UNCHANGED <<pc, npc, recvBuf>>
     ELSE IF st[o] = "data"
       THEN /\ recvBuf' = [recvBuf EXCEPT ![o] = Append(@, dataBuf[o])]
            /\ npc' = [npc EXCEPT ![o] = "idle"]
            /\ UNCHANGED <<pc, dataBuf, inq>>
     ELSE /\ pc' = [pc EXCEPT ![Main] = "dead"]
          /\ UNCHANGED <<npc, dataBuf, recvBuf, inq>>
  /\ UNCHANGED <<skt, wset, thread, finished, crashed, table, recv_halt,
                 send_halt, endpoint, sent, got, counters, unnoticed>>

NotifierThrow(o) ==
  /\ NotifierAt(o, "throw")
  /\ npc' = [npc EXCEPT ![o] = "idle"]
  /\ pc' = [pc EXCEPT ![Main] = "dead"]
  /\ UNCHANGED <<skt, wset, thread, dataBuf, finished, crashed, table,
                 halts, endpoint, stream, counters, unnoticed>>

----------------------------------------------------------------------------
(* Open Transport and the peer, as PowerNet uses them *)

\* An event for the notifier of o, if there is one.
Raise(o, e) == ev' = IF installed[o] THEN [ev EXCEPT ![o] = Append(@, e)] ELSE ev

Connected(o) ==
  /\ ~crashed /\ st[o] = "outcon"
  /\ st' = [st EXCEPT ![o] = "conind"]
  /\ Raise(o, "T_CONNECT")
  /\ UNCHANGED <<caller, thread, notif, finished, crashed, table, halts,
                 installed, flow, stream, counters, unnoticed>>

\* The peer refuses the connection, or breaks it later.
Disconnected(o) ==
  /\ MayRefuse /\ ~crashed /\ st[o] \in {"outcon", "data", "fin"}
  /\ st' = [st EXCEPT ![o] = "disind"]
  /\ Raise(o, "T_DISCONNECT")
  /\ UNCHANGED <<caller, thread, notif, finished, crashed, table, halts,
                 installed, flow, stream, counters, unnoticed>>

PeerClose(o) ==
  /\ ~crashed /\ st[o] = "data"
  /\ st' = [st EXCEPT ![o] = "fin"]
  /\ Raise(o, "T_ORDREL")
  /\ UNCHANGED <<caller, thread, notif, finished, crashed, table, halts,
                 installed, flow, stream, counters, unnoticed>>

\* T_DATA comes when data arrives at an empty endpoint.
PeerSend(o) ==
  /\ ~crashed /\ st[o] \in {"conind", "data"} /\ sent[o] < MaxChunks
  /\ sent' = [sent EXCEPT ![o] = @ + 1]
  /\ inq' = [inq EXCEPT ![o] = Append(@, sent[o] + 1)]
  /\ IF inq[o] = << >> THEN Raise(o, "T_DATA") ELSE UNCHANGED ev
  /\ UNCHANGED <<caller, thread, notif, finished, crashed, table, halts, st,
                 installed, flow, got, counters, unnoticed>>

FlowOff(o) ==
  /\ ~crashed /\ Writable(o) /\ flow[o] = "open" /\ nFlow < MaxFlow
  /\ flow' = [flow EXCEPT ![o] = "shut"]
  /\ nFlow' = nFlow + 1
  /\ UNCHANGED <<caller, thread, notif, finished, crashed, table, halts, st,
                 installed, ev, stream, nConnect, nOther, unnoticed>>

\* T_GODATA comes when some OTSnd was answered with kOTFlowErr.
FlowOn(o) ==
  /\ ~crashed /\ flow[o] # "open"
  /\ flow' = [flow EXCEPT ![o] = "open"]
  /\ IF flow[o] = "wanted" THEN Raise(o, "T_GODATA") ELSE UNCHANGED ev
  /\ UNCHANGED <<caller, thread, notif, finished, crashed, table, halts, st,
                 installed, stream, counters, unnoticed>>

\* Any other event: the provider closes, memory is released, ...
Other(o) ==
  /\ ~crashed /\ installed[o] /\ nOther < MaxOther
  /\ Raise(o, "other")
  /\ nOther' = nOther + 1
  /\ UNCHANGED <<caller, thread, notif, finished, crashed, table, halts, st,
                 installed, flow, stream, nConnect, nFlow, unnoticed>>

----------------------------------------------------------------------------
\* A caller starts an operation.
Call(c) ==
  \/ SocketInit(c)
  \/ \E f \in DOMAIN openSockets :
       Connect(c, f) \/ Recv(c, f) \/ Send(c, f) \/ Select(c, f)

\* A caller goes on with one.
CallerStep(c) ==
  \/ SocketConfigure(c) \/ SocketOpen(c) \/ CallerThrow(c) \/ Insert(c)
  \/ ConnectReturn(c)
  \/ RecvStep(c) \/ RecvResume(c) \/ SendStep(c) \/ SendResume(c)
  \/ SelectFails(c) \/ SelectStep(c)

ThreadStep(c) == CtSetup(c) \/ CtIssue(c) \/ CtThrow(c)

NotifierStep(o) ==
  \/ NotifierEnter(o) \/ NotifierRun(o) \/ NotifierFail(o) \/ NotifierResume(o)
  \/ NotifierData(o) \/ NotifierThrow(o)

\* Open Transport's duties: a connection request gets an answer, and a peer
\* that is alive takes what was sent to it.
Duty(o) == Connected(o) \/ FlowOn(o)

Peer(o) ==
  Disconnected(o) \/ PeerClose(o) \/ PeerSend(o) \/ FlowOff(o) \/ Other(o)

Next ==
  \/ \E c \in Callers : Call(c) \/ CallerStep(c) \/ ThreadStep(c)
  \/ \E o \in Socket : NotifierStep(o) \/ Duty(o) \/ Peer(o)

Spec == Init /\ [][Next]_vars

\* The Thread Manager runs every ready thread in turn, and Open Transport
\* delivers the events it has; nobody has to call anything.
Fairness ==
  /\ \A c \in Callers : /\ WF_vars(CallerStep(c))
                        /\ WF_vars(ThreadStep(c))
  /\ \A o \in Socket : /\ WF_vars(NotifierStep(o))
                       /\ WF_vars(Connected(o))
                       /\ WF_vars(FlowOn(o))

FairSpec == Spec /\ Fairness

----------------------------------------------------------------------------
MainAlive == pc[Main] # "dead"

\* A descriptor names the socket that socket() returned it for, whatever other
\* threads open sockets meanwhile: openSockets and the id fields are inverses
\* (socket.cpp:41-43 computes the key from the size of the table).
FdsIdentifySockets ==
  /\ \A o \in 1..nSkt :
       \/ \E c \in Callers : skt[c] = o /\ pc[c] \in InSocket \cup {"dead"}
       \/ id[o] \in DOMAIN openSockets /\ openSockets[id[o]] = o
  /\ \A f \in DOMAIN openSockets : id[openSockets[f]] = f

\* A call that failed goes on after mac_error_throw when another thread made
\* it, but not with the main thread alive: as long as that runs, a descriptor
\* has an endpoint and a connecting endpoint has its notifier, but for the
\* sockets whose failure had a code that the switch of ThrowOSErr() lets pass
\* (internal.cpp:8-471, 478-493, socket.cpp:34-43, connect.cpp:74-101).
UsableOrStopped ==
  MainAlive =>
    /\ \A f \in DOMAIN openSockets :
         st[openSockets[f]] # "null" \/ openSockets[f] \in unnoticed
    /\ \A o \in Socket :
         st[o] \in {"null", "unbound", "idle"} \/ installed[o] \/ o \in unnoticed

\* send_halt is up only on behalf of a send() that waits: no call leaves it up
\* when it returns (send.cpp:21-34), unless its thread was disposed of.
HaltHasWaiter ==
  \A o \in Socket : send_halt[o] =>
    \E c \in Callers : skt[c] = o /\ pc[c] \in {"sendwait", "dead"}

\* No chunk of the peer is lost, duplicated or reordered on its way through
\* the endpoint, recvBuf and recv() (recv.cpp:19-38, connect.cpp:144-194).
StreamIntact ==
  \A o \in Socket : got[o] \o recvBuf[o] \o inq[o] = [i \in 1..sent[o] |-> i]

\* Seen from the peer and the callers of recv(), a socket is a ByteStream:
\* receiving is one step, however many events, halts and calls it takes
\* (recv.cpp:10-48, connect.cpp:144-194).
Stream == INSTANCE ByteStream

ImplementsStream == Stream!Spec

\* As long as one connect() is all the program did, and no event but those of
\* the connection came, connect() returns no earlier than Open Transport's answer
\* to its OTConnect.  It may return before the connection is taken only while the
\* notifier reports a failure, after that has stopped the main thread, or when
\* OTRcvConnect failed with a code that passes (connect.cpp:48-55, 94-112, 140).
ConnectReturnsSettled ==
  [][\A c \in Callers :
       pc[c] = "connect" /\ pc'[c] = "idle" /\ nConnect <= 1 /\ nOther = 0 =>
         /\ cpc[c] = "done" /\ st[skt[c]] # "outcon"
         /\ st[skt[c]] = "conind" =>
              \/ npc[skt[c]] \in {"failing", "throw"}
              \/ ~MainAlive \/ skt[c] \in unnoticed]_vars

\* ... and it does not wait for nothing, if it got its thread, the program goes
\* on and no failure passed ThrowOSErr(): until `finished` is set, that thread is
\* still at work, or the request is out and has a notifier, or an event for that
\* notifier is there (connect.cpp:45-55, 74-101).
AnswerComes ==
  \A c \in Callers :
    /\ ~crashed /\ MainAlive /\ nConnect <= 1
    /\ pc[c] = "connect" /\ cpc[c] # "failed" /\ ~finished
    /\ skt[c] \notin unnoticed
    => \/ cpc[c] \in {Setup[1], "issue", "throw"}
       \/ st[skt[c]] = "outcon" /\ installed[skt[c]]
       \/ ev[skt[c]] # << >>

\* connect() returns, or the program stops: the answer of Open Transport sets
\* `finished` after connect_thread cleared it (connect.cpp:48, 94, 111).
ConnectReturns ==
  \A c \in Callers : pc[c] = "connect" ~> pc[c] # "connect" \/ crashed

\* recv() returns even when no data ever comes (recv.cpp:18-46).
RecvReturns ==
  \A c \in Callers : pc[c] = "recv" ~> pc[c] \notin {"recv", "recvwait"} \/ crashed
=============================================================================
