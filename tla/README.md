# PowerBoot: a verification development

PowerBoot is a program for classic Mac OS that opens an SFTP session and lists
a directory. It brings its own socket library, PowerNet, which implements
`socket`, `connect`, `recv`, `send` and `select` over Open Transport, and a
console window. Everything runs in one process on *cooperative* threads, with
no lock anywhere: a thread runs until it calls `YieldToAnyThread()`, or prints
(every `printf` ends in `_consolewrite`, printf.cpp:7-22, which yields). What is
hard in this program is therefore what may happen between two yields, and what
a wait loop (`while (flag) YieldToAnyThread();`) waits for.

Paths: `src/PowerNet/...` is the library, `src/src/...` the program. File names
without a directory are unique in the repository.

## Inventory

| Component | State | Operations | Interacts with |
|---|---|---|---|
| PowerNet sockets (`PowerNet/src/socket`) | `openSockets` (descriptor -> `Socket*`), the flag `finished`, and in each `Socket`: `id`, `endpoint`, `recv_halt`, `send_halt`, `recvBuf` | `socket`, `connect` and its connect thread, `recv`, `send`, `select`, the notifier | called by the threads of the program; Open Transport calls the notifier; throws end the main thread |
| PowerNet errors (`internal.cpp`) | none | `mac_error_throw`, `ThrowOSErr` | disposes of the main thread, whoever calls it |
| Descriptor sets (`sys/select.h`) | the `fd_set` of the caller | `FD_ZERO`, `FD_SET` | read by `select` |
| Addresses (`netinet.cpp`, `inet.cpp`) | none | `inet_addr`, `htons`, ... | the read thread |
| SFTP session (`connection.cpp`, `readthread.cpp`, `sftp.cpp`) | `read_thread_state`, `read_thread_command`, `sock`, `session`, `userauthlist`, `sftp_pointer`, `channel` | `SFTP()`, `connect`, `read_thread`, `wait`, `error_msg` | the main thread waits for the read thread; both use libssh2 and `select` |
| SFTP files (`file.cpp`) | the handles, `rc` | `openfile`, `opendir`, `next`, `read`, `write`, `stat`, ... | libssh2; `wait` |
| Main program (`main.cpp`) | `main_thread_id` | `main`, `main_func` | all of the above |
| Transfer interface (`transfer.hpp`) | none (abstract classes, the records `File` and `ConnectionOptions`) | what `SFTP`, its handles and attributes implement | the main program calls it |
| Console (`printf.cpp`, `console.cpp`) | `lineBuffer`, the window | `_consolewrite`, `ScreenDraw`, `MacMain` | every thread that prints; the event loop is what lets the others run |
| Fatal errors (`error.cpp`) | none | `error_throw`, `read_error_throw` | dispose of the main thread, of the read thread |

The behaviours that are hard, and the properties that make each component
correct:

- **Sockets.** Two threads open sockets at once: descriptors must keep naming
  their sockets, although the key is the size of the table, computed after four
  yields. A call of Open Transport fails: `mac_error_throw` stops the main
  thread and *returns* to any other thread, which goes on; nothing half made
  may be used by a main thread that still runs. The switch that decides what
  stops it has no default, so a failure with a code it does not list passes as
  success; that must be the only gap. One flag, `finished`, carries
  the end of every `connect()`. Two ways lead from the endpoint to `recv()`: a
  direct `OTRcv`, and the notifier's drain through `recvBuf`; no byte may be
  lost, doubled or reordered. `send_halt` is raised around every `OTSnd`.
- **Session.** The main thread polls a state that a thread which may be
  disposed of sets; libssh2 is not reentrant; a non-blocking session answers
  `EAGAIN` everywhere; a wait must be for the right direction.
- **Files.** Every operation is a loop that repeats a request until it is
  answered: it must take effect once, and end when the connection is lost.
  `read()` makes two requests, for the size and for the bytes, and the file may
  change between them. Attributes are translated field by field, twice.
- **Console.** `lineBuffer` is shared by all who print, and cut while they do; a
  write asks for no update, and the event loop yields only after an event: that a line is ever seen, and that any other thread ever runs,
  rests on each drawing invalidating what it drew. Drawings are clipped, and the
  user moves and resizes the window between them.
- **Addresses.** Missing parts, parts above 255, wrap-around.

`PROJECT.json` lists every hazard at its line.

## Modules

| Module | Stands for |
|---|---|
| `FdSet` | the one word of an `fd_set` that `select()` reads |
| `Sockets` | PowerNet's sockets, errors and notifier, with Open Transport and the peer as the environment; its properties |
| `OTErrors` | which error codes `ThrowOSErr` throws on |
| `ByteStream` | what a connection promises its reader; `Sockets` implements it |
| `MCSockets` | `Sockets` for TLC, and the claims of the repository the code does not keep |
| `SocketsProof` | the theorems about the table, the endpoints and the stream of `Sockets`, and their proofs |
| `SocketsWaitProof` | the theorems about what `connect()`, `recv()` and `send()` wait for, and their proofs |
| `Session` | the SFTP session: the main thread and the read thread, with libssh2 and the network as the environment; its properties |
| `MCSession` | `Session` for TLC, and two claims of readthread.cpp the code does not keep |
| `Listing` | what the program promises its user; `Session` implements it |
| `SessionProof` | the theorems about `Session` and their proofs |
| `InetAddr` | `inet_addr()`: the loop over the parts of an address, its early returns and its 32-bit arithmetic; its properties |
| `MCInetAddr` | `InetAddr` for TLC: the fields texts are made of, and a claim of netinet.cpp the code does not keep |
| `InetAddrProof` | the theorems about `InetAddr` and their proofs |
| `Remote` | the SFTP server: names, one open file, its attributes, and what each request does there |
| `RemoteFile` | what a caller of the transfer protocol's operations may rely on: an operation takes effect once, between its call and its return |
| `SftpFile` | the operations of `file.cpp` on paths, attributes and a file, over libssh2 that answers `EAGAIN`; its properties; it implements `RemoteFile` |
| `MCSftpFile` | `SftpFile` for TLC: the attributes callers pass |
| `SftpFileProof` | the theorems about `SftpFile` and their proofs |
| `Console` | `lineBuffer`, the window and the event loop, the threads as the Thread Manager's queue; its properties |
| `MCConsole` | `Console` for TLC |
| `ConsoleProof` | the theorems about `Console` and their proofs |

`SftpFile` EXTENDS `Remote`, and so does `RemoteFile`, which `SftpFile`
instantiates (`Promise`); `Sockets` EXTENDS `FdSet` and `OTErrors` and
instantiates `ByteStream` (`Stream`); `Session` instantiates `Listing` (`User`).

`Session` uses PowerNet through two facts that `Sockets` gives: a call yields
and may dispose of the main thread (`Disposed`), and `select()` looks up
`Word0` of the descriptor, which is never the key of the session's socket. So
`wait()` returns at once or throws, and never waits.

### How `Sockets` corresponds to the code

Actors and where they are:

- a *caller* `c` is a thread that calls PowerNet (`pc[c]`); `skt[c]` is the
  local `Socket *`, `wset[c]` the sets a `select()` was given;
- the *connect thread* of a caller (`cpc[c]`): `connect()` makes one and waits
  for it. It lives on when its caller was disposed of;
- the *notifier* of a socket (`npc[o]`): Open Transport hands it the events in
  `ev[o]` one at a time. It yields, so others run in the middle of it.

An action is the code between two yields. Where a thread yields several times
while it touches nothing but its own locals (in `socket()` around `new Socket()`
and `OTUseSyncIdleEvents`, in `connect_thread` around `OTInitInetAddress`) the
steps are fused; the
places where shared state is read or written keep their own action. Each
"throw" state is the yield inside the `printf` of `mac_error_throw`, between
the failure and the disposal of the main thread: another thread may run there.

| Code | Actions |
|---|---|
| `socket()` | `SocketInit`, `SocketConfigure`, `SocketOpen`, `CallerThrow`, `Insert` |
| `connect()` | `Connect`, `ConnectReturn` |
| `connect_thread()` | `CtSetup`, `CtIssue`, `CtThrow` |
| `recv()` | `Recv`, `RecvStep`, `RecvResume` |
| `send()` | `Send`, `SendStep`, `SendResume` |
| `select()` | `Select`, `SelectStep`, `SelectFails` |
| `notifier()` | `NotifierEnter`, `NotifierRun`, `NotifierFail`, `NotifierResume`, `NotifierData`, `NotifierThrow`; `NotifierSwitch` is the switch, in the two that reach it |
| Open Transport, the peer | `Connected`, `Disconnected`, `PeerClose`, `PeerSend`, `FlowOff`, `FlowOn`, `Other` |

Data is abstracted: a chunk of bytes is its number, an error code its name, of
which `OTErrors` says whether `ThrowOSErr` throws on it, and a message is
nothing. Undefined behaviour is a
choice: the parameters of a connect thread whose caller was disposed of, the
uninitialised `TCall` of `OTRcvConnect`, and the integer printed with `%s` may
each end the program (`crashed`). `halting` is never read and `sendBuf` never
filled, so neither is a variable. `new Socket()` zeroes the object, which is
why the halts start low.

**What may fail.** `Errors` are the codes with which calls fail of themselves,
any codes, listed in the switch of `ThrowOSErr` or not; a call on an endpoint
that is missing or in the wrong state fails with its own (`Answered`). In this
way fail: `NewThread`, `InitOpenTransport`, `OTOpenEndpoint`, the six calls that
prepare an endpoint (`Setup`: `OTSetBlocking` to `OTInstallNotifier`),
`OTConnect`, `OTRcvConnect`, `OTRcvDisconnect`, `OTRcv` by its answers in
`RecvStep`, `OTSnd` with `kOTFlowErr`, and the event itself (`res`, for which
`NotifierRun` throws before the switch). An unknown type leaves `socket()`
without a configuration. Not failing: `OTUseSyncIdleEvents`, `OTCountDataBytes` and
`OTInetAddressToName`, whose results the code does not look at, and
`OTCreateConfiguration` for the two types it knows. `CtSetup` goes from one throw
to the next: a throw yields, so it is a step of its own, and between two throws
`quiet` are the calls that fail with an unlisted code and pass. `unnoticed` is
history: the sockets to which that happened, in any of these calls. The mode of
an endpoint is left out: it would matter only where the calls that set it failed
so that it stays blocking or synchronous.

What the environment may do is what Open Transport's endpoint states allow:
`st` goes `null`/`unbound`, `idle` (bound), `outcon`, `conind` (answer there,
not yet taken), `data`, `fin` (the peer closed), `disind` (disconnection not
yet taken). `T_DATA` is raised when data reaches an empty endpoint, `T_GODATA`
when a stopped flow opens again. A program connects a socket once.

### How `Session` corresponds to the code

`mpc` is where the main thread is in `main_func`, from `new SFTP()` to
`dir->close()`; `rpc` is where the read thread is in `SFTP::read_thread`. A
libssh2 call sends and receives, so it yields inside: while a thread's place is
the name of a call it is inside libssh2, and the call's action is the answer
together with everything the code does until it yields again, the call of
`wait()` included. The answers are "ok", "again" (`LIBSSH2_ERROR_EAGAIN`) and
"error"; on a lost connection only "error".

| Code | Actions |
|---|---|
| `SFTP()`, `SFTP::connect` | `MainNew`, `MainConnected` |
| `opendir`, `next`, `stat`, `close` as `main_func` calls them | `Opendir`, `DirNext`, `Stat`, `Close`; `MainAgain` and `MainError` are the loop of `RC_ERR_HANDLE` and of `opendir` |
| `error_throw`, `read_error_throw` | `MainThrow`, `RtThrow` |
| `read_thread` | `RtStart`, `RtSocket`, `RtConnect`, `RtHandshake`, `RtAuthlist`, `RtMethods`, `RtPublickey`, `RtPassword`, `RtInit`, `RtChannel` |
| `mac_error_throw` of another thread | `Disposed` |
| the network | `Lose` |

`new SFTP()` leaves `userauthlist`, `sftp_pointer` and `channel` uninitialised:
they start as null or garbage. Garbage in `userauthlist` skips the loop that
asks for the methods, and what is printed and searched is then garbage: any
outcome, or the end of the program. `dir` in `wait()` is uninitialised as well,
so `select()` is called for any direction or none; an exception it throws ends
`main_func` ("caught"), and ends the program when it leaves the read thread.
Every method but "publickey" and "password" is none. The body of the reading
loop is left out because its test fails whenever it is reached.

`User` maps this to `Listing`: the lines printed are what is shown, "done" is
the complete listing, and an exception, the disposal of the main thread and the
end of the program are its failure.

### How `SftpFile` corresponds to the code

One thread calls one operation after the other, in any order; `call` is the
operation with its arguments and `at` where the thread is. A state is the loop of
`RC_ERR_HANDLE` (or of `openfile`) between two calls of libssh2. `req` is what
libssh2 has of the request: not sent, sent, answered; the answer is in `reply`.
`off` and `open` are the handle. `asked` and `touched` are history: what
`setstat` was last asked for, and whether others changed the file meanwhile.

| Code | Actions |
|---|---|
| any operation is called | `Invoke`; `seek`, `rewind` are `Seek`, which sends nothing; `tell` gives `off` |
| `LIBSSH2_ERROR_EAGAIN` and `wait()` | `Wait`, which may throw ("caught") because `select()` does |
| the first half of `read()` | `Sized` |
| an operation returns | `Return`; what it returns is `Returned` |
| `rc < 0`, `error_msg`, `error_throw` | `Fail`, `Throw` |
| libssh2 and the server | `Serve`, which may refuse anything, also after the caller has gone; `ChangedElsewhere`, `Lose` |

A read gives a beginning of what there is, at most a packet; a write takes a
beginning of the buffer, all of it when a packet can carry it. `lstat` differs
from `stat` in the path's last link only, and `SFTP`'s operations on attributes
from the handle's in how the file is named; each pair is one operation here. The
methods of `FileHandle` are private in the base class, so only a caller that has
an `SFTPFileHandle` can use them: the model is of such a caller, as the program
itself lists a directory only.

`Promise` maps this to `RemoteFile`: the effect is taken when the request is
answered, but not by `read()`'s first one.

### How `Console` corresponds to the code

`ready` is the Thread Manager's queue, the running thread first: cooperative
threads of one priority take turns. An action is what the running thread does
up to its yield; only `Setup` and `Idle` do not yield. A line is its number and
whether it holds an escape character; the window, its update region and the
screen are counted in rows.

| Code | Actions |
|---|---|
| `main()` up to `MacMain` | `LaunchMain` |
| `console_setup`, the first drawing | `Setup` |
| the event loop | `Update` (an update event), `Idle` (no event), `OtherEvent`, `Drag`, `Grow`, `Quit` |
| `ScreenDraw` between `BeginUpdate` and `EndUpdate` | the operator `ScreenDraw`, in all of those that draw |
| `_consolewrite` | `ConsoleWrite`, in `Write` and in `LaunchMain` |
| the other threads | `Write`, `Yield`, `NewThread`, `Finish` |

The Toolbox is modelled as it is documented: `BeginUpdate` clips the drawing to
the update region and empties it, `InvalRect` fills it, `GetNextEvent` gives an
update event while it is not empty, and `SizeWindow(..., false)` adds nothing to
it. One write is taken to be one line, ending in a newline, as the program's
are. At an escape character `ScreenDraw` calls `erase(begin())` on an
empty string, which is undefined and overruns memory: the program dies
there. So the `printf` inside the walk and `handleColorCode` are never reached,
and a drawing leaves the buffer as it is.

### How `InetAddr` corresponds to the code

A state is the function between two passes of its loop: `i` and `parts` are its
variables, and `text` the fields of the string, what stands between the dots.
`NextPart` is a pass, `Reject` the early returns, `Finish` the lines after the
loop. A field is its base, the digits after the prefix that says so, and whether
a character follows that is no digit in any base. When the string ends the
loop goes on, at an empty field. An `unsigned long` is a pair of 16-bit
halves, so that TLC's own integers do not overflow, and `|` is spelled out bit
by bit (`Or`). `Spelling` says which fields there are: a letter is a digit only
after `0x`, and a field that starts with `0` is not decimal.

## Runs

| Run | Question | Outcome |
|---|---|---|
| `Sockets_stream` | types; the stream stays intact, and a connection is a `ByteStream`; a raised `send_halt` has a waiter; `connect()` returns no earlier than Open Transport's answer, and does not wait without one under way (`AnswerComes`); `connect()` and `recv()` return | holds |
| `Sockets_failures` | while calls and events fail, with a code `ThrowOSErr` knows or one it does not: descriptors name their sockets; no half-made socket meets a running main thread, but for the failures that pass unnoticed; `connect()` neither waits for nothing nor returns before the answer | holds |
| `Sockets_connect` | `connect()` returns 0 only when connected | violated: `finished` is shared by all connections |
| `Sockets_select` | `select()` waits for the socket it is given | violated: it looks up a word of bits |
| `Sockets_send` | `send()` returns | violated: after `kOTFlowErr` nothing lowers `send_halt` |
| `Session_listing` | libssh2 is entered by one thread at a time; what the threads hand over is there; the listing is exact, and the program a `Listing` for its user; the waits of the session end | holds |
| `Session_reading` | the read thread reads until failure, EXIT or EOF | violated: its loop never runs |
| `Session_methods` | a failure to get the methods is reported | violated: the loop before the report never ends |
| `SftpFile_files` | types; reads and writes are true to the file; attributes survive the round trip; an operation takes effect once, between call and return; and it ends | holds |
| `Console_running` | types; the buffer holds the last lines; the screen never mixes times; an update is always due while the window has an area (`UpdateDue`); ready threads get their turn; lines are shown | holds |
| `InetAddr_read` | a dotted quad is read as its four bytes, and what is malformed is rejected | holds |
| `InetAddr_parts` | fewer than four parts are rejected | violated: that check cannot be reached |

**Bounds.** Two callers, the main thread and another, are all the program has,
and the two differ: only the main thread is what `mac_error_throw` disposes of.
`Sockets_failures` has two sockets, so that two `socket()` calls interleave and
two endpoints fail, refuse and raise events; sockets interact through
`openSockets`, `finished` and the main thread only, so a third adds no new kind
of step. `Sockets_stream` has one socket with two chunks: losing, doubling and
swapping two chunks are all possible, and one stop of the flow. `MaxOther`
bounds the provider events that only make the notifier throw. The sets of
states are complete: no constraint cuts them. `Sockets_failures` has two error
codes, one that the switch of `ThrowOSErr` lists and one that it does not, which
is all that the code tells apart beside `kOTNoDataErr` and the codes of calls
in the wrong state, which come with the states. Callers there ask for a stream and
for a type `socket()` does not know, one of them connects, and its peer may
refuse. `Session` has one bound, the number of entries;
with three of them a listing can skip, repeat or swap entries.
`SftpFile` has two names, which `rename` needs; files and buffers of up to two
bytes and packets of one, so that a read and a write can be short and others can
grow a file past the buffer; one kind of byte beside the hole; and two sets of
attributes, in which every field has a value of its own and one leaves fields
out. Others change the file once per call, and the connection is lost once.
`Console` keeps three lines of five, so the buffer is cut twice, in a window of
up to three rows, which can shrink below the buffer; there are the two threads
the program makes beside the application's own.
`InetAddr` takes every text of up to five fields (one dot too many) out of eight:
empty, small and too large parts, the three bases, a digit too high for its
base, more than 32 bits, and junk.

**Fairness** (`FairSpec`). The Thread Manager switches between ready threads in
turn, so the steps of a started call, a connect thread and a notifier are weakly
fair. Open Transport answers a connection request (with `Connected` or
`Disconnected`) and a live peer empties its buffer (`FlowOn`). Nobody is obliged to start a
call, to send, or to close. The liveness properties are about OT calls that
succeed (`Errors = {}`): when `NewThread` fails `connect()` waits for an
event that cannot come, which is listed as a hazard. They allow the outcome
`crashed`.

In `Session` both threads are weakly fair, without the promise that undefined
behaviour helps: the fairness is that of the steps in which `wait()` does not
throw. A retry after `EAGAIN` that changes nothing is a stuttering step, so
fairness includes that libssh2 does not answer `EAGAIN` for ever on a live
connection; it promises nothing about errors, and nothing on a lost one.
`ConnectEnds` names the ways in which `SFTP::connect` can wait for ever: no
read thread, a read thread that failed, and one that keeps asking for methods.
The second is a hazard that it leaves open: nobody tells `SFTP::connect` of the
failure.
`RtConnect` always ends, as `ConnectReturns` shows for PowerNet's `connect()`
when `NewThread` succeeds.

In `SftpFile` the caller's thread and the server are weakly fair: a request that
is out is answered, unless the connection is lost, and then the next repetition
fails. Nothing is promised about refusals, nor that the undefined `dir` makes
`wait()` throw, so the fairness is that of the steps that do not.

In `Console` whatever runs goes on to its next yield (`WF(System)`). The user is
not obliged to do anything, and stops now and then: an update event that is due
again and again is handled at some time (`SF(Update)`), though events of the user
go first. `ThreadsRun` and `LinesShown` end where the program does, and
`ThreadsRun` where the user has shrunk the window to nothing, which stops the
event loop until the next event (a hazard of its own).

## Theorems

`SocketsProof` proves, for any set of callers, any bounds (at most 30 sockets,
which keeps descriptors below the top bit of a word) and any set of error codes,
listed or not:

| Theorem | States |
|---|---|
| `TypeCorrect` | `Spec => []TypeOK` |
| `FdsCorrect` | `Spec => []FdsIdentifySockets` |
| `UsableCorrect` | `Spec => []UsableOrStopped` |
| `HaltCorrect` | `Spec => []HaltHasWaiter` |
| `StreamCorrect` | `Spec => []StreamIntact` |
| `StreamImplemented` | `Spec => ImplementsStream` |
| `SelectLooksElsewhere` | the key `select()` looks up is never its descriptor |

The arguments:

- `FdsIdentifySockets` is not inductive: that `NewFd`, the size of the table, is
  a fresh key needs the keys to be exactly `0..size-1` (`Dense`), the table and
  the `id` fields to be inverses (`Inverses`), two threads never to register one
  object (`Apart`), and every object made to be in the table or in the hands of
  its maker (`Accounted`). Their conjunction is `TableInv`.
- `UsableOrStopped` rests on `ThreadsApart` (an object has one connect thread)
  and `UsableInv`: where a failed call leaves a thread in its "throw" state, the
  endpoint or the notifier is missing *and* the main thread dies before that
  thread takes another step; so no intermediate state is used by a main thread
  that runs. A call that fails and does not throw had a code the switch does not
  list (`NoErrorPasses`), and its socket is in `unnoticed`: the exception is as
  narrow as the gap in the code. Without it the property is false.
- `StreamIntact` holds because `recv_halt` is never raised: the drain of the
  notifier is dead code, `recvBuf` stays empty, and the endpoint is the one
  queue (`StreamInv`). The mutant that drains in any case shows what would be
  lost.
- `StreamImplemented` maps every step (`StreamMaps`): a `RecvStep` that takes a
  chunk is `Receive` because `StreamInv` says which chunk is at the head of the
  endpoint; a `PeerSend` is `Send`; everything else leaves both as they are.
- `HaltHasWaiter` is inductive together with the types.

`SocketsWaitProof` proves what the waits wait for, for any set of callers, any
bounds and any set of error codes:

| Theorem | States |
|---|---|
| `SettledCorrect` | `Spec => ConnectReturnsSettled` |
| `AnswerCorrect` | `Spec => []AnswerComes` |
| `RecvNeverHalted` | `recv_halt` is never up, `recvBuf` never filled |
| `SendWokenBySend` | a waiting `send()` is woken by another thread's `send()` to its socket only |

- Both properties speak of a run up to its second `connect()` (`nConnect <= 1`),
  the first also up to an event that is not the connection's (`nOther = 0`). The
  program does no more, and no more is true: with two connections the one
  flag `finished` ends the wrong `connect()`, which is what `Sockets_connect`
  shows, and an event other than the answer sets it just as well. No constant is
  restricted. What no step takes back (`NothingTakenBack`) is why the condition
  can be a premise of the invariants (`Settling`, `Answering`).
- `SettledInv` follows the one request: until it is out, nothing has happened at
  any endpoint (`BeforeIssue`); then one endpoint has no event before the answer,
  the answer is its first event, and when `finished` is up the answer was taken,
  or its failure is being reported, has stopped the main thread or has passed
  unnoticed (`Excused`).
- `AnswerInv` says that while the main thread lives the one connect thread, once
  it is through, leaves `finished` up or an endpoint that is `Underway`: the
  request is out and a notifier is installed, or an event is there. It uses
  `UsableInv` and `ThreadsApart`: a request without a notifier would never be
  noticed, but then the main thread dies, or the failure has passed unnoticed.
  `Disposed` says that the main thread is gone when the notifier comes back from
  its throw for an error result.
- `RecvNeverHalted` and `SendWokenBySend` are the reasons why `RecvReturns`
  holds and `SendReturns` does not.

`SessionProof` proves about `Session`, for a directory of any size:

| Theorem | States |
|---|---|
| `SessionTypeCorrect` | `Spec => []TypeOK` |
| `ExclusiveCorrect` | `Spec => []SessionExclusive` |
| `HandoverCorrect` | `Spec => []Handover` |
| `ListingCorrect` | `Spec => []ListingExact` |
| `ListingImplemented` | `Spec => ImplementsListing` |
| `ListingShortens` | a listing gets nearer to its end with every answer |
| `ConnectShortens` | while `connect()` waits, the read thread goes from stage to stage, but for the three calls it repeats |

- `HandoverInv` says when the state is Open: exactly when the read thread is
  through with libssh2 (`Through`); that the main thread is inside libssh2, or
  was disposed of inside, only then; and that the read thread starts only while
  the main thread waits. Neither `SessionExclusive` nor `Handover` is inductive
  without it.
- `ListingInv` ties what was printed to what libssh2 gave: they are equal but
  for the entry `stat()` is busy with. `TypeOK` needs it too, for the length.
- `ListingImplemented` maps every step (`ListingMaps`): a `Stat` that is answered
  is `Show`, because `ListingInv` says which entry it is; a `Close` is `Complete`,
  because then all were read; whatever ends the main thread is `Fail`.

`SftpFileProof` proves about `SftpFile`, for any names, bytes, packets, lengths
and attributes:

| Theorem | States |
|---|---|
| `SftpTypeCorrect` | `Spec => []TypeOK` |
| `TransfersCorrect` | `Spec => TransfersTrue` |
| `AttributesCorrect` | `Spec => AttributesRoundTrip` |
| `PromiseKept` | `Spec => KeepsPromise` |
| `OperationShortens` | an operation gets nearer to its end with every step and every answer |

- The first lemmas say what `Portion` and `Overwritten` give; `WrittenIsRead`
  ties them together: what was written at an offset is what is read there.
- `ReadInv` holds between the answer and the return: the size is that of this
  call (`SizeKept`), and as long as nobody else touched the file the size, the
  bytes and what was written are those of the file (`TransferInv`). `AttrInv`
  says that the attributes are those asked for, but for a `setstat` that was
  served and has not returned yet. `IInv` is their conjunction with `TypeOK`.
- `PromiseKept` maps every step (`PromiseMaps`): a `Serve` is `Take`, unless it
  answers `read()`'s first request, which changes nothing (`ServeSizing`).

`ConsoleProof` proves about `Console`, for any threads, any limit of the buffer
and any window:

| Theorem | States |
|---|---|
| `ConsoleTypeCorrect` | `Spec => []TypeOK` |
| `LastLinesCorrect` | `Spec => []LastLines` |
| `ScreenCorrect` | `Spec => []ScreenConsistent` |
| `UpdateCorrect` | `Spec => []UpdateDue` |
| `TurnComes` | a waiting thread moves up one place in the queue, whoever runs, until the window is empty |

- `ScreenConsistent` is not inductive: a drawing reaches only the update region,
  so what it does not reach must be empty (`RestBlank`), which holds because
  every drawing invalidates the whole window and `SizeWindow` shows nothing old.
  That a drawing gives a run of consecutive lines needs `LastLines`.
- `TypeOK` needs that the application's thread is always in the queue
  (`UIReady`), or there would be no head.

`InetAddrProof` proves about `InetAddr`, for any fields, of any length, and texts
of any length:

| Theorem | States |
|---|---|
| `InetTypeCorrect` | `Spec => []TypeOK` |
| `MalformedCorrect` | `Spec => []MalformedRejected` |
| `DottedQuadCorrect` | `Spec => []DottedQuadRead` |
| `ValueModulo` | what the loop makes of a field is the number it spells, modulo 2^32 |

- `ReadSoFar` says that the parts are the values of the fields read so far, that
  none of these was malformed, and why there is a result when there is one.
- `Value` and `Spelled` are recursive functions over the digits. That they agree
  is proved without an induction theorem: if they did not, the set of places
  where they differ would have a least element, and one digit before it they
  would agree.
- `DottedQuadCorrect` needs that `Or` of parts that overlap nowhere is their sum.

The theorems rest on the assumptions of the modules they are about: the threads
`Main` and `Callers`, `"noErr"` no error, at most 30 sockets
(`Sockets`); packets of at least a byte and bytes that are not the hole
(`Remote`); `UI` not one of the other threads, a limit and a window of at least
one (`Console`); attributes of the right form (`SftpFile`); fields as `Spelling`
has them (`InetAddr`).

Every safety invariant, action property and refinement that a passing run checks
has a theorem. Only model-checked are the liveness properties, because fairness
and ENABLED are beyond the prover: `ConnectReturns`, `RecvReturns`,
`ConnectEnds`, `ListingEnds`, `ThreadsRun`, `LinesShown` and `OperationsEnd`. What
they rest on beside fairness is proved for most of them, because it is the part
that holds or fails with the code: that something is under way (`AnswerCorrect`,
`RecvNeverHalted`, `UpdateCorrect`), or that a number gets smaller with
every step that is not a repetition of the same call (`AnswersLeft` in
`ListingShortens`, `StagesLeft` in `ConnectShortens`, `StepsLeft` in
`OperationShortens`, the place in the queue in `TurnComes`). That fairness then
forces the end is what TLC checks.

## Not modelled

- libssh2 itself: how it pipelines reads ahead and splits packets. What the
  model assumes of it is in `Remote` and `ServeTransfer`.
- `FileHandle` through its base class (its methods are private), the numbers of
  `SFTPStatVFS` (passed through), the result of `readlink` and `realpath` (their
  `target` is passed by value, so nobody sees it), and a `setstat`
  of the size, which would cut or extend the file.
- The destructor `~SFTP()`, which nothing calls.
- The byte-order functions of `inet.cpp`, which return their argument on a
  big-endian machine, and the words of an `fd_set` beyond the first, which
  nothing reads.
- Fonts and colours, the geometry of the window on the screen, and writes that
  are not one line.
- The C library headers (declarations only), the build files and the resource
  file, and the wording of messages.

What is modelled is all of the code under `src/src` and `src/PowerNet/src` that
changes state; no further module is planned.
