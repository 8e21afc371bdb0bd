------------------------------ MODULE Session ------------------------------
(***************************************************************************)
(* The SFTP session: the main thread makes it, starts the read thread, waits *)
(* until that has logged in, and then lists a directory (main.cpp, sftp.cpp, *)
(* connection.cpp, readthread.cpp, and the calls of file.cpp it makes).      *)
(*                                                                         *)
(* A libssh2 call sends and receives, and so yields: a thread whose place is *)
(* the name of a call is inside libssh2, and the call's action is what it    *)
(* answers and what the thread does until its next yield.  libssh2 itself is *)
(* external: a call gives what it is asked for ("ok"), or LIBSSH2_ERROR_EAGAIN *)
(* ("again"), or another error; when the connection is lost, only errors.   *)
(*                                                                         *)
(* The fields `new SFTP()` leaves uninitialised hold null or garbage.        *)
(***************************************************************************)
EXTENDS Integers, Sequences, FdSet

CONSTANT Entries          \* how many entries the directory has

ASSUME EntriesAssumption == Entries \in Nat

VARIABLES
  mpc, rpc,           \* where the main thread and the read thread are
  read_thread_state, userauthlist, sftp_pointer, channel,   \* fields of SFTP
  openSockets,        \* the keys of PowerNet's table
  pos, listed,        \* entries libssh2 gave, entries the main thread printed
  abandoned,          \* the main thread was disposed of inside libssh2
  lost, crashed       \* the connection is lost; the program died

fields  == <<read_thread_state, userauthlist, sftp_pointer, channel>>
listing == <<pos, listed>>
world   == <<openSockets, abandoned, lost, crashed>>
vars == <<mpc, rpc, fields, listing, world>>

\* Places inside libssh2.
MainCalls == {"opendir", "next", "stat", "close"}
ReadCalls == {"handshake", "authlist", "publickey", "password", "init", "channel"}

\* "caught": main_func ended with an exception.  "failed": read_error_throw
\* disposed of the read thread before the state was Open; "ended": after.
MainPC == MainCalls \cup {"start", "connect", "throw", "done", "caught", "dead"}
ReadPC == ReadCalls \cup {"none", "start", "socket", "connect", "methods", "throw",
                          "ending", "failed", "ended"}
Answer == {"ok", "again", "error"}
Pointer == {"garbage", "null", "set"}

TypeOK ==
  /\ mpc \in MainPC /\ rpc \in ReadPC
  /\ read_thread_state \in {"Uninitialized", "Open"}
  /\ {userauthlist, sftp_pointer, channel} \subseteq Pointer
  /\ openSockets \subseteq {0}
  /\ pos \in 0..Entries /\ listed \in Seq(1..Entries) /\ Len(listed) <= Entries
  /\ abandoned \in BOOLEAN /\ lost \in BOOLEAN /\ crashed \in BOOLEAN

Init ==
  /\ mpc = "start" /\ rpc = "none"
  /\ read_thread_state = "Uninitialized"
  /\ userauthlist \in {"garbage", "null"} /\ sftp_pointer \in {"garbage", "null"}
  /\ channel = "garbage"
  /\ openSockets = {}
  /\ pos = 0 /\ listed = << >>
  /\ abandoned = FALSE /\ lost = FALSE /\ crashed = FALSE

----------------------------------------------------------------------------
MainAt(where) == ~crashed /\ mpc = where
ReadAt(where) == ~crashed /\ rpc = where

\* What libssh2 may answer.
Answers == IF lost THEN {"error"} ELSE Answer

\* The descriptor of the session: the first that socket() returns.
sock == 0

\* What becomes of a thread in wait(): `dir` is not initialised, so select()
\* is given the socket for reading, for writing, for both or for neither; it
\* looks up the word of the set, and at() throws when there is no such key.
WaitResults == {"returns", IF Word0(sock) \in openSockets THEN "returns" ELSE "throws"}

\* Nothing in the program gives the read thread another command.
read_thread_command == "Wait"

----------------------------------------------------------------------------
(* The main thread *)

\* SFTP(), and SFTP::connect() up to its wait.  When libssh2 cannot be
\* initialised its error number is printed as a string; when NewThread fails
\* that is printed, and the wait is the same.
MainNew ==
  /\ MainAt("start")
  /\ \/ mpc' = "throw" /\ crashed' \in BOOLEAN /\ UNCHANGED rpc
     \/ mpc' = "connect" /\ rpc' \in {"start", "none"} /\ UNCHANGED crashed
  /\ UNCHANGED <<fields, listing, openSockets, abandoned, lost>>

\* What ends the wait of SFTP::connect().  [mutant: it does not wait]
OpenNotAwaited == TRUE
OpenAwaited == read_thread_state = "Open"

MainConnected ==
  /\ MainAt("connect") /\ OpenAwaited
  /\ mpc' = "opendir"
  /\ UNCHANGED <<rpc, fields, listing, world>>

\* Where a call goes after wait().  [mutant: the loop is not repeated for stat]
AgainSkipped(call) == IF call = "stat" THEN "next" ELSE call
Again(call) == call

\* Where a call goes after an error: error_throw.  [mutant: it is repeated]
FailedRepeated(call) == call
Failed(call) == "throw"

MainAgain(call) ==
  /\ MainAt(call) /\ "again" \in Answers
  /\ \E w \in WaitResults : mpc' = IF w = "returns" THEN Again(call) ELSE "caught"
  /\ UNCHANGED <<rpc, fields, listing, world>>

MainError(call) ==
  /\ MainAt(call)
  /\ mpc' = Failed(call)
  /\ UNCHANGED <<rpc, fields, listing, world>>

Opendir ==
  /\ MainAt("opendir") /\ "ok" \in Answers
  /\ mpc' = "next"
  /\ UNCHANGED <<rpc, fields, listing, world>>

\* Where main_func goes with what next() gave: an entry, or at the end of the
\* directory nothing.  [mutant: the end is taken for an entry]
EndIgnored(rc) == "stat"
AfterNext(rc) == IF rc = 0 THEN "close" ELSE "stat"

DirNext ==
  /\ MainAt("next") /\ "ok" \in Answers
  /\ \/ pos < Entries /\ pos' = pos + 1 /\ mpc' = AfterNext(1)
     \/ pos = Entries /\ UNCHANGED pos /\ mpc' = AfterNext(0)
  /\ UNCHANGED <<rpc, fields, listed, world>>

\* stat() of the entry that next() gave, and the line that shows it.
Stat ==
  /\ MainAt("stat") /\ "ok" \in Answers
  /\ mpc' = "next" /\ listed' = Append(listed, pos)
  /\ UNCHANGED <<rpc, fields, pos, world>>

Close ==
  /\ MainAt("close") /\ "ok" \in Answers
  /\ mpc' = "done"
  /\ UNCHANGED <<rpc, fields, listing, world>>

\* The printf of error_throw yields; then the main thread disposes of itself.
MainThrow ==
  /\ MainAt("throw")
  /\ mpc' = "dead"
  /\ UNCHANGED <<rpc, fields, listing, world>>

----------------------------------------------------------------------------
(* The read thread *)

\* ReadThreadArgs are on the stack of SFTP::connect(): copied here, and gone
\* when the main thread is.  Then the command, and into socket().
RtStart ==
  /\ ReadAt("start")
  /\ rpc' = IF read_thread_command = "Exit" THEN "ended" ELSE "socket"
  /\ crashed' \in (IF mpc = "connect" THEN {FALSE} ELSE BOOLEAN)
  /\ UNCHANGED <<mpc, fields, listing, openSockets, abandoned, lost>>

RtSocket ==
  /\ ReadAt("socket")
  /\ rpc' = "connect" /\ openSockets' = {sock}
  /\ UNCHANGED <<mpc, fields, listing, abandoned, lost, crashed>>

\* connect() returned: 0, whatever happened.
RtConnect ==
  /\ ReadAt("connect")
  /\ rpc' = "handshake"
  /\ UNCHANGED <<mpc, fields, listing, world>>

\* EAGAIN: yield and try again.  The list of methods is asked for unless the
\* field is something other than null already.
RtHandshake ==
  /\ ReadAt("handshake")
  /\ \E a \in Answers :
       rpc' = IF a = "again" THEN "handshake"
              ELSE IF a = "error" THEN "throw"
              ELSE IF userauthlist = "null" THEN "authlist" ELSE "methods"
  /\ UNCHANGED <<mpc, fields, listing, world>>

\* Any answer is followed by wait(), which ends the program when it throws.
RtAuthlist ==
  /\ ReadAt("authlist")
  /\ \E a \in Answers :
       /\ userauthlist' = IF a = "ok" THEN "set" ELSE "null"
       /\ rpc' = IF a = "ok" THEN "methods" ELSE "authlist"
  /\ \E w \in WaitResults : crashed' = (w = "throws")
  /\ UNCHANGED <<mpc, read_thread_state, sftp_pointer, channel, listing,
                 openSockets, abandoned, lost>>

\* The list is printed and searched: a garbage pointer may end the program.
RtMethods ==
  /\ ReadAt("methods")
  /\ rpc' \in {"publickey", "password", "throw"}
  /\ crashed' \in (IF userauthlist = "garbage" THEN BOOLEAN ELSE {FALSE})
  /\ UNCHANGED <<mpc, fields, listing, openSockets, abandoned, lost>>

\* EAGAIN counts as a refusal.
RtPublickey ==
  /\ ReadAt("publickey")
  /\ \E a \in Answers :
       rpc' \in (IF a = "ok" THEN {"init"} ELSE {"password", "throw"})
  /\ UNCHANGED <<mpc, fields, listing, world>>

RtPassword ==
  /\ ReadAt("password")
  /\ \E a \in Answers : rpc' = IF a = "ok" THEN "init" ELSE "throw"
  /\ UNCHANGED <<mpc, fields, listing, world>>

\* read_thread_state after a call of the read thread.  [mutants: the state is
\* Open one call early; it is never set]
StateEarly(call) == IF call = "init" THEN "Open" ELSE read_thread_state
StateKept(call) == read_thread_state
StateAfter(call) == IF call = "channel" THEN "Open" ELSE read_thread_state

RtInit ==
  /\ ReadAt("init")
  /\ \E a \in Answers, w \in WaitResults :
       /\ sftp_pointer' = IF a = "ok" THEN "set" ELSE "null"
       /\ rpc' = IF a = "ok" THEN "channel" ELSE IF a = "again" THEN "init" ELSE "throw"
       /\ read_thread_state' = IF a = "ok" THEN StateAfter("init") ELSE read_thread_state
       /\ crashed' = (a = "again" /\ w = "throws")
  /\ UNCHANGED <<mpc, userauthlist, channel, listing, openSockets, abandoned, lost>>

\* The channel, whatever came of it; the state; and the loop, whose test fails
\* at once ("reading" would be its body, which is therefore left out).
RtChannel ==
  /\ ReadAt("channel")
  /\ \E a \in Answers : channel' = IF a = "ok" THEN "set" ELSE "null"
  /\ read_thread_state' = StateAfter("channel")
  /\ rpc' = IF read_thread_command = "Read" THEN "reading" ELSE "ending"
  /\ UNCHANGED <<mpc, userauthlist, sftp_pointer, listing, world>>

\* read_error_throw: its printf yields; then the thread disposes of itself.
RtThrow ==
  /\ ReadAt("throw") \/ ReadAt("ending")
  /\ rpc' = IF rpc = "throw" THEN "failed" ELSE "ended"
  /\ UNCHANGED <<mpc, fields, listing, world>>

----------------------------------------------------------------------------
(* The rest of the program, and the network *)

\* The connect thread, the notifier, or the read thread inside socket(), calls
\* mac_error_throw: the main thread is disposed of wherever it yielded.
Disposed ==
  /\ ~crashed /\ rpc \notin {"none", "start"} /\ mpc \notin {"done", "caught", "dead"}
  /\ mpc' = "dead" /\ abandoned' = (mpc \in MainCalls)
  /\ UNCHANGED <<rpc, fields, listing, openSockets, lost, crashed>>

Lose ==
  /\ ~crashed /\ openSockets # {} /\ ~lost
  /\ lost' = TRUE
  /\ UNCHANGED <<mpc, rpc, fields, listing, openSockets, abandoned, crashed>>

----------------------------------------------------------------------------
MainStep ==
  \/ MainNew \/ MainConnected \/ Opendir \/ DirNext \/ Stat \/ Close \/ MainThrow
  \/ \E call \in MainCalls : MainAgain(call) \/ MainError(call)

ReadStep ==
  \/ RtStart \/ RtSocket \/ RtConnect \/ RtHandshake \/ RtAuthlist \/ RtMethods
  \/ RtPublickey \/ RtPassword \/ RtInit \/ RtChannel \/ RtThrow

Next == MainStep \/ ReadStep \/ Disposed \/ Lose

Spec == Init /\ [][Next]_vars

\* Both threads run again and again.  An EAGAIN whose repetition starts from the
\* same state is a stuttering step, so this also says that libssh2 does not
\* answer EAGAIN for ever while it could do better.  Nothing is promised about
\* errors, nor that the uninitialised `dir` makes select() throw.
Fairness ==
  /\ WF_vars(MainStep /\ mpc' # "caught")
  /\ WF_vars(ReadStep /\ ~crashed')

FairSpec == Spec /\ Fairness

----------------------------------------------------------------------------
\* libssh2 is not reentrant, and nothing guards it but the order in which the
\* threads come to use it (connection.cpp:29, readthread.cpp:107-109): never
\* are both inside, nor one after the other was disposed of inside.
SessionExclusive ==
  rpc \in ReadCalls => mpc \notin MainCalls /\ ~abandoned

\* What one thread hands to the other is there when it is used: the arguments
\* on the main thread's stack, read by a thread that may start late
\* (connection.cpp:16-19, readthread.cpp:10-14), and the SFTP session the read
\* thread makes in a field that held garbage (readthread.cpp:94-109).
Handover ==
  /\ rpc = "start" => mpc = "connect"
  /\ mpc \in MainCalls => sftp_pointer = "set" /\ rpc # "failed"

\* A listing shows each entry once and in order, through every EAGAIN and every
\* interleaving, and one that comes to its regular end shows them all
\* (file.cpp:190-209, main.cpp:59-79, sftp.hpp:22-32).
ListingExact ==
  /\ listed = [i \in 1..Len(listed) |-> i]
  /\ mpc = "done" => Len(listed) = Entries

\* For its user the whole program is a Listing: what is shown is shown for good,
\* and nothing is shown once the listing is complete or was given up, whichever
\* thread gave it up (main.cpp:59-86, error.hpp, internal.cpp:478-493).
User == INSTANCE Listing WITH
  shown   <- listed,
  outcome <- IF mpc = "done" THEN "complete"
             ELSE IF crashed \/ mpc \in {"caught", "dead"} THEN "failed" ELSE "going"

ImplementsListing == User!Spec

\* SFTP::connect() ends unless the read thread failed, never existed, or keeps
\* asking for the authentication methods (connection.cpp:29, readthread.cpp:109).
ConnectEnds ==
  mpc = "connect" ~> mpc # "connect" \/ crashed \/ rpc \in {"none", "failed", "authlist"}

\* A listing ends, even if the connection is lost in the middle of it: every
\* loop around a libssh2 call is left on an error (file.cpp:52-70, sftp.hpp:22-32).
ListingEnds ==
  mpc = "opendir" ~> mpc \in {"done", "caught", "dead"} \/ crashed
=============================================================================
