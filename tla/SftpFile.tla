------------------------------ MODULE SftpFile ------------------------------
(***************************************************************************)
(* The operations of SFTP and SFTPFileHandle on paths and on one open file   *)
(* (file.cpp, sftp.hpp), called in any legal order by one thread.            *)
(*                                                                         *)
(* Every operation is a loop around one libssh2 call (RC_ERR_HANDLE, and the *)
(* loop of openfile): the first call sends a request and answers            *)
(* LIBSSH2_ERROR_EAGAIN, as does every repetition until the server's reply   *)
(* is there.  libssh2 and the server are external (Remote).  read() makes    *)
(* two requests, for the size of the file and for its bytes.                *)
(*                                                                         *)
(* The methods of FileHandle are private, so the handle's operations are     *)
(* those of a caller that knows it has an SFTPFileHandle.                    *)
(***************************************************************************)
EXTENDS Remote

CONSTANT CallerAttributes   \* what callers pass to setstat

ASSUME CallerAssumption == CallerAttributes \subseteq Attribute

VARIABLES
  at,         \* where the caller is
  call,       \* the operation it called
  filesize,   \* what read() learnt of the file's size; Unknown before
  req, reply, \* libssh2's request: not sent, sent, answered; and the answer
  off, open,  \* the handle's offset, and whether there is a handle
  asked,      \* per field what setstat() was last asked for, or Unasked
  touched,    \* others changed the file during this call: once at most
  lost        \* the connection

libssh2 == <<req, reply>>
handle == <<off, open>>
vars == <<remote, at, call, filesize, libssh2, handle, asked, touched, lost>>

Unknown == -1
Unasked == -1

PathCalls ==
  [op : {"mkdir", "rmdir", "unlink", "symlink", "readlink", "realpath", "statvfs"},
   name : Names]
RenameCalls == [op : {"rename"}, name : Names, to : Names]
OpenCalls == [op : {"openfile"}, trunc : BOOLEAN] \cup [op : {"shutdown"}]
AttributeCalls == [op : {"stat"}] \cup [op : {"setstat"}, attr : CallerAttributes]
HandleCalls ==
  [op : {"read", "close", "sync"}] \cup [op : {"write"}, buf : Buffer]
Calls == PathCalls \cup RenameCalls \cup OpenCalls \cup AttributeCalls \cup HandleCalls
NoCall == [op |-> "none"]

ReplyType ==
  [ok : BOOLEAN, bytes : Seq(Nat), size : Nat, field : [Fields -> Nat]]

TypeOK ==
  /\ names \in [Names -> Kind]
  /\ data \in Seq(Bytes \cup {Hole}) /\ Len(data) <= MaxLen
  /\ attrs \in [Fields -> Nat]
  /\ at \in {"idle", "calling", "throw", "dead", "caught", "shut"}
  /\ call \in Calls \cup {NoCall}
  /\ filesize \in Nat \cup {Unknown} /\ off \in Nat /\ open \in BOOLEAN
  /\ req \in {"none", "sent", "done"} /\ reply \in ReplyType
  /\ asked \in [Fields -> Nat \cup {Unasked}]
  /\ touched \in BOOLEAN /\ lost \in BOOLEAN
  /\ at \in {"idle", "shut"} => call = NoCall /\ req = "none"

Init ==
  /\ RemoteInit
  /\ at = "idle" /\ call = NoCall /\ filesize = Unknown
  /\ req = "none" /\ reply = Done
  /\ off = 0 /\ open = FALSE
  /\ asked = [f \in Fields |-> Unasked]
  /\ touched = FALSE /\ lost = FALSE

----------------------------------------------------------------------------
(* The caller *)

\* ATTRIBUTE_TRANSLATE: attribute by attribute.  [mutant: two fields change places]
TranslateSwapped(attr) ==
  [attr EXCEPT !.field["atime"] = attr.field["mtime"],
               !.field["mtime"] = attr.field["atime"]]
Translate(attr) == [flags |-> attr.flags, field |-> [f \in Fields |-> attr.field[f]]]

\* What libssh2 is asked for.
Request == IF call.op = "setstat" THEN [call EXCEPT !.attr = Translate(@)] ELSE call

\* The accessors of SFTPAttributes.
Accessors(field) == [f \in Fields |-> field[f]]

\* An operation is called with its arguments; one at a time.
Invoke(c) ==
  /\ at = "idle" /\ at' = "calling"
  /\ c \in HandleCalls => open
  /\ call' = c
  /\ req' = "none"
  /\ UNCHANGED <<remote, filesize, reply, handle, asked, touched, lost>>

\* seek() and rewind(), which send nothing.
Seek ==
  /\ at = "idle" /\ open /\ off' \in 0..MaxLen
  /\ UNCHANGED <<remote, at, call, filesize, libssh2, open, asked, touched, lost>>

\* read() asks for the size first.
Sizing == call.op = "read" /\ filesize = Unknown

\* Where the caller is after wait().  [mutant: it does not call again]
AgainSkipped == "idle"
Again == "calling"

\* LIBSSH2_ERROR_EAGAIN: the request is out, its reply is not there; wait()
\* returns, or throws (select() of a descriptor that is not in the table).
Wait ==
  /\ at = "calling" /\ req # "done" /\ ~lost
  /\ req' = "sent"
  /\ at' \in {Again, "caught"}
  /\ UNCHANGED <<remote, call, filesize, reply, handle, asked, touched, lost>>

\* The size of the file, for a buffer of that size.  [mutant: one is kept for
\* the end of a string]
SizeForString == IF reply.size = 0 THEN 0 ELSE reply.size - 1
Size == reply.size

Sized ==
  /\ at = "calling" /\ req = "done" /\ reply.ok /\ Sizing
  /\ filesize' = Size
  /\ req' = "none" /\ reply' = Done
  /\ UNCHANGED <<remote, at, call, handle, asked, touched, lost>>

\* What an operation returns is what libssh2 gave: of a read, a vector of the
\* file's size; of stat(), the attributes.
Returned ==
  [reply EXCEPT !.field = Accessors(@),
                !.size = IF call.op = "read" THEN filesize ELSE @]

Return ==
  /\ at = "calling" /\ req = "done" /\ reply.ok /\ ~Sizing
  /\ at' = IF call.op = "shutdown" THEN "shut" ELSE "idle"
  /\ open' = (call.op = "openfile" \/ (open /\ call.op \notin {"close", "shutdown"}))
  /\ off' = IF call.op \in {"openfile", "close"} THEN 0 ELSE off + Len(reply.bytes)
  /\ asked' = IF call.op = "setstat"
                THEN [f \in Fields |-> IF FlagOf[f] \in call.attr.flags
                                         THEN call.attr.field[f] ELSE asked[f]]
                ELSE asked
  /\ call' = NoCall /\ filesize' = Unknown /\ req' = "none" /\ reply' = Done
  /\ touched' = FALSE
  /\ UNCHANGED <<remote, lost>>

\* Where an error leads: error_throw.  [mutant: to a repetition]
FailedRepeated == "calling"
Failed == "throw"

Fail ==
  /\ at = "calling" /\ (lost \/ (req = "done" /\ ~reply.ok))
  /\ at' = Failed
  /\ UNCHANGED <<remote, call, filesize, libssh2, handle, asked, touched, lost>>

\* The thread prints, and disposes of itself.
Throw ==
  /\ at = "throw" /\ at' = "dead"
  /\ UNCHANGED <<remote, call, filesize, libssh2, handle, asked, touched, lost>>

----------------------------------------------------------------------------
(* The server *)

\* read() asks for as many bytes as its buffer has, the size the file had one
\* request earlier.  libssh2_sftp_read() never gives more than it was asked for, nor more than a
\* packet; libssh2_sftp_write() may take a part of what a packet cannot carry.
AskFilesize == filesize

ServeTransfer ==
  \/ /\ call.op = "read" /\ ~Sizing
     /\ \E n \in 0..Packet :
          /\ n <= AskFilesize
          /\ n = 0 => off >= Len(data) \/ AskFilesize = 0
          /\ reply' = Reply(Portion(data, off, n), 0, NoField)
     /\ UNCHANGED remote
  \/ /\ call.op = "write"
     /\ \E n \in 1..Len(call.buf) :
          /\ n = Len(call.buf) \/ n >= Packet
          /\ off + n <= MaxLen
          /\ data' = Overwritten(data, off, SubSeq(call.buf, 1, n))
          /\ reply' = Reply(SubSeq(call.buf, 1, n), n, NoField)
     /\ UNCHANGED <<names, attrs>>

ServeSize ==
  /\ Sizing /\ reply' = Reply(<< >>, Len(data), attrs)
  /\ UNCHANGED remote

\* Also for a caller that is gone.
Serve ==
  /\ req = "sent" /\ req' = "done"
  /\ \/ ServePath(call, reply') \/ ServeAttributes(Request, reply')
     \/ ServeFile(call, reply') \/ ServeTransfer \/ ServeSize
     \/ ServeRefusal(reply')
  /\ UNCHANGED <<at, call, filesize, handle, asked, touched, lost>>

\* Between two calls these two make no difference to the next.
ChangedElsewhere ==
  /\ at = "calling" /\ ~touched /\ touched' = TRUE
  /\ Outside
  /\ UNCHANGED <<at, call, filesize, libssh2, handle, asked, lost>>

Lose ==
  /\ at = "calling" /\ ~lost /\ lost' = TRUE
  /\ UNCHANGED <<remote, at, call, filesize, libssh2, handle, asked, touched>>

----------------------------------------------------------------------------
CallStep == Wait \/ Sized \/ Return \/ Fail \/ Throw

Next ==
  \/ \E c \in Calls : Invoke(c)
  \/ Seek \/ CallStep \/ Serve \/ ChangedElsewhere \/ Lose

Spec == Init /\ [][Next]_vars

\* The caller's thread runs, a server that is there answers: nothing is promised
\* about refusals, nor that the uninitialised `dir` makes wait() throw.
Fairness == WF_vars(CallStep /\ at' # "caught") /\ WF_vars(Serve)

FairSpec == Spec /\ Fairness

----------------------------------------------------------------------------
\* When nobody else changes the file meanwhile, read() gives a vector of the
\* file's size that begins with bytes from the offset on, at least one if there
\* are any, and a write() that a packet can carry is in the file, whole, where
\* the offset was (file.cpp:139-156).
TransfersTrue ==
  [][at = "calling" /\ at' = "idle" /\ ~touched =>
       /\ call.op = "read" =>
            /\ Returned.size = Len(data)
            /\ Returned.bytes = Portion(data, off, Len(Returned.bytes))
            /\ Returned.bytes = << >> => off >= Len(data)
       /\ call.op = "write" /\ Len(call.buf) <= Packet =>
            /\ off' = off + Len(call.buf)
            /\ Portion(data, off, Len(call.buf)) = call.buf]_vars

\* What setstat() was asked to set is what stat() finds, field by field, and
\* what it was not asked to set keeps its value (file.cpp:11-25, 82-97, 163-175,
\* sftp.cpp:61-71).
AttributesRoundTrip ==
  [][at = "calling" /\ at' = "idle" /\ call.op = "stat" =>
       \A f \in Fields :
         Returned.field[f] = IF asked[f] = Unasked THEN 0 ELSE asked[f]]_vars

\* An operation ends, even if the connection is lost in the middle of it
\* (sftp.hpp:22-32, file.cpp:34-47).
OperationsEnd == at = "calling" ~> at # "calling"

\* The first of read()'s two requests is not yet its effect.
Promise == INSTANCE RemoteFile WITH
  caller <- IF at \in {"idle", "calling"} THEN at
            ELSE IF at = "shut" THEN "idle" ELSE "stopped",
  taken  <- req = "done" /\ ~Sizing,
  answer <- IF req = "done" /\ ~Sizing THEN reply ELSE Done

\* Through EAGAIN, refusals and a lost connection, an operation takes effect
\* once, between its call and its return (sftp.hpp:22-32, file.cpp:18-188).
KeepsPromise == Promise!Spec
=============================================================================
