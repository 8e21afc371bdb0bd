------------------------------- MODULE Remote -------------------------------
(***************************************************************************)
(* The SFTP server as SFTP's and SFTPFileHandle's operations see it (file.cpp, *)
(* transfer.hpp): names with the kind of thing they name, the bytes of the   *)
(* file the handle is open on, and its attributes.  All of this is external; *)
(* it is what requests do once they are served.                              *)
(***************************************************************************)
EXTENDS Integers, Sequences

CONSTANTS
  Names,      \* the paths
  Bytes,      \* what a buffer is made of
  Packet,     \* how many bytes one request carries at most
  MaxLen      \* bound: the length of the file and of a buffer

ASSUME PacketAssumption == Packet \in Nat \ {0} /\ MaxLen \in Nat
ASSUME BytesAssumption == Bytes \subseteq Nat \ {0}

VARIABLES
  names,      \* what each path names
  data,       \* the bytes of the open file
  attrs       \* its attributes, but for its size

remote == <<names, data, attrs>>

Kind == {"none", "file", "dir", "link"}
Hole == 0     \* what a file holds where nothing was written
Buffer == UNION {[1..n -> Bytes] : n \in 1..MaxLen}

\* Attributes: the fields but filesize, and which of them are meant: one flag
\* vouches for two of them, twice.
Fields == {"uid", "gid", "permissions", "atime", "mtime"}
FlagOf == [uid |-> "UIDGID", gid |-> "UIDGID", permissions |-> "PERMISSIONS",
           atime |-> "ACMODTIME", mtime |-> "ACMODTIME"]
NoField == [f \in Fields |-> 0]
Attribute == [flags : SUBSET {FlagOf[f] : f \in Fields}, field : [Fields -> Nat]]

RemoteInit ==
  /\ names \in [Names -> Kind]
  /\ data = << >>
  /\ attrs = NoField

\* The kinds a path operation accepts, and what it leaves.
Accepts == [mkdir |-> {"none"}, rmdir |-> {"dir"}, unlink |-> {"file", "link"},
            symlink |-> {"none"}, rename |-> {"file", "dir", "link"},
            readlink |-> {"link"}, realpath |-> Kind, statvfs |-> {"file", "dir", "link"}]
Leaves == [mkdir |-> "dir", rmdir |-> "none", unlink |-> "none", symlink |-> "link",
           rename |-> "none"]

\* A file with `chunk` written at offset `at`.
Overwritten(file, at, chunk) ==
  LET end == at + Len(chunk)
  IN [i \in 1..(IF end > Len(file) THEN end ELSE Len(file)) |->
        IF i > at /\ i <= end THEN chunk[i - at]
        ELSE IF i <= Len(file) THEN file[i] ELSE Hole]

\* At most n bytes of the file from offset `at` on.
Portion(file, at, n) ==
  SubSeq(file, at + 1, IF at + n < Len(file) THEN at + n ELSE Len(file))

Reply(bytes, size, field) == [ok |-> TRUE, bytes |-> bytes, size |-> size, field |-> field]
Done == Reply(<< >>, 0, NoField)
Refusal == [ok |-> FALSE, bytes |-> << >>, size |-> 0, field |-> NoField]

\* A request takes effect and gets its reply; the server may refuse any.
ServePath(c, reply) ==
  /\ c.op \in DOMAIN Accepts /\ names[c.name] \in Accepts[c.op]
  /\ c.op = "rename" => names[c.to] = "none"
  /\ names' = IF c.op \notin DOMAIN Leaves THEN names
              ELSE IF c.op = "rename" THEN [names EXCEPT ![c.name] = "none", ![c.to] = names[c.name]]
              ELSE [names EXCEPT ![c.name] = Leaves[c.op]]
  /\ reply = Done
  /\ UNCHANGED <<data, attrs>>

ServeAttributes(c, reply) ==
  /\ \/ c.op = "stat" /\ reply = Reply(<< >>, Len(data), attrs) /\ UNCHANGED attrs
     \/ /\ c.op = "setstat" /\ reply = Done
        /\ attrs' = [f \in Fields |-> IF FlagOf[f] \in c.attr.flags THEN c.attr.field[f] ELSE attrs[f]]
  /\ UNCHANGED <<names, data>>

\* Opening truncates the file when it is asked to.
ServeFile(c, reply) ==
  /\ c.op \in {"openfile", "close", "sync", "shutdown"}
  /\ data' = IF c.op = "openfile" /\ c.trunc THEN << >> ELSE data
  /\ reply = Done
  /\ UNCHANGED <<names, attrs>>

ServeRefusal(reply) == reply = Refusal /\ UNCHANGED remote

\* Somebody else appends to the file, or empties it.
Outside ==
  /\ \/ data' = << >>
     \/ Len(data) < MaxLen /\ \E b \in Bytes : data' = Append(data, b)
  /\ UNCHANGED <<names, attrs>>
=============================================================================
