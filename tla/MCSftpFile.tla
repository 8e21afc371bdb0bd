----------------------------- MODULE MCSftpFile -----------------------------
(***************************************************************************)
(* SftpFile for TLC: what callers of setstat() pass.                         *)
(***************************************************************************)
EXTENDS SftpFile

\* Every field has a value of its own, so that none can stand for another.
Values == [uid |-> 1, gid |-> 2, permissions |-> 3, atime |-> 4, mtime |-> 5]
SomeAttributes ==
  {[flags |-> flags, field |-> Values] :
     flags \in {{"UIDGID", "PERMISSIONS", "ACMODTIME"}, {"PERMISSIONS"}}}
=============================================================================
