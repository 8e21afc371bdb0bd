---------------------------- MODULE SftpFileProof ----------------------------
(***************************************************************************)
(* Proofs about SftpFile, for any paths, bytes, packets and lengths.        *)
(***************************************************************************)
EXTENDS SftpFile, SequenceTheorems, TLAPS

LEMMA Bounds == MaxLen \in Nat /\ Packet \in Nat /\ Packet > 0 /\ Bytes \subseteq Nat
BY PacketAssumption, BytesAssumption

----------------------------------------------------------------------------
(* Portion and Overwritten *)

\* p is what a file holds from k on, at most n bytes of it.
IsPortion(p, S, file, k, n) ==
  /\ p \in Seq(S)
  /\ Len(p) <= n
  /\ Len(p) = IF k + n < Len(file) THEN n
              ELSE IF k < Len(file) THEN Len(file) - k ELSE 0
  /\ \A i \in 1..Len(p) : p[i] = file[k + i]

LEMMA PortionProperties ==
  ASSUME NEW S, NEW file \in Seq(S), NEW k \in Nat, NEW n \in Nat
  PROVE  IsPortion(Portion(file, k, n), S, file, k, n)
<1> DEFINE last == IF k + n < Len(file) THEN k + n ELSE Len(file)
<1>1. Len(file) \in Nat /\ last \in Int /\ k + 1 \in Int /\ last <= Len(file)
      /\ (k + n < Len(file) => last = k + n) /\ (~(k + n < Len(file)) => last = Len(file))
  OBVIOUS
<1>2. Portion(file, k, n) = SubSeq(file, k + 1, last)
  BY DEF Portion
<1> HIDE DEF last
<1>3. \A i \in (k + 1)..last : file[i] \in S
  BY <1>1
<1>4. /\ SubSeq(file, k + 1, last) \in Seq(S)
      /\ Len(SubSeq(file, k + 1, last)) = IF k + 1 <= last THEN last - (k + 1) + 1 ELSE 0
      /\ \A i \in 1..(last - (k + 1) + 1) : SubSeq(file, k + 1, last)[i] = file[(k + 1) + i - 1]
  BY <1>1, <1>3, SubSeqProperties
<1>5. Len(Portion(file, k, n)) = IF k + n < Len(file) THEN n
                                 ELSE IF k < Len(file) THEN Len(file) - k ELSE 0
  BY <1>1, <1>2, <1>4
<1>6. \A i \in 1..Len(Portion(file, k, n)) : Portion(file, k, n)[i] = file[k + i]
  <2> SUFFICES ASSUME NEW i \in 1..Len(Portion(file, k, n))
               PROVE  Portion(file, k, n)[i] = file[k + i]
    OBVIOUS
  <2>1. i \in Int /\ i \in 1..(last - (k + 1) + 1) /\ (k + 1) + i - 1 = k + i
    BY <1>1, <1>2, <1>4
  <2>. QED BY <1>2, <1>4, <2>1
<1>7. Len(Portion(file, k, n)) <= n
  BY <1>1, <1>5
<1>. QED BY <1>2, <1>4, <1>5, <1>6, <1>7 DEF IsPortion

\* Reading again as many bytes as a read gave gives the same bytes.
LEMMA PortionAgain ==
  ASSUME NEW S, NEW file \in Seq(S), NEW k \in Nat, NEW n \in Nat
  PROVE  Portion(file, k, Len(Portion(file, k, n))) = Portion(file, k, n)
<1> DEFINE p == Portion(file, k, n)
           m == Len(p)
           q == Portion(file, k, m)
<1>1. IsPortion(p, S, file, k, n)
  BY PortionProperties
<1>2. Len(file) \in Nat
  OBVIOUS
<1> HIDE DEF p
<1>3. p \in Seq(S) /\ m \in Nat
  BY <1>1 DEF IsPortion
<1> HIDE DEF m
<1>4. IsPortion(q, S, file, k, m)
  BY <1>3, PortionProperties
<1> HIDE DEF q
<1>5. m = Len(p) BY DEF m
<1>6. Len(q) = Len(p)
  BY <1>1, <1>2, <1>3, <1>4, <1>5 DEF IsPortion
<1>7. q = p
  BY <1>1, <1>4, <1>6, SeqEqual DEF IsPortion
<1>. QED BY <1>7 DEF p, m, q

LEMMA OverwrittenProperties ==
  ASSUME NEW S, NEW file \in Seq(S), NEW k \in Nat, NEW chunk \in Seq(S), Hole \in S
  PROVE  /\ Overwritten(file, k, chunk) \in Seq(S)
         /\ Len(Overwritten(file, k, chunk)) =
              IF k + Len(chunk) > Len(file) THEN k + Len(chunk) ELSE Len(file)
         /\ \A i \in 1..Len(chunk) : Overwritten(file, k, chunk)[k + i] = chunk[i]
<1> DEFINE end == k + Len(chunk)
           n == IF end > Len(file) THEN end ELSE Len(file)
           f == [i \in 1..n |-> IF i > k /\ i <= end THEN chunk[i - k]
                                ELSE IF i <= Len(file) THEN file[i] ELSE Hole]
<1>1. Overwritten(file, k, chunk) = f
  BY DEF Overwritten
<1>2. Len(file) \in Nat /\ Len(chunk) \in Nat /\ end \in Nat /\ n \in Nat /\ end <= n
  OBVIOUS
<1>3. \A i \in 1..n : f[i] \in S
  <2> SUFFICES ASSUME NEW i \in 1..n PROVE f[i] \in S
    OBVIOUS
  <2>1. CASE i > k /\ i <= end
    BY <1>2, <2>1
  <2>2. CASE ~(i > k /\ i <= end) /\ i <= Len(file)
    BY <1>2, <2>2
  <2>3. CASE ~(i > k /\ i <= end) /\ ~(i <= Len(file))
    BY <2>3
  <2>. QED BY <2>1, <2>2, <2>3
<1>4. f \in [1..n -> S]
  BY <1>3
<1>5. f \in Seq(S) /\ Len(f) = n
  BY <1>2, <1>4
<1>6. \A i \in 1..Len(chunk) : f[k + i] = chunk[i]
  <2> SUFFICES ASSUME NEW i \in 1..Len(chunk) PROVE f[k + i] = chunk[i]
    OBVIOUS
  <2>1. k + i \in 1..n /\ k + i > k /\ k + i <= end /\ (k + i) - k = i
    BY <1>2
  <2>. QED BY <2>1
<1>. QED BY <1>1, <1>5, <1>6

\* What was written is what is read there.
LEMMA WrittenIsRead ==
  ASSUME NEW S, NEW file \in Seq(S), NEW k \in Nat, NEW chunk \in Seq(S), Hole \in S
  PROVE  Portion(Overwritten(file, k, chunk), k, Len(chunk)) = chunk
<1> DEFINE o == Overwritten(file, k, chunk)
           p == Portion(o, k, Len(chunk))
<1>1. /\ o \in Seq(S) /\ \A i \in 1..Len(chunk) : o[k + i] = chunk[i]
      /\ Len(o) = IF k + Len(chunk) > Len(file) THEN k + Len(chunk) ELSE Len(file)
  BY OverwrittenProperties
<1>2. Len(file) \in Nat /\ Len(chunk) \in Nat
  OBVIOUS
<1> HIDE DEF o
<1>3. IsPortion(p, S, o, k, Len(chunk))
  BY <1>1, <1>2, PortionProperties
<1> HIDE DEF p
<1>4. Len(p) = Len(chunk)
  BY <1>1, <1>2, <1>3 DEF IsPortion
<1>5. p = chunk
  BY <1>1, <1>3, <1>4, SeqEqual DEF IsPortion
<1>. QED BY <1>5 DEF o, p

----------------------------------------------------------------------------
(* What is called, and what is answered *)

LEMMA BufferProperties ==
  ASSUME NEW buf \in Buffer
  PROVE  buf \in Seq(Bytes) /\ Len(buf) \in 1..MaxLen
<1>1. PICK n \in 1..MaxLen : buf \in [1..n -> Bytes]
  BY DEF Buffer
<1>2. n \in Nat
  BY Bounds
<1>. QED BY <1>1, <1>2

LEMMA CallProperties ==
  ASSUME call \in Calls \cup {NoCall}
  PROVE  /\ call.op = "write" => call.buf \in Buffer
         /\ call.op = "setstat" => call \in [op : {"setstat"}, attr : CallerAttributes]
         /\ call.op \in DOMAIN Accepts => call.name \in Names
         /\ call.op = "rename" => call.to \in Names
BY DEF Calls, NoCall, PathCalls, RenameCalls, OpenCalls, AttributeCalls, HandleCalls, Accepts

LEMMA AttributeProperties ==
  ASSUME NEW c \in [op : {"setstat"}, attr : CallerAttributes]
  PROVE  c.attr.field \in [Fields -> Nat]
BY CallerAssumption DEF Attribute

\* libssh2 is asked for what the caller asked for, field by field.
LEMMA RequestProperties ==
  ASSUME call \in Calls \cup {NoCall}
  PROVE  /\ Request.op = call.op
         /\ call.op = "setstat" =>
              /\ Request.attr.flags = call.attr.flags
              /\ \A f \in Fields : Request.attr.field[f] = call.attr.field[f]
<1>1. CASE call.op = "setstat"
  <2>1. call \in [op : {"setstat"}, attr : CallerAttributes]
    BY <1>1, CallProperties
  <2>2. Request = [op |-> call.op, attr |-> Translate(call.attr)]
    BY <1>1, <2>1 DEF Request
  <2>. QED BY <2>2 DEF Translate
<1>2. CASE call.op # "setstat"
  BY <1>2 DEF Request
<1>. QED BY <1>1, <1>2

LEMMA ReplyProperties ==
  ASSUME NEW bytes \in Seq(Nat), NEW size \in Nat, NEW field \in [Fields -> Nat]
  PROVE  /\ Reply(bytes, size, field) \in ReplyType
         /\ Reply(bytes, size, field).ok = TRUE
         /\ Reply(bytes, size, field).bytes = bytes
         /\ Reply(bytes, size, field).size = size
         /\ Reply(bytes, size, field).field = field
BY DEF Reply, ReplyType

LEMMA FixedReplies ==
  /\ NoField \in [Fields -> Nat]
  /\ Done \in ReplyType /\ Done.bytes = << >> /\ Done.ok = TRUE
  /\ Refusal \in ReplyType /\ Refusal.bytes = << >> /\ Refusal.ok = FALSE
<1>1. << >> \in Seq(Nat) /\ NoField \in [Fields -> Nat] /\ 0 \in Nat
  BY DEF NoField
<1>2. Done \in ReplyType /\ Done.bytes = << >> /\ Done.ok = TRUE
  BY <1>1, ReplyProperties DEF Done
<1>3. Refusal = [ok |-> FALSE, bytes |-> << >>, size |-> 0, field |-> NoField]
  BY DEF Refusal
<1>. QED BY <1>1, <1>2, <1>3 DEF ReplyType

----------------------------------------------------------------------------
(* Types *)

RemoteType ==
  /\ names \in [Names -> Kind]
  /\ data \in Seq(Bytes \cup {Hole}) /\ Len(data) <= MaxLen
  /\ attrs \in [Fields -> Nat]

LEMMA DataProperties ==
  ASSUME RemoteType
  PROVE  data \in Seq(Nat) /\ Len(data) \in Nat
<1>1. Bytes \cup {Hole} \subseteq Nat
  BY Bounds DEF Hole
<1>. QED BY <1>1, SeqMonotonic DEF RemoteType

LEMMA ServeType ==
  ASSUME TypeOK, Serve
  PROVE  RemoteType' /\ reply' \in ReplyType
<1>1. RemoteType /\ call \in Calls \cup {NoCall} /\ off \in Nat
  BY DEF TypeOK, RemoteType
<1>2. data \in Seq(Nat) /\ Len(data) \in Nat /\ attrs \in [Fields -> Nat]
  BY <1>1, DataProperties DEF RemoteType
<1>3. CASE ServePath(call, reply')
  <2>1. names' \in [Names -> Kind]
    <3>1. call.name \in Names
      BY <1>1, <1>3, CallProperties DEF ServePath
    <3>2. Leaves["mkdir"] \in Kind /\ Leaves["rmdir"] \in Kind /\ Leaves["unlink"] \in Kind
          /\ Leaves["symlink"] \in Kind
          /\ DOMAIN Leaves = {"mkdir", "rmdir", "unlink", "symlink", "rename"}
          /\ "none" \in Kind
      BY DEF Leaves, Kind
    <3>3. CASE call.op \notin DOMAIN Leaves
      BY <1>1, <1>3, <3>3 DEF ServePath, RemoteType
    <3>4. CASE call.op = "rename"
      BY <1>1, <1>3, <3>1, <3>2, <3>4 DEF ServePath, RemoteType
    <3>5. CASE call.op \in DOMAIN Leaves /\ call.op # "rename"
      <4>1. names' = [names EXCEPT ![call.name] = Leaves[call.op]]
        BY <1>3, <3>5 DEF ServePath
      <4>2. Leaves[call.op] \in Kind
        BY <3>2, <3>5
      <4>. QED BY <1>1, <4>1, <4>2 DEF RemoteType
    <3>. QED BY <3>3, <3>4, <3>5
  <2>. QED BY <1>1, <1>3, <2>1, FixedReplies DEF ServePath, RemoteType
<1>4. CASE ServeAttributes(Request, reply')
  <2>1. CASE Request.op = "stat"
    <3>1. reply' = Reply(<< >>, Len(data), attrs) /\ attrs' = attrs
      BY <1>4, <2>1 DEF ServeAttributes
    <3>2. << >> \in Seq(Nat)
      OBVIOUS
    <3>. QED BY <1>1, <1>2, <1>4, <3>1, <3>2, ReplyProperties DEF ServeAttributes, RemoteType
  <2>2. CASE Request.op = "setstat"
    <3>1. call \in [op : {"setstat"}, attr : CallerAttributes]
      BY <1>1, <2>2, CallProperties, RequestProperties
    <3>2. \A f \in Fields : Request.attr.field[f] \in Nat
      BY <1>1, <3>1, AttributeProperties, RequestProperties
    <3>3. attrs' \in [Fields -> Nat] /\ reply' = Done
      BY <1>2, <1>4, <2>2, <3>2 DEF ServeAttributes
    <3>. QED BY <1>1, <1>4, <3>3, FixedReplies DEF ServeAttributes, RemoteType
  <2>. QED BY <1>4, <2>1, <2>2 DEF ServeAttributes
<1>5. CASE ServeFile(call, reply')
  <2>1. << >> \in Seq(Bytes \cup {Hole}) /\ Len(<< >>) <= MaxLen
    BY Bounds
  <2>. QED BY <1>1, <1>5, <2>1, FixedReplies DEF ServeFile, RemoteType
<1>6. CASE ServeTransfer
  <2>1. CASE call.op = "read"
    <3>1. PICK n \in 0..Packet : reply' = Reply(Portion(data, off, n), 0, NoField)
      BY <1>6, <2>1 DEF ServeTransfer
    <3>2. n \in Nat
      BY Bounds
    <3>3. Portion(data, off, n) \in Seq(Nat)
      BY <1>1, <1>2, <3>2, PortionProperties DEF IsPortion
    <3>4. UNCHANGED <<names, data, attrs>>
      BY <1>6, <2>1 DEF ServeTransfer, remote
    <3>. QED BY <1>1, <3>1, <3>3, <3>4, FixedReplies, ReplyProperties DEF RemoteType
  <2>2. CASE call.op = "write"
    <3>1. PICK n \in 1..Len(call.buf) :
            /\ off + n <= MaxLen
            /\ data' = Overwritten(data, off, SubSeq(call.buf, 1, n))
            /\ reply' = Reply(SubSeq(call.buf, 1, n), n, NoField)
      BY <1>6, <2>2 DEF ServeTransfer
    <3>2. UNCHANGED <<names, attrs>>
      BY <1>6, <2>2 DEF ServeTransfer
    <3>3. call.buf \in Seq(Bytes) /\ Len(call.buf) \in Nat
      BY <1>1, <2>2, CallProperties, BufferProperties
    <3> DEFINE chunk == SubSeq(call.buf, 1, n)
    <3>4. chunk \in Seq(Bytes) /\ Len(chunk) = n /\ n \in Nat
      <4>1. \A i \in 1..n : call.buf[i] \in Bytes
        BY <3>3
      <4>. QED BY <3>3, <4>1, SubSeqProperties
    <3> HIDE DEF chunk
    <3>5. chunk \in Seq(Bytes \cup {Hole}) /\ chunk \in Seq(Nat)
      BY <3>4, SeqMonotonic, Bounds
    <3>6. data \in Seq(Bytes \cup {Hole}) /\ Len(data) <= MaxLen
      BY <1>1 DEF RemoteType
    <3>7. /\ data' \in Seq(Bytes \cup {Hole})
          /\ Len(data') = IF off + n > Len(data) THEN off + n ELSE Len(data)
      <4>1. Hole \in Bytes \cup {Hole} /\ data' = Overwritten(data, off, chunk)
        BY <3>1 DEF chunk
      <4>2. /\ Overwritten(data, off, chunk) \in Seq(Bytes \cup {Hole})
            /\ Len(Overwritten(data, off, chunk)) =
                 IF off + Len(chunk) > Len(data) THEN off + Len(chunk) ELSE Len(data)
        BY <1>1, <3>5, <3>6, <4>1, OverwrittenProperties
      <4>. QED BY <3>4, <4>1, <4>2
    <3>8. Len(data') <= MaxLen
      BY <3>1, <3>6, <3>7
    <3>9. reply' \in ReplyType
      BY <3>1, <3>4, <3>5, FixedReplies, ReplyProperties DEF chunk
    <3>. QED BY <1>1, <3>2, <3>7, <3>8, <3>9 DEF RemoteType
  <2>. QED BY <1>6, <2>1, <2>2 DEF ServeTransfer
<1>7. CASE ServeSize
  <2>1. << >> \in Seq(Nat)
    OBVIOUS
  <2>. QED BY <1>1, <1>2, <1>7, <2>1, ReplyProperties DEF ServeSize, remote, RemoteType
<1>8. CASE ServeRefusal(reply')
  BY <1>1, <1>8, FixedReplies DEF ServeRefusal, remote, RemoteType
<1>. QED BY <1>3, <1>4, <1>5, <1>6, <1>7, <1>8 DEF Serve

\* What a step that serves no request leaves as it is.
LEMMA RemoteKept ==
  ASSUME RemoteType, UNCHANGED remote
  PROVE  RemoteType'
BY DEF RemoteType, remote

LEMMA OutsideType ==
  ASSUME RemoteType, Outside
  PROVE  RemoteType'
<1>1. CASE data' = << >>
  BY <1>1, Bounds DEF RemoteType, Outside
<1>2. CASE Len(data) < MaxLen /\ \E b \in Bytes : data' = Append(data, b)
  <2>1. PICK b \in Bytes : data' = Append(data, b)
    BY <1>2
  <2>2. data \in Seq(Bytes \cup {Hole}) /\ Len(data) \in Nat
    BY DEF RemoteType
  <2>3. data' \in Seq(Bytes \cup {Hole}) /\ Len(data') = Len(data) + 1
    BY <2>1, <2>2
  <2>4. Len(data') <= MaxLen
    BY <1>2, <2>2, <2>3, Bounds
  <2>. QED BY <2>3, <2>4 DEF RemoteType, Outside
<1>. QED BY <1>1, <1>2 DEF Outside

Places == {"idle", "calling", "throw", "dead", "caught", "shut"}

LEMMA TypeStep ==
  ASSUME TypeOK, [Next]_vars
  PROVE  TypeOK'
<1>1. RemoteType /\ reply \in ReplyType /\ off \in Nat
  BY DEF TypeOK, RemoteType
<1>2. Done \in ReplyType
  BY FixedReplies
<1>3. ASSUME NEW c \in Calls, Invoke(c)
      PROVE  TypeOK'
  BY <1>1, <1>3, RemoteKept DEF Invoke, TypeOK, RemoteType, handle
<1>4. CASE Seek
  <2>1. 0..MaxLen \subseteq Nat
    BY Bounds
  <2>. QED BY <1>1, <1>4, <2>1, RemoteKept DEF Seek, TypeOK, RemoteType, libssh2
<1>5. CASE Wait
  BY <1>1, <1>5, RemoteKept DEF Wait, Again, TypeOK, RemoteType, handle
<1>6. CASE Sized
  <2>1. Size \in Nat
    BY <1>1 DEF Size, ReplyType
  <2>. QED BY <1>1, <1>2, <1>6, <2>1, RemoteKept DEF Sized, TypeOK, RemoteType, handle
<1>7. CASE Return
  <2>1. off + Len(reply.bytes) \in Nat
    BY <1>1 DEF ReplyType
  <2>2. open' \in BOOLEAN /\ off' \in Nat
    BY <1>7, <2>1 DEF Return, TypeOK
  <2>3. asked' \in [Fields -> Nat \cup {Unasked}]
    <3>1. CASE call.op = "setstat"
      <4>1. call \in [op : {"setstat"}, attr : CallerAttributes]
        BY <3>1, CallProperties DEF TypeOK
      <4>2. \A f \in Fields : call.attr.field[f] \in Nat
        BY <4>1, AttributeProperties
      <4>. QED BY <1>7, <3>1, <4>2 DEF Return, TypeOK
    <3>2. CASE call.op # "setstat"
      BY <1>7, <3>2 DEF Return, TypeOK
    <3>. QED BY <3>1, <3>2
  <2>4. at' \in Places /\ call' = NoCall /\ filesize' = Unknown /\ req' = "none"
        /\ reply' = Done /\ touched' = FALSE /\ lost' = lost
    BY <1>7 DEF Return, Places
  <2>5. RemoteType'
    BY <1>1, <1>7, RemoteKept DEF Return
  <2>. QED BY <1>2, <2>2, <2>3, <2>4, <2>5 DEF TypeOK, RemoteType, Places
<1>8. CASE Fail
  BY <1>1, <1>8, RemoteKept DEF Fail, Failed, TypeOK, RemoteType, handle, libssh2
<1>9. CASE Throw
  BY <1>1, <1>9, RemoteKept DEF Throw, TypeOK, RemoteType, handle, libssh2
<1>10. CASE Serve
  <2>1. RemoteType' /\ reply' \in ReplyType
    BY <1>10, ServeType
  <2>2. req = "sent" /\ req' = "done"
        /\ UNCHANGED <<at, call, filesize, off, open, asked, touched, lost>>
    BY <1>10 DEF Serve, handle
  <2>. QED BY <2>1, <2>2 DEF TypeOK, RemoteType
<1>11. CASE ChangedElsewhere
  BY <1>1, <1>11, OutsideType DEF ChangedElsewhere, TypeOK, RemoteType, handle, libssh2
<1>12. CASE Lose
  BY <1>1, <1>12, RemoteKept DEF Lose, TypeOK, RemoteType, handle, libssh2
<1>13. CASE UNCHANGED vars
  BY <1>1, <1>13, RemoteKept DEF vars, TypeOK, RemoteType, handle, libssh2
<1>. QED
  BY <1>3, <1>4, <1>5, <1>6, <1>7, <1>8, <1>9, <1>10, <1>11, <1>12, <1>13
     DEF Next, CallStep

LEMMA InitType == Init => TypeOK
<1> SUFFICES ASSUME Init PROVE TypeOK
  OBVIOUS
<1>1. data \in Seq(Bytes \cup {Hole}) /\ Len(data) <= MaxLen
  BY Bounds DEF Init, RemoteInit
<1>2. NoField \in [Fields -> Nat] /\ Done \in ReplyType
  BY FixedReplies
<1>3. asked \in [Fields -> Nat \cup {Unasked}]
  BY DEF Init
<1>. QED BY <1>1, <1>2, <1>3 DEF Init, RemoteInit, TypeOK

----------------------------------------------------------------------------
(* Reads and writes *)

Answered == at = "calling" /\ req = "done" /\ reply.ok

\* The size that read() learnt belongs to the read() that is going on.
SizeKept ==
  /\ at = "idle" => filesize = Unknown
  /\ at = "calling" /\ call.op # "read" => filesize = Unknown

\* As long as nobody else changes the file: the size is the file's, the bytes
\* are the file's, and what was written is there.
TransferInv ==
  at = "calling" /\ ~touched =>
    /\ filesize # Unknown => filesize = Len(data)
    /\ Answered /\ Sizing => reply.size = Len(data)
    /\ Answered /\ call.op = "read" /\ ~Sizing =>
         /\ reply.bytes = Portion(data, off, Len(reply.bytes))
         /\ reply.bytes = << >> => off >= Len(data)
    /\ Answered /\ call.op = "write" /\ Len(call.buf) <= Packet =>
         /\ reply.bytes = call.buf
         /\ Portion(data, off, Len(call.buf)) = call.buf

ReadInv == SizeKept /\ TransferInv

\* What the server answers to a read of the file's bytes.
LEMMA ReadServed ==
  ASSUME TypeOK, at = "calling", call.op = "read", ~Sizing, NEW n \in 0..Packet,
         n <= AskFilesize, n = 0 => off >= Len(data) \/ AskFilesize = 0,
         reply' = Reply(Portion(data, off, n), 0, NoField)
  PROVE  /\ reply'.bytes = Portion(data, off, Len(reply'.bytes))
         /\ filesize = Len(data) /\ reply'.bytes = << >> => off >= Len(data)
<1>1. data \in Seq(Nat) /\ Len(data) \in Nat /\ off \in Nat /\ n \in Nat /\ filesize \in Nat
  BY DataProperties, Bounds DEF TypeOK, RemoteType, Sizing
<1> DEFINE p == Portion(data, off, n)
<1>2. IsPortion(p, Nat, data, off, n) /\ Portion(data, off, Len(p)) = p
  BY <1>1, PortionProperties, PortionAgain
<1> HIDE DEF p
<1>3. reply'.bytes = p
  BY DEF Reply, p
<1>4. p \in Seq(Nat) /\ Len(p) \in Nat
  BY <1>1, <1>2 DEF IsPortion
<1>5. ASSUME filesize = Len(data), p = << >>
      PROVE  off >= Len(data)
  <2>1. Len(p) = 0
    BY <1>5
  <2>. QED BY <1>1, <1>2, <1>5, <2>1 DEF IsPortion, AskFilesize
<1>. QED BY <1>2, <1>3, <1>4, <1>5

\* What it answers to a write that a packet can carry.
LEMMA WriteServed ==
  ASSUME TypeOK, call.op = "write", NEW n \in 1..Len(call.buf),
         n = Len(call.buf) \/ n >= Packet, Len(call.buf) <= Packet,
         data' = Overwritten(data, off, SubSeq(call.buf, 1, n)),
         reply' = Reply(SubSeq(call.buf, 1, n), n, NoField)
  PROVE  /\ reply'.bytes = call.buf
         /\ Portion(data', off, Len(call.buf)) = call.buf
<1>1. call.buf \in Seq(Bytes) /\ Len(call.buf) \in Nat /\ off \in Nat
      /\ data \in Seq(Bytes \cup {Hole})
  BY CallProperties, BufferProperties DEF TypeOK
<1>2. n = Len(call.buf) /\ n \in Nat
  BY <1>1, Bounds
<1>3. SubSeq(call.buf, 1, n) = call.buf
  BY <1>1, <1>2, SubSeqFull
<1>4. call.buf \in Seq(Bytes \cup {Hole}) /\ call.buf \in Seq(Nat)
  BY <1>1, SeqMonotonic, Bounds
<1>5. reply'.bytes = call.buf
  BY <1>3 DEF Reply
<1>6. Hole \in Bytes \cup {Hole}
  OBVIOUS
<1>7. Portion(data', off, Len(call.buf)) = call.buf
  BY <1>1, <1>3, <1>4, <1>6, WrittenIsRead
<1>. QED BY <1>5, <1>7

LEMMA ReadServeStep ==
  ASSUME TypeOK, ReadInv, Serve
  PROVE  ReadInv'
<1>1. req = "sent" /\ req' = "done"
      /\ UNCHANGED <<at, call, filesize, off, open, asked, touched, lost>>
  BY DEF Serve, handle
<1>2. SizeKept'
  BY <1>1 DEF ReadInv, SizeKept
<1>3. Sizing' <=> Sizing
  BY <1>1 DEF Sizing
<1>4. Unknown \notin Nat
  BY DEF Unknown
<1>5. CASE at # "calling"
  BY <1>1, <1>2, <1>5 DEF ReadInv, TransferInv
<1>6. CASE at = "calling" /\ call.op = "read" /\ Sizing
  <2>1. CASE ServeSize
    <3>1. data \in Seq(Nat) /\ Len(data) \in Nat /\ attrs \in [Fields -> Nat]
          /\ << >> \in Seq(Nat)
      BY DataProperties DEF TypeOK, RemoteType
    <3>2. reply'.size = Len(data) /\ data' = data
      BY <2>1, <3>1, ReplyProperties DEF ServeSize, remote
    <3>. QED BY <1>1, <1>2, <1>3, <1>6, <3>2 DEF ReadInv, TransferInv, Sizing
  <2>2. CASE ServeRefusal(reply')
    <3>1. reply'.ok = FALSE /\ data' = data
      BY <2>2, FixedReplies DEF ServeRefusal, remote
    <3>. QED BY <1>1, <1>2, <1>3, <1>6, <3>1
         DEF ReadInv, TransferInv, Sizing, Answered
  <2>3. ~ServePath(call, reply') /\ ~ServeFile(call, reply')
        /\ ~ServeAttributes(Request, reply') /\ ~ServeTransfer
    BY <1>6, RequestProperties DEF TypeOK, ServePath, ServeFile, ServeAttributes,
       ServeTransfer, Accepts
  <2>. QED BY <2>1, <2>2, <2>3 DEF Serve
<1>7. CASE at = "calling" /\ call.op = "read" /\ ~Sizing
  <2>1. CASE ServeTransfer
    <3>1. PICK n \in 0..Packet :
            /\ n <= AskFilesize
            /\ n = 0 => off >= Len(data) \/ AskFilesize = 0
            /\ reply' = Reply(Portion(data, off, n), 0, NoField)
      BY <1>7, <2>1 DEF ServeTransfer
    <3>2. data' = data
      BY <1>7, <2>1 DEF ServeTransfer, remote
    <3>3. /\ reply'.bytes = Portion(data, off, Len(reply'.bytes))
          /\ filesize = Len(data) /\ reply'.bytes = << >> => off >= Len(data)
      BY <1>7, <3>1, ReadServed
    <3>4. TransferInv'
      BY <1>1, <1>3, <1>7, <3>2, <3>3 DEF ReadInv, TransferInv, Sizing
    <3>. QED BY <1>2, <3>4 DEF ReadInv
  <2>2. CASE ServeRefusal(reply')
    <3>1. reply'.ok = FALSE /\ Len(reply'.bytes) = 0 /\ data' = data
      BY <2>2, FixedReplies DEF ServeRefusal, remote
    <3>2. filesize \in Nat
      BY <1>7 DEF TypeOK, Sizing
    <3>. QED BY <1>1, <1>2, <1>3, <1>7, <3>1, <3>2
         DEF ReadInv, TransferInv, Sizing, Answered
  <2>3. ~ServePath(call, reply') /\ ~ServeFile(call, reply')
        /\ ~ServeAttributes(Request, reply') /\ ~ServeSize
    BY <1>7, RequestProperties DEF TypeOK, ServePath, ServeFile, ServeAttributes,
       ServeSize, Accepts
  <2>. QED BY <2>1, <2>2, <2>3 DEF Serve
<1>8. CASE at = "calling" /\ call.op = "write"
  <2>1. filesize = Unknown /\ ~Sizing
    BY <1>8 DEF ReadInv, SizeKept, Sizing
  <2>2. CASE ServeTransfer
    <3>1. PICK n \in 1..Len(call.buf) :
            /\ n = Len(call.buf) \/ n >= Packet
            /\ data' = Overwritten(data, off, SubSeq(call.buf, 1, n))
            /\ reply' = Reply(SubSeq(call.buf, 1, n), n, NoField)
      BY <1>8, <2>2 DEF ServeTransfer
    <3>2. Len(call.buf) <= Packet =>
            /\ reply'.bytes = call.buf
            /\ Portion(data', off, Len(call.buf)) = call.buf
      BY <1>8, <3>1, WriteServed
    <3>. QED BY <1>1, <1>2, <1>3, <1>8, <2>1, <3>2
         DEF ReadInv, TransferInv, Sizing
  <2>3. CASE ServeRefusal(reply')
    <3>1. reply'.ok = FALSE
      BY <2>3, FixedReplies DEF ServeRefusal
    <3>. QED BY <1>1, <1>2, <1>3, <1>8, <2>1, <3>1
         DEF ReadInv, TransferInv, Sizing, Answered
  <2>4. ~ServePath(call, reply') /\ ~ServeFile(call, reply')
        /\ ~ServeAttributes(Request, reply') /\ ~ServeSize
    BY <1>8, RequestProperties DEF TypeOK, ServePath, ServeFile, ServeAttributes,
       ServeSize, Sizing, Accepts
  <2>. QED BY <2>2, <2>3, <2>4 DEF Serve
<1>9. CASE at = "calling" /\ call.op \notin {"read", "write"}
  <2>1. filesize = Unknown /\ ~Sizing
    BY <1>9 DEF ReadInv, SizeKept, Sizing
  <2>. QED BY <1>1, <1>2, <1>3, <1>9, <2>1 DEF ReadInv, TransferInv, Sizing
<1>. QED BY <1>5, <1>6, <1>7, <1>8, <1>9

LEMMA ReadStep ==
  ASSUME TypeOK, ReadInv, [Next]_vars
  PROVE  ReadInv'
<1>1. ASSUME NEW c \in Calls, Invoke(c)
      PROVE  ReadInv'
  BY <1>1 DEF Invoke, ReadInv, SizeKept, TransferInv, Answered
<1>2. CASE Seek
  BY <1>2 DEF Seek, ReadInv, SizeKept, TransferInv
<1>3. CASE Wait
  BY <1>3 DEF Wait, Again, ReadInv, SizeKept, TransferInv, Answered, remote, handle
<1>4. CASE Sized
  <2>1. /\ at = "calling" /\ req = "done" /\ reply.ok /\ Sizing
        /\ filesize' = reply.size /\ req' = "none"
        /\ UNCHANGED <<at, call, data, off, touched>>
    BY <1>4 DEF Sized, Size, remote, handle
  <2>2. SizeKept'
    BY <2>1 DEF SizeKept, Sizing
  <2>3. TransferInv'
    BY <2>1 DEF ReadInv, TransferInv, Answered
  <2>. QED BY <2>2, <2>3 DEF ReadInv
<1>5. CASE Return
  BY <1>5 DEF Return, ReadInv, SizeKept, TransferInv
<1>6. CASE Fail
  BY <1>6 DEF Fail, Failed, ReadInv, SizeKept, TransferInv
<1>7. CASE Throw
  BY <1>7 DEF Throw, ReadInv, SizeKept, TransferInv
<1>8. CASE ChangedElsewhere
  BY <1>8 DEF ChangedElsewhere, ReadInv, SizeKept, TransferInv, Sizing, libssh2
<1>9. CASE Lose
  BY <1>9 DEF Lose, ReadInv, SizeKept, TransferInv, Answered, Sizing, remote,
     libssh2, handle
<1>10. CASE UNCHANGED vars
  BY <1>10 DEF vars, ReadInv, SizeKept, TransferInv, Answered, Sizing, remote,
     libssh2, handle
<1>. QED
  BY <1>1, <1>2, <1>3, <1>4, <1>5, <1>6, <1>7, <1>8, <1>9, <1>10, ReadServeStep
     DEF Next, CallStep

LEMMA ReadInit == Init => ReadInv
BY DEF Init, ReadInv, SizeKept, TransferInv, Answered

\* What the operation returns of what libssh2 gave.
LEMMA ReturnedProperties ==
  ASSUME TypeOK
  PROVE  /\ Returned.bytes = reply.bytes
         /\ call.op = "read" => Returned.size = filesize
         /\ \A f \in Fields : Returned.field[f] = reply.field[f]
BY DEF TypeOK, ReplyType, Returned, Accessors

\* Only Return leads from a call back to the caller.
LEMMA OnlyReturn ==
  ASSUME Next, at = "calling", at' = "idle"
  PROVE  Return
BY DEF Next, CallStep, Invoke, Seek, Wait, Again, Sized, Fail, Failed, Throw, Serve,
   ChangedElsewhere, Lose

----------------------------------------------------------------------------
(* Attributes *)

AskedFor(f) == IF asked[f] = Unasked THEN 0 ELSE asked[f]

\* The attributes are those asked for, or those of the setstat() that the server
\* has served and that is about to return; a stat() has found them.
AttrInv ==
  /\ at \in {"idle", "calling"} =>
       \A f \in Fields :
         attrs[f] = IF Answered /\ call.op = "setstat" /\ FlagOf[f] \in call.attr.flags
                      THEN call.attr.field[f] ELSE AskedFor(f)
  /\ Answered /\ call.op = "stat" => \A f \in Fields : reply.field[f] = attrs[f]

LEMMA AttrServeStep ==
  ASSUME TypeOK, AttrInv, Serve
  PROVE  AttrInv'
<1>1. req = "sent" /\ req' = "done" /\ UNCHANGED <<at, call, asked>>
  BY DEF Serve
<1>2. ~Answered /\ \A f \in Fields : AskedFor(f)' = AskedFor(f)
  BY <1>1 DEF Answered, AskedFor
<1>3. CASE at # "calling"
  BY <1>1, <1>2, <1>3, RequestProperties DEF TypeOK, AttrInv, Answered
<1>4. CASE at = "calling"
  <2>1. \A f \in Fields : attrs[f] = AskedFor(f)
    BY <1>2, <1>4 DEF AttrInv
  <2>2. CASE ServeAttributes(Request, reply') /\ call.op = "stat"
    <3>1. reply' = Reply(<< >>, Len(data), attrs) /\ attrs' = attrs
      BY <2>2, RequestProperties DEF TypeOK, ServeAttributes
    <3>2. reply'.field = attrs
      BY <3>1 DEF Reply
    <3>. QED BY <1>1, <1>2, <2>1, <2>2, <3>1, <3>2 DEF AttrInv, Answered
  <2>3. CASE ServeAttributes(Request, reply') /\ call.op = "setstat"
    <3>1. /\ reply' = Done
          /\ \A f \in Fields : attrs'[f] = IF FlagOf[f] \in call.attr.flags
                                             THEN call.attr.field[f] ELSE attrs[f]
      BY <2>3, RequestProperties DEF TypeOK, ServeAttributes
    <3>2. Answered'
      BY <1>1, <1>4, <3>1, FixedReplies DEF Answered
    <3>. QED BY <1>1, <1>2, <2>1, <2>3, <3>1, <3>2 DEF AttrInv
  <2>4. CASE ServeRefusal(reply')
    <3>1. reply'.ok = FALSE /\ attrs' = attrs
      BY <2>4, FixedReplies DEF ServeRefusal, remote
    <3>. QED BY <1>1, <1>2, <2>1, <3>1 DEF AttrInv, Answered
  <2>5. CASE call.op \notin {"stat", "setstat"}
    <3>1. attrs' = attrs
      BY <2>5, RequestProperties DEF TypeOK, Serve, ServePath, ServeAttributes, ServeFile,
         ServeTransfer, ServeSize, ServeRefusal, remote
    <3>. QED BY <1>1, <1>2, <2>1, <2>5, <3>1 DEF AttrInv, Answered
  <2>6. call.op \in {"stat", "setstat"} =>
          ~ServePath(call, reply') /\ ~ServeFile(call, reply') /\ ~ServeTransfer /\ ~ServeSize
    BY DEF ServePath, ServeFile, ServeTransfer, ServeSize, Sizing, Accepts
  <2>. QED BY <2>2, <2>3, <2>4, <2>5, <2>6 DEF Serve
<1>. QED BY <1>3, <1>4

LEMMA AttrReturnStep ==
  ASSUME TypeOK, AttrInv, Return
  PROVE  AttrInv'
<1>1. /\ Answered /\ ~Answered' /\ attrs' = attrs
      /\ asked' = IF call.op = "setstat"
                    THEN [f \in Fields |-> IF FlagOf[f] \in call.attr.flags
                                             THEN call.attr.field[f] ELSE asked[f]]
                    ELSE asked
  BY DEF Return, Answered, remote
<1>2. \A f \in Fields :
        attrs[f] = IF call.op = "setstat" /\ FlagOf[f] \in call.attr.flags
                     THEN call.attr.field[f] ELSE AskedFor(f)
  BY <1>1 DEF AttrInv, Answered
<1>3. CASE call.op = "setstat"
  <2>1. \A f \in Fields : call.attr.field[f] \in Nat
    BY <1>3, CallProperties, AttributeProperties DEF TypeOK
  <2>2. \A f \in Fields : AskedFor(f)' = IF FlagOf[f] \in call.attr.flags
                                           THEN call.attr.field[f] ELSE AskedFor(f)
    BY <1>1, <1>3, <2>1 DEF AskedFor, Unasked
  <2>. QED BY <1>1, <1>2, <1>3, <2>2 DEF AttrInv
<1>4. CASE call.op # "setstat"
  BY <1>1, <1>2, <1>4 DEF AttrInv, AskedFor
<1>. QED BY <1>3, <1>4

LEMMA AttrStep ==
  ASSUME TypeOK, AttrInv, [Next]_vars
  PROVE  AttrInv'
<1>1. ASSUME NEW c \in Calls, Invoke(c)
      PROVE  AttrInv'
  BY <1>1 DEF Invoke, AttrInv, Answered, AskedFor, remote
<1>2. CASE Seek \/ Lose \/ UNCHANGED vars
  BY <1>2 DEF Seek, Lose, vars, AttrInv, Answered, AskedFor, remote, libssh2
<1>3. CASE Wait \/ Sized
  BY <1>3 DEF Wait, Again, Sized, Sizing, AttrInv, Answered, AskedFor, remote
<1>4. CASE Fail \/ Throw
  BY <1>4 DEF Fail, Failed, Throw, AttrInv, Answered
<1>5. CASE ChangedElsewhere
  BY <1>5 DEF ChangedElsewhere, Outside, AttrInv, Answered, AskedFor, libssh2
<1>. QED
  BY <1>1, <1>2, <1>3, <1>4, <1>5, AttrServeStep, AttrReturnStep DEF Next, CallStep

LEMMA AttrInit == Init => AttrInv
BY DEF Init, RemoteInit, NoField, AttrInv, Answered, AskedFor

----------------------------------------------------------------------------
(* The invariant and the theorems *)

IInv == TypeOK /\ ReadInv /\ AttrInv

LEMMA Invariance == Spec => []IInv
<1>1. Init => IInv
  BY InitType, ReadInit, AttrInit DEF IInv
<1>2. IInv /\ [Next]_vars => IInv'
  BY TypeStep, ReadStep, AttrStep DEF IInv
<1>. QED BY <1>1, <1>2, PTL DEF Spec

\* The state is always of its type, and nothing is asked for between two calls
\* (file.cpp:18-188).
THEOREM SftpTypeCorrect == Spec => []TypeOK
BY Invariance, PTL DEF IInv

\* While nobody else changes the file, read() gives what the file holds and
\* write() leaves what it was given (file.cpp:139-156).
THEOREM TransfersCorrect == Spec => TransfersTrue
<1>1. ASSUME IInv, [Next]_vars, at = "calling", at' = "idle", ~touched
      PROVE  /\ call.op = "read" =>
                  /\ Returned.size = Len(data)
                  /\ Returned.bytes = Portion(data, off, Len(Returned.bytes))
                  /\ Returned.bytes = << >> => off >= Len(data)
             /\ call.op = "write" /\ Len(call.buf) <= Packet =>
                  /\ off' = off + Len(call.buf)
                  /\ Portion(data, off, Len(call.buf)) = call.buf
  <2>1. Return
    <3>1. Next
      BY <1>1 DEF vars
    <3>. QED BY <1>1, <3>1, OnlyReturn
  <2>2. Answered /\ ~Sizing
    BY <2>1 DEF Return, Answered
  <2>3. /\ call.op = "read" => filesize = Len(data)
        /\ call.op = "read" =>
             /\ reply.bytes = Portion(data, off, Len(reply.bytes))
             /\ reply.bytes = << >> => off >= Len(data)
        /\ call.op = "write" /\ Len(call.buf) <= Packet =>
             /\ reply.bytes = call.buf
             /\ Portion(data, off, Len(call.buf)) = call.buf
    BY <1>1, <2>2 DEF IInv, ReadInv, TransferInv, Sizing
  <2>4. Returned.bytes = reply.bytes /\ (call.op = "read" => Returned.size = filesize)
    BY <1>1, ReturnedProperties DEF IInv
  <2>5. call.op = "write" => off' = off + Len(reply.bytes)
    BY <2>1 DEF Return
  <2>. QED BY <2>3, <2>4, <2>5
<1>. QED BY <1>1, Invariance, PTL DEF Spec, TransfersTrue

\* What was asked of setstat(), field by field, is what stat() finds
\* (file.cpp:11-25, 82-97, 163-175, sftp.cpp:61-71).
THEOREM AttributesCorrect == Spec => AttributesRoundTrip
<1>1. ASSUME IInv, [Next]_vars, at = "calling", at' = "idle", call.op = "stat"
      PROVE  \A f \in Fields :
               Returned.field[f] = IF asked[f] = Unasked THEN 0 ELSE asked[f]
  <2>1. Return
    <3>1. Next
      BY <1>1 DEF vars
    <3>. QED BY <1>1, <3>1, OnlyReturn
  <2>2. Answered
    BY <2>1 DEF Return, Answered
  <2>3. \A f \in Fields : reply.field[f] = AskedFor(f)
    BY <1>1, <2>2 DEF IInv, AttrInv
  <2>. QED BY <1>1, <2>3, ReturnedProperties DEF IInv, AskedFor
<1>. QED BY <1>1, Invariance, PTL DEF Spec, AttributesRoundTrip

----------------------------------------------------------------------------
(* What the protocol promises *)

\* The promise speaks of the same server.
LEMMA SameServer ==
  /\ Promise!Done = Done /\ Promise!NoField = NoField
  /\ Promise!Accepts = Accepts /\ Promise!Leaves = Leaves
BY DEF Promise!Done, Done, Promise!Reply, Reply, Promise!NoField, NoField, Promise!Fields,
   Fields, Promise!Accepts, Accepts, Promise!Leaves, Leaves, Promise!Kind, Kind

Taken == req = "done" /\ ~Sizing
Answer == IF Taken THEN reply ELSE Done
Caller == IF at \in {"idle", "calling"} THEN at ELSE IF at = "shut" THEN "idle" ELSE "stopped"

\* What the promise says of a step, in terms of this module.
LEMMA PromiseStep ==
  /\ UNCHANGED <<remote, Caller, call, Taken, Answer, off>> => UNCHANGED Promise!vars
  /\ Caller = "calling" /\ Caller' = "stopped"
       /\ UNCHANGED <<remote, call, Taken, Answer, off>> => Promise!Next
BY DEF Promise!vars, Promise!Next, Promise!Stop, Promise!Done, Promise!Reply,
   Promise!NoField, Promise!Fields, Promise!remote, remote, Caller, Taken, Answer,
   Done, Reply, NoField, Fields

\* A request of a read() for the size changes nothing yet.
LEMMA ServeSizing ==
  ASSUME TypeOK, Serve, Sizing
  PROVE  UNCHANGED <<remote, Caller, call, Taken, Answer, off>>
<1>1. req = "sent" /\ UNCHANGED <<at, call, filesize, off>>
  BY DEF Serve, handle
<1>2. UNCHANGED remote
  BY RequestProperties DEF TypeOK, Sizing, Serve, ServePath, ServeAttributes, ServeFile,
     ServeTransfer, ServeSize, ServeRefusal, Accepts
<1>. QED BY <1>1, <1>2 DEF Caller, Taken, Answer, Sizing

\* Any other request that is served is the effect.
LEMMA ServeTakes ==
  ASSUME TypeOK, Serve, ~Sizing
  PROVE  Promise!Take
<1>1. /\ req = "sent" /\ req' = "done" /\ UNCHANGED <<at, call, filesize, off>>
      /\ at \notin {"idle", "shut"} /\ call \in Calls \cup {NoCall}
  BY DEF TypeOK, Serve, handle
<1>2. ~Taken /\ Taken' /\ Answer' = reply' /\ UNCHANGED <<Caller, call, off>>
      /\ Caller # "idle"
  BY <1>1 DEF Taken, Answer, Caller, Sizing
<1>3. \/ Promise!ServePath(call, reply') \/ Promise!ServeAttributes(call, reply')
      \/ Promise!ServeFile(call, reply') \/ Promise!Write(reply')
      \/ Promise!Read(reply') \/ Promise!ServeRefusal(reply')
  <2>1. CASE ServePath(call, reply')
    BY <2>1, SameServer DEF ServePath, Promise!ServePath
  <2>2. CASE ServeAttributes(Request, reply')
    <3>1. CASE call.op = "stat"
      BY <1>1, <2>2, <3>1, RequestProperties DEF ServeAttributes, Promise!ServeAttributes,
         Reply, Promise!Reply
    <3>2. CASE call.op = "setstat"
      <4>1. Request.attr.flags = call.attr.flags
            /\ \A f \in Fields : Request.attr.field[f] = call.attr.field[f]
        BY <1>1, <3>2, RequestProperties
      <4>2. attrs' = [f \in Fields |-> IF FlagOf[f] \in call.attr.flags
                                         THEN call.attr.field[f] ELSE attrs[f]]
        BY <1>1, <2>2, <3>2, <4>1, RequestProperties DEF ServeAttributes
      <4>3. Promise!Fields = Fields /\ Promise!FlagOf = FlagOf
        BY DEF Promise!Fields, Fields, Promise!FlagOf, FlagOf
      <4>. QED BY <1>1, <2>2, <3>2, <4>2, <4>3, RequestProperties, SameServer
           DEF ServeAttributes, Promise!ServeAttributes
    <3>. QED BY <1>1, <2>2, <3>1, <3>2, RequestProperties DEF ServeAttributes
  <2>3. CASE ServeFile(call, reply')
    BY <2>3, SameServer DEF ServeFile, Promise!ServeFile
  <2>4. CASE ServeTransfer
    BY <2>4, SameServer DEF ServeTransfer, Promise!Write, Promise!Read, Promise!Overwritten,
       Overwritten, Promise!Hole, Hole, Promise!Portion, Portion, Promise!Reply, Reply,
       Promise!remote, remote
  <2>5. CASE ServeRefusal(reply')
    BY <2>5, SameServer DEF ServeRefusal, Promise!ServeRefusal, Promise!Refusal, Refusal,
       Promise!remote, remote
  <2>. QED BY <2>1, <2>2, <2>3, <2>4, <2>5 DEF Serve, ServeSize
<1>. QED BY <1>1, <1>2, <1>3, SameServer DEF Promise!Take, Taken, Answer, Caller

LEMMA PromiseMaps ==
  ASSUME TypeOK, [Next]_vars
  PROVE  [Promise!Next]_(Promise!vars)
<1>1. ASSUME NEW c \in Calls, Invoke(c)
      PROVE  Promise!Next
  BY <1>1, SameServer DEF TypeOK, Invoke, Promise!Next, Promise!Begin, handle, Sizing,
     Promise!remote, remote
<1>2. CASE Seek
  <2>1. off' \in Nat
    BY <1>2, Bounds DEF Seek
  <2>. QED BY <1>2, <2>1, SameServer DEF Seek, Promise!Next, Promise!Seek, libssh2, Sizing,
       Promise!remote, remote
<1>3. CASE Wait
  <2>1. UNCHANGED <<remote, call, Taken, Answer, off>>
    BY <1>3 DEF Wait, Taken, Answer, handle
  <2>. QED BY <1>3, <2>1, PromiseStep DEF Wait, Again, Caller
<1>4. CASE Sized
  BY <1>4, PromiseStep DEF Sized, Taken, Answer, Caller, handle
<1>5. CASE Return
  BY <1>5, SameServer DEF Return, Promise!Next, Promise!Return, Sizing,
     Promise!remote, remote
<1>6. CASE Fail
  BY <1>6, PromiseStep DEF Fail, Failed, Taken, Answer, Caller, handle, libssh2, Sizing
<1>7. CASE Throw
  BY <1>7, PromiseStep DEF Throw, Taken, Answer, Caller, handle, libssh2, Sizing
<1>8. CASE Serve
  BY <1>8, ServeSizing, ServeTakes, PromiseStep DEF Promise!Next
<1>9. CASE ChangedElsewhere
  BY <1>9 DEF ChangedElsewhere, Outside, Promise!Next, Promise!Elsewhere, Promise!Outside,
     libssh2, handle, Sizing
<1>10. CASE Lose \/ UNCHANGED vars
  BY <1>10, PromiseStep DEF Lose, vars, Taken, Answer, Caller, handle, libssh2, Sizing
<1>. QED
  BY <1>1, <1>2, <1>3, <1>4, <1>5, <1>6, <1>7, <1>8, <1>9, <1>10 DEF Next, CallStep

\* The operations keep what the transfer protocol promises, whatever goes over
\* the connection (sftp.hpp:22-32, transfer.hpp:99-122).
THEOREM PromiseKept == Spec => KeepsPromise
<1>1. Init => Promise!Init
  BY SameServer DEF Init, RemoteInit, NoCall, Promise!Init, Promise!RemoteInit, Promise!Kind,
     Kind
<1>. QED
  BY <1>1, SftpTypeCorrect, PromiseMaps, PTL DEF Spec, KeepsPromise, Promise!Spec

----------------------------------------------------------------------------
(***************************************************************************)
(* The safety half of OperationsEnd.                                        *)
(***************************************************************************)

\* The steps that an operation still needs: to send its request, to have it
\* answered, and to go on with the answer; all of that twice for read().
StepsLeft ==
  IF at # "calling" THEN 0
  ELSE (IF Sizing THEN 3 ELSE 0)
       + (IF req = "none" THEN 3 ELSE IF req = "sent" THEN 2 ELSE 1)

\* Every step of an operation and every answer of the server brings it nearer to its
\* end; a repetition, a change by others and the loss of the connection leave it
\* where it was.  It never starts again (sftp.hpp:22-32, file.cpp:34-47, 139-149).
THEOREM OperationShortens ==
  Spec => [][at = "calling" =>
               \/ StepsLeft' \in 0..(StepsLeft - 1)
               \/ UNCHANGED <<at, call, filesize, libssh2, handle, asked>>]_vars
<1>1. ASSUME IInv, [Next]_vars, at = "calling"
      PROVE  \/ StepsLeft' \in 0..(StepsLeft - 1)
             \/ UNCHANGED <<at, call, filesize, libssh2, handle, asked>>
  <2>1. StepsLeft \in 1..6
    BY <1>1 DEF StepsLeft
  <2>2. CASE at' # "calling"
    BY <2>1, <2>2 DEF StepsLeft
  <2>3. CASE Wait /\ at' = "calling"
    <3>1. Sizing' <=> Sizing
      BY <2>3 DEF Wait, Sizing
    <3>2. CASE req = "none"
      BY <1>1, <2>3, <3>1, <3>2 DEF Wait, StepsLeft
    <3>3. CASE req = "sent"
      BY <1>1, <2>3, <3>3 DEF Wait, libssh2
    <3> QED BY <1>1, <2>3, <3>2, <3>3 DEF Wait, IInv, TypeOK
  <2>4. CASE Sized
    <3>1. filesize' # Unknown
      BY <1>1, <2>4 DEF Sized, Size, IInv, TypeOK, ReplyType, Unknown
    <3>2. ~Sizing' /\ Sizing /\ req = "done" /\ req' = "none" /\ at' = at
      BY <2>4, <3>1 DEF Sized, Sizing
    <3> QED BY <1>1, <3>2 DEF StepsLeft
  <2>5. CASE Serve
    <3>1. Sizing' <=> Sizing
      BY <2>5 DEF Serve, Sizing
    <3>2. req = "sent" /\ req' = "done" /\ at' = at
      BY <2>5 DEF Serve
    <3> QED BY <1>1, <3>1, <3>2 DEF StepsLeft
  <2>6. CASE Return \/ Fail \/ Throw
    BY <2>2, <2>6 DEF Return, Fail, Failed, Throw
  <2>7. CASE ChangedElsewhere \/ Lose
    BY <2>7 DEF ChangedElsewhere, Lose
  <2>8. CASE Seek \/ \E c \in Calls : Invoke(c)
    BY <1>1, <2>8 DEF Seek, Invoke
  <2>9. CASE UNCHANGED vars
    BY <2>9 DEF vars
  <2> QED
    BY <1>1, <2>2, <2>3, <2>4, <2>5, <2>6, <2>7, <2>8, <2>9 DEF Next, CallStep
<1>2. IInv /\ [Next]_vars
        => [at = "calling" =>
              \/ StepsLeft' \in 0..(StepsLeft - 1)
              \/ UNCHANGED <<at, call, filesize, libssh2, handle, asked>>]_vars
  BY <1>1
<1> QED BY Invariance, <1>2, PTL DEF Spec
=============================================================================
