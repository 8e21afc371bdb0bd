---------------------------- MODULE SessionProof ----------------------------
(***************************************************************************)
(* Proofs about Session, for a directory of any size.                       *)
(***************************************************************************)
EXTENDS Session, SequenceTheorems, TLAPS

\* The state is Open exactly when the read thread is through with libssh2, and
\* the main thread enters libssh2 only then; before, it waits in connect().
Through == rpc \in {"ending", "ended"}

HandoverInv ==
  /\ mpc = "start" => rpc = "none"
  /\ rpc = "start" => mpc = "connect"
  /\ read_thread_state = "Open" <=> Through
  /\ Through \/ rpc = "channel" => sftp_pointer = "set"
  /\ mpc \in MainCalls \cup {"done"} => Through
  /\ abandoned => Through

\* What is printed is what was read, but for the entry stat() is busy with.
ListingInv ==
  /\ pos \in 0..Entries
  /\ listed \in Seq(1..Entries)
  /\ listed = [i \in 1..Len(listed) |-> i]
  /\ mpc = "stat" => pos = Len(listed) + 1
  /\ mpc \in {"start", "connect", "opendir", "next", "close", "done"}
       => pos = Len(listed)
  /\ mpc \in {"close", "done"} => pos = Entries
  /\ Len(listed) <= Entries

----------------------------------------------------------------------------
LEMMA HandoverStep ==
  ASSUME HandoverInv, [Next]_vars
  PROVE  HandoverInv'
<1>. USE DEF HandoverInv, Through, MainAt, ReadAt, MainCalls
<1>1. CASE MainNew
  BY <1>1 DEF MainNew, fields
<1>2. CASE MainConnected
  BY <1>2 DEF MainConnected, OpenAwaited, fields, world
<1>3. CASE Opendir \/ DirNext \/ Stat \/ Close
  BY <1>3 DEF Opendir, DirNext, AfterNext, Stat, Close, fields, world
<1>4. CASE MainThrow
  BY <1>4 DEF MainThrow, fields, world
<1>5. CASE \E call \in MainCalls : MainAgain(call) \/ MainError(call)
  BY <1>5 DEF MainAgain, MainError, Again, Failed, fields, world
<1>6. CASE RtStart
  BY <1>6 DEF RtStart, read_thread_command, fields
<1>7. CASE RtSocket
  BY <1>7 DEF RtSocket, fields
<1>8. CASE RtConnect
  BY <1>8 DEF RtConnect, fields, world
<1>9. CASE RtHandshake
  BY <1>9 DEF RtHandshake, fields, world
<1>10. CASE RtAuthlist
  BY <1>10 DEF RtAuthlist
<1>11. CASE RtMethods
  BY <1>11 DEF RtMethods, fields
<1>12. CASE RtPublickey \/ RtPassword
  BY <1>12 DEF RtPublickey, RtPassword, fields, world
<1>13. CASE RtInit
  BY <1>13 DEF RtInit, StateAfter
<1>14. CASE RtChannel
  BY <1>14 DEF RtChannel, StateAfter, read_thread_command, world
<1>15. CASE RtThrow
  BY <1>15 DEF RtThrow, fields, world
<1>16. CASE Disposed
  BY <1>16 DEF Disposed, fields
<1>17. CASE Lose
  BY <1>17 DEF Lose, fields
<1>18. CASE UNCHANGED vars
  BY <1>18 DEF vars, fields, world
<1>. QED
  BY <1>1, <1>2, <1>3, <1>4, <1>5, <1>6, <1>7, <1>8, <1>9, <1>10, <1>11, <1>12,
     <1>13, <1>14, <1>15, <1>16, <1>17, <1>18 DEF Next, MainStep, ReadStep

----------------------------------------------------------------------------
\* The line that stat() adds continues the listing.
LEMMA ListingGrows ==
  ASSUME ListingInv, mpc = "stat"
  PROVE  /\ Append(listed, pos) \in Seq(1..Entries)
         /\ Len(Append(listed, pos)) = Len(listed) + 1
         /\ Append(listed, pos) = [i \in 1..Len(Append(listed, pos)) |-> i]
<1>1. pos = Len(listed) + 1 /\ pos \in 1..Entries /\ Len(listed) \in Nat
  BY EntriesAssumption, LenProperties DEF ListingInv
<1>2. Append(listed, pos) \in Seq(1..Entries)
  BY <1>1, AppendProperties DEF ListingInv
<1>3. Len(Append(listed, pos)) = Len(listed) + 1
  BY <1>1, AppendProperties DEF ListingInv
<1>4. ASSUME NEW i \in 1..Len(Append(listed, pos))
      PROVE  Append(listed, pos)[i] = i
  <2>1. CASE i = Len(listed) + 1
    BY <1>1, <2>1, AppendProperties DEF ListingInv
  <2>2. CASE i \in 1..Len(listed)
    <3>1. Append(listed, pos)[i] = listed[i]
      BY <1>1, <2>2, AppendProperties DEF ListingInv
    <3>2. listed[i] = i
      BY <2>2 DEF ListingInv
    <3>. QED BY <3>1, <3>2
  <2>. QED BY <1>1, <1>3, <1>4, <2>1, <2>2
<1>5. Append(listed, pos) = [i \in 1..Len(Append(listed, pos)) |-> Append(listed, pos)[i]]
  BY <1>2, LenProperties
<1>. QED BY <1>2, <1>3, <1>4, <1>5

LEMMA ListingStep ==
  ASSUME ListingInv, [Next]_vars
  PROVE  ListingInv'
<1>. USE DEF ListingInv
<1>1. CASE MainNew \/ MainConnected \/ Opendir \/ MainThrow \/ Disposed
  BY <1>1 DEF MainNew, MainConnected, Opendir, MainThrow, Disposed, MainAt, listing
<1>2. CASE DirNext
  <2>1. Len(listed) \in Nat /\ Entries \in Nat /\ mpc = "next" /\ listed' = listed
    BY <1>2, EntriesAssumption, LenProperties DEF DirNext, MainAt
  <2>2. CASE pos < Entries /\ pos' = pos + 1 /\ mpc' = AfterNext(1)
    BY <2>1, <2>2 DEF AfterNext
  <2>3. CASE pos = Entries /\ UNCHANGED pos /\ mpc' = AfterNext(0)
    BY <2>1, <2>3 DEF AfterNext
  <2>. QED BY <1>2, <2>2, <2>3 DEF DirNext
<1>3. CASE Stat
  <2>1. mpc = "stat" /\ mpc' = "next" /\ pos' = pos /\ listed' = Append(listed, pos)
    BY <1>3 DEF Stat, MainAt
  <2>2. Len(listed) \in Nat /\ Entries \in Nat
    BY EntriesAssumption, LenProperties
  <2>. QED BY <2>1, <2>2, ListingGrows
<1>4. CASE Close
  BY <1>4 DEF Close, MainAt, listing
<1>5. CASE \E call \in MainCalls : MainAgain(call) \/ MainError(call)
  BY <1>5 DEF MainAgain, MainError, Again, Failed, MainAt, listing
<1>6. CASE ReadStep \/ Lose
  BY <1>6 DEF ReadStep, RtStart, RtSocket, RtConnect, RtHandshake, RtAuthlist,
     RtMethods, RtPublickey, RtPassword, RtInit, RtChannel, RtThrow, Lose, listing
<1>7. CASE UNCHANGED vars
  BY <1>7 DEF vars, listing
<1>. QED
  BY <1>1, <1>2, <1>3, <1>4, <1>5, <1>6, <1>7 DEF Next, MainStep

----------------------------------------------------------------------------
PlacesType ==
  /\ mpc \in MainPC /\ rpc \in ReadPC

FieldsType ==
  /\ read_thread_state \in {"Uninitialized", "Open"}
  /\ userauthlist \in Pointer /\ sftp_pointer \in Pointer /\ channel \in Pointer

WorldType ==
  /\ openSockets \subseteq {0}
  /\ abandoned \in BOOLEAN /\ lost \in BOOLEAN /\ crashed \in BOOLEAN

LEMMA TypeParts ==
  TypeOK <=> /\ PlacesType /\ FieldsType /\ WorldType
             /\ pos \in 0..Entries /\ listed \in Seq(1..Entries)
             /\ Len(listed) <= Entries
BY DEF TypeOK, PlacesType, FieldsType, WorldType

LEMMA PlacesStep ==
  ASSUME PlacesType, [Next]_vars
  PROVE  PlacesType'
<1>. USE DEF PlacesType, MainPC, ReadPC, MainCalls, ReadCalls
<1>1. CASE MainStep
  BY <1>1 DEF MainStep, MainNew, MainConnected, Opendir, DirNext, AfterNext, Stat,
     Close, MainThrow, MainAgain, MainError, Again, Failed
<1>2. CASE ReadStep
  BY <1>2 DEF ReadStep, RtStart, RtSocket, RtConnect, RtHandshake, RtAuthlist,
     RtMethods, RtPublickey, RtPassword, RtInit, RtChannel, RtThrow,
     read_thread_command
<1>3. CASE Disposed \/ Lose \/ UNCHANGED vars
  BY <1>3 DEF Disposed, Lose, vars
<1>. QED BY <1>1, <1>2, <1>3 DEF Next

LEMMA FieldsStep ==
  ASSUME FieldsType, [Next]_vars
  PROVE  FieldsType'
<1>. USE DEF FieldsType, Pointer, fields
<1>1. CASE MainStep
  BY <1>1 DEF MainStep, MainNew, MainConnected, Opendir, DirNext, Stat,
     Close, MainThrow, MainAgain, MainError
<1>2. CASE ReadStep
  BY <1>2 DEF ReadStep, RtStart, RtSocket, RtConnect, RtHandshake, RtAuthlist,
     RtMethods, RtPublickey, RtPassword, RtInit, RtChannel, RtThrow, StateAfter
<1>3. CASE Disposed \/ Lose \/ UNCHANGED vars
  BY <1>3 DEF Disposed, Lose, vars
<1>. QED BY <1>1, <1>2, <1>3 DEF Next

LEMMA WorldStep ==
  ASSUME WorldType, [Next]_vars
  PROVE  WorldType'
<1>. USE DEF WorldType, world
<1>1. CASE MainStep
  BY <1>1 DEF MainStep, MainNew, MainConnected, Opendir, DirNext, Stat,
     Close, MainThrow, MainAgain, MainError
<1>2. CASE RtStart \/ RtSocket \/ RtConnect \/ RtHandshake \/ RtAuthlist \/ RtMethods
  BY <1>2 DEF RtStart, RtSocket, RtConnect, RtHandshake, RtAuthlist, RtMethods, sock
<1>3. CASE RtPublickey \/ RtPassword \/ RtChannel \/ RtThrow
  BY <1>3 DEF RtPublickey, RtPassword, RtChannel, RtThrow
<1>4. CASE RtInit
  BY <1>4 DEF RtInit
<1>5. CASE Disposed
  <2>1. abandoned' = (mpc \in MainCalls)
    BY <1>5 DEF Disposed
  <2>2. (mpc \in MainCalls) \in BOOLEAN
    OBVIOUS
  <2>. QED BY <1>5, <2>1, <2>2 DEF Disposed
<1>6. CASE Lose \/ UNCHANGED vars
  BY <1>6 DEF Lose, vars
<1>. QED BY <1>1, <1>2, <1>3, <1>4, <1>5, <1>6 DEF Next, ReadStep

----------------------------------------------------------------------------
SessionInv == PlacesType /\ FieldsType /\ WorldType /\ HandoverInv /\ ListingInv

LEMMA Inductive == Spec => []SessionInv
<1>1. Init => SessionInv
  <2>. SUFFICES ASSUME Init PROVE SessionInv
    OBVIOUS
  <2>1. PlacesType /\ FieldsType /\ WorldType
    BY DEF Init, PlacesType, FieldsType, WorldType, MainPC, ReadPC, Pointer
  <2>2. HandoverInv
    BY DEF Init, HandoverInv, Through, MainCalls
  <2>3. ListingInv
    <3>1. << >> \in Seq(1..Entries) /\ Len(<< >>) = 0
      OBVIOUS
    <3>2. << >> = [i \in 1..0 |-> i]
      OBVIOUS
    <3>. QED BY <3>1, <3>2, EntriesAssumption DEF Init, ListingInv
  <2>. QED BY <2>1, <2>2, <2>3 DEF SessionInv
<1>2. SessionInv /\ [Next]_vars => SessionInv'
  BY PlacesStep, FieldsStep, WorldStep, HandoverStep, ListingStep DEF SessionInv
<1>. QED BY <1>1, <1>2, PTL DEF Spec

\* The variables keep their types; the listing is never longer than the directory.
THEOREM SessionTypeCorrect == Spec => []TypeOK
<1>1. SessionInv => TypeOK
  BY TypeParts DEF SessionInv, ListingInv
<1>. QED BY Inductive, <1>1, PTL

\* libssh2 is never entered by one thread while the other is inside, or was
\* disposed of inside (connection.cpp:29, readthread.cpp:107-109).
THEOREM ExclusiveCorrect == Spec => []SessionExclusive
<1>1. SessionInv => SessionExclusive
  BY DEF SessionInv, HandoverInv, Through, SessionExclusive, ReadCalls
<1>. QED BY Inductive, <1>1, PTL

\* The read thread finds its arguments alive, and the main thread finds the SFTP
\* session made (connection.cpp:16-33, readthread.cpp:94-109).
THEOREM HandoverCorrect == Spec => []Handover
<1>1. SessionInv => Handover
  BY DEF SessionInv, HandoverInv, Through, Handover
<1>. QED BY Inductive, <1>1, PTL

\* The listing shows every entry of the directory once and in order, for a
\* directory of any size (file.cpp:190-209, main.cpp:59-79).
THEOREM ListingCorrect == Spec => []ListingExact
<1>1. SessionInv => ListingExact
  BY DEF SessionInv, ListingInv, ListingExact
<1>. QED BY Inductive, <1>1, PTL

\* What the user sees of a step: an entry, the end, or nothing.
LEMMA ListingMaps ==
  ASSUME SessionInv, [Next]_vars
  PROVE  [User!Next]_(User!vars)
<1>. USE DEF User!vars
<1>1. Len(listed) \in Nat /\ Entries \in Nat
  BY EntriesAssumption, LenProperties DEF SessionInv, ListingInv
<1>2. CASE Stat
  <2>1. /\ mpc = "stat" /\ mpc' = "next" /\ ~crashed /\ ~crashed'
        /\ listed' = Append(listed, pos)
    BY <1>2 DEF Stat, MainAt, world
  <2>2. pos = Len(listed) + 1 /\ Len(listed) < Entries
    BY <1>1, <2>1 DEF SessionInv, ListingInv
  <2>. QED BY <2>1, <2>2 DEF User!Next, User!Show
<1>3. CASE Close
  <2>1. /\ mpc = "close" /\ mpc' = "done" /\ ~crashed /\ UNCHANGED listed
    BY <1>3 DEF Close, MainAt, listing
  <2>2. Len(listed) = Entries
    BY <2>1 DEF SessionInv, ListingInv
  <2>. QED BY <2>1, <2>2 DEF User!Next, User!Complete
<1>4. CASE MainNew \/ MainConnected \/ Opendir \/ DirNext \/ MainThrow \/ Disposed
           \/ \E call \in MainCalls : MainAgain(call) \/ MainError(call)
  <2>1. UNCHANGED listed /\ ~crashed /\ mpc \notin {"done", "caught", "dead"} /\ mpc' # "done"
    BY <1>4 DEF MainNew, MainConnected, Opendir, DirNext, AfterNext, MainThrow, Disposed,
       MainAgain, MainError, Again, Failed, MainAt, MainCalls, listing
  <2>. QED BY <2>1 DEF User!Next, User!Fail
<1>5. CASE ReadStep \/ Lose
  <2>1. UNCHANGED <<listed, mpc>> /\ ~crashed
    BY <1>5 DEF ReadStep, RtStart, RtSocket, RtConnect, RtHandshake, RtAuthlist, RtMethods,
       RtPublickey, RtPassword, RtInit, RtChannel, RtThrow, Lose, ReadAt, listing
  <2>. QED BY <2>1 DEF User!Next, User!Fail
<1>6. CASE UNCHANGED vars
  BY <1>6 DEF vars, listing, world
<1>. QED BY <1>2, <1>3, <1>4, <1>5, <1>6 DEF Next, MainStep

\* The program is a Listing for its user, whatever the two threads, libssh2 and
\* the connection do, and however large the directory (main.cpp:46-87).
THEOREM ListingImplemented == Spec => ImplementsListing
<1>1. Init => User!Init
  BY DEF Init, User!Init
<1>. QED
  BY Inductive, ListingMaps, <1>1, PTL DEF Spec, ImplementsListing, User!Spec

----------------------------------------------------------------------------
(***************************************************************************)
(* The safety half of ListingEnds and ConnectEnds: the only way for a thread *)
(* to go on for ever is to repeat one call.                                  *)
(***************************************************************************)

\* The answers that main_func() still needs.
AnswersLeft ==
  CASE mpc \in {"opendir", "stat"} -> 2 * (Entries - pos) + 3
    [] mpc = "next"                -> 2 * (Entries - pos) + 2
    [] mpc = "close"               -> 1
    [] OTHER                       -> 0

LEMMA SameAnswersLeft ==
  ASSUME UNCHANGED <<mpc, pos>>
  PROVE  AnswersLeft' = AnswersLeft
BY DEF AnswersLeft

\* A listing of any size gets nearer to its end with every answer: whatever else
\* happens, the thread is where it was, in the same call, with the same entries
\* shown (main.cpp:59-80, sftp.hpp:22-32, file.cpp:190-209).
THEOREM ListingShortens ==
  Spec => [][(mpc \in MainCalls =>
                \/ AnswersLeft' \in 0..(AnswersLeft - 1)
                \/ UNCHANGED <<mpc, listing>>)]_vars
<1>1. ASSUME SessionInv, [Next]_vars, mpc \in MainCalls
      PROVE  AnswersLeft' \in 0..(AnswersLeft - 1) \/ UNCHANGED <<mpc, listing>>
  <2>1. Entries \in Nat /\ pos \in 0..Entries /\ Len(listed) \in Nat
    BY <1>1, EntriesAssumption, LenProperties DEF SessionInv, ListingInv
  <2>2. AnswersLeft \in Nat /\ AnswersLeft > 0
    BY <1>1, <2>1 DEF AnswersLeft, MainCalls
  <2>3. CASE mpc' \notin MainCalls
    BY <2>2, <2>3 DEF AnswersLeft, MainCalls
  <2>4. CASE Opendir
    BY <1>1, <2>1, <2>4 DEF Opendir, MainAt, listing, AnswersLeft
  <2>5. CASE DirNext
    <3>1. mpc = "next" /\ (pos < Entries \/ pos = Entries)
      BY <2>5 DEF DirNext, MainAt
    <3>2. CASE pos < Entries /\ pos' = pos + 1 /\ mpc' = "stat"
      BY <2>1, <3>1, <3>2 DEF AnswersLeft
    <3>3. CASE pos = Entries /\ pos' = pos /\ mpc' = "close"
      BY <2>1, <3>1, <3>3 DEF AnswersLeft
    <3> QED BY <2>5, <3>2, <3>3 DEF DirNext, AfterNext
  <2>6. CASE Stat
    BY <2>1, <2>6 DEF Stat, MainAt, AnswersLeft
  <2>7. CASE \E call \in MainCalls : MainAgain(call)
    BY <2>3, <2>7 DEF MainAgain, MainAt, Again, listing, MainCalls
  <2>8. CASE ReadStep \/ Lose
    BY <2>8 DEF ReadStep, RtStart, RtSocket, RtConnect, RtHandshake, RtAuthlist,
       RtMethods, RtPublickey, RtPassword, RtInit, RtChannel, RtThrow, Lose, listing
  <2>9. CASE MainNew \/ MainConnected \/ MainThrow
    BY <1>1, <2>9 DEF MainNew, MainConnected, MainThrow, MainAt, MainCalls
  <2>10. CASE Close \/ Disposed \/ \E call \in MainCalls : MainError(call)
    BY <2>3, <2>10 DEF Close, Disposed, MainError, Failed, MainCalls
  <2>11. CASE UNCHANGED vars
    BY <2>11 DEF vars
  <2> QED
    BY <1>1, <2>4, <2>5, <2>6, <2>7, <2>8, <2>9, <2>10, <2>11 DEF Next, MainStep
<1>2. SessionInv /\ [Next]_vars
        => [(mpc \in MainCalls =>
               \/ AnswersLeft' \in 0..(AnswersLeft - 1)
               \/ UNCHANGED <<mpc, listing>>)]_vars
  BY <1>1
<1> QED BY Inductive, <1>2, PTL DEF Spec

\* The stages that the read thread has before it, up to the state Open.
StagesLeft ==
  [p \in ReadPC |->
     CASE p = "start"     -> 10
       [] p = "socket"    -> 9
       [] p = "connect"   -> 8
       [] p = "handshake" -> 7
       [] p = "authlist"  -> 6
       [] p = "methods"   -> 5
       [] p = "publickey" -> 4
       [] p = "password"  -> 3
       [] p = "init"      -> 2
       [] p = "channel"   -> 1
       [] OTHER           -> 0][rpc]

\* While SFTP::connect() waits, its read thread has failed or never was, or has
\* come through and the state is Open, or is at a stage that it leaves for a
\* later one, if it leaves it; and it stays only in the three calls that it
\* repeats (connection.cpp:29, readthread.cpp:22-109).
THEOREM ConnectShortens ==
  /\ Spec => [](mpc = "connect" =>
                  rpc \in {"none", "throw", "failed"} \/ OpenAwaited \/ StagesLeft > 0)
  /\ Spec => [][StagesLeft > 0 =>
                  \/ StagesLeft' \in 0..(StagesLeft - 1)
                  \/ UNCHANGED rpc /\ (ReadStep => rpc \in {"handshake", "authlist", "init"})]_vars
<1>1. SessionInv => (mpc = "connect" =>
                  rpc \in {"none", "throw", "failed"} \/ OpenAwaited \/ StagesLeft > 0)
  BY DEF SessionInv, PlacesType, ReadPC, ReadCalls, HandoverInv, Through, OpenAwaited, StagesLeft
<1>2. ASSUME SessionInv, [Next]_vars, StagesLeft > 0
      PROVE  \/ StagesLeft' \in 0..(StagesLeft - 1)
             \/ UNCHANGED rpc /\ (ReadStep => rpc \in {"handshake", "authlist", "init"})
  <2> USE DEF StagesLeft, ReadPC, ReadCalls, ReadAt
  <2>1. rpc \in ReadPC /\ rpc' \in ReadPC /\ rpc # "none"
    BY <1>2, PlacesStep DEF SessionInv, PlacesType
  <2>2. CASE RtStart
    BY <2>1, <2>2 DEF RtStart, read_thread_command
  <2>3. CASE RtSocket \/ RtConnect
    BY <2>1, <2>3 DEF RtSocket, RtConnect
  <2>4. CASE RtHandshake
    BY <2>1, <2>4 DEF RtHandshake
  <2>5. CASE RtAuthlist
    BY <2>1, <2>5 DEF RtAuthlist
  <2>6. CASE RtMethods
    BY <2>1, <2>6 DEF RtMethods
  <2>7. CASE RtPublickey
    BY <2>1, <2>7 DEF RtPublickey
  <2>8. CASE RtPassword
    BY <2>1, <2>8 DEF RtPassword
  <2>9. CASE RtInit
    BY <2>1, <2>9 DEF RtInit
  <2>10. CASE RtChannel \/ RtThrow
    BY <1>2, <2>1, <2>10 DEF RtChannel, RtThrow, read_thread_command
  <2>11. CASE ~ReadStep
    <3>1. CASE MainNew
      BY <1>2, <2>1, <3>1 DEF MainNew, MainAt, SessionInv, HandoverInv
    <3>2. CASE MainStep /\ ~MainNew
      BY <2>11, <3>2 DEF MainStep, MainConnected, Opendir, DirNext, Stat, Close,
         MainThrow, MainAgain, MainError
    <3>3. CASE Disposed \/ Lose \/ UNCHANGED vars
      BY <2>11, <3>3 DEF Disposed, Lose, vars
    <3> QED BY <1>2, <2>11, <3>1, <3>2, <3>3 DEF Next
  <2> QED
    BY <2>2, <2>3, <2>4, <2>5, <2>6, <2>7, <2>8, <2>9, <2>10, <2>11 DEF ReadStep
<1>3. SessionInv /\ [Next]_vars
        => [StagesLeft > 0 =>
              \/ StagesLeft' \in 0..(StagesLeft - 1)
              \/ UNCHANGED rpc /\ (ReadStep => rpc \in {"handshake", "authlist", "init"})]_vars
  BY <1>2
<1> QED BY Inductive, <1>1, <1>3, PTL DEF Spec
=============================================================================
