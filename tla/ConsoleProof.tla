---------------------------- MODULE ConsoleProof ----------------------------
(***************************************************************************)
(* Proofs about Console, for any threads, any limit of lineBuffer and any   *)
(* window.                                                                  *)
(***************************************************************************)
EXTENDS Console, SequenceTheorems, TLAPS

\* The application's thread is always ready: it never ends, it only yields.
UIReady == \E i \in 1..Len(ready) : ready[i] = UI

\* What the next drawing does not reach is empty.
RestBlank == \A i \in 1..rows : i > dirty => screen[i] = Blank

LEMMA Sizes == Limit \in Nat /\ Limit > 0 /\ MaxRows \in Nat /\ MaxWrites \in Nat
BY SizeAssumption

----------------------------------------------------------------------------
(* What the operators do *)

LEMMA YieldedReady ==
  ASSUME TypeOK, UIReady
  PROVE  /\ Yielded \in Seq(Threads \cup {UI}) /\ Yielded # << >>
         /\ \E i \in 1..Len(Yielded) : Yielded[i] = UI
<1> DEFINE T == Threads \cup {UI}
<1>1. ready \in Seq(T) /\ ready # << >> /\ Len(ready) \in Nat /\ Len(ready) > 0
  BY DEF TypeOK
<1>2. Head(ready) \in T /\ Tail(ready) \in Seq(T) /\ Len(Tail(ready)) = Len(ready) - 1
  BY <1>1
<1>3. Yielded \in Seq(T) /\ Len(Yielded) = Len(ready)
  BY <1>1, <1>2 DEF Yielded
<1>4. \A i \in 1..Len(ready) :
        Yielded[i] = IF i = Len(ready) THEN Head(ready) ELSE ready[i + 1]
  <2>1. \A i \in 1..Len(ready) :
          Yielded[i] = IF i = Len(ready) THEN Head(ready) ELSE Tail(ready)[i]
    <3>1. /\ \A i \in 1..Len(Tail(ready)) : Yielded[i] = Tail(ready)[i]
          /\ Yielded[Len(Tail(ready)) + 1] = Head(ready)
      BY <1>2, AppendProperties DEF Yielded
    <3>2. Len(Tail(ready)) = Len(ready) - 1 /\ Len(Tail(ready)) + 1 = Len(ready)
      BY <1>1, <1>2
    <3>3. \A i \in 1..Len(ready) : i = Len(ready) \/ i \in 1..(Len(ready) - 1)
      BY <1>1
    <3>. QED BY <3>1, <3>2, <3>3
  <2>2. \A i \in 1..(Len(ready) - 1) : Tail(ready)[i] = ready[i + 1]
    BY <1>1
  <2>. QED BY <1>1, <2>1, <2>2
<1>5. PICK i \in 1..Len(ready) : ready[i] = UI
  BY DEF UIReady
<1>6. CASE i = 1
  <2>1. Yielded[Len(ready)] = UI /\ Len(ready) \in 1..Len(Yielded)
    BY <1>1, <1>3, <1>4, <1>5, <1>6
  <2>. QED BY <1>1, <1>3, <2>1
<1>7. CASE i # 1
  <2>1. i - 1 \in 1..Len(Yielded) /\ Yielded[i - 1] = UI
    BY <1>1, <1>3, <1>4, <1>5, <1>7
  <2>. QED BY <1>1, <1>3, <2>1
<1>. QED BY <1>6, <1>7

LEMMA AppendedReady ==
  ASSUME TypeOK, UIReady, NEW t \in Threads
  PROVE  /\ Append(ready, t) \in Seq(Threads \cup {UI}) /\ Append(ready, t) # << >>
         /\ \E i \in 1..Len(Append(ready, t)) : Append(ready, t)[i] = UI
<1>1. ready \in Seq(Threads \cup {UI}) /\ Len(ready) \in Nat
  BY DEF TypeOK
<1>2. Append(ready, t) \in Seq(Threads \cup {UI})
      /\ Len(Append(ready, t)) = Len(ready) + 1
      /\ \A i \in 1..Len(ready) : Append(ready, t)[i] = ready[i]
  BY <1>1
<1>3. 1..Len(ready) \subseteq 1..(Len(ready) + 1)
  BY <1>1
<1>. QED BY <1>1, <1>2, <1>3 DEF UIReady

LEMMA RestReady ==
  ASSUME TypeOK, UIReady, NEW k \in 1..Len(ready), ready[k] \in Threads
  PROVE  /\ Without(k) \in Seq(Threads \cup {UI}) /\ Without(k) # << >>
         /\ \E i \in 1..Len(Without(k)) : Without(k)[i] = UI
<1> DEFINE T == Threads \cup {UI}
           n == Len(ready)
<1>1. ready \in Seq(T) /\ n \in Nat /\ n > 0 /\ \A i \in 1..n : ready[i] \in T
  BY DEF TypeOK
<1>2. PICK i \in 1..n : ready[i] = UI
  BY DEF UIReady
<1>3. i # k /\ n - 1 \in Nat /\ n - 1 > 0
  BY <1>1, <1>2, ThreadAssumption
<1>4. Without(k) \in [1..(n - 1) -> T]
  <2>1. \A j \in 1..(n - 1) : j \in 1..n /\ j + 1 \in 1..n
    BY <1>1
  <2>. QED BY <1>1, <2>1 DEF Without
<1>5. Without(k) \in Seq(T) /\ Len(Without(k)) = n - 1
  BY <1>3, <1>4
<1>6. CASE i < k
  <2>1. i \in 1..(n - 1)
    BY <1>1, <1>6
  <2>2. Without(k)[i] = UI
    BY <1>2, <1>6, <2>1 DEF Without
  <2>. QED BY <1>3, <1>5, <2>1, <2>2
<1>7. CASE i > k
  <2>1. i - 1 \in 1..(n - 1) /\ ~(i - 1 < k) /\ (i - 1) + 1 = i
    BY <1>1, <1>7
  <2>2. Without(k)[i - 1] = UI
    BY <1>2, <2>1 DEF Without
  <2>. QED BY <1>3, <1>5, <2>1, <2>2
<1>. QED BY <1>3, <1>6, <1>7

\* Pushing a line keeps the last ones.
LEMMA PushKeepsLast ==
  ASSUME TypeOK, LastLines, NEW esc \in BOOLEAN, ConsoleWrite(esc)
  PROVE  /\ written' \in 0..MaxWrites /\ lineBuffer' \in Seq(Line)
         /\ LastLines'
<1> DEFINE line == [n |-> written + 1, esc |-> esc]
           grown == Append(lineBuffer, line)
<1>1. written \in Nat /\ written' = written + 1 /\ written' \in 1..MaxWrites
  BY Sizes DEF TypeOK, ConsoleWrite
<1>2. line \in Line /\ line.n = written + 1
  BY <1>1 DEF Line
<1>3. lineBuffer \in Seq(Line) /\ Len(lineBuffer) \in Nat
  BY DEF TypeOK
<1>4. grown \in Seq(Line) /\ Len(grown) = Len(lineBuffer) + 1
      /\ \A i \in 1..Len(grown) :
           grown[i] = IF i = Len(lineBuffer) + 1 THEN line ELSE lineBuffer[i]
  BY <1>2, <1>3
<1>5. lineBuffer' = IF Len(grown) >= Limit THEN Tail(grown) ELSE grown
  BY DEF ConsoleWrite, Push
<1>6. \A i \in 1..Len(lineBuffer) : lineBuffer[i].n = written - Len(lineBuffer) + i
  BY <1>3 DEF LastLines
<1>7. \A i \in 1..Len(grown) : grown[i].n = written + 1 - Len(grown) + i
  BY <1>1, <1>2, <1>3, <1>4, <1>6
<1>8. Len(lineBuffer) = IF written < Limit THEN written ELSE Limit - 1
  BY DEF LastLines
<1>9. CASE Len(grown) >= Limit
  <2>1. lineBuffer' = Tail(grown) /\ lineBuffer' \in Seq(Line)
        /\ Len(lineBuffer') = Len(grown) - 1
        /\ \A i \in 1..(Len(grown) - 1) : lineBuffer'[i] = grown[i + 1]
    BY <1>3, <1>4, <1>5, <1>9
  <2>2. Len(lineBuffer') = Limit - 1 /\ written' >= Limit
    BY Sizes, <1>1, <1>3, <1>4, <1>8, <1>9, <2>1
  <2>3. \A i \in 1..Len(lineBuffer') : lineBuffer'[i].n = written' - Len(lineBuffer') + i
    <3> SUFFICES ASSUME NEW i \in 1..Len(lineBuffer')
                 PROVE  lineBuffer'[i].n = written' - Len(lineBuffer') + i
      OBVIOUS
    <3>1. i + 1 \in 1..Len(grown) /\ lineBuffer'[i] = grown[i + 1]
      BY <1>3, <1>4, <2>1
    <3>2. grown[i + 1].n = written + 1 - Len(grown) + (i + 1)
      BY <1>7, <3>1
    <3>3. i \in Int /\ Len(grown) \in Int /\ written \in Int
      BY <1>1, <1>3, <1>4
    <3>4. written' = written + 1 /\ Len(lineBuffer') = Len(grown) - 1
      BY <1>1, <2>1
    <3> HIDE DEF grown, line
    <3>5. written + 1 - Len(grown) + (i + 1) = written' - Len(lineBuffer') + i
      BY <3>3, <3>4
    <3>. QED BY <3>1, <3>2, <3>5, Zenon
  <2>4. DOMAIN lineBuffer' = 1..Len(lineBuffer')
    BY <2>1
  <2>5. LastLines'
    BY Sizes, <1>1, <2>2, <2>3, <2>4 DEF LastLines
  <2>. QED BY <1>1, <2>1, <2>5
<1>10. CASE ~(Len(grown) >= Limit)
  <2>1. lineBuffer' = grown /\ DOMAIN lineBuffer' = 1..Len(grown)
    BY <1>4, <1>5, <1>10
  <2>2. Len(grown) = written + 1 /\ written + 1 < Limit
    BY Sizes, <1>1, <1>3, <1>4, <1>8, <1>10
  <2>. QED BY <1>1, <1>4, <1>7, <2>1, <2>2 DEF LastLines
<1>. QED BY <1>9, <1>10

\* A drawing shows a run of the lines, whatever of the window it reaches.
LEMMA DrawShowsRun ==
  ASSUME TypeOK, LastLines, NEW size \in 0..MaxRows, NEW region \in 0..size, NEW old,
         \A i \in 1..size : i > region => old[i] = Blank,
         ScreenDraw(size, region, old)
  PROVE  /\ lineBuffer' = lineBuffer /\ written' = written
         /\ over' \in {"died", over} /\ dirty' = size
         /\ screen' \in [1..size -> 0..MaxWrites]
         /\ \A i, j \in 1..size :
              i < j /\ screen'[j] # Blank => screen'[i] = screen'[j] - (j - i)
<1> DEFINE row(i) == IF i <= Len(lineBuffer) THEN lineBuffer[i].n ELSE Blank
<1>1. /\ lineBuffer' = lineBuffer /\ written' = written
      /\ over' \in {"died", over} /\ dirty' = size
  BY DEF ScreenDraw, Invalidated, lines
<1>2. screen' = [i \in 1..size |-> IF i <= region THEN row(i) ELSE old[i]]
  BY DEF ScreenDraw
<1>3. \A i \in 1..size : screen'[i] = IF i <= region THEN row(i) ELSE Blank
  BY <1>2
<1>4. lineBuffer \in Seq(Line) /\ Len(lineBuffer) \in Nat /\ written \in Nat
  BY Sizes DEF TypeOK
<1>5. \A i \in 1..Len(lineBuffer) :
        lineBuffer[i].n = written - Len(lineBuffer) + i /\ lineBuffer[i].n \in 1..MaxWrites
  <2>1. \A i \in 1..Len(lineBuffer) : lineBuffer[i] \in Line
    BY <1>4
  <2>2. DOMAIN lineBuffer = 1..Len(lineBuffer)
    BY <1>4
  <2>. QED BY <2>1, <2>2 DEF LastLines, Line
<1>6. \A i \in 1..size : screen'[i] \in 0..MaxWrites
  BY Sizes, <1>3, <1>4, <1>5 DEF Blank
<1>7. screen' \in [1..size -> 0..MaxWrites]
  BY <1>2, <1>6
<1>8. ASSUME NEW i \in 1..size, NEW j \in 1..size, i < j, screen'[j] # Blank
      PROVE  screen'[i] = screen'[j] - (j - i)
  <2>1. j <= region /\ j <= Len(lineBuffer) /\ screen'[j] = lineBuffer[j].n
    BY <1>3, <1>8
  <2>2. i <= region /\ i <= Len(lineBuffer)
    BY <1>4, <1>8, <2>1, Sizes
  <2>3. screen'[i] = lineBuffer[i].n
    BY <1>3, <2>2
  <2>4. i \in 1..Len(lineBuffer) /\ j \in 1..Len(lineBuffer) /\ i \in Int /\ j \in Int
    BY <1>4, <2>1, <2>2, Sizes
  <2>5. screen'[i] = written - Len(lineBuffer) + i /\ screen'[j] = written - Len(lineBuffer) + j
    BY <1>5, <2>1, <2>3, <2>4
  <2>. QED BY <1>4, <2>4, <2>5
<1>. QED BY <1>1, <1>7, <1>8

----------------------------------------------------------------------------
(* The invariant *)

IInv == TypeOK /\ UIReady /\ LastLines /\ RestBlank /\ ScreenConsistent

LEMMA InitOK == Init => IInv
<1> SUFFICES ASSUME Init PROVE IInv
  OBVIOUS
<1>1. TypeOK
  BY Sizes DEF Init, TypeOK
<1>2. UIReady /\ LastLines /\ RestBlank /\ ScreenConsistent
  BY Sizes DEF Init, UIReady, LastLines, RestBlank, ScreenConsistent
<1>. QED BY <1>1, <1>2 DEF IInv

\* What a step leaves of the invariant: the parts, each with what it is about.
LEMMA ThreadsKept ==
  ASSUME IInv, UNCHANGED <<lines, display, over>>,
         upc' \in {"main", "setup", "loop"}, started' \subseteq Threads,
         ready' \in Seq(Threads \cup {UI}), ready' # << >>,
         \E i \in 1..Len(ready') : ready'[i] = UI
  PROVE  IInv'
BY DEF IInv, TypeOK, UIReady, LastLines, RestBlank, ScreenConsistent, lines, display

LEMMA LinesKept ==
  ASSUME IInv, NEW esc \in BOOLEAN, ConsoleWrite(esc), UNCHANGED <<display, over, started>>,
         upc' \in {"main", "setup", "loop"}
  PROVE  IInv'
<1>1. ready' = Yielded
  BY DEF ConsoleWrite
<1>2. written' \in 0..MaxWrites /\ lineBuffer' \in Seq(Line) /\ LastLines'
  BY PushKeepsLast DEF IInv
<1>3. ready' \in Seq(Threads \cup {UI}) /\ ready' # << >> /\ UIReady'
  BY YieldedReady, <1>1 DEF IInv, UIReady
<1>4. TypeOK'
  BY <1>2, <1>3 DEF IInv, TypeOK, display
<1>. QED BY <1>2, <1>3, <1>4 DEF IInv, RestBlank, ScreenConsistent, display

LEMMA DrawingKept ==
  ASSUME IInv, NEW region \in 0..rows', rows' \in 0..MaxRows, NEW old,
         \A i \in 1..rows' : i > region => old[i] = Blank,
         ScreenDraw(rows', region, old),
         upc' \in {"main", "setup", "loop"}, UNCHANGED started,
         ready' = ready \/ ready' = Yielded
  PROVE  IInv'
<1>1. TypeOK /\ LastLines /\ UIReady
  BY DEF IInv
<1>2. /\ lineBuffer' = lineBuffer /\ written' = written
      /\ over' \in {"died", over} /\ dirty' = rows'
      /\ screen' \in [1..rows' -> 0..MaxWrites]
      /\ \A i, j \in 1..rows' :
           i < j /\ screen'[j] # Blank => screen'[i] = screen'[j] - (j - i)
  <2> DEFINE size == rows'
  <2> HIDE DEF size
  <2>1. size = rows' BY DEF size
  <2>. QED BY <1>1, <2>1, DrawShowsRun
<1>3. ready' \in Seq(Threads \cup {UI}) /\ ready' # << >> /\ UIReady'
  BY YieldedReady, <1>1 DEF UIReady, TypeOK
<1>4. TypeOK'
  BY <1>1, <1>2, <1>3, Sizes DEF TypeOK
<1>5. RestBlank'
  BY <1>2, Sizes DEF RestBlank
<1>6. LastLines' /\ ScreenConsistent'
  BY <1>1, <1>2 DEF LastLines, ScreenConsistent
<1>. QED BY <1>3, <1>4, <1>5, <1>6 DEF IInv

LEMMA GrowKept ==
  ASSUME IInv, Grow
  PROVE  IInv'
<1>1. TypeOK /\ UIReady /\ RestBlank /\ ScreenConsistent
  BY DEF IInv
<1>2. ready' \in Seq(Threads \cup {UI}) /\ ready' # << >> /\ UIReady'
  BY <1>1, YieldedReady DEF Grow, UIReady
<1>3. /\ rows' \in 0..MaxRows /\ rows \in 0..MaxRows /\ dirty \in 0..rows
      /\ dirty' = IF dirty < rows' THEN dirty ELSE rows'
      /\ screen' = [i \in 1..rows' |-> IF i <= rows THEN screen[i] ELSE Blank]
      /\ UNCHANGED <<upc, started, lineBuffer, written, over>>
  BY <1>1 DEF Grow, TypeOK, lines
<1>4. \A i \in 1..rows' : screen'[i] = IF i <= rows THEN screen[i] ELSE Blank
  BY <1>3
<1>5. \A i \in 1..rows' : i <= rows => i \in 1..rows
  BY <1>3, Sizes
<1>6. TypeOK'
  <2>1. screen' \in [1..rows' -> 0..MaxWrites]
    BY <1>1, <1>3, <1>5, Sizes DEF TypeOK, Blank
  <2>2. dirty' \in 0..rows'
    BY <1>3, Sizes
  <2>. QED BY <1>1, <1>2, <1>3, <2>1, <2>2 DEF TypeOK
<1>7. RestBlank'
  BY <1>1, <1>3, <1>4, <1>5, Sizes DEF RestBlank
<1>8. ScreenConsistent'
  <2> SUFFICES ASSUME NEW i \in 1..rows', NEW j \in 1..rows', i < j, screen'[j] # Blank
               PROVE  screen'[i] = screen'[j] - (j - i)
    BY DEF ScreenConsistent
  <2>1. j <= rows /\ screen'[j] = screen[j]
    BY <1>4
  <2>2. i <= rows /\ screen'[i] = screen[i]
    BY <1>3, <1>4, <2>1, Sizes
  <2>3. i \in 1..rows /\ j \in 1..rows
    BY <1>5, <2>1, <2>2
  <2>. QED BY <1>1, <2>1, <2>2, <2>3 DEF ScreenConsistent
<1>9. LastLines'
  BY <1>3 DEF IInv, LastLines
<1>. QED BY <1>2, <1>6, <1>7, <1>8, <1>9 DEF IInv

LEMMA Step ==
  ASSUME IInv, [Next]_vars
  PROVE  IInv'
<1>1. TypeOK /\ UIReady /\ LastLines /\ RestBlank
  BY DEF IInv
<1>2. rows \in 0..MaxRows /\ dirty \in 0..rows /\ 0 \in 0..rows /\ rows \in Nat
  BY <1>1, Sizes DEF TypeOK
<1>3. ASSUME NEW t \in Threads, Write(t)
      PROVE  IInv'
  BY <1>1, <1>3, LinesKept DEF Write, TypeOK
<1>4. ASSUME NEW t \in Threads, Yield(t)
      PROVE  IInv'
  <2>1. ready' = Yielded /\ UNCHANGED <<upc, started, lines, display, over>>
    BY <1>4 DEF Yield
  <2>. QED BY <1>1, <2>1, YieldedReady, ThreadsKept DEF TypeOK
<1>5. ASSUME NEW t \in Threads, NewThread(t)
      PROVE  IInv'
  <2>1. PICK u \in Threads \ started :
          started' = started \cup {u} /\ ready' = Append(ready, u)
    BY <1>5 DEF NewThread
  <2>. QED BY <1>1, <1>5, <2>1, AppendedReady, ThreadsKept DEF NewThread, TypeOK
<1>6. ASSUME NEW t \in Threads, Finish(t)
      PROVE  IInv'
  <2>1. PICK i \in 1..Len(ready) : ready[i] \in Threads /\ ready' = Without(i)
    BY <1>6 DEF Finish
  <2>2. UNCHANGED <<upc, started, lines, display, over>>
    BY <1>6 DEF Finish
  <2>. QED BY <1>1, <2>1, <2>2, RestReady, ThreadsKept DEF TypeOK
<1>7. CASE LaunchMain
  <2>1. CASE ready' = Append(ready, Main) /\ started' = {Main} /\ UNCHANGED lines
    BY <1>1, <1>7, <2>1, AppendedReady, ThreadsKept, ThreadAssumption DEF LaunchMain
  <2>2. CASE ConsoleWrite(FALSE) /\ UNCHANGED started
    BY <1>1, <1>7, <2>2, LinesKept DEF LaunchMain
  <2>. QED BY <1>7, <2>1, <2>2 DEF LaunchMain
<1>8. CASE Setup
  <2>1. rows' = MaxRows /\ ScreenDraw(rows', rows', screen) /\ upc' = "loop"
        /\ UNCHANGED <<ready, started>>
    BY <1>8 DEF Setup, threads
  <2>2. rows' \in 0..MaxRows /\ rows' \in 0..rows'
        /\ \A i \in 1..rows' : i > rows' => screen[i] = Blank
    BY <2>1, Sizes
  <2>. QED BY <2>1, <2>2, DrawingKept
<1>9. CASE Update
  <2>1. rows' = rows /\ ScreenDraw(rows', dirty, screen) /\ ready' = Yielded
        /\ UNCHANGED <<upc, started>>
    BY <1>9 DEF Update
  <2>. QED BY <1>1, <1>2, <2>1, DrawingKept DEF TypeOK, RestBlank
<1>10. CASE Idle
  <2>1. rows' = rows /\ ScreenDraw(rows', 0, screen) /\ dirty = 0
        /\ UNCHANGED <<upc, ready, started>>
    BY <1>10 DEF Idle, threads
  <2>. QED BY <1>1, <1>2, <2>1, DrawingKept DEF TypeOK, RestBlank
<1>11. CASE OtherEvent
  <2>1. ready' = Yielded /\ UNCHANGED <<upc, started, lines, display, over>>
    BY <1>11 DEF OtherEvent
  <2>. QED BY <1>1, <2>1, YieldedReady, ThreadsKept DEF TypeOK
<1>12. CASE Drag
  <2>1. /\ ready' = Yielded /\ dirty' = rows /\ screen' = [i \in 1..rows |-> Blank]
        /\ UNCHANGED <<upc, started, lineBuffer, written, rows, over>>
    BY <1>12 DEF Drag, lines
  <2>2. TypeOK' /\ UIReady'
    BY <1>1, <1>2, <2>1, YieldedReady, Sizes DEF TypeOK, UIReady, Blank
  <2>3. LastLines' /\ RestBlank' /\ ScreenConsistent'
    BY <1>1, <1>2, <2>1 DEF LastLines, RestBlank, ScreenConsistent
  <2>. QED BY <2>2, <2>3 DEF IInv
<1>13. CASE Quit
  <2>1. UNCHANGED <<upc, ready, started, lineBuffer, written, rows, dirty, screen>>
        /\ over' = "quit"
    BY <1>13 DEF Quit, threads, lines, display
  <2>. QED BY <2>1 DEF IInv, TypeOK, UIReady, LastLines, RestBlank, ScreenConsistent
<1>14. CASE UNCHANGED vars
  BY <1>14 DEF vars, threads, lines, display, IInv, TypeOK, UIReady, LastLines,
     RestBlank, ScreenConsistent
<1>. QED
  BY <1>3, <1>4, <1>5, <1>6, <1>7, <1>8, <1>9, <1>10, <1>11, <1>12, <1>13,
     <1>14, GrowKept DEF Next, System, User, ThreadStep

LEMMA Inductive == Spec => []IInv
BY InitOK, Step, PTL DEF Spec

----------------------------------------------------------------------------
\* The variables keep their types: the update region stays inside the window,
\* and the screen shows only lines that were written (console.cpp, printf.cpp).
THEOREM ConsoleTypeCorrect == Spec => []TypeOK
<1>1. IInv => TypeOK
  BY DEF IInv
<1>. QED BY <1>1, Inductive, PTL

\* lineBuffer holds the last lines, whatever its limit and however many threads
\* print (printf.cpp:7-22).
THEOREM LastLinesCorrect == Spec => []LastLines
<1>1. IInv => LastLines
  BY DEF IInv
<1>. QED BY <1>1, Inductive, PTL

\* The screen shows consecutive lines, whatever the window's size and however
\* the user changes it between two drawings (console.cpp:112-142, 239).
THEOREM ScreenCorrect == Spec => []ScreenConsistent
<1>1. IInv => ScreenConsistent
  BY DEF IInv
<1>. QED BY <1>1, Inductive, PTL

\* While the window has an area the event loop never lacks an update event, so that
\* it yields again, whatever the size of the window and whatever the user does to
\* it (console.cpp:112-154, 239).
THEOREM UpdateCorrect == Spec => []UpdateDue
<1>1. Init => UpdateDue
  BY DEF Init, UpdateDue
<1>2. ASSUME TypeOK, UpdateDue, [Next]_vars
      PROVE  UpdateDue'
  <2>1. rows \in 0..MaxRows /\ dirty \in 0..rows /\ MaxRows \in Nat
    BY <1>2, Sizes DEF TypeOK
  <2>2. ASSUME NEW size, NEW region, NEW old, ScreenDraw(size, region, old)
        PROVE  dirty' = size
    BY <2>2 DEF ScreenDraw, Invalidated
  <2>3. CASE LaunchMain \/ OtherEvent \/ Quit \/ (\E t \in Threads : ThreadStep(t)) \/ UNCHANGED vars
    BY <1>2, <2>3 DEF LaunchMain, OtherEvent, Quit, ThreadStep, Write, Yield, NewThread,
       Finish, vars, display, UpdateDue
  <2>4. CASE Setup \/ Update \/ Idle
    BY <2>2, <2>4 DEF Setup, Update, Idle, UpdateDue
  <2>5. CASE Drag
    BY <2>5 DEF Drag, UpdateDue
  <2>6. CASE Grow
    <3>1. rows' \in Nat /\ dirty > 0
      BY <1>2, <2>1, <2>6 DEF Grow, InLoop, UpdateDue
    <3> QED BY <2>1, <2>6, <3>1 DEF Grow, UpdateDue
  <2> QED BY <1>2, <2>3, <2>4, <2>5, <2>6 DEF Next, System, User
<1>3. IInv => TypeOK
  BY DEF IInv
<1> QED BY Inductive, <1>1, <1>2, <1>3, PTL DEF Spec

\* Nobody is passed over: whoever runs, every thread that waits moves up by one
\* place, until the window is shrunk to nothing.  The event loop takes no turn
\* without a yield, because an update is due (console.cpp:112-154, printf.cpp:7-22).
THEOREM TurnComes ==
  Spec => [][~Shut /\ upc' = upc /\ over' = over /\ Len(ready') = Len(ready)
               => UNCHANGED vars \/ \A i \in 2..Len(ready) : ready'[i - 1] = ready[i]]_vars
<1>1. ASSUME IInv, UpdateDue, [Next]_vars,
             ~Shut, upc' = upc, over' = over, Len(ready') = Len(ready)
      PROVE  UNCHANGED vars \/ \A i \in 2..Len(ready) : ready'[i - 1] = ready[i]
  <2>1. ready \in Seq(Threads \cup {UI}) /\ ready # << >> /\ Len(ready) \in Nat
    BY <1>1 DEF IInv, TypeOK
  <2>2. \A i \in 2..Len(ready) : Yielded[i - 1] = ready[i]
    BY <2>1 DEF Yielded
  <2>3. CASE Update \/ OtherEvent \/ Drag \/ Grow
    BY <2>2, <2>3 DEF Update, OtherEvent, Drag, Grow
  <2>4. CASE LaunchMain \/ Setup
    BY <1>1, <2>4 DEF LaunchMain, Setup
  <2>5. CASE Idle
    BY <1>1, <2>5, Sizes DEF Idle, InLoop, UpdateDue, Shut, IInv, TypeOK
  <2>6. CASE Quit
    BY <1>1, <2>6 DEF Quit, InLoop, Running
  <2>7. ASSUME NEW t \in Threads, ThreadStep(t)
        PROVE  \A i \in 2..Len(ready) : ready'[i - 1] = ready[i]
    <3>1. CASE Write(t) \/ Yield(t)
      BY <2>2, <3>1 DEF Write, ConsoleWrite, Yield
    <3>2. CASE NewThread(t)
      <4>1. PICK u \in Threads : ready' = Append(ready, u)
        BY <3>2 DEF NewThread
      <4>2. Len(Append(ready, u)) = Len(ready) + 1
        BY <2>1
      <4> QED BY <1>1, <2>1, <4>1, <4>2
    <3>3. CASE Finish(t)
      <4>1. PICK i \in 1..Len(ready) : ready' = Without(i)
        BY <3>3 DEF Finish
      <4>2. Len(Without(i)) = Len(ready) - 1
        BY <2>1 DEF Without
      <4> QED BY <1>1, <2>1, <4>1, <4>2
    <3> QED BY <2>7, <3>1, <3>2, <3>3 DEF ThreadStep
  <2>8. CASE UNCHANGED vars
    BY <2>8
  <2> QED BY <1>1, <2>3, <2>4, <2>5, <2>6, <2>7, <2>8 DEF Next, System, User
<1>2. IInv /\ UpdateDue /\ [Next]_vars
        => [~Shut /\ upc' = upc /\ over' = over /\ Len(ready') = Len(ready)
              => UNCHANGED vars \/ \A i \in 2..Len(ready) : ready'[i - 1] = ready[i]]_vars
  BY <1>1
<1> QED BY Inductive, UpdateCorrect, <1>2, PTL DEF Spec
=============================================================================
