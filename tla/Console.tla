------------------------------ MODULE Console ------------------------------
(***************************************************************************)
(* The console: every printf of the program is a line that _consolewrite()  *)
(* puts into lineBuffer (printf.cpp), and the application's own thread,      *)
(* which runs main() and MacMain()'s event loop, draws the lines in the one *)
(* window (console.cpp, main.cpp:23-44).                                    *)
(*                                                                         *)
(* The threads are cooperative: the one at the head of `ready` runs until it *)
(* yields, and then waits behind all the others.  An action is what a thread *)
(* does between two yields.  The event loop yields only after an event, so   *)
(* whether the other threads run at all depends on the update events that    *)
(* the drawing itself causes.                                               *)
(*                                                                         *)
(* A line is its number and whether it holds an escape character.  The       *)
(* screen, the window and its update region are counted in rows of a line.   *)
(* Left out: the text settings that drawing sets and restores, and what a    *)
(* character looks like.                                                    *)
(***************************************************************************)
EXTENDS Integers, Sequences

CONSTANTS
  UI,           \* the application's thread
  Main, Threads,\* the thread main() makes; all that may run beside UI
  Limit,        \* 40: lineBuffer is cut when it has so many lines
  MaxRows,      \* rows of the largest window
  MaxWrites     \* bound: lines written in a run

ASSUME ThreadAssumption == Main \in Threads /\ UI \notin Threads
ASSUME SizeAssumption == Limit \in Nat \ {0} /\ MaxRows \in Nat \ {0} /\ MaxWrites \in Nat

VARIABLES
  upc,          \* where the application's thread is
  ready,        \* the threads that are ready, the running one first
  started,      \* the threads that were made
  lineBuffer, written,  \* the lines kept, and how many were written
  rows,         \* the window's size; 0: no window, or an empty one
  dirty,        \* rows the update region covers: an update event is due
  screen,       \* per row the number of the line that is drawn there
  over          \* the program died, or was quit

threads == <<ready, started>>
lines   == <<lineBuffer, written>>
display == <<rows, dirty, screen>>
vars == <<upc, threads, lines, display, over>>

Blank == 0
Line == [n : 1..MaxWrites, esc : BOOLEAN]

TypeOK ==
  /\ upc \in {"main", "setup", "loop"}
  /\ ready \in Seq(Threads \cup {UI}) /\ ready # << >> /\ started \subseteq Threads
  /\ written \in 0..MaxWrites /\ lineBuffer \in Seq(Line)
  /\ rows \in 0..MaxRows /\ dirty \in 0..rows
  /\ screen \in [1..rows -> 0..MaxWrites]
  /\ over \in {"no", "died", "quit"}

Init ==
  /\ upc = "main" /\ ready = <<UI>> /\ started = {}
  /\ lineBuffer = << >> /\ written = 0
  /\ rows = 0 /\ dirty = 0 /\ screen = << >>
  /\ over = "no"

----------------------------------------------------------------------------
Running(t) == over = "no" /\ Head(ready) = t

\* YieldToAnyThread: the next thread runs, this one waits behind the others.
Yielded == Append(Tail(ready), Head(ready))

\* lineBuffer after a push_back, cut at its front.  [mutant: cut at its end]
PushKeepingFirst(line) ==
  IF Len(lineBuffer) + 1 >= Limit THEN lineBuffer ELSE Append(lineBuffer, line)
Push(line) ==
  LET grown == Append(lineBuffer, line)
  IN IF Len(grown) >= Limit THEN Tail(grown) ELSE grown

\* _consolewrite: the whole of it between two yields.
ConsoleWrite(esc) ==
  /\ written < MaxWrites
  /\ written' = written + 1
  /\ lineBuffer' = Push([n |-> written + 1, esc |-> esc])
  /\ ready' = Yielded

----------------------------------------------------------------------------
(* The threads beside the application's *)

\* A printf: what comes from the server may hold an escape character.
Write(t) ==
  /\ Running(t) /\ \E esc \in BOOLEAN : ConsoleWrite(esc)
  /\ UNCHANGED <<upc, started, display, over>>

Yield(t) ==
  /\ Running(t) /\ ready' = Yielded
  /\ UNCHANGED <<upc, started, lines, display, over>>

\* A thread makes another (SFTP::connect(), connect()).
NewThread(t) ==
  /\ Running(t)
  /\ \E u \in Threads \ started : started' = started \cup {u} /\ ready' = Append(ready, u)
  /\ UNCHANGED <<upc, lines, display, over>>

\* The ready threads without the i-th.
Without(i) ==
  [j \in 1..(Len(ready) - 1) |-> IF j < i THEN ready[j] ELSE ready[j + 1]]

\* It returns, or disposes of itself or of another (error_throw, mac_error_throw).
Finish(t) ==
  /\ Running(t)
  /\ \E i \in 1..Len(ready) : ready[i] \in Threads /\ ready' = Without(i)
  /\ UNCHANGED <<upc, started, lines, display, over>>

----------------------------------------------------------------------------
(* ScreenDraw() between BeginUpdate() and EndUpdate(): no yield inside *)

\* The update region after InvalRect(rec).  [mutants: dropped; a row short]
InvalidateNothing(size) == 0
InvalidateInset(size) == size - 1
Invalidated(size) == size

\* BeginUpdate clips the drawing to the update region, `region` rows of the
\* `size` the window has, and empties it.  At an escape character the code calls
\* erase(begin()) of an empty string, which is undefined and copies over all
\* memory: the program ends there, before the printf in the same walk.
ScreenDraw(size, region, old) ==
  LET escapes == \E i \in DOMAIN lineBuffer : lineBuffer[i].esc
      row(i)  == IF i <= Len(lineBuffer) THEN lineBuffer[i].n ELSE Blank
  IN /\ over' = IF escapes THEN "died" ELSE over
     /\ screen' = [i \in 1..size |-> IF i <= region THEN row(i) ELSE old[i]]
     /\ dirty' = Invalidated(size)
     /\ UNCHANGED lines

----------------------------------------------------------------------------
(* main() and MacMain() *)

\* NewThread for main_func, or the printf of its failure, which yields.
LaunchMain ==
  /\ Running(UI) /\ upc = "main"
  /\ upc' = "setup"
  /\ \/ ready' = Append(ready, Main) /\ started' = {Main} /\ UNCHANGED lines
     \/ ConsoleWrite(FALSE) /\ UNCHANGED started
  /\ UNCHANGED <<display, over>>

\* console_setup(): a visible window, so all of it wants an update; and the
\* first drawing.
Setup ==
  /\ Running(UI) /\ upc = "setup"
  /\ upc' = "loop"
  /\ rows' = MaxRows
  /\ ScreenDraw(MaxRows, MaxRows, screen)
  /\ UNCHANGED threads

InLoop == Running(UI) /\ upc = "loop"

\* GetNextEvent gives an update event while the update region is not empty.
Update ==
  /\ InLoop /\ dirty > 0
  /\ ScreenDraw(rows, dirty, screen)
  /\ ready' = Yielded
  /\ UNCHANGED <<upc, started, rows>>

\* GetNextEvent gives nothing: draw, clipped to nothing, and ask again.
Idle ==
  /\ InLoop /\ dirty = 0
  /\ ScreenDraw(rows, 0, screen)
  /\ UNCHANGED <<upc, threads, rows>>

\* An event of the user, which comes before any update event.  The ones without
\* an effect: a key, activation, a click elsewhere, a close box let go.
OtherEvent ==
  /\ InLoop /\ ready' = Yielded
  /\ UNCHANGED <<upc, started, lines, display, over>>

\* DragWindow: what was covered is erased and added to the update region.
Drag ==
  /\ InLoop /\ ready' = Yielded
  /\ dirty' = rows /\ screen' = [i \in 1..rows |-> Blank]
  /\ UNCHANGED <<upc, started, lines, rows, over>>

\* GrowWindow and SizeWindow: the least width is the left edge of the desktop,
\* 0, so the window may become empty, and then has no grow box.  SizeWindow is
\* told not to add what appears to the update region.
Grow ==
  /\ InLoop /\ rows > 0 /\ ready' = Yielded
  /\ rows' \in 0..MaxRows
  /\ dirty' = IF dirty < rows' THEN dirty ELSE rows'
  /\ screen' = [i \in 1..rows' |-> IF i <= rows THEN screen[i] ELSE Blank]
  /\ UNCHANGED <<upc, started, lines, over>>

\* TrackGoAway: exit(0).
Quit ==
  /\ InLoop /\ over' = "quit"
  /\ UNCHANGED <<upc, threads, lines, display>>

----------------------------------------------------------------------------
ThreadStep(t) == Write(t) \/ Yield(t) \/ NewThread(t) \/ Finish(t)

\* What happens without the user.
System == LaunchMain \/ Setup \/ Update \/ Idle \/ \E t \in Threads : ThreadStep(t)

User == OtherEvent \/ Drag \/ Grow \/ Quit

Next == System \/ User

Spec == Init /\ [][Next]_vars

\* Whatever runs goes on to its next yield; the user need not do anything, and
\* pauses now and then, so that an update event gets its turn.
Fairness == WF_vars(System) /\ SF_vars(Update)

FairSpec == Spec /\ Fairness

----------------------------------------------------------------------------
\* Whoever writes, and whenever it is cut, lineBuffer holds the last lines that
\* were written, one less than the limit at most, none missing between them and
\* in their order (printf.cpp:7-22).
LastLines ==
  /\ Len(lineBuffer) = IF written < Limit THEN written ELSE Limit - 1
  /\ \A i \in DOMAIN lineBuffer : lineBuffer[i].n = written - Len(lineBuffer) + i

\* The screen never mixes lines of different times: from the top it shows a run
\* of consecutive lines, then nothing, though a drawing reaches only what the
\* last one invalidated and the window changes its size between the two
\* (console.cpp:112-142, 239).
ScreenConsistent ==
  \A i, j \in 1..rows : i < j /\ screen[j] # Blank => screen[i] = screen[j] - (j - i)

\* The event loop yields only after an event, and asks for none: while the window
\* has an area, an update event is always due, whatever the user did to the window
\* since the last drawing (console.cpp:112-154, 239).
UpdateDue == upc = "loop" /\ rows > 0 => dirty > 0

\* The window is empty.
Shut == upc = "loop" /\ rows = 0

\* A thread that is ready gets its turn, unless another disposes of it, although
\* the event loop yields only after an event, until the window is shrunk to nothing
\* (console.cpp:112-154).
Ready(t) == \E i \in DOMAIN ready : ready[i] = t

ThreadsRun ==
  \A t \in Threads : Ready(t) ~> (Head(ready) = t \/ ~Ready(t) \/ over # "no" \/ Shut)

\* A line that keeps its place inside the window appears there: writing a line
\* asks for no update, so this too rests on the drawing (printf.cpp:7-22,
\* console.cpp:121-129, 239).
InPlace(n, i) ==
  i <= rows /\ i \in DOMAIN lineBuffer /\ lineBuffer[i].n = n

LinesShown ==
  \A n \in 1..MaxWrites, i \in 1..MaxRows :
    InPlace(n, i) ~> (~InPlace(n, i) \/ over # "no" \/ screen[i] = n)
=============================================================================
