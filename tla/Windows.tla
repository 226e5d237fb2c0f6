------------------------------ MODULE Windows ------------------------------
(***************************************************************************)
(* Windows, and the events they bring: the windows registered with         *)
(* vkg::Vulkan, their nyx::sdl::Window, and the loop of handleEvents that  *)
(* takes SDL's events one by one and pushes them to the managers' tables.  *)
(* SDL has one queue for all windows.  The pointer moves along a line.     *)
(***************************************************************************)
EXTENDS Events, Integers

CONSTANTS
  Ids,        \* the numbers of windows
  Attributes, \* those the program sets: "title", "size", and so on
  Settings,   \* their values
  Codes,      \* SDL's keys: those with a counterpart, and another one
  Positions,  \* of the pointer
  MaxInput    \* bound: SDL's events

ASSUME WindowsAssumption ==
  /\ Positions \subseteq Nat /\ 0 \in Positions
  /\ MaxInput \in Nat
  /\ 0 .. 5 \subseteq Index /\ Codes \subseteq Nat
  /\ Settings # {}

VARIABLES
  windows,    \* ids of the windows in VulkanData::windows
  stored,     \* WindowData: each window's attributes
  shown,      \* the attributes SDL's window has
  sdlQueue,   \* SDL's events not polled yet
  pointer,    \* where the pointer is
  mouse,      \* man_data.mouse_xpos
  delta,      \* man_data.mouse_xdelta, moves to the left below zero
  loop,       \* handleEvents: "no", or "polling"
  moved,      \* mouse_move
  start,      \* x, as SDL_GetMouseState gave it
  input       \* number of SDL's events so far

windowVars == <<windows, stored, shown>>
mouseVars  == <<mouse, delta>>
loopVars   == <<loop, moved, start>>
sdlVars    == <<sdlQueue, pointer, input>>
vars == <<eventVars, windowVars, mouseVars, loopVars, sdlVars>>

Default == CHOOSE v \in Settings : TRUE

Init ==
  /\ EventsInit
  /\ windows = {}
  /\ stored = [w \in Ids |-> [a \in Attributes |-> Default]]
  /\ shown = stored
  /\ sdlQueue = <<>> /\ pointer = 0 /\ input = 0
  /\ mouse = 0 /\ delta = 0
  /\ loop = "no" /\ moved = FALSE /\ start = 0

-----------------------------------------------------------------------------
(* Vulkan::addWindow and the setters. *)

(* A window is created as it is described; a number that is taken keeps    *)
(* its window.                                                             *)
AddWindow(w, described) ==
  /\ w \notin windows
  /\ windows' = windows \union {w}
  /\ stored' = [stored EXCEPT ![w] = described]
  /\ shown' = [shown EXCEPT ![w] = described]
  /\ UNCHANGED <<eventVars, mouseVars, loopVars, sdlVars>>

(* The attributes SDL is told of when they are set. *)
Told == {"size", "resizable"}

SetAttribute(w, a, v) ==
  /\ w \in windows
  /\ stored' = [stored EXCEPT ![w][a] = v]
  /\ shown' = IF a \in Told THEN [shown EXCEPT ![w][a] = v] ELSE shown
  /\ UNCHANGED <<eventVars, windows, mouseVars, loopVars, sdlVars>>

-----------------------------------------------------------------------------
(* SDL, external. *)

(* Those that are told apart by nothing else: buttons, and the last.       *)
Plain == {"press", "release", "quit"}

Input ==
  /\ input < MaxInput
  /\ input' = input + 1
  /\ \/ \E c \in Codes, kind \in {"down", "up"} :
          /\ sdlQueue' = Append(sdlQueue, [kind |-> kind, code |-> c])
          /\ UNCHANGED pointer
     \/ \E kind \in Plain :
          /\ sdlQueue' = Append(sdlQueue, [kind |-> kind])
          /\ UNCHANGED pointer
     \/ \E p \in Positions \ {pointer} :
          /\ sdlQueue' = Append(sdlQueue, [kind |-> "motion", x |-> p,
                                           xrel |-> p - pointer])
          /\ pointer' = p
  /\ UNCHANGED <<eventVars, windowVars, mouseVars, loopVars>>

-----------------------------------------------------------------------------
(* Window::handleEvents. *)

(* The numbers of nyx::Key::None and ESC, and of the types of events.      *)
None       == 0
Escape     == 1
KeyDown    == 1
KeyUp      == 2
ButtonDown == 3
ButtonUp   == 4
WindowExit == 5

(* keyFromSDL: a key with no counterpart is Key::None. *)
KeyFromSDL(code) == IF code \in Index THEN code ELSE None

(* convertEvent.  The event of a button has no key.                        *)
Converted(e) ==
  CASE e.kind = "down"    -> [key |-> KeyFromSDL(e.code), type |-> KeyDown]
    [] e.kind = "up"      -> [key |-> KeyFromSDL(e.code), type |-> KeyUp]
    [] e.kind = "press"   -> [key |-> None, type |-> ButtonDown]
    [] e.kind = "release" -> [key |-> None, type |-> ButtonUp]
    [] e.kind = "quit"    -> [key |-> Escape, type |-> WindowExit]

(* A program handles the events of a window.  It does so in its main loop, *)
(* and not from a subscriber.                                              *)
HandleEvents(w) ==
  /\ Going /\ w \in windows
  /\ loop = "no" /\ stack = <<>>
  /\ loop' = "polling" /\ moved' = FALSE /\ start' = pointer
  /\ UNCHANGED <<eventVars, windowVars, mouseVars, sdlVars>>

\* Mutant: a motion that was polled is forgotten.
Forgets == FALSE

Remembers == TRUE

(* updateMouse and updateMouseOffset. *)
Motion(e) ==
  /\ mouse' = e.x /\ delta' = e.xrel
  /\ moved' = Remembers
  /\ UNCHANGED <<eventVars, loop, start>>

Poll ==
  /\ Going /\ loop = "polling" /\ stack = <<>>
  /\ sdlQueue # <<>>
  /\ sdlQueue' = Tail(sdlQueue)
  /\ LET e == Head(sdlQueue)
     IN  \/ e.kind = "motion" /\ Motion(e)
         \/ e.kind # "motion" /\ Pushing(Converted(e)) /\ UNCHANGED <<mouseVars, loopVars>>
  /\ UNCHANGED <<windowVars, pointer, input>>

(* SDL_PollEvent has no more events. *)
Polled ==
  /\ Going /\ loop = "polling" /\ stack = <<>>
  /\ sdlQueue = <<>>
  /\ \/ moved /\ UNCHANGED mouseVars
     \/ ~moved /\ delta' = mouse - start /\ mouse' = start
  /\ loop' = "no"
  /\ UNCHANGED <<eventVars, windowVars, moved, start, sdlVars>>

-----------------------------------------------------------------------------

(* A program runs when it is not polling, and as a subscriber. *)
Running == loop = "no" \/ stack # <<>>

Program ==
  /\ Running
  /\ \/ \E w \in Ids :
          \/ HandleEvents(w)
          \/ \E described \in [Attributes -> Settings] : AddWindow(w, described)
          \/ \E a \in Attributes, v \in Settings : SetAttribute(w, a, v)
     \/ OfManagers /\ UNCHANGED <<windowVars, mouseVars, loopVars, sdlVars>>

Returns == Return /\ UNCHANGED <<windowVars, mouseVars, loopVars, sdlVars>>

Next == Program \/ Returns \/ Poll \/ Polled \/ Input

(* A subscriber returns and the loop goes on.  Nothing obliges a program   *)
(* to do anything, nor SDL to have an event.                               *)
Fairness == WF_vars(Returns) /\ WF_vars(Poll) /\ WF_vars(Polled)

Spec == Init /\ [][Next]_vars /\ Fairness

-----------------------------------------------------------------------------
(* Properties. *)

Inputs ==
  [kind : {"down", "up"}, code : Codes] \union [kind : Plain]
    \union [kind : {"motion"}, x : Positions, xrel : Int]

TypeOK ==
  /\ EventsTypeOK
  /\ windows \in SUBSET Ids
  /\ stored \in [Ids -> [Attributes -> Settings]]
  /\ shown \in [Ids -> [Attributes -> Settings]]
  /\ sdlQueue \in Seq(Inputs)
  /\ pointer \in Positions /\ mouse \in Positions /\ start \in Positions
  /\ delta \in Int
  /\ loop \in {"no", "polling"} /\ moved \in BOOLEAN
  /\ input \in Nat

(* When handleEvents returns, the position it reports is where the pointer *)
(* is, although SDL's events are polled one by one while it moves; and if  *)
(* none of them was a motion the offset reported is none.                  *)
MouseCatchesUp ==
  [][loop = "polling" /\ loop' = "no" =>
       mouse' = pointer /\ (moved \/ delta' = 0)]_vars

(* Each window on the screen is as it was last described by addWindow and  *)
(* the setters of vkg::Vulkan.                                             *)
WindowsAsSet == \A w \in windows : shown[w] = stored[w]

(* What a program is told and what SDL has agree, for the pointer and for  *)
(* the windows (Window::handleEvents, Vulkan::addWindow, the setters).     *)
AgreesWithSDL == MouseCatchesUp /\ []WindowsAsSet

(* Types, and nothing deleted is used: no step of a subscriber or of a     *)
(* manager leaves a walk or a list with a subscriber that is gone          *)
(* (EventManager::pushEvent, reset).                                       *)
Safe == TypeOK /\ NoDangling

(* handleEvents returns: every subscriber is executed a finite number of   *)
(* times for each of SDL's events, however often they enroll and push.     *)
EventsHandled == loop = "polling" ~> loop = "no" \/ ~Going

-----------------------------------------------------------------------------
(* The invariant of the pointer. *)

IsMotion(k) == sdlQueue[k].kind = "motion"

(* The last motion on its way ends where the pointer is; when none is on   *)
(* its way the position last told is that, and it was when the loop began  *)
(* unless there was one since.                                             *)
MouseInv ==
  /\ \A k \in DOMAIN sdlQueue :
       IsMotion(k) /\ (\A j \in DOMAIN sdlQueue : k < j => ~IsMotion(j))
         => sdlQueue[k].x = pointer
  /\ (\A k \in DOMAIN sdlQueue : ~IsMotion(k)) =>
       /\ mouse = pointer
       /\ loop = "polling" /\ ~moved => start = pointer

=============================================================================
