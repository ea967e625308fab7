----------------------------- MODULE ViewerInput -----------------------------
(***************************************************************************)
(* The viewer page's input handlers (wwwroot/src/InputEventHandlers.ts)    *)
(* and the desktop they drive.  Mouse, touch and keyboard handlers send    *)
(* inputs with MessageSender; each one is an invocation of the hub that    *)
(* the handler awaits.  The hub answers the invocations of one connection  *)
(* in their order, and the desktop applies the inputs in that order; what  *)
(* a handler does after its await runs when the answer comes, with         *)
(* whatever other handlers have made of the page's state by then.          *)
(*                                                                         *)
(* One step is one task of the browser: a handler up to its first await,   *)
(* or the rest of a handler up to the next.  The listeners a single event  *)
(* of the browser runs one after the other (a finger that is lifted gives  *)
(* pointerup, pointerout, pointerleave and touchend) are one step.  The    *)
(* connection stays up; without one a sender returns and nothing happens.  *)
(***************************************************************************)
EXTENDS Naturals, Sequences

CONSTANTS
    Places,        \* where on the canvas the mouse can be
    Finger,        \* wherever a finger put the cursor
    Keys,          \* keys of the viewer's keyboard
    None,
    MaxPending,    \* bound: invocations awaiting an answer when a user acts
    MaxTouches,    \* bound: fingers put down in a behaviour
    Inputs         \* which of "mouse", "touch" and "keyboard" is used

ASSUME InputsAssumption == Inputs \subseteq {"mouse", "touch", "keyboard"}
ASSUME PlacesAssumption == None \notin Places /\ Finger \notin Places
ASSUME BoundsAssumption == MaxPending \in Nat /\ MaxTouches \in Nat

VARIABLES
    viewOnly,           \* ViewerApp.ViewOnlyMode
    hasFocus,           \* the window has the focus
    typing,             \* TouchKeyboardInput has the focus
    held,               \* keys that are down, as far as the page heard
    mouse,              \* place of the mouse at the last mousemove handled
    timer,              \* the move pointerMoveTimeout will send, or None
    fingers,            \* fingers on the canvas
    gesture,            \* what the browser makes of them
    longPressStarted, isDragging, isPinchZooming, isScrolling,
    sent,               \* invocations awaiting an answer, oldest first
    desktop,            \* cursor, buttons and keys of the remote desktop
    touches             \* fingers put down so far

inputVars == <<hasFocus, typing, held, mouse, timer>>
touchState == <<longPressStarted, isDragging, isPinchZooming, isScrolling>>
vars == <<viewOnly, inputVars, fingers, gesture, touchState, sent, desktop,
          touches>>

-----------------------------------------------------------------------------
(* Messages.  "then" is what the handler that awaits the answer does next. *)

Continuations ==
    {"nothing", "startLongPress", "pressLeft", "releaseRight", "afterRight",
     "reset", "scroll", "endReleaseRight", "endAfterRight", "endGesture"}

Moves == [kind : {"move"}, at : Places \cup {Finger}, then : Continuations]
Buttons == [kind : {"down", "up"}, button : {"left", "right"},
            by : {"mouse", "touch"}, then : Continuations]
KeyStrokes == [kind : {"keyDown", "keyUp"}, key : Keys, then : {"nothing"}]
Others == [kind : {"wheel", "keyPress", "keyStatesUp"}, then : {"nothing"}]
Messages == Moves \cup Buttons \cup KeyStrokes \cup Others

Move(place, then) == [kind |-> "move", at |-> place, then |-> then]
Press(button, by, then) ==
    [kind |-> "down", button |-> button, by |-> by, then |-> then]
Release(button, by, then) ==
    [kind |-> "up", button |-> button, by |-> by, then |-> then]
KeyDown(k) == [kind |-> "keyDown", key |-> k, then |-> "nothing"]
KeyUp(k) == [kind |-> "keyUp", key |-> k, then |-> "nothing"]
KeyPress == [kind |-> "keyPress", then |-> "nothing"]
KeyStatesUp == [kind |-> "keyStatesUp", then |-> "nothing"]
Wheel == [kind |-> "wheel", then |-> "nothing"]

Desktops == [cursor : Places \cup {Finger, None},
             left : {"up", "mouse", "touch"}, right : {"up", "mouse", "touch"},
             keys : SUBSET Keys]

(* What the desktop does with a message; a button remembers who pressed it. *)
Apply(d, m) ==
    CASE m.kind = "move" -> [d EXCEPT !.cursor = m.at]
      [] m.kind = "down" -> [d EXCEPT ![m.button] = m.by]
      [] m.kind = "up" -> [d EXCEPT ![m.button] = "up"]
      [] m.kind = "keyDown" -> [d EXCEPT !.keys = @ \cup {m.key}]
      [] m.kind = "keyUp" -> [d EXCEPT !.keys = @ \ {m.key}]
      [] m.kind = "keyStatesUp" -> [d EXCEPT !.keys = {}]
      [] OTHER -> d

Send(m) == sent' = Append(sent, m)
Room == Len(sent) < MaxPending

-----------------------------------------------------------------------------
Init ==
    /\ viewOnly \in BOOLEAN
    /\ hasFocus = TRUE /\ typing = FALSE /\ held = {}
    /\ mouse = None /\ timer = None
    /\ fingers = 0 /\ gesture = "none"
    /\ longPressStarted = FALSE /\ isDragging = FALSE
    /\ isPinchZooming = FALSE /\ isScrolling = FALSE
    /\ sent = << >>
    /\ desktop = [cursor |-> None, left |-> "up", right |-> "up", keys |-> {}]
    /\ touches = 0

(* The view-only button is in the page, so it is pressed in a window that   *)
(* has the focus; nobody presses it with a finger on the canvas.            *)
ToggleViewOnly ==
    /\ hasFocus /\ fingers = 0
    /\ viewOnly' = ~viewOnly
    /\ UNCHANGED <<inputVars, fingers, gesture, touchState, sent, desktop,
                   touches>>

-----------------------------------------------------------------------------
(* The mouse.  A move less than 50 ms after the last one that was sent     *)
(* waits in a timeout; the clock decides, so both are possible.            *)

MouseUnchanged ==
    UNCHANGED <<viewOnly, hasFocus, typing, held, fingers, gesture, touchState,
                desktop, touches>>

(* mutant: an armed timeout is left alone, with its older place *)
MouseMove_KeepsTimer(p) ==
    /\ "mouse" \in Inputs /\ Room /\ ~viewOnly
    /\ mouse' = p
    /\ \/ timer' = (IF timer = None THEN p ELSE timer) /\ UNCHANGED sent
       \/ timer' = None /\ Send(Move(p, "nothing"))
    /\ MouseUnchanged

MouseMove(p) ==
    /\ "mouse" \in Inputs /\ Room /\ ~viewOnly
    /\ mouse' = p
    /\ \/ timer' = p /\ UNCHANGED sent
       \/ timer' = None /\ Send(Move(p, "nothing"))
    /\ MouseUnchanged

(* setTimeout's callback *)
SendLastMove ==
    /\ timer # None /\ Room
    /\ timer' = None
    /\ Send(Move(timer, "nothing"))
    /\ UNCHANGED mouse
    /\ MouseUnchanged

MouseButton(button) ==
    /\ "mouse" \in Inputs /\ Room /\ ~viewOnly
    /\ mouse # None
    /\ \/ Send(Press(button, "mouse", "nothing"))
       \/ Send(Release(button, "mouse", "nothing"))
    /\ UNCHANGED <<mouse, timer>>
    /\ MouseUnchanged

MouseWheel ==
    /\ "mouse" \in Inputs /\ Room /\ ~viewOnly
    /\ Send(Wheel)
    /\ UNCHANGED <<mouse, timer>>
    /\ MouseUnchanged

-----------------------------------------------------------------------------
(* The keyboard.  Keys are not sent while an input has the focus.          *)

KeyboardUnchanged ==
    UNCHANGED <<mouse, timer, fingers, gesture, touchState, desktop, touches>>

KeyIsDown(k) ==
    /\ "keyboard" \in Inputs /\ Room
    /\ hasFocus /\ k \notin held
    /\ held' = held \cup {k}
    /\ IF typing \/ viewOnly THEN UNCHANGED sent ELSE Send(KeyDown(k))
    /\ UNCHANGED <<viewOnly, hasFocus, typing>>
    /\ KeyboardUnchanged

KeyIsUp(k) ==
    /\ Room
    /\ hasFocus /\ k \in held
    /\ held' = held \ {k}
    /\ IF typing \/ viewOnly THEN UNCHANGED sent ELSE Send(KeyUp(k))
    /\ UNCHANGED <<viewOnly, hasFocus, typing>>
    /\ KeyboardUnchanged

(* KeyboardButton toggles the input for touch keyboards. *)
ToggleTouchKeyboard ==
    /\ "keyboard" \in Inputs
    /\ hasFocus
    /\ typing' = ~typing
    /\ UNCHANGED <<viewOnly, hasFocus, held, sent>>
    /\ KeyboardUnchanged

(* Enter or Backspace in that input: no look at the view-only mode. *)
TypeEnter ==
    /\ typing /\ hasFocus /\ Room
    /\ Send(KeyPress)
    /\ UNCHANGED <<viewOnly, hasFocus, typing, held>>
    /\ KeyboardUnchanged

(* mutant: nobody tells the desktop *)
Blur_Silent ==
    /\ "keyboard" \in Inputs
    /\ hasFocus
    /\ hasFocus' = FALSE
    /\ held' = {}
    /\ UNCHANGED <<viewOnly, typing, sent>>
    /\ KeyboardUnchanged

(* The window loses the focus and hears of no key any more. *)
Blur ==
    /\ "keyboard" \in Inputs /\ Room
    /\ hasFocus
    /\ hasFocus' = FALSE
    /\ held' = {}
    /\ IF viewOnly THEN UNCHANGED sent ELSE Send(KeyStatesUp)
    /\ UNCHANGED <<viewOnly, typing>>
    /\ KeyboardUnchanged

Focus ==
    /\ ~hasFocus
    /\ hasFocus' = TRUE
    /\ UNCHANGED <<viewOnly, typing, held, sent>>
    /\ KeyboardUnchanged

-----------------------------------------------------------------------------
(* Fingers.  gesture is "touch" from the first finger on, "held" once the  *)
(* browser has reported a long press (contextmenu), "panned" once it has   *)
(* taken the touch for a pan of its own (pointercancel; from then on there *)
(* are touch events but no pointer events).                                *)

TouchUnchanged == UNCHANGED <<viewOnly, inputVars, desktop>>

(* resetTouchState *)
ResetTouchState ==
    /\ longPressStarted' = FALSE /\ isDragging' = FALSE
    /\ isPinchZooming' = FALSE /\ isScrolling' = FALSE

TouchStart ==
    /\ "touch" \in Inputs /\ Room
    /\ fingers < 2 /\ gesture # "panned"
    /\ touches < MaxTouches
    /\ fingers' = fingers + 1
    /\ touches' = touches + 1
    /\ gesture' = IF fingers = 0 THEN "touch" ELSE gesture
    /\ isDragging' = FALSE
    /\ UNCHANGED <<longPressStarted, isPinchZooming, isScrolling, sent>>
    /\ TouchUnchanged

(* contextmenu *)
LongPress ==
    /\ Room
    /\ fingers = 1 /\ gesture = "touch"
    /\ gesture' = "held"
    /\ IF viewOnly
       THEN UNCHANGED sent
       ELSE Send(Move(Finger, "startLongPress"))
    /\ UNCHANGED <<fingers, touchState, touches>>
    /\ TouchUnchanged

(* pointercancel: touchmove's preventDefault keeps the browser from it. *)
Pan ==
    /\ fingers > 0 /\ gesture = "touch"
    /\ ~longPressStarted /\ ~isDragging
    /\ gesture' = "panned"
    /\ ResetTouchState
    /\ UNCHANGED <<fingers, sent, touches>>
    /\ TouchUnchanged

TouchMoveUnchanged ==
    /\ UNCHANGED <<fingers, gesture, touches>>
    /\ TouchUnchanged

StartsDrag == fingers = 1 /\ longPressStarted /\ ~isDragging

(* touchmove of more than five pixels after a long press *)
StartDrag ==
    /\ Room
    /\ StartsDrag /\ ~viewOnly
    /\ isDragging' = TRUE
    /\ Send(Move(Finger, "pressLeft"))
    /\ UNCHANGED <<longPressStarted, isPinchZooming, isScrolling>>
    /\ TouchMoveUnchanged

Drag ==
    /\ Room
    /\ fingers > 0 /\ isDragging /\ ~viewOnly
    /\ Send(Move(Finger, "nothing"))
    /\ UNCHANGED touchState
    /\ TouchMoveUnchanged

(* Two fingers that move in one direction scroll; the view-only mode is    *)
(* not looked at.  A wheel message less than 100 ms after the last one is  *)
(* left out.                                                               *)
Scroll ==
    /\ Room
    /\ fingers = 2 /\ ~isDragging /\ ~isPinchZooming
    /\ IF isScrolling
       THEN Send(Wheel)
       ELSE Send(Move(Finger, "scroll"))
    /\ UNCHANGED touchState
    /\ TouchMoveUnchanged

PinchZoom ==
    /\ fingers = 2 /\ ~isDragging /\ ~isScrolling /\ ~isPinchZooming
    /\ isPinchZooming' = TRUE
    /\ UNCHANGED <<longPressStarted, isDragging, isScrolling, sent>>
    /\ TouchMoveUnchanged

(* mutant: the release is left to nobody *)
RightClick_NoRelease(release) == Press("right", "touch", "reset")

(* The first half of a right click; release is what follows the answer. *)
RightClick(release) == Press("right", "touch", release)

(* A finger of a gesture that was not panned is lifted: pointerup sends,   *)
(* pointerout and pointerleave reset the state, touchend finds it reset.   *)
LiftPointer ==
    /\ Room
    /\ fingers > 0 /\ gesture # "panned"
    /\ fingers' = fingers - 1
    /\ gesture' = IF fingers = 1 THEN "none" ELSE gesture
    /\ IF longPressStarted /\ ~viewOnly
       THEN IF isDragging
            THEN Send(Release("left", "touch", "reset"))
            ELSE Send(RightClick("releaseRight"))
       ELSE UNCHANGED sent
    /\ ResetTouchState
    /\ UNCHANGED touches
    /\ TouchUnchanged

(* A finger of a panned gesture is lifted: there is only touchend. *)
LiftTouch ==
    /\ Room
    /\ fingers > 0 /\ gesture = "panned"
    /\ fingers' = fingers - 1
    /\ gesture' = IF fingers = 1 THEN "none" ELSE gesture
    /\ IF fingers = 1
       THEN isPinchZooming' = FALSE /\ isScrolling' = FALSE
       ELSE UNCHANGED <<isPinchZooming, isScrolling>>
    /\ \/ /\ longPressStarted /\ ~isDragging /\ ~viewOnly
          /\ Send(RightClick("endReleaseRight"))
          /\ UNCHANGED <<longPressStarted, isDragging>>
       \/ /\ isDragging /\ ~viewOnly
          /\ Send(Release("left", "touch", "endGesture"))
          /\ UNCHANGED <<longPressStarted, isDragging>>
       \/ /\ viewOnly \/ (~longPressStarted /\ ~isDragging)
          /\ longPressStarted' = FALSE /\ isDragging' = FALSE
          /\ UNCHANGED sent
    /\ UNCHANGED touches
    /\ TouchUnchanged

-----------------------------------------------------------------------------
(* The hub answers the oldest invocation: the desktop has the message, and *)
(* the handler that awaited the answer goes on.                            *)

EndGesture ==
    /\ longPressStarted' = FALSE /\ isDragging' = FALSE
    /\ UNCHANGED <<isPinchZooming, isScrolling>>

(* the rest of the handlers, by the await they stood at *)
Resume(then, rest) ==
    \/ /\ then = "nothing"
       /\ sent' = rest /\ UNCHANGED touchState
    \/ /\ then = "startLongPress"
       /\ sent' = rest
       /\ longPressStarted' = TRUE
       /\ UNCHANGED <<isDragging, isPinchZooming, isScrolling>>
    \/ /\ then = "pressLeft"
       /\ sent' = Append(rest, Press("left", "touch", "nothing"))
       /\ UNCHANGED touchState
    \/ /\ then = "releaseRight"
       /\ sent' = Append(rest, Release("right", "touch", "afterRight"))
       /\ UNCHANGED touchState
    \/ /\ then = "afterRight" /\ longPressStarted /\ isDragging
       /\ sent' = Append(rest, Release("left", "touch", "reset"))
       /\ UNCHANGED touchState
    \/ /\ \/ then = "reset"
          \/ then = "afterRight" /\ ~(longPressStarted /\ isDragging)
       /\ sent' = rest
       /\ ResetTouchState
    \/ /\ then = "scroll"
       /\ sent' \in {rest, Append(rest, Wheel)}
       /\ isScrolling' = TRUE
       /\ UNCHANGED <<longPressStarted, isDragging, isPinchZooming>>
    \/ /\ then = "endReleaseRight"
       /\ sent' = Append(rest, Release("right", "touch", "endAfterRight"))
       /\ UNCHANGED touchState
    \/ /\ then = "endAfterRight" /\ isDragging /\ ~viewOnly
       /\ sent' = Append(rest, Release("left", "touch", "endGesture"))
       /\ UNCHANGED touchState
    \/ /\ \/ then = "endGesture"
          \/ then = "endAfterRight" /\ ~(isDragging /\ ~viewOnly)
       /\ sent' = rest
       /\ EndGesture

Answer ==
    /\ sent # << >>
    /\ desktop' = Apply(desktop, Head(sent))
    /\ Resume(Head(sent).then, Tail(sent))
    /\ UNCHANGED <<viewOnly, inputVars, fingers, gesture, touches>>

-----------------------------------------------------------------------------
Touch == \/ TouchStart \/ LongPress \/ Pan \/ StartDrag \/ Drag \/ Scroll
         \/ PinchZoom \/ LiftPointer \/ LiftTouch
Mouse == \/ \E p \in Places : MouseMove(p)
         \/ SendLastMove
         \/ \E b \in {"left", "right"} : MouseButton(b)
         \/ MouseWheel
Keyboard == \/ \E k \in Keys : KeyIsDown(k) \/ KeyIsUp(k)
            \/ ToggleTouchKeyboard \/ TypeEnter \/ Blur \/ Focus

Next == ToggleViewOnly \/ Mouse \/ Keyboard \/ Touch \/ Answer

Spec == Init /\ [][Next]_vars

-----------------------------------------------------------------------------
TypeOK ==
    /\ {viewOnly, hasFocus, typing} \subseteq BOOLEAN
    /\ held \subseteq Keys
    /\ {mouse, timer} \subseteq Places \cup {None}
    /\ fingers \in 0 .. 2
    /\ gesture \in {"none", "touch", "held", "panned"}
    /\ {longPressStarted, isDragging, isPinchZooming, isScrolling} \subseteq BOOLEAN
    /\ sent \in Seq(Messages)
    /\ desktop \in Desktops
    /\ touches \in Nat

(* The messages on their way, oldest first, by what they do. *)
IsMouseMove(m) == m.kind = "move" /\ m.at # Finger
PressesKey(m) == m.kind = "keyDown"
ReleasesRight(m) == m.kind = "up" /\ m.button = "right"
PressesRight(m) == m.kind = "down" /\ m.button = "right" /\ m.by = "touch"

(* Where the mouse's last move is: in the timeout, or on its way with no    *)
(* other behind it, or applied.                                             *)
LastMoveOnItsWay ==
    \/ timer # None /\ timer = mouse
    \/ /\ timer = None
       /\ \E i \in 1 .. Len(sent) :
            /\ IsMouseMove(sent[i]) /\ sent[i].at = mouse
            /\ \A j \in i + 1 .. Len(sent) : ~IsMouseMove(sent[j])
    \/ /\ timer = None
       /\ desktop.cursor \in {mouse, Finger}
       /\ \A j \in 1 .. Len(sent) : ~IsMouseMove(sent[j])

(* Where the release of the keys is after the window lost the focus. *)
ReleaseOfKeysOnItsWay ==
    ~hasFocus /\ ~viewOnly =>
      \/ \E i \in 1 .. Len(sent) :
            /\ sent[i].kind = "keyStatesUp"
            /\ \A j \in i + 1 .. Len(sent) : ~PressesKey(sent[j])
      \/ /\ desktop.keys = {}
         /\ \A j \in 1 .. Len(sent) : ~PressesKey(sent[j])

(* A right button that a finger pressed has its release on the way. *)
ReleaseOfRightOnItsWay ==
    /\ \A i \in 1 .. Len(sent) :
         PressesRight(sent[i]) => sent[i].then \in {"releaseRight", "endReleaseRight"}
    /\ desktop.right = "touch" => \E i \in 1 .. Len(sent) : ReleasesRight(sent[i])

(* The inductive invariant: what the handlers have put on the way makes up  *)
(* for what the desktop does not have yet.                                  *)
InputInvariant ==
    /\ TypeOK
    /\ LastMoveOnItsWay
    /\ ReleaseOfKeysOnItsWay
    /\ ReleaseOfRightOnItsWay

(* The throttle of mousemove may leave out moves but never the last one:   *)
(* once no timeout is armed and everything was answered, the cursor is     *)
(* where the mouse is, unless a finger put it elsewhere.                   *)
LastMoveIsSent ==
    timer = None /\ sent = << >> /\ desktop.cursor # Finger
        => desktop.cursor = mouse

(* The keyup of a key that is down when the window loses the focus goes to *)
(* another window; the blur handler has the desktop release every key, and *)
(* no keydown is sent after it.  In view-only mode the handler is silent.  *)
KeysAreReleasedOnBlur ==
    ~hasFocus /\ ~viewOnly /\ sent = << >> => desktop.keys = {}

(* A long press becomes a press and a release of the right button, sent on *)
(* both sides of an await, from pointerup or from touchend, while other    *)
(* gestures go on: the release always follows.                             *)
RightClicksAreFinished == sent = << >> => desktop.right # "touch"

(* pointerup's comment: a drag ends with the release of the left button.   *)
(* With no finger down and everything answered no finger holds it.         *)
DragsAreReleased ==
    fingers = 0 /\ sent = << >> => desktop.left # "touch"
=============================================================================
