---------------------------- MODULE Win32Window -----------------------------
(***************************************************************************)
(* examples/StandaloneViewer/src/Win32Window.cpp: what the window of the   *)
(* viewer makes of its messages, and the user and the desktop they come    *)
(* from.  processMessages() empties the queue, so any number of messages   *)
(* is handled in one pump; they arrive in the order of what happened.      *)
(* Mouse movement is left out.                                             *)
(***************************************************************************)
EXTENDS FiniteSets, Integers

CONSTANTS
  Keys,    \* the keys that are used
  Sizes    \* the sizes a window can be given; that of a minimised one is <<0, 0>>

\* They come as the two words of an LPARAM.
ASSUME SizesAssumption == Sizes \subseteq Nat \X Nat

Minimised == <<0, 0>>

\* A window may also be drawn so flat that nothing is left between its borders.
HasArea(s) == s[1] > 0 /\ s[2] > 0

VARIABLES
  size,         \* <<m_width, m_height>>
  resized,      \* m_resized
  keysDown,     \* m_keysDown
  keysPressed,  \* m_keysPressedThisFrame
  captured,     \* m_mouseCaptured
  shouldClose,  \* m_shouldClose
  focused,      \* the window has the keyboard
  held,         \* the keys the user holds down
  button,       \* the user holds the right mouse button down
  hides,        \* how often more the cursor was hidden than shown
  wentDown      \* history: the keys that went down in this pump

windowVars == <<size, resized, keysDown, keysPressed, captured, shouldClose>>
desktopVars == <<focused, held, button, hides, wentDown>>
inputVars == <<keysDown, keysPressed, captured>>

\* Showing the window sends it its first WM_SIZE.
WindowInit ==
  /\ size \in Sizes \ {Minimised}
  /\ resized = TRUE
  /\ keysDown = {} /\ keysPressed = {}
  /\ captured = FALSE /\ shouldClose = FALSE
  /\ focused = TRUE
  /\ held = {} /\ button = FALSE
  /\ hides = 0
  /\ wentDown = {}

\* processMessages(), before the first message.
StartPump == keysPressed' = {} /\ wentDown' = {}
-----------------------------------------------------------------------------
\* Mutant: a repeated WM_KEYDOWN is taken for a new one.
PressedRepeatedly(key, repeated) == keysPressed \cup {key}

PressedBy(key, repeated) == IF repeated THEN keysPressed ELSE keysPressed \cup {key}

\* WM_KEYDOWN, with the auto-repeat flag.
HandleKeyDown(key, repeated) ==
  /\ keysDown' = keysDown \cup {key}
  /\ keysPressed' = PressedBy(key, repeated)
  /\ UNCHANGED <<size, resized, captured, shouldClose>>

BeginMouseCapture ==
  /\ captured' = TRUE
  /\ hides' = IF captured THEN hides ELSE hides + 1

\* Mutant: the capture ends when the button comes up, and no other way.
KeepCapture == UNCHANGED <<captured, hides>>

EndMouseCapture ==
  /\ captured' = FALSE
  /\ hides' = IF captured THEN hides - 1 ELSE hides

\* WM_KILLFOCUS
HandleKillFocus == EndMouseCapture
-----------------------------------------------------------------------------
PressKey(key) ==
  /\ focused
  /\ key \notin held
  /\ held' = held \cup {key}
  /\ wentDown' = wentDown \cup {key}
  /\ HandleKeyDown(key, FALSE)
  /\ UNCHANGED <<focused, button, hides>>

\* A key that is held sends WM_KEYDOWN again and again.
RepeatKey(key) ==
  /\ focused
  /\ key \in held
  /\ HandleKeyDown(key, TRUE)
  /\ UNCHANGED desktopVars

\* The WM_KEYUP goes to the window that has the keyboard.
ReleaseKey(key) ==
  /\ key \in held
  /\ held' = held \ {key}
  /\ keysDown' = IF focused THEN keysDown \ {key} ELSE keysDown
  /\ UNCHANGED <<size, resized, keysPressed, captured, shouldClose, focused, button,
                 hides, wentDown>>

\* A click on a window gives it the keyboard first.
PressButton ==
  /\ ~button
  /\ size # Minimised
  /\ button' = TRUE
  /\ focused' = TRUE
  /\ BeginMouseCapture
  /\ UNCHANGED <<size, resized, keysDown, keysPressed, shouldClose, held, wentDown>>

\* The window hears of it if it has the mouse, wherever the cursor is.
ReleaseButton ==
  /\ button
  /\ button' = FALSE
  /\ EndMouseCapture
  /\ UNCHANGED <<size, resized, keysDown, keysPressed, shouldClose, focused, held,
                 wentDown>>

LoseFocus ==
  /\ focused
  /\ focused' = FALSE
  /\ HandleKillFocus
  /\ UNCHANGED <<size, resized, keysDown, keysPressed, shouldClose, held, button,
                 wentDown>>

\* With all keys up.
GainFocus ==
  /\ ~focused
  /\ held = {}
  /\ size # Minimised
  /\ focused' = TRUE
  /\ UNCHANGED <<windowVars, held, button, hides, wentDown>>

\* WM_SIZE, also of a window that is minimised or restored.
ChangeSize(s) ==
  /\ s # size
  /\ size' = s
  /\ resized' = TRUE
  /\ UNCHANGED <<inputVars, shouldClose, desktopVars>>

\* WM_CLOSE, WM_DESTROY
CloseWindow ==
  /\ shouldClose' = TRUE
  /\ UNCHANGED <<size, resized, inputVars, desktopVars>>

HandleMessage ==
  \/ \E key \in Keys : PressKey(key) \/ RepeatKey(key) \/ ReleaseKey(key)
  \/ PressButton \/ ReleaseButton \/ LoseFocus \/ GainFocus
  \/ \E s \in Sizes : ChangeSize(s)
  \/ CloseWindow
-----------------------------------------------------------------------------
(***************************************************************************)
(* Win32Window.h, line 18: a right-drag captures the mouse.  The window    *)
(* never keeps it, nor the cursor hidden, when the button is up or the     *)
(* user has turned to another window, in whatever order that happens.      *)
(***************************************************************************)
CursorComesBack ==
  /\ captured => button /\ focused
  /\ hides = IF captured THEN 1 ELSE 0
=============================================================================
