--------------------------- MODULE DesktopInput ---------------------------
(***************************************************************************)
(* The keyboard of a desktop session (RDPWorkspace): the keysyms the page  *)
(* remembers as pressed, the key events it sends through the Guacamole     *)
(* client, and the handlers that release keys when the browser will not    *)
(* report their release: focus leaving the display, the window or the tab, *)
(* a modifier found up in a mouse event, the effect's cleanup.             *)
(*                                                                         *)
(* Guacamole.Keyboard and Guacamole.Client are external: the keyboard      *)
(* calls back only for keys of the focused display and reset() calls       *)
(* onkeyup for the keys it holds; sendKeyEvent sends nothing unless the    *)
(* client is connected.                                                    *)
(***************************************************************************)
CONSTANTS Keys,        \* keysyms
          Modifiers,   \* shift, ctrl, alt, meta: flags of a mouse event
          KeysOf       \* KeysOf[m]: the keysyms of modifier m

ASSUME KeysOfAssumption == KeysOf \in [Modifiers -> SUBSET Keys]

VARIABLES
  client,      \* the client: "connecting", "connected", "lost"; "gone" after the
               \* cleanup, "lost_gone" when it was lost before
  pressed,     \* pressedKeysyms
  held,        \* the keys Guacamole.Keyboard believes to be down
  down,        \* the keys the user holds
  remote,      \* the keys that are down on the remote desktop
  focus        \* where keyboard events go: "display", "page", "away"

inputVars == <<client, pressed, held, down, remote, focus>>

InputTypeOK ==
  /\ client \in {"connecting", "connected", "lost", "gone", "lost_gone"}
  /\ {pressed, held, down, remote} \subseteq SUBSET Keys
  /\ focus \in {"display", "page", "away"}

Over == client \in {"gone", "lost_gone"}     \* the effect's handlers are removed
Lost == client \in {"lost", "lost_gone"}
ModifierKeys == UNION {KeysOf[m] : m \in Modifiers}

(* The effect focuses the display it has just built.                       *)
InputInit ==
  /\ client = "connecting"
  /\ pressed = {} /\ held = {} /\ down = {} /\ remote = {}
  /\ focus = "display"

(* client.sendKeyEvent(0, k) for the keys of K, client.sendKeyEvent(1, k). *)
SentUp(K) == IF client = "connected" THEN remote \ K ELSE remote
SentDown(k) == IF client = "connected" THEN remote \cup {k} ELSE remote

OnKeyDown(k) ==
  /\ ~Over /\ focus = "display" /\ k \notin down
  /\ down' = down \cup {k}
  /\ held' = held \cup {k}
  /\ IF k \in held THEN UNCHANGED <<pressed, remote>>
     ELSE pressed' = pressed \cup {k} /\ remote' = SentDown(k)
  /\ UNCHANGED <<client, focus>>

(* Guacamole.Keyboard repeats a held key, an up and a down, also one whose *)
(* release it has missed.                                                  *)
KeyRepeat(k) ==
  /\ ~Over /\ k \in held \ ModifierKeys
  /\ pressed' = pressed \cup {k}
  /\ remote' = SentDown(k)
  /\ UNCHANGED <<client, held, down, focus>>

OnKeyUp(k) ==
  /\ focus = "display" /\ k \in down
  /\ down' = down \ {k}
  /\ IF ~Over /\ k \in held
       THEN /\ held' = held \ {k}
            /\ pressed' = pressed \ {k}
            /\ remote' = SentUp({k})
       ELSE UNCHANGED <<held, pressed, remote>>
  /\ UNCHANGED <<client, focus>>

(* The system takes the release for itself (a shortcut of the desktop or   *)
(* the window manager): no event at all, and the focus stays.              *)
KeyUpMissed(k) ==
  /\ focus = "display" /\ k \in down
  /\ down' = down \ {k}
  /\ UNCHANGED <<client, pressed, held, remote, focus>>

(* releaseInputState: keyboard.reset() calls onkeyup for what it holds,    *)
(* then the keysyms still remembered are released.                         *)
ReleaseInputState ==
  /\ held' = {}
  /\ pressed' = {}
  /\ remote' = SentUp(held \cup pressed)

(* blur of the display, pointerdown outside it, blur of the window,        *)
(* visibilitychange: focus moves to the page or out of it.                 *)
LoseFocus(f) ==
  /\ focus # f /\ f # "display"
  /\ focus' = f
  /\ IF Over THEN UNCHANGED <<held, pressed, remote>> ELSE ReleaseInputState
  /\ UNCHANGED <<client, down>>

(* A key released while the page has the focus reaches the window's keyup  *)
(* handler, one released while the browser is away reaches nobody.         *)
OnWindowKeyUp(k) ==
  /\ focus # "display" /\ k \in down
  /\ down' = down \ {k}
  /\ IF ~Over /\ focus = "page" THEN ReleaseInputState
     ELSE UNCHANGED <<held, pressed, remote>>
  /\ UNCHANGED <<client, focus>>

(* mousedown on the display: releaseStaleModifiers, then focusDisplay.     *)
OnMouseDown ==
  /\ ~Over
  /\ LET stale == UNION {KeysOf[m] : m \in {n \in Modifiers : KeysOf[n] \cap down = {}}}
     IN /\ pressed' = pressed \ stale
        /\ remote' = SentUp(stale \cap pressed)
  /\ focus' = "display"
  /\ UNCHANGED <<client, held, down>>

(* The window comes back, or Tab reaches the display.                      *)
FocusDisplay ==
  /\ ~Over
  /\ focus' = "display"
  /\ UNCHANGED <<client, pressed, held, down, remote>>

ClientConnects ==
  /\ client = "connecting"
  /\ client' = "connected"
  /\ UNCHANGED <<pressed, held, down, remote, focus>>

(* onerror or state 5, with whatever keys the remote desktop was left.     *)
ClientLost ==
  /\ client \in {"connecting", "connected"}
  /\ client' = "lost"
  /\ UNCHANGED <<pressed, held, down, remote, focus>>

(* Mutant: the client is disconnected before the keys are released. *)
CleanupLate ==
  /\ ~Over
  /\ held' = {} /\ pressed' = {} /\ UNCHANGED remote
  /\ client' = IF Lost THEN "lost_gone" ELSE "gone"
  /\ focus' = IF focus = "display" THEN "page" ELSE focus
  /\ UNCHANGED down

(* The cleanup: releaseInputState, then client.disconnect(); the display   *)
(* is taken out of the page.                                               *)
InputCleanup ==
  /\ ~Over
  /\ ReleaseInputState
  /\ client' = IF Lost THEN "lost_gone" ELSE "gone"
  /\ focus' = IF focus = "display" THEN "page" ELSE focus
  /\ UNCHANGED down

InputNext ==
  \/ \E k \in Keys : OnKeyDown(k) \/ KeyRepeat(k) \/ OnKeyUp(k) \/ KeyUpMissed(k) \/ OnWindowKeyUp(k)
  \/ \E f \in {"page", "away"} : LoseFocus(f)
  \/ OnMouseDown \/ FocusDisplay \/ ClientConnects \/ ClientLost \/ InputCleanup

InputSpec == InputInit /\ [][InputNext]_inputVars

(***************************************************************************)
(* Properties                                                              *)
(***************************************************************************)

(* No key is down on a connected desktop that the page has forgotten: the  *)
(* next releaseInputState lets every one of them go.                       *)
NoForgottenKey == ~Lost => remote \subseteq pressed

(* Nothing is held on the desktop while its display is not typed into: no  *)
(* Alt after Alt-Tab, no key after another tab, a dialog or the end of the *)
(* view, unless the connection was lost first.                             *)
NothingHeldAway == focus # "display" /\ ~Lost => remote = {}
=============================================================================
