-------------------------------- MODULE Input --------------------------------
(***************************************************************************)
(* From the fingers on the tablet to what the PC holds down: Android's     *)
(* TouchForwarder, the client's channel and connection, the session's      *)
(* _on_input and the input backend (portal or uinput), and the end of the  *)
(* stream, whose stop() runs while messages may still arrive.              *)
(*                                                                         *)
(* Positions matter only where the code looks at them: a finger lands      *)
(* inside or outside the video, and two fingers move far enough to scroll  *)
(* or not.                                                                 *)
(***************************************************************************)
EXTENDS Naturals, Sequences, FiniteSets, SequencesExt

CONSTANTS MaxPointers,  \* bound: fingers on the tablet
          Slots,        \* MAX_TOUCH_SLOTS, and the forwarder's limit (10)
          Capacity,     \* of the client's channel of messages (256)
          MaxMishaps    \* bound: messages dropped and modes changed at the wrong time

ASSUME InputAssumption ==
    /\ MaxPointers \in Nat /\ Slots \in Nat
    /\ Capacity \in Nat /\ MaxMishaps \in Nat

VARIABLES
    down,       \* fingers on the tablet's view
    touchMode,  \* TouchForwarder.touchMode
    tracked,    \* TouchForwarder.tracked
    mouseDown,  \* TouchForwarder.mouseDown
    pair,       \* twoFingerActive and twoFingerMoved: "no", "still", "moved"
    wire,       \* messages sent and not handled yet
    conn,       \* the connection is up, and the tablet shows the stream
    phase,      \* "streaming"; stop() running; source stopped; input closed
    slots,      \* ClientSession._active_slots
    active,     \* UinputInput._touch_active
    fingers,    \* touches the desktop holds
    buttons,    \* mouse buttons it holds
    left,       \* the portal has kept the session that stop() could not close
    backend,    \* "portal" or "uinput"
    mishaps     \* history: how often a message was dropped, or the mode
                \* changed under a gesture

forwarder == <<touchMode, tracked, mouseDown, pair>>
desktop == <<slots, active, fingers, buttons, left>>
vars == <<down, forwarder, wire, conn, phase, desktop, backend, mishaps>>

Pointers == 0..(MaxPointers - 1)
Buttons == {"left", "right"}
Messages == ({"down", "move", "up", "cancel"} \X Pointers)
            \cup ({"press", "release"} \X Buttons) \cup {<<"motion", 0>>}

TypeOK ==
    /\ down \subseteq Pointers /\ tracked \subseteq Pointers
    /\ touchMode \in BOOLEAN /\ mouseDown \in BOOLEAN /\ active \in BOOLEAN
    /\ pair \in {"no", "still", "moved"}
    /\ wire \in Seq(Messages) /\ Len(wire) <= Capacity
    /\ conn \in BOOLEAN /\ phase \in {"streaming", "stopping", "sourceless", "stopped"}
    /\ slots \subseteq Pointers /\ \A s \in slots : s < Slots
    /\ fingers \subseteq Pointers /\ (fingers \subseteq slots \/ left)
    /\ buttons \subseteq Buttons
    /\ left \in BOOLEAN /\ backend \in {"portal", "uinput"}
    /\ mishaps \in 0..MaxMishaps

Init ==
    /\ down = {} /\ tracked = {} /\ mouseDown = FALSE /\ pair = "no"
    /\ touchMode \in BOOLEAN /\ backend \in {"portal", "uinput"}
    /\ wire = <<>> /\ conn = TRUE /\ phase = "streaming"
    /\ slots = {} /\ active = FALSE /\ fingers = {} /\ buttons = {}
    /\ left = FALSE /\ mishaps = 0

-----------------------------------------------------------------------------
(* The forwarder.  Android gives a new finger the lowest free id.          *)

\* UbuDeskClient.send: what does not fit is dropped.
Send(msgs) ==
    LET all == wire \o msgs IN
    /\ wire' = SubSeq(all, 1, Min({Capacity, Len(all)}))
    /\ mishaps' = mishaps + IF Len(all) > Capacity THEN 1 ELSE 0

Each(kind, ids) == [i \in 1..Cardinality(ids) |-> <<kind, SetToSeq(ids)[i]>>]

Lands(p) == /\ p \in Pointers \ down
            /\ \A q \in Pointers \ down : p <= q
            /\ down' = down \cup {p}
Lifts(p) == p \in down /\ down' = down \ {p}

TouchDown(p) ==
    /\ touchMode /\ Lands(p)
    /\ \/ p < Slots /\ tracked' = tracked \cup {p} /\ Send(<<<<"down", p>>>>)
       \/ UNCHANGED <<tracked, wire, mishaps>>      \* outside the video
    /\ UNCHANGED <<touchMode, mouseDown, pair>>

TouchMove ==
    /\ touchMode /\ tracked # {} /\ down # {}
    /\ \E ids \in SUBSET (tracked \cap down) : Send(Each("move", ids))
    /\ UNCHANGED <<down, forwarder>>

TouchUp(p) ==
    /\ touchMode /\ Lifts(p)
    /\ tracked' = tracked \ {p}
    /\ Send(IF p \in tracked THEN <<<<"up", p>>>> ELSE <<>>)
    /\ UNCHANGED <<touchMode, mouseDown, pair>>

TouchCancel ==
    /\ touchMode /\ down # {} /\ down' = {}
    /\ tracked' = {}
    /\ Send(Each("cancel", tracked))
    /\ UNCHANGED <<touchMode, mouseDown, pair>>

Click(button) == <<<<"press", button>>, <<"release", button>>>>
LeftUp == IF mouseDown THEN <<<<"release", "left">>>> ELSE <<>>

MouseDown(p) ==
    /\ ~touchMode /\ Lands(p) /\ down = {}
    /\ \/ mouseDown' = TRUE /\ pair' = "no" /\ Send(<<<<"press", "left">>>>)
       \/ UNCHANGED <<mouseDown, pair, wire, mishaps>>      \* outside the video
    /\ UNCHANGED <<touchMode, tracked>>

\* The second finger makes it a two-finger gesture, a third changes nothing.
\* Variant: the left button stays down under the gesture.
MousePointerDownKeepsLeft(p) ==
    /\ ~touchMode /\ Lands(p) /\ down # {}
    /\ pair' = IF Cardinality(down') = 2 THEN "still" ELSE pair
    /\ Send(<<>>)
    /\ UNCHANGED <<touchMode, tracked, mouseDown>>
MousePointerDown(p) ==
    /\ ~touchMode /\ Lands(p) /\ down # {}
    /\ IF Cardinality(down') = 2
       THEN Send(LeftUp) /\ mouseDown' = FALSE /\ pair' = "still"
       ELSE UNCHANGED <<wire, mishaps, mouseDown, pair>>
    /\ UNCHANGED <<touchMode, tracked>>

\* A pointer motion, or a scroll once the fingers have moved a step.
MouseMove ==
    /\ ~touchMode /\ down # {}
    /\ IF pair # "no" /\ Cardinality(down) >= 2
       THEN pair' = "moved"
       ELSE mouseDown /\ UNCHANGED pair
    /\ Send(<<<<"motion", 0>>>>)
    /\ UNCHANGED <<down, touchMode, tracked, mouseDown>>

\* Of two fingers one is lifted: a right click, unless they scrolled.
MousePointerUp(p) ==
    /\ ~touchMode /\ Cardinality(down) > 1 /\ Lifts(p)
    /\ Send(IF pair = "still" /\ Cardinality(down) = 2 THEN Click("right") ELSE <<>>)
    /\ pair' = IF Cardinality(down) = 2 THEN "no" ELSE pair
    /\ UNCHANGED <<touchMode, tracked, mouseDown>>

\* The last finger, or the gesture is taken away.
\* Variant: a gesture taken away is forgotten.
MouseEndQuiet ==
    /\ ~touchMode /\ down # {} /\ down' = {}
    /\ Send(<<>>) \/ Send(LeftUp)
    /\ mouseDown' = FALSE /\ pair' = "no"
    /\ UNCHANGED <<touchMode, tracked>>
MouseEnd ==
    /\ ~touchMode /\ down # {} /\ down' = {}
    /\ Send(LeftUp) /\ mouseDown' = FALSE /\ pair' = "no"
    /\ UNCHANGED <<touchMode, tracked>>

\* The overlay's Touch/Mouse button.
ToggleMode ==
    /\ touchMode' = ~touchMode
    /\ mishaps' = mishaps + IF down # {} THEN 1 ELSE 0
    /\ UNCHANGED <<down, tracked, mouseDown, pair, wire>>

-----------------------------------------------------------------------------
(* The session and its backend.                                            *)

\* uinput: finger 0 is the left button.
UinputTouch(kind) ==
    /\ CASE kind = "down" ->
              buttons' = buttons \cup {"left"} /\ active' = TRUE
         [] kind \in {"up", "cancel"} /\ active ->
              buttons' = buttons \ {"left"} /\ active' = FALSE
         [] OTHER -> UNCHANGED <<buttons, active>>
    /\ UNCHANGED fingers

\* What is held after a message of touch p.
Touched(kind, held, p) ==
    CASE kind = "down" -> held \cup {p}
      [] kind \in {"up", "cancel"} -> held \ {p}
      [] OTHER -> held

\* The portal has no cancel, and after Close takes nothing.
\* Variant: a cancelled touch stays with the desktop.
PortalTouchNoCancel(kind, p) ==
    /\ fingers' = IF phase = "sourceless" \/ kind = "cancel" THEN fingers
                  ELSE Touched(kind, fingers, p)
    /\ UNCHANGED <<buttons, active>>
PortalTouch(kind, p) ==
    /\ fingers' = IF phase = "sourceless" THEN fingers ELSE Touched(kind, fingers, p)
    /\ UNCHANGED <<buttons, active>>

OnTouch(kind, p) ==
    /\ slots' = Touched(kind, slots, p)
    /\ IF backend = "portal" THEN PortalTouch(kind, p)
       ELSE IF p = 0 THEN UinputTouch(kind)
       ELSE UNCHANGED <<active, fingers, buttons>>

OnMouse(kind, button) ==
    /\ buttons' = IF backend = "portal" /\ phase = "sourceless" THEN buttons
                  ELSE CASE kind = "press" -> buttons \cup {button}
                         [] kind = "release" -> buttons \ {button}
                         [] OTHER -> buttons
    /\ UNCHANGED <<slots, active, fingers>>

\* stop() called by the server leaves the session STREAMING until it is done.
OnInput ==
    /\ phase # "stopped" /\ wire # <<>>
    /\ wire' = Tail(wire)
    /\ LET kind == Head(wire)[1]
           what == Head(wire)[2]
       IN \/ kind \in {"down", "move", "up", "cancel"} /\ what < Slots /\ OnTouch(kind, what)
          \/ kind \in {"press", "release", "motion"} /\ OnMouse(kind, what)
    /\ UNCHANGED <<conn, phase, left, mishaps>>

\* The app leaves the screen, and forgets its forwarder.
ConnectionLost ==
    /\ conn /\ phase # "stopped" /\ conn' = FALSE
    /\ down' = {} /\ tracked' = {} /\ mouseDown' = FALSE /\ pair' = "no"
    /\ wire' = <<>>
    /\ UNCHANGED <<touchMode, phase, desktop, mishaps, backend>>

StopStream ==
    /\ phase = "streaming" /\ phase' = "stopping"
    /\ UNCHANGED <<wire, conn, desktop, mishaps>>

\* source.stop: the portal lets go of all that a session held when it closes.
\* A Close that fails or times out is suppressed, and the handle forgotten: what
\* the session held stays held, and no later message can reach it.
SourceStopped ==
    /\ phase = "stopping" /\ phase' = "sourceless"
    /\ \/ backend = "portal" /\ fingers' = {} /\ buttons' = {} /\ UNCHANGED left
       \/ backend = "portal" /\ left' = TRUE /\ UNCHANGED <<fingers, buttons>>
       \/ backend = "uinput" /\ UNCHANGED <<fingers, buttons, left>>
    /\ UNCHANGED <<slots, active, wire, conn, mishaps>>

\* _release_stuck_input, and close(): the uinput device goes, with its buttons.
\* Variant: only what _release_stuck_input knows of is let go.
InputReleasedOnly ==
    /\ phase = "sourceless" /\ phase' = "stopped"
    /\ slots' = {} /\ wire' = <<>> /\ active' = FALSE
    /\ buttons' = IF 0 \in slots /\ active THEN buttons \ {"left"} ELSE buttons
    /\ UNCHANGED <<fingers, left, conn, mishaps>>
InputClosed ==
    /\ phase = "sourceless" /\ phase' = "stopped"
    /\ slots' = {} /\ wire' = <<>> /\ active' = FALSE
    /\ buttons' = IF backend = "uinput" THEN {} ELSE buttons
    /\ UNCHANGED <<fingers, left, conn, mishaps>>

-----------------------------------------------------------------------------
Tablet == \/ \E p \in Pointers :
               TouchDown(p) \/ TouchUp(p) \/ MouseDown(p) \/ MousePointerDown(p)
               \/ MousePointerUp(p)
          \/ TouchMove \/ TouchCancel \/ MouseMove \/ MouseEnd \/ ToggleMode

Server == OnInput \/ StopStream \/ SourceStopped \/ InputClosed

Next == \/ /\ conn /\ phase # "stopped"
           /\ Tablet /\ mishaps' <= MaxMishaps
           /\ UNCHANGED <<conn, phase, desktop, backend>>
        \/ ConnectionLost
        \/ Server /\ UNCHANGED <<down, forwarder, backend>>

Spec == Init /\ [][Next]_vars

-----------------------------------------------------------------------------
(* Properties.                                                             *)

Settled == mishaps = 0 /\ conn /\ phase = "streaming" /\ wire = <<>>

\* What the PC holds is what the fingers hold, once all is handled, whatever the
\* gestures were and the modes between them: with the uinput backend the left
\* button stands for finger 0.  No finger on the tablet, nothing held.
HeldAgrees ==
    Settled =>
      /\ fingers = IF backend = "portal" THEN tracked ELSE {}
      /\ buttons = IF mouseDown \/ (backend = "uinput" /\ 0 \in tracked)
                   THEN {"left"} ELSE {}
      /\ slots = tracked
      /\ down = {} => fingers = {} /\ buttons = {}

\* The next message fits what the desktop holds: it never sees a second down,
\* or the motion or the end of a touch that did not begin.
MessagesFit ==
    mishaps = 0 /\ phase = "streaming" /\ wire # <<>> =>
      LET m == Head(wire) IN
      CASE m[1] = "down" -> m[2] \notin slots
        [] m[1] \in {"move", "up", "cancel"} -> m[2] \in slots
        [] m[1] = "press" -> buttons = {}
        [] m[1] = "release" -> m[2] \in buttons
        [] OTHER -> TRUE

\* When the stream has stopped nothing is held, dropped messages and changed
\* modes included, and mouse buttons, which _release_stuck_input does not know:
\* a finger that a mishap left down stays down until then, and no longer.  The
\* exception is a portal session that could not be closed.
NothingHeldAfterStop ==
    phase = "stopped" =>
        (fingers = {} /\ buttons = {}) \/ (left /\ backend = "portal")
=============================================================================
