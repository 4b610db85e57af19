----------------------------- MODULE VideoSource -----------------------------
(***************************************************************************)
(* What a capture backend promises to the session that uses it: the        *)
(* interface VideoSource of server/ubudesk_server/capture/base.py.         *)
(*                                                                         *)
(* start() acquires what a capture needs of the desktop (a portal session, *)
(* a virtual output) and lets frames flow, or raises CaptureError with     *)
(* nothing held.  stop() ends the frames, then gives everything back.      *)
(* PortalSource and X11Extend are checked against this specification.      *)
(***************************************************************************)
VARIABLES
    phase,    \* "idle", "starting", "live", or "ending": stop() or a failed start
    holding,  \* whether something of the desktop is held
    flowing   \* whether frames are produced

vars == <<phase, holding, flowing>>

Init == phase = "idle" /\ holding = FALSE /\ flowing = FALSE

BeginStart ==
    /\ phase = "idle"
    /\ phase' = "starting"
    /\ UNCHANGED <<holding, flowing>>

\* Frames flow only from what is held, and may before start() returns.
Acquire ==
    /\ phase = "starting"
    /\ holding' = TRUE
    /\ flowing' \in {flowing, TRUE}
    /\ UNCHANGED phase

Ready ==
    /\ phase = "starting" /\ holding
    /\ phase' = "live"
    /\ flowing' \in {flowing, TRUE}
    /\ UNCHANGED holding

\* The desktop takes the capture away.
Interrupt ==
    /\ flowing' = FALSE
    /\ holding' \in {holding, FALSE}
    /\ UNCHANGED phase

\* start() that fails with something held, or stop().
BeginEnd ==
    /\ phase \in {"starting", "live"}
    /\ phase' = "ending"
    /\ flowing' \in {flowing, FALSE}
    /\ UNCHANGED holding

\* The frames end before what they show is given back.
EndFlow ==
    /\ phase = "ending"
    /\ flowing' = FALSE
    /\ UNCHANGED <<phase, holding>>

Release ==
    /\ phase = "ending" /\ ~flowing
    /\ holding' = FALSE
    /\ phase' \in {"ending", "idle"}
    /\ UNCHANGED flowing

\* start() that fails before any frame, with nothing held afterwards.
Refuse ==
    /\ phase = "starting" /\ ~flowing
    /\ phase' = "idle"
    /\ holding' = FALSE
    /\ UNCHANGED flowing

Next == BeginStart \/ Acquire \/ Ready \/ Interrupt \/ BeginEnd \/ EndFlow
        \/ Release \/ Refuse

Spec == Init /\ [][Next]_vars

\* Every start and every stop comes to an end.
Terminates == /\ phase = "starting" ~> phase # "starting"
              /\ phase = "ending" ~> phase = "idle"
=============================================================================
