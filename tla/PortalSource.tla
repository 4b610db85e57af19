---------------------------- MODULE PortalSource ----------------------------
(***************************************************************************)
(* The Wayland backend: PortalSource (capture/pipeline.py), the portal     *)
(* session it opens (capture/portal_session.py) and the start() that       *)
(* UbuDeskServer._default_factory wraps around it (net/server.py).         *)
(*                                                                         *)
(* start() runs in an executor thread: a sequence of portal requests, each *)
(* of which can be refused, time out, or fail on the bus; then the         *)
(* encoder, the GStreamer pipeline, and the saving of the restore token.   *)
(* The desktop may end the portal session at any moment ("stop sharing").  *)
(* An exception that is not a CaptureError leaves pc at "raised".          *)
(*                                                                         *)
(* `faults` is what can go wrong on this machine.                          *)
(***************************************************************************)
EXTENDS Naturals

CONSTANTS Faults,     \* the faults a behaviour may draw from
          MaxToken    \* bound: 1..MaxToken are the restore tokens the portal issues

ASSUME PortalAssumption == MaxToken \in Nat

VARIABLES
    pc,        \* where start() or stop() is, or "idle", "live", "raised"
    portal,    \* this source's session at the portal: "none", "open", "started"
    handle,    \* PortalSession.session_handle is set
    fd,        \* PortalSession.pipewire_fd is open
    pipeline,  \* "none", "built", "playing"
    issued,    \* the restore token of the session's Start, 0 for none
    saved,     \* config.restore_token
    valid,     \* the token the portal would accept
    left       \* history: the last start or stop forgot a session it had not closed

object == <<handle, fd, pipeline>>
vars == <<pc, portal, handle, fd, pipeline, issued, saved, valid, left>>

Tokens == 0..MaxToken
Requests == {"create", "types", "select", "devices", "start"}
Building == {"remote", "encoder", "parse", "play", "wait", "wrap"}
Ending == {"halt", "close"}

TypeOK ==
    /\ pc \in {"idle", "live", "raised"} \cup Requests \cup Building \cup Ending
    /\ portal \in {"none", "open", "started"}
    /\ handle \in BOOLEAN /\ fd \in BOOLEAN
    /\ pipeline \in {"none", "built", "playing"}
    \* what is open belongs to what is: the descriptor to a session with a
    \* handle, the pipeline to a descriptor
    /\ fd => handle
    /\ pipeline # "none" => fd
    /\ pc \in (Building \ {"remote"}) \cup {"halt"} => fd
    /\ issued \in Tokens /\ saved \in Tokens /\ valid \in Tokens
    /\ left \in BOOLEAN

Init ==
    /\ pc = "idle" /\ portal = "none"
    /\ handle = FALSE /\ fd = FALSE /\ pipeline = "none"
    /\ issued = 0 /\ saved = 0 /\ valid = 0 /\ left = FALSE

-----------------------------------------------------------------------------
(* start(): what raises CaptureError at once goes back to "idle".          *)

Fault(f, next) == f \in Faults /\ pc' = next

Begin ==
    /\ pc = "idle"
    /\ pc' \in {"create", "idle"}      \* PyGObject/GStreamer not available
    /\ issued' = 0 /\ left' = FALSE
    /\ UNCHANGED <<portal, object, saved, valid>>

\* The handle is gone, and with it the session, which the portal still has if
\* it was not closed: no later start or stop knows of it.
Forget(session) == /\ handle' = FALSE /\ portal' = "none"
                   /\ left' = (session # "none")

\* A failed request raises, and the source object is dropped as it is.
Abandon(session) == Forget(session) /\ UNCHANGED <<fd, pipeline, issued, saved, valid>>

\* _call_with_response without an answer: the portal may still act on it.
\* An error of the bus is a GLib.Error, which is not a PortalError.
NoAnswer(late) == \/ Fault("timeout", "idle") /\ \E session \in late : Abandon(session)
                  \/ Fault("bus", "raised") /\ Abandon(portal)

\* A request that is denied: the portal ends the session with it.
Denied == Fault("denied", "idle") /\ Abandon("none")

CreateSession ==
    /\ pc = "create"
    /\ \/ /\ pc' = "types" /\ portal' = "open" /\ handle' = TRUE
          /\ UNCHANGED <<fd, pipeline, issued, saved, valid, left>>
       \/ Denied
       \/ NoAnswer({"none", "open"})

\* available_source_types returns 0 on any error; extend needs VIRTUAL.
SourceTypes ==
    /\ pc = "types"
    /\ \/ pc' = "select" /\ UNCHANGED <<portal, object, issued, saved, valid, left>>
       \/ Fault("no_virtual", "idle") /\ Abandon(portal)

Select(from, next) ==
    /\ pc = from
    /\ \/ pc' = next /\ UNCHANGED <<portal, object, issued, saved, valid, left>>
       \/ Denied
       \/ NoAnswer({portal})

SelectSources == Select("select", "devices")
SelectDevices == Select("devices", "start")

\* Start: the user's dialog, or none if the token is valid.  The portal
\* replaces the token, or keeps none for this kind of source.
Start ==
    /\ pc = "start"
    /\ \/ /\ pc' = "remote" /\ portal' = "started"
          /\ valid' \in Tokens \ {valid}
          /\ issued' = valid'
          /\ UNCHANGED <<object, saved, left>>
       \/ Fault("no_streams", "idle") /\ Abandon("started")
       \/ Denied
       \/ NoAnswer({"open", "started"})

OpenRemote ==
    /\ pc = "remote"
    /\ \/ portal = "started" /\ pc' = "encoder" /\ fd' = TRUE
       \/ Fault("bus", "raised") /\ fd' = fd   \* portal may be "none"
    /\ UNCHANGED <<portal, handle, pipeline, issued, saved, valid, left>>

\* find_encoder and parse_launch: a failure closes the session.
FindEncoder ==
    /\ pc = "encoder"
    /\ pc' = "parse" \/ Fault("encoder", "close")
    /\ UNCHANGED <<portal, object, issued, saved, valid, left>>

Parse ==
    /\ pc = "parse"
    /\ \/ pc' = "play" /\ pipeline' = "built"
       \/ Fault("parse", "close") /\ pipeline' = pipeline
    /\ UNCHANGED <<portal, handle, fd, issued, saved, valid, left>>

\* set_state(PLAYING) and the wait for it: a failure is a stop().
Play ==
    /\ pc = "play"
    /\ \/ pc' = "wait" /\ pipeline' = "playing"
       \/ Fault("play", "halt") /\ pipeline' = pipeline
    /\ UNCHANGED <<portal, handle, fd, issued, saved, valid, left>>

Playing ==
    /\ pc = "wait"
    /\ pc' = "wrap" \/ Fault("play", "halt")
    /\ UNCHANGED <<portal, object, issued, saved, valid, left>>

\* The wrapper: a new token goes to the configuration file.
\* Variant: a token once saved is kept.
SavedFirst == IF saved = 0 THEN issued ELSE saved
Saved == IF issued # 0 THEN issued ELSE saved
SaveToken ==
    /\ pc = "wrap"
    /\ saved' = Saved
    /\ pc' = "live" \/ Fault("save", "raised")
    /\ UNCHANGED <<portal, object, issued, valid, left>>

-----------------------------------------------------------------------------
(* stop() and the desktop.                                                *)

\* Variant: the session is closed under the pipeline.
StopCloses ==
    /\ pc = "live"
    /\ pc' = "close"
    /\ UNCHANGED <<portal, object, issued, saved, valid, left>>

Stop ==
    /\ pc = "live"
    /\ pc' = "halt"
    /\ UNCHANGED <<portal, object, issued, saved, valid, left>>

\* Variant: stop() waits for a stream that the desktop may have ended.
HaltedAtEnd == pc = "halt" /\ portal = "started"
Halted == pc = "halt"
Halt ==
    /\ Halted
    /\ pipeline' = "none"
    /\ pc' = "close"
    /\ UNCHANGED <<portal, handle, fd, issued, saved, valid, left>>

\* PortalSession.close: whatever becomes of the call, the handle is gone.
\* Variant: the descriptor of the PipeWire remote stays open.
ClosedKeepFd == fd
Closed == fd /\ ~handle
Close ==
    /\ pc = "close"
    /\ pc' = "idle"
    /\ \/ Forget("none")
       \/ Faults \cap {"timeout", "bus"} # {} /\ Forget(portal)
    /\ fd' = Closed
    /\ UNCHANGED <<pipeline, issued, saved, valid>>

\* "Stop sharing"; before OpenPipeWireRemote it shows as an error of the bus.
UserEnds ==
    /\ portal = "started" /\ (fd \/ "bus" \in Faults)
    /\ portal' = "none"
    /\ UNCHANGED <<pc, object, issued, saved, valid, left>>

StartStep ==
    \/ CreateSession \/ SourceTypes \/ SelectSources \/ SelectDevices \/ Start
    \/ OpenRemote \/ FindEncoder \/ Parse \/ Play \/ Playing \/ SaveToken
StopStep == Halt \/ Close

Next == Begin \/ StartStep \/ Stop \/ StopStep \/ UserEnds

Spec == Init /\ [][Next]_vars

\* Every wait has a timeout: requests 120 s, the dialog 300 s, the pipeline
\* 10 s, Close 5 s.
FairSpec == Spec /\ WF_vars(StartStep) /\ WF_vars(StopStep)

-----------------------------------------------------------------------------
(* Properties.                                                             *)

\* PortalSource as a VideoSource.
Phase == CASE pc \in {"idle", "live", "raised"} -> pc
           [] pc \in Ending -> "ending"
           [] OTHER -> "starting"
Holding == portal # "none" \/ fd \/ pipeline # "none" \/ left
Flowing == pipeline = "playing" /\ portal = "started"
Source == INSTANCE VideoSource WITH phase <- Phase, holding <- Holding,
                                    flowing <- Flowing

\* The contract of capture/base.py: a start that fails holds nothing of the
\* desktop, frames end before the portal session is closed, and stop() gives
\* everything back.  Two steps of the code break it and are excepted, everything
\* before and after them is not: a request or a Close that fails with the session
\* left at the portal (which the next start does not know of), and an exception
\* that the caller does not expect.
ImplementsVideoSource ==
    Source!Init /\ [][Source!Next \/ left' # left \/ pc' = "raised"]_(Source!vars)

\* Every start and stop of this backend ends, whatever the desktop does.
StartAndStopEnd == Source!Terminates

\* A stream that runs has saved the token the portal expects next, so the
\* dialog does not come back (TROUBLESHOOTING.md:37-38).
SavedTokenWorks == pc = "live" /\ issued # 0 => saved = valid
=============================================================================
