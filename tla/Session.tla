------------------------------- MODULE Session -------------------------------
(***************************************************************************)
(* The per-client session of the UbuDesk server                            *)
(* (server/ubudesk_server/net/session.py): handshake, stream start, stream *)
(* restart and close, with everything that runs beside it.                 *)
(*                                                                         *)
(* Four kinds of actor interleave:                                         *)
(*   - two tasks of the asyncio loop: "run", the session's reader          *)
(*     (Session.run), and "stop", the task of UbuDeskServer.stop that      *)
(*     calls close() on the same session;                                  *)
(*   - one video sender task per started stream (Session._video_sender);   *)
(*   - executor threads that run source.start and source.stop;             *)
(*   - the capture thread of each source, which posts every frame to the   *)
(*     loop with call_soon_threadsafe.                                     *)
(*                                                                         *)
(* A task runs from one await to the next without interruption by another  *)
(* task, while threads go on.  pc[t] is where task t is: at an await       *)
(* (AwaitLabels) or inside such an uninterrupted stretch (StepLabels).     *)
(* `posted` is the loop's FIFO of call_soon_threadsafe callbacks: frames   *)
(* and the completions of executor jobs.                                   *)
(*                                                                         *)
(* A stream is named by its generation g: the g-th call of _start_source.  *)
(* The frames of the send queue are told apart by their generation only;   *)
(* the queue's own policy is module FrameQueue.                            *)
(***************************************************************************)
EXTENDS Naturals, Sequences, FiniteSets

CONSTANTS
    MaxStarts,  \* bound: number of start requests that reach the executor
    MaxPosted   \* bound: a capture thread posts a frame only below this length

ASSUME BoundsAssumption == MaxStarts \in Nat /\ MaxPosted \in Nat

None == 0
Gens == 1..MaxStarts
Tasks == {"run", "stop"}

States == {"HELLO", "AUTH", "READY", "STREAMING", "CLOSED"}
AwaitLabels == {"idle", "read", "drain", "drain_last", "stop_sender",
                "stop_source", "starting", "closing", "done"}
StepLabels == {"begin_stop", "stop_capture", "stop_input", "check_start",
               "begin_close", "end_close"}

\* What became of the source of a generation.  "running": frames flow but
\* start() has not returned; "orphan": start() raised after frames began.
SourceStates == {"none", "starting", "running", "live", "stopping", "stopped",
                 "failed", "crashed", "orphan"}
Emitting == {"running", "live", "stopping", "orphan"}
SenderStates == {"none", "get", "drain", "cancelled", "done"}
Callbacks == [to : {"enqueue"} \cup Tasks, gen : Gens]

VARIABLES
    state,       \* Session.state
    authed,      \* history: an auth message was accepted
    pc,          \* where each task is
    closing,     \* [t]: task t is in _stop_stream on behalf of close()
    arg,         \* [t]: the generation task t awaits (sender, stop or start)
    source,      \* Session._source
    input,       \* Session._input
    senderTask,  \* Session._sender_task
    sender,      \* [g]: state of the sender task of generation g
    src,         \* [g]: state of the capture source of generation g
    inp,         \* [g]: "none", "open" or "closed": the input backend
    posted,      \* callbacks waiting in the loop
    queue,       \* generations with frames in Session._video_queue
    conn,        \* the transport: "open", "closing" or "lost"
    wire         \* last `started` and last video written after it

session == <<state, authed, source, input, senderTask>>
vars == <<state, authed, pc, closing, arg, source, input, senderTask, sender,
          src, inp, posted, queue, conn, wire>>

TypeOK ==
    /\ state \in States
    /\ authed \in BOOLEAN
    /\ pc \in [Tasks -> AwaitLabels \cup StepLabels]
    /\ closing \in [Tasks -> BOOLEAN]
    /\ arg \in [Tasks -> Gens \cup {None}]
    /\ \A t \in Tasks :  \* what a task awaits is there
         pc[t] \in {"stop_sender", "stop_source", "starting"} => arg[t] # None
    /\ source \in Gens \cup {None}
    /\ input \in Gens \cup {None}
    /\ senderTask \in Gens \cup {None}
    /\ sender \in [Gens -> SenderStates]
    /\ src \in [Gens -> SourceStates]
    /\ inp \in [Gens -> {"none", "open", "closed"}]
    /\ posted \in Seq(Callbacks)
    /\ queue \in SUBSET Gens
    /\ conn \in {"open", "closing", "lost"}
    /\ wire \in [started : Gens \cup {None}, video : Gens \cup {None}]

Init ==
    /\ state = "HELLO"
    /\ authed = FALSE
    /\ pc = [t \in Tasks |-> IF t = "run" THEN "read" ELSE "idle"]
    /\ closing = [t \in Tasks |-> FALSE]
    /\ arg = [t \in Tasks |-> None]
    /\ source = None /\ input = None /\ senderTask = None
    /\ sender = [g \in Gens |-> "none"]
    /\ src = [g \in Gens |-> "none"]
    /\ inp = [g \in Gens |-> "none"]
    /\ posted = <<>>
    /\ queue = {}
    /\ conn = "open"
    /\ wire = [started |-> None, video |-> None]

-----------------------------------------------------------------------------
(* Scheduling of the loop.                                                 *)

\* Task t awaits a sender task that has ended: its wake-up is already in the
\* loop's ready queue, ahead of any later event.
Wakeable(t) == /\ pc[t] = "stop_sender"
               /\ sender[arg[t]] = "done"

NoStep == \A t \in Tasks : pc[t] \notin StepLabels
LoopFree == NoStep /\ \A t \in Tasks : ~Wakeable(t)

Goto(t, label) == pc' = [pc EXCEPT ![t] = label]

\* The head of run()'s while loop.
LoopHead == IF state = "CLOSED" THEN "begin_close" ELSE "read"

-----------------------------------------------------------------------------
(* The reader: Session.run and Session._handle.                            *)

Reading == LoopFree /\ pc["run"] = "read"

\* The idle timeout, the end of the connection, a protocol violation and
\* `bye` all reach run()'s finally.
Leave ==
    /\ Reading
    /\ Goto("run", "begin_close")
    /\ UNCHANGED <<session, closing, arg, sender, src, inp, posted, queue,
                   conn, wire>>

\* Messages whose handler neither awaits nor changes what is modelled here:
\* idr, bitrate, stats, input, unknown "t" and unknown frame types.
OnQuiet ==
    /\ Reading
    /\ Goto("run", LoopHead)
    /\ UNCHANGED <<session, closing, arg, sender, src, inp, posted, queue,
                   conn, wire>>

OnHello ==
    /\ Reading
    /\ state = "HELLO"
    /\ \/ Goto("run", "drain_last") /\ state' = state  \* error: bad_request
       \/ Goto("run", "drain") /\ state' = "AUTH"      \* auth_required
    /\ UNCHANGED <<authed, source, input, senderTask, closing, arg, sender,
                   src, inp, posted, queue, conn, wire>>

OnAuth ==
    /\ Reading
    /\ state = "AUTH"
    /\ \/ /\ Goto("run", "drain_last")                 \* auth_fail
          /\ UNCHANGED <<state, authed>>
       \/ /\ Goto("run", "drain")                      \* auth_ok
          /\ state' = "READY"
          /\ authed' = TRUE
    /\ UNCHANGED <<source, input, senderTask, closing, arg, sender, src, inp,
                   posted, queue, conn, wire>>

\* Variant: the dispatch forgets that AUTH is not authenticated yet.
AuthenticatedInAuth == state # "HELLO"

\* Everything _handle does not send to _on_hello or _on_auth: CLOSED too.
Authenticated == state \notin {"HELLO", "AUTH"}

OnPing ==
    /\ Reading
    /\ Authenticated
    /\ Goto("run", "drain")
    /\ UNCHANGED <<session, closing, arg, sender, src, inp, posted, queue,
                   conn, wire>>

\* Variant: a start while streaming does not stop the old stream first.
OnStartOver ==
    /\ Reading
    /\ Authenticated
    /\ Goto("run", "check_start")
    /\ UNCHANGED <<session, closing, arg, sender, src, inp, posted, queue,
                   conn, wire>>

\* A start while streaming stops the old stream before it looks at the
\* parameters of the new one.
OnStart ==
    /\ Reading
    /\ Authenticated
    /\ Goto("run", IF state = "STREAMING" THEN "begin_stop" ELSE "check_start")
    /\ UNCHANGED <<session, closing, arg, sender, src, inp, posted, queue,
                   conn, wire>>

\* writer.drain() returns, or raises once the connection is lost.
Drain ==
    /\ LoopFree
    /\ pc["run"] \in {"drain", "drain_last"}
    /\ Goto("run", IF conn = "lost" \/ pc["run"] = "drain_last"
                   THEN "begin_close" ELSE LoopHead)
    /\ UNCHANGED <<session, closing, arg, sender, src, inp, posted, queue,
                   conn, wire>>

-----------------------------------------------------------------------------
(* Starting a stream: the rest of _on_start, and _start_source.            *)

Unused == {g \in Gens : src[g] = "none"}

RejectStart ==
    /\ pc["run"] = "check_start"
    /\ Goto("run", "drain")
    /\ UNCHANGED <<session, closing, arg, sender, src, inp, posted, queue,
                   conn, wire>>

\* The factory builds source and input backend, then source.start runs, all
\* in an executor thread.
AcceptStart ==
    /\ pc["run"] = "check_start"
    /\ \E g \in Unused :
         /\ \A h \in Unused : g <= h
         /\ src' = [src EXCEPT ![g] = "starting"]
         /\ inp' = [inp EXCEPT ![g] = "open"]
         /\ arg' = [arg EXCEPT !["run"] = g]
    /\ Goto("run", "starting")
    /\ UNCHANGED <<session, closing, sender, posted, queue, conn, wire>>

\* The capture thread delivers its first frames; start() is still running.
CaptureRuns(g) ==
    /\ src[g] = "starting"
    /\ src' = [src EXCEPT ![g] = "running"]
    /\ UNCHANGED <<session, pc, closing, arg, sender, inp, posted, queue,
                   conn, wire>>

\* start() returns; raises CaptureError, leaving nothing running; or raises
\* anything else (saving the restore token, for one, comes after the capture
\* is up), and then nobody stops what is already running.
StartEnds(g) ==
    /\ \/ src[g] = "running"
          /\ src' = [src EXCEPT ![g] = "live"]
       \/ src[g] \in {"starting", "running"}
          /\ src' = [src EXCEPT ![g] = "failed"]
       \/ src[g] \in {"starting", "running"}
          /\ src' = [src EXCEPT ![g] = IF @ = "running" THEN "orphan"
                                       ELSE "crashed"]
    /\ posted' = Append(posted, [to |-> "run", gen |-> g])
    /\ UNCHANGED <<session, pc, closing, arg, sender, inp, queue, conn, wire>>

\* The reader resumes after the executor job.  Nothing asks whether the
\* session was closed in the meantime.
StartResumes ==
    /\ LoopFree
    /\ pc["run"] = "starting"
    /\ posted # <<>>
    /\ Head(posted).to = "run"
    /\ posted' = Tail(posted)
    /\ LET g == Head(posted).gen IN
       \/ /\ src[g] = "live"
          /\ source' = g
          /\ input' = g
          /\ state' = "STREAMING"
          /\ senderTask' = g
          /\ sender' = [sender EXCEPT ![g] = "get"]
          /\ wire' = [started |-> g, video |-> None]
          /\ Goto("run", "drain")
       \/ /\ src[g] # "live"
          /\ Goto("run", IF src[g] = "failed" THEN "drain" ELSE "begin_close")
          /\ UNCHANGED <<source, input, state, senderTask, sender, wire>>
    /\ UNCHANGED <<authed, closing, arg, src, inp, queue, conn>>

-----------------------------------------------------------------------------
(* Frames: _on_frame_threadsafe, _enqueue_frame, _video_sender.            *)

EmitFrame(g) ==
    /\ src[g] \in Emitting
    /\ Len(posted) < MaxPosted
    /\ posted' = Append(posted, [to |-> "enqueue", gen |-> g])
    /\ UNCHANGED <<session, pc, closing, arg, sender, src, inp, queue, conn,
                   wire>>

\* Backpressure may drop the frame and purge others: any part may remain.
EnqueueFrame ==
    /\ LoopFree
    /\ posted # <<>>
    /\ Head(posted).to = "enqueue"
    /\ posted' = Tail(posted)
    /\ IF state = "STREAMING"
       THEN \E q \in SUBSET (queue \cup {Head(posted).gen}) : queue' = q
       ELSE queue' = queue
    /\ UNCHANGED <<session, pc, closing, arg, sender, src, inp, conn, wire>>

\* The sender takes a frame, whether or not it is the last of its generation.
SendFrame(g) ==
    /\ LoopFree
    /\ sender[g] = "get"
    /\ \E h \in queue :
         /\ queue' \in {queue, queue \ {h}}
         /\ wire' = [wire EXCEPT !.video = h]
    /\ sender' = [sender EXCEPT ![g] = "drain"]
    /\ UNCHANGED <<session, pc, closing, arg, src, inp, posted, conn>>

SenderDrain(g) ==
    /\ LoopFree
    /\ sender[g] = "drain"
    /\ sender' = [sender EXCEPT ![g] = IF conn = "lost" THEN "done" ELSE "get"]
    /\ UNCHANGED <<session, pc, closing, arg, src, inp, posted, queue, conn,
                   wire>>

\* Variant: the sender swallows its cancellation and goes on.
SenderCancelledGoesOn(g) ==
    /\ LoopFree
    /\ sender[g] = "cancelled"
    /\ sender' = [sender EXCEPT ![g] = "get"]
    /\ UNCHANGED <<session, pc, closing, arg, src, inp, posted, queue, conn,
                   wire>>

SenderCancelled(g) ==
    /\ LoopFree
    /\ sender[g] = "cancelled"
    /\ sender' = [sender EXCEPT ![g] = "done"]
    /\ UNCHANGED <<session, pc, closing, arg, src, inp, posted, queue, conn,
                   wire>>

-----------------------------------------------------------------------------
(* Session._stop_stream, called by a restart and by close(), in task t.    *)

SenderAlive == senderTask \in {g \in Gens : sender[g] # "done"}

\* Variant: the sender is awaited but not cancelled.
BeginStopNoCancel(t) ==
    /\ pc[t] = "begin_stop"
    /\ \/ /\ SenderAlive
          /\ arg' = [arg EXCEPT ![t] = senderTask]
          /\ Goto(t, "stop_sender")
          /\ UNCHANGED senderTask
       \/ /\ ~SenderAlive
          /\ senderTask' = None
          /\ Goto(t, "stop_capture")
          /\ UNCHANGED arg
    /\ UNCHANGED <<state, authed, source, input, closing, sender, src, inp,
                   posted, queue, conn, wire>>

\* Cancel the sender and await it; awaiting an ended task does not suspend.
BeginStop(t) ==
    /\ pc[t] = "begin_stop"
    /\ \/ /\ SenderAlive
          /\ sender' = [sender EXCEPT ![senderTask] = "cancelled"]
          /\ arg' = [arg EXCEPT ![t] = senderTask]
          /\ Goto(t, "stop_sender")
          /\ UNCHANGED senderTask
       \/ /\ ~SenderAlive
          /\ senderTask' = None
          /\ Goto(t, "stop_capture")
          /\ UNCHANGED <<sender, arg>>
    /\ UNCHANGED <<state, authed, source, input, closing, src, inp, posted,
                   queue, conn, wire>>

SenderStopped(t) ==
    /\ NoStep
    /\ Wakeable(t)
    /\ senderTask' = None
    /\ Goto(t, "stop_capture")
    /\ UNCHANGED <<state, authed, source, input, closing, arg, sender, src,
                   inp, posted, queue, conn, wire>>

\* Variant: source.stop is handed to the executor and not awaited.
StopCaptureNoWait(t) ==
    /\ pc[t] = "stop_capture"
    /\ src' = [g \in Gens |-> IF g = source THEN "stopping" ELSE src[g]]
    /\ source' = None
    /\ Goto(t, "stop_input")
    /\ UNCHANGED <<state, authed, input, senderTask, closing, arg, sender,
                   inp, posted, queue, conn, wire>>

\* Variant: _stop_stream does not ask whether there is a source.
StopCaptureUnasked(t) ==
    /\ pc[t] = "stop_capture"
    /\ src' = [g \in Gens |-> IF g = source THEN "stopping" ELSE src[g]]
    /\ arg' = [arg EXCEPT ![t] = source]
    /\ source' = None
    /\ Goto(t, "stop_source")
    /\ UNCHANGED <<state, authed, input, senderTask, closing, sender, inp,
                   posted, queue, conn, wire>>

\* The source is taken out of the session before the executor stops it.
StopCapture(t) ==
    /\ pc[t] = "stop_capture"
    /\ \/ /\ source # None
          /\ src' = [src EXCEPT ![source] = "stopping"]
          /\ arg' = [arg EXCEPT ![t] = source]
          /\ source' = None
          /\ Goto(t, "stop_source")
       \/ /\ source = None
          /\ Goto(t, "stop_input")
          /\ UNCHANGED <<src, arg, source>>
    /\ UNCHANGED <<state, authed, input, senderTask, closing, sender, inp,
                   posted, queue, conn, wire>>

\* source.stop() returns in its executor thread: no frame is posted later.
StopEnds(t) ==
    /\ pc[t] = "stop_source"
    /\ src[arg[t]] = "stopping"
    /\ src' = [src EXCEPT ![arg[t]] = "stopped"]
    /\ posted' = Append(posted, [to |-> t, gen |-> arg[t]])
    /\ UNCHANGED <<session, pc, closing, arg, sender, inp, queue, conn, wire>>

StopResumes(t) ==
    /\ LoopFree
    /\ pc[t] = "stop_source"
    /\ posted # <<>>
    /\ Head(posted).to = t
    /\ posted' = Tail(posted)
    /\ Goto(t, "stop_input")
    /\ UNCHANGED <<session, closing, arg, sender, src, inp, queue, conn, wire>>

\* Variant: the queue is not emptied.
StopInputKeepQueue(t) ==
    /\ pc[t] = "stop_input"
    /\ inp' = [g \in Gens |-> IF g = input THEN "closed" ELSE inp[g]]
    /\ input' = None
    /\ state' = IF state = "STREAMING" THEN "READY" ELSE state
    /\ Goto(t, IF closing[t] THEN "end_close" ELSE "check_start")
    /\ UNCHANGED <<authed, source, senderTask, closing, arg, sender, src,
                   posted, queue, conn, wire>>

\* Variant: the closed backend stays in the session.
StopInputKeepInput(t) ==
    /\ pc[t] = "stop_input"
    /\ inp' = [g \in Gens |-> IF g = input THEN "closed" ELSE inp[g]]
    /\ queue' = {}
    /\ state' = IF state = "STREAMING" THEN "READY" ELSE state
    /\ Goto(t, IF closing[t] THEN "end_close" ELSE "check_start")
    /\ UNCHANGED <<authed, source, input, senderTask, closing, arg, sender,
                   src, posted, conn, wire>>

\* Release and close the input backend, empty the queue, leave STREAMING.
StopInput(t) ==
    /\ pc[t] = "stop_input"
    /\ inp' = [g \in Gens |-> IF g = input THEN "closed" ELSE inp[g]]
    /\ input' = None
    /\ queue' = {}
    /\ state' = IF state = "STREAMING" THEN "READY" ELSE state
    /\ Goto(t, IF closing[t] THEN "end_close" ELSE "check_start")
    /\ UNCHANGED <<authed, source, senderTask, closing, arg, sender, src,
                   posted, conn, wire>>

-----------------------------------------------------------------------------
(* Session.close, called by run()'s finally and by UbuDeskServer.stop.     *)

\* Variant: close() marks the session CLOSED before it looks for a stream.
BeginCloseNoStop(t) ==
    /\ pc[t] = "begin_close"
    /\ Goto(t, IF state = "CLOSED" THEN "done" ELSE "end_close")
    /\ state' = "CLOSED"
    /\ UNCHANGED <<authed, source, input, senderTask, closing, arg, sender,
                   src, inp, posted, queue, conn, wire>>

BeginClose(t) ==
    /\ pc[t] = "begin_close"
    /\ \/ /\ state = "CLOSED"
          /\ Goto(t, "done")
          /\ UNCHANGED <<state, closing>>
       \/ /\ state = "STREAMING"
          /\ Goto(t, "begin_stop")
          /\ closing' = [closing EXCEPT ![t] = TRUE]
          /\ UNCHANGED state
       \/ /\ state \notin {"CLOSED", "STREAMING"}
          /\ Goto(t, "end_close")
          /\ state' = "CLOSED"
          /\ UNCHANGED closing
    /\ UNCHANGED <<authed, source, input, senderTask, arg, sender, src, inp,
                   posted, queue, conn, wire>>

EndClose(t) ==
    /\ pc[t] = "end_close"
    /\ state' = "CLOSED"
    /\ conn' = IF conn = "open" THEN "closing" ELSE conn
    /\ Goto(t, "closing")
    /\ UNCHANGED <<authed, source, input, senderTask, closing, arg, sender,
                   src, inp, posted, queue, wire>>

\* writer.wait_closed() returns once the transport is gone.
Closed(t) ==
    /\ LoopFree
    /\ pc[t] = "closing"
    /\ conn = "lost"
    /\ Goto(t, "done")
    /\ UNCHANGED <<session, closing, arg, sender, src, inp, posted, queue,
                   conn, wire>>

\* The peer vanishes, or the transport has flushed after writer.close().
ConnectionLost ==
    /\ conn # "lost"
    /\ conn' = "lost"
    /\ UNCHANGED <<session, pc, closing, arg, sender, src, inp, posted, queue,
                   wire>>

\* UbuDeskServer.stop reaches this session while its task is registered.
ServerStop ==
    /\ LoopFree
    /\ pc["stop"] = "idle"
    /\ pc["run"] # "done"
    /\ Goto("stop", "begin_close")
    /\ UNCHANGED <<session, closing, arg, sender, src, inp, posted, queue,
                   conn, wire>>

-----------------------------------------------------------------------------
Ended == pc["run"] = "done" /\ pc["stop"] \in {"idle", "done"}
Terminated == Ended /\ UNCHANGED vars

Reader == Leave \/ OnQuiet \/ OnHello \/ OnAuth \/ OnPing \/ OnStart
StopStream(t) == \/ BeginStop(t) \/ SenderStopped(t) \/ StopCapture(t)
                 \/ StopResumes(t) \/ StopInput(t)
Close(t) == BeginClose(t) \/ EndClose(t) \/ Closed(t)
Task(t) == StopStream(t) \/ Close(t)
Sender(g) == SendFrame(g) \/ SenderDrain(g) \/ SenderCancelled(g)
Executor == (\E g \in Gens : CaptureRuns(g) \/ StartEnds(g))
            \/ (\E t \in Tasks : StopEnds(t))

Next ==
    \/ Reader \/ Drain \/ RejectStart \/ AcceptStart \/ StartResumes
    \/ Executor \/ EnqueueFrame \/ ConnectionLost
    \/ \E t \in Tasks : Task(t)
    \/ \E g \in Gens : Sender(g) \/ EmitFrame(g)
    \/ Terminated

\* The session as clients drive it, with the server staying up...
Spec == Init /\ [][Next]_vars
\* ... and with the server shutting down at any moment.
ShutdownSpec == Init /\ [][Next \/ ServerStop]_vars

\* The loop runs what is ready, executor jobs end, and a lost connection makes
\* drain() raise.  Nothing is assumed of the peer: a live connection may stall
\* drain() for ever, and need not be lost.
Fairness ==
    /\ WF_vars(Drain /\ conn = "lost")
    /\ WF_vars(RejectStart \/ AcceptStart)
    /\ WF_vars(StartResumes)
    /\ WF_vars(EnqueueFrame)
    /\ \A t \in Tasks : WF_vars(Task(t)) /\ WF_vars(StopEnds(t))
    /\ \A g \in Gens : /\ WF_vars(StartEnds(g))
                       /\ WF_vars(SenderCancelled(g))
    \* What the stream reader still buffers is finite: the end is reached.
    /\ SF_vars(Leave /\ conn = "lost")

FairSpec == Spec /\ Fairness
FairShutdownSpec == ShutdownSpec /\ Fairness

-----------------------------------------------------------------------------
(* Properties.                                                             *)

Capturing == {g \in Gens : src[g] \in Emitting \cup {"starting"}}

\* UbuDeskServer.stop has not reached the session: the reader is its only task.
\* Once it has, both tasks are in close() and the handlers, and a start can
\* still pass them (see CaptureOnlyForAuthed).
Up == pc["stop"] = "idle"

\* No capture source is ever built or started for a client that has not been
\* authenticated (session.py docstring; _handle's dispatch on state).
CaptureOnlyForAuthed == Capturing # {} => authed

\* The same as long as no server stop closed the session under its reader.
CaptureNeedsAuth == Up => CaptureOnlyForAuthed

\* A stream enters the session only in READY: not before auth_ok, and not over
\* a stream that still runs (session.py:6-8), server stop or not.  With one
\* exception, against that text: _on_start does not look at the state after
\* source.start, so that a stream the server's stop overtakes enters a session
\* that is CLOSED (session.py:274-276).
CaptureOnlyWhenReady ==
    [][source' # source /\ source' # None
         => state = "READY" \/ (state = "CLOSED" /\ ~Up)]_vars

\* A restart starts the new capture only when the old one has stopped: the
\* portal session, the virtual monitor and the input device are never there
\* twice for one client (_on_start awaits _stop_stream).
OneCapture == Up => Cardinality(Capturing) <= 1

\* After `started` of a stream is on the wire, no frame of an earlier stream
\* follows: frames an old source posted are consumed before stop completes.
NoStaleVideo == Up => wire.video \in {None, wire.started}

\* The session never holds a source, a sender or a backend that was already
\* stopped, and while it streams without a stop under way it holds all three
\* of one and the same stream.
Stopping(t) == pc[t] \in {"begin_stop", "stop_sender", "stop_capture",
                          "stop_source", "stop_input"}
HandlesAgree ==
    /\ source # None => src[source] = "live"
    /\ input # None => inp[input] = "open"
    /\ state = "STREAMING" /\ (\A t \in Tasks : ~Stopping(t)) =>
         source # None /\ input = source /\ senderTask = source

\* A task never waits for what will not come: the sender it waits for is
\* cancelled or has ended, and the source it has started or stopped is still in
\* its executor job, or the job's completion to this task is in the loop.  Two
\* tasks in _stop_stream at once may share the sender, never the source.
JobRuns(t) == src[arg[t]] \in IF pc[t] = "starting" THEN {"starting", "running"}
                              ELSE {"stopping"}
JobDone(t) == \E i \in 1..Len(posted) : posted[i] = [to |-> t, gen |-> arg[t]]
WakeUpComes ==
    \A t \in Tasks :
        /\ pc[t] = "stop_sender" => sender[arg[t]] \in {"cancelled", "done"}
        /\ pc[t] \in {"starting", "stop_source"} => JobRuns(t) \/ JobDone(t)

\* When the session is over, nothing of any of its streams is left: no source,
\* no sender, no input backend, except what a start that raised left behind.
Raised(g) == src[g] \in {"failed", "crashed", "orphan"}
ReleasedAtEnd ==
    Ended /\ Up => \A g \in Gens : ~Raised(g) =>
                     /\ src[g] \in {"none", "stopped"}
                     /\ sender[g] \in {"none", "done"}
                     /\ inp[g] # "open"

\* A client that is gone is eventually forgotten, with all it started.
LostClientReleased == conn = "lost" ~> Ended
=============================================================================
