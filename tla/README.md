# UbuDesk: a verification project

UbuDesk turns a phone or tablet into a second monitor of a Linux PC.  A Python
server captures a screen (a virtual one, created for the purpose), encodes it
to H.264 and streams it over TLS; an Android client decodes it and sends touch,
mouse and key events back.  This directory holds TLA+ models of both
ends, TLC runs over them and TLAPS proofs about them.  Paths below are relative
to the repository; `session.py`, `auth.py` and `server.py` are those of
`server/ubudesk_server/net/`.

## 1. Inventory

### Server

| part | state | operations | interacts with |
|---|---|---|---|
| client session (`net/session.py`) | state machine HELLO, AUTH, READY, STREAMING, CLOSED; source, input backend, sender task; touch slots and keys that are down | hello, auth, start, restart, ping, idr, bitrate, input, bye, idle timeout, close | one task per client; executor threads run `source.start/stop`; the capture thread posts frames; `UbuDeskServer.stop` closes from another task |
| video queue (`net/session.py`) | bounded queue, dropping flag | enqueue with drop-to-keyframe, purge, send | fed by the capture thread through the loop, emptied by the sender task against the socket |
| pairing and registry (`net/auth.py`) | PIN, its age, attempts, lockout; devices in memory and in `devices.json` | issue, verify, add, remove, verify token, load, save | sessions; the separate process of `ubudesk devices --revoke` on the same file |
| server process (`net/server.py`, `cli.py`) | listening socket, set of sessions, config | start, accept, issue PIN, stop | sessions, registry, discovery |
| capture (`capture/*.py`) | portal session, GStreamer pipeline, X11 output, capture thread | start, stop, request keyframe, set bitrate | desktop portal over D-Bus, `xrandr`, GStreamer |
| input (`input/*.py`) | virtual devices, portal session | touch, mouse, scroll, key, text, close | uinput or portal |
| framing (`protocol.py`) | none | encode, read and decode frames | both ends |
| TLS identity, mDNS, adb, doctor, config, log | files on disk | create, advertise, diagnose | I/O only |

### Android client

| part | state | operations | interacts with |
|---|---|---|---|
| connection (`net/UbuDeskClient.kt`) | socket, send channel of 256, closed flag, time of the last message | connect, send, ping loop, read loop, disconnect | reader thread, coroutines, listener |
| view model (`MainViewModel.kt`) | UI state, pending server and PIN, current client | connect, submit PIN, auth callbacks, disconnect | one listener shared by every connection |
| decoder (`video/VideoDecoder.kt`) | pending frames and their count, waiting flag, codec | feed, decode loop, recreate, start, stop | network thread, a decoder thread per start, UI thread |
| touch (`input/*.kt`) | tracked pointers, mouse and gesture state | touch and mouse modes | send channel |
| storage, discovery, screens, pinned TLS | preferences, list of servers | load, save, list | platform services |

### What is hard, and what would make each part correct

* **Session.**  Every `await` lets the other task, the sender, callbacks and
  completions in; `close()` can run in two tasks; `source.start` takes as long
  as the user takes to answer a dialog and may fail half-way.  Correct means:
  capture only for an authenticated client and only out of READY, never two
  captures of one client, no frame of an old stream after `started` of a new
  one, handles that agree with each other, everything released at the end, and
  an end for every lost client.
* **Video queue.**  The socket may stall for any time while frames, keyframes
  and requests for keyframes cross.  Correct means: no delta without the frames
  it refers to, a bounded backlog, no dropping for ever, and resumption from a
  keyframe.
* **Pairing.**  Wrong guesses, expiry, lockout and restarts in any order, and
  crashes inside a save.  Correct means: at most one pairing per PIN within its
  attempts, durable pairings, effective revocations.
* **Capture back ends.**  Sequences of external commands any of which may fail.
  Correct means: a failed or finished start leaves the desktop as it was.
* **Input.**  Streams stop and clients vanish while fingers and keys are down.
  Correct means: nothing stays pressed.
* **Android client.**  Late callbacks of an older connection, a decoder fed by
  one thread, run by another, stopped by a third and started again on a fourth,
  a handshake with timers on both ends.  Correct means: no state or frame
  crosses from an old connection or codec into a new one, and the two ends agree
  on the handshake.

`PROJECT.json` lists every hazard at its line with the properties that watch
it, and every part of the repository, those not modelled included.

## 2. Modules

| module | models | proofs |
|---|---|---|
| `Session` | one client session: reader, server stop, senders, executor jobs, capture threads | `SessionProofs` |
| `FrameQueue` | the queue of one stream between encoder and socket | `FrameQueueProofs` |
| `Auth` | PIN manager, registry, crashes, the revoking process | `AuthProofs` |
| `VideoSource` | what a capture backend promises (`capture/base.py`): the abstract specification of the next two | |
| `PortalSource` | the Wayland backend, start and stop step by step | `CaptureProofs` |
| `X11Extend` | the X11 backend, command by command, several sources, over crashes | `X11ExtendProofs` |
| `PortalRequests` | requests and responses on the bus, several clients | `CaptureProofs` |
| `Doctor` | the support matrix of `ubudesk doctor` beside a stream on the same machine | `CaptureProofs` |
| `Input` | fingers on the tablet, channel, session, input backend, end of the stream | `InputProofs` |
| `Client` | view model, the connections it makes, their sessions at the server | `ClientProofs` |
| `VideoDecoder` | the app's decoder: network and main thread, a decoder thread per start | `VideoDecoderProofs` |
| `MC...` | instances for TLC | |

How they fit together: `Session` uses a source through `StartEnds` and
`StopEnds`; `VideoSource` states what it may expect, and the two backends are
checked to implement it.  `FrameQueue` is the queue of which `Session` knows
only the stream of each frame.  `Input` composes the client's touch code with
the server's dispatch, `Client` the client's connections with the handshake of
`Session`.  `Auth` is what `OnAuth` of `Session` asks.

Some actions have a named part with a twin marked "Variant" beside it: the
part as a plausible bug would have it.  No specification uses the twins; they
are there to see that the properties notice.

### Session

A task runs from one `await` to the next without another task in between, so
the model gives each task a place (`pc`): an *await* label, or a *step* label
inside an uninterrupted stretch.  `LoopFree` says that no task is inside such a
stretch and none has its wake-up already in the ready queue; what the loop does
of its own accord (callbacks, completions, other tasks) needs `LoopFree`, what
threads do does not.  `posted` is the FIFO of `call_soon_threadsafe`, which
carries frames as well as completions of executor jobs: that order is why no
stale frame survives a stop.  Correspondence:

* `OnHello`, `OnAuth`, `OnPing`, `OnStart`, `OnQuiet`, `Leave`: the branches of
  `_handle` and the ways out of `run`.  What a message contains is abstracted
  to the outcomes its handler tells apart.
* `RejectStart`, `AcceptStart`, `CaptureRuns`, `StartEnds`, `StartResumes`:
  `_on_start` and `_start_source`.  A start may end well, with a `CaptureError`
  or with any other exception, before or after the first frame.
* `BeginStop`, `SenderStopped`, `StopCapture`, `StopEnds`, `StopResumes`,
  `StopInput`: `_stop_stream`, cut at its two awaits, in either task.
* `BeginClose`, `EndClose`, `Closed`: `close`.
* `EmitFrame`, `EnqueueFrame`, `SendFrame`, `SenderDrain`, `SenderCancelled`:
  frames, known here by their stream only; the queue's policy is `FrameQueue`,
  of which `Session` allows every outcome (any subset may remain).

The source of a stream is named by the number of the start that built it
(`Gens`).  A `CaptureError` of a start leaves nothing here, which is what
`VideoSource` demands; where a backend does not keep to it is said with the
backend.  `source.stop` is taken to end the capture: the test source's
`join(timeout=5)` can give up on a thread stuck in the encoder.

`Spec` keeps the server up; `ShutdownSpec` adds `UbuDeskServer.stop`.

### FrameQueue

A frame is its number in the encoder's output, and because the queue is only
appended to, thinned and taken from at the front, its content is a set of
numbers.  `Emit` yields keyframes at first, on request and periodically at any
distance of at least `KeyInterval`; a request may be answered any number of
frames late.  `EnqueueFrame` is `_enqueue_frame` with `_drain_queue_nonkey`;
`Start` is the moment `_on_start` resumes.  A restart is not part of this
module: it empties the queue, which `Session` models.

### Auth

The PIN's issue time and the lockout deadline are kept as an age and a time
left, counted in ticks.  `SaveWrites` and `SaveRenames` are the two steps of
`_save`; `ServerEnd` may fall between them, and in `RevokeSpec` the steps of
`ubudesk devices --revoke` as well.  Writing `devices.tmp` is one step: a torn
file under the eyes of the other process is not modelled.  `Loaded` is what a
start makes of the file: its content, or no devices at all if it cannot be read
or parsed, and then the next save writes that back.  Tokens are numbers drawn in
order, which makes "paired again" an order. Two histories say where a client and
the registry may disagree: `untold` are those for whom a token was drawn of
which they were not told, `forgotten` those paired when a start could not read
the file.  Only a device that is listed can be revoked; the command's other uses
change nothing.

### VideoSource, PortalSource, X11Extend

`VideoSource` is small: a start acquires something of the desktop, frames flow
only from what is held, a failed start gives everything back before it returns,
a stop ends the frames before it releases.

`PortalSource` walks through `start()` as wrapped by
`UbuDeskServer._default_factory`: the portal requests, the PipeWire remote, the
choice of an encoder, the pipeline, the saving of the restore token.  `Faults`
names what may fail; each fault takes the exit the code takes (`Abandon` for an
exception out of `PortalSession.open`, the closing path after it).  `Close` may
fail or time out, which the code suppresses before it forgets the handle: `left`
records a session that stays at the portal, by this exit or by `Abandon`.
`UserEnds` is "stop sharing".  The portal's own bookkeeping, `portal` and
`valid`, is modelled from its documented interface.

`X11Extend` runs the ladder of `xrandr` commands one at a time against an X
server `x` that outlives the process; of a command list (rollback, cleanup,
`clean_stale`) `todo` is what is left, a set whose order is `Before`.  Any verb
of `Refusable` may fail without effect; `Crash` forgets the sources and keeps
the server.  Every client's source runs in an executor thread of its own, so the
commands of several meet in any order: one may switch off, reattach or remove
what another has just made.  A source is `Alone` while no other was begun since
the server came up.  A requested size stands for width, height and rate
together.

### PortalRequests

`_call_with_response`: subscribe on the path computed from the token, call,
wait for the flag `on_response` sets, unsubscribe.  Tokens start anew in every
`PortalSession`, on one bus connection, so two clients ask for equal paths; for
a path in use the portal, which is not in this repository, makes up another.
Requests that timed out stay at the portal and are answered late.

### Doctor

A behaviour is a machine, one report and one stream.  `FirstEncoder` and
`PortalStart`, `Ladder`, `Pipeline` are operators translated from the backends,
`ReportOf` from `doctor.py`, `StreamOf` from the server's start.
PyGObject (`gi`) and GStreamer's typelib for it (`gst`) are told apart, as the
report's portal check needs the first only, and so are a portal that answers for
its source types (`sources`) and VIRTUAL among them.

### Input

The tablet's actions are the branches of `TouchForwarder`'s two modes, each with
the messages it sends into a channel of limited capacity (`Channel(256)`,
`trySend` drops).  `OnInput` is `_on_input` with the backend's method;
`StopStream`, `SourceStopped`, `InputClosed` are `_stop_stream` seen from the
input: the source stops, and with it the portal's session if it can be closed
(`left` if not); then what is held is lifted and the backend closes.  Positions
are reduced to inside or outside the video, and a move to a scroll step or none.
`mishaps` counts dropped messages and changes of mode under a gesture, and
bounds them.

### Client

`k[c]` is one `UbuDeskClient` with its socket and its session at the server.
The reader thread, the ping loop and the delayed close are actions; so are the
user's buttons.  Every callback goes to the one view model and is answered
through whatever client it has then.  `stale` records that a client which is
not the view model's called back, or was replaced while it lived.  A socket
opened after `disconnect()` may be one that nobody closes (`left`): the delayed
close has found none to close.  The server's side is the handshake of `Session`,
reduced to its states.

### VideoDecoder

`start()` does not wait for the thread of the start before, so `Threads` names
the decoder threads by the start that made each, and all of them may run: the
old one may still create a codec, be in its loop or in `recreate()` when the new
one begins.  A step is one access that another thread can see: `feed` in four
(look for room, purge, open, add), the loop in peek, poll, queue and its exits,
`createCodec`, `recreate`, `stop` and `start` likewise, a `handler?.post` in the
reading of the handler and the posting.  Two abstractions: the plain fields
`codec` and `handler`, which Kotlin does not make volatile, are seen as they
were last written; and a codec that `stop()` or `recreate()` released throws
like any codec may, at a time the model chooses, within `MaxErrors`.

The loop works on the codec it read when it began (`c`) and looks at neither the
field nor `running` again until the queue is empty.  The current codec is known
by its picture: "fresh" before the first frame, "right" up to the last one,
"wrong" after a frame whose predecessor it did not get.  "lost" is a history: the
picture may miss a frame that nobody dropped and nobody asks a keyframe for (the
cases are among the known limits).

## 3. Runs

Counts are distinct states.

| run | specification and bounds | shows |
|---|---|---|
| `session` | `FairShutdownSpec`, 3 starts, 2 posted frames (114 359) | `CaptureNeedsAuth`, `OneCapture`, `NoStaleVideo`, `ReleasedAtEnd` until a server stop; `CaptureOnlyWhenReady` (a stream enters in READY, or in CLOSED during a server stop), `HandlesAgree`, `WakeUpComes` during one too; `LostClientReleased` under fairness |
| `frames` | queue of 2 (maxsize 4), 8 frames (149 303) | `NoHoleInGroup`, `DeltaBacklogBounded`, `KeyIsComing` |
| `auth` | `RevokeSpec`, 2 clients, 2 attempts, 3 tokens, unreadable file (1 416 561) | `GuessesBounded`, `PairingDurable`, `BannedStaysOut` |
| `portal_source` | every fault, 3 tokens (516) | `ImplementsVideoSource` but for a session left at the portal, `SavedTokenWorks`, `StartAndStopEnd` under fairness |
| `x11_extend` | 2 sources, 2 spare connectors, 2 sizes, any query or creation may fail, crashes (247 306) | `ImplementsVideoSource`, `RestoredAfterUse`, `OnlyOwnShown` |
| `portal_requests` | 2 clients with a start each, timeouts (75 270) | `NoResponseLost` |
| `doctor` | the machines of `MCMachines` (304 128) | `EncoderAgrees`, `MatrixIsRight` |
| `input` | 3 fingers, 2 slots, channel of 3, 1 mishap (558 492) | `HeldAgrees`, `MessagesFit`, `NothingHeldAfterStop` but for a portal session that could not be closed |
| `client` | `FairSpec`, 2 attempts (112 547) | `ScreenHasClient`, and `UnusedSessionsEnd`, `ScreensMoveOn` under fairness |
| `decoder` | 3 frames, 2 surfaces, 1 codec error, queue of 2 (4 166 497) | `EmptyQueueAccepts`, `KeyIsAskedFor`, `LoopAlive` |
| `frames_first` | queue of 2, 4 frames | `FirstFrameIsKey` fails |
| `client_pin` | 1 attempt | `PinCanBeSent` fails |

All passing runs but `doctor` and `portal_requests` check the module's `TypeOK`
as well.

**Bounds.** Three starts give a stream, its restart and the restart of that; two
frames in the loop are enough for an old frame on both sides of a completion.
Eight frames fill a queue of four, purge it, and lead through a second group of
pictures; `KeyInterval = 1` lets keyframes come at any time, a larger one is
used where the counterexample should not depend on a burst of unrequested
keyframes. Two clients and three tokens give a pairing, one of another device
and one again; the clients are interchangeable, hence the symmetry set (the run
has no temporal property). Three portal tokens cover a first start, one that
uses the saved token and one after it was lost. Two spare connectors of which
any may be taken lead to each rung, two sizes to a framebuffer that grows, is
too small or large enough, and two sources to every meeting of a pair of
commands; three sizes pass as well (1 981 822 states). Three fingers on two
slots reach the limit of slots, a channel of three overflows on two gestures.
The decoder's queue holds 3 in the code; 2 fills with two frames and drops or
purges for the third, and a second surface meets the decoder thread of the first
at every place it can be. Two attempts to connect let callbacks of an old client
meet a new one. Where there is a proof, it holds for all values.

**Deadlock** is checked where something can always happen.  It is switched off
where the bounds or the end of what is modelled stop a behaviour: `input` (the
stream has stopped), `client` (no attempts left), `portal_source` (an exception
ended the start for good), `portal_requests` (no starts left), `decoder`
(frames and surfaces used up).

**Fairness.**  `Session!Fairness`: the loop runs what is ready (weak fairness of
the steps of tasks and callbacks).  Executor jobs end: every wait of
`PortalSource` has a timeout, which `StartAndStopEnd` checks.  A lost connection
makes `drain` and reads fail; strong fairness of `Leave` then, because a
`StreamReader` still delivers the finite rest of its buffer, message by message,
before it reports the end.  Nothing is assumed of a live client, which may stall
a `drain` for ever: `LostClientReleased` speaks of lost connections only.
`PortalSource!FairSpec`: requests end after 120 s, the dialog after 300 s, the
pipeline after 10 s, `Close` after 5 s.  `Client!FairSpec`: threads, coroutines
and the server's tasks run, and their waits time out (6 s of silence in the
app, the idle timeout in the session); nothing is assumed of the user or of the
network.

### The two violations

1. `frames_first`: frames handled before `_on_start` resumes are ignored, the
   opening keyframe among them (`session.py:310`, against
   `docs/PROTOCOL.md:99`).  The client waits for a keyframe itself, so what is
   seen is a late first picture.
2. `client_pin`: the ping loop starts with the connection and pings while the
   session waits in AUTH for the PIN the user is typing; the session takes it
   for a breach of the protocol and closes (`UbuDeskClient.kt:110`, against
   `docs/PROTOCOL.md:53-54`).  The counterexample has four steps: connect, open,
   ping, and the session takes the ping.

### Known limits of the code

Behaviours met while modelling, which the models contain.  Properties are
stated so as not to deny them, and say so.

* Server stop.  `_handle` has no branch for CLOSED, so a reader treats the
  message it was waiting for as that of an authenticated client
  (`session.py:143`); `close()` shows STREAMING while it awaits, so a `start`
  handled meanwhile starts a second source (`session.py:457`).  Both need a
  client message in the short time of a shutdown.  A start whose source is still
  coming up when the stop closes the session needs none: its source is stored
  and STREAMING set on a session that was CLOSED (`session.py:274-276`),
  although `session.py:6-8` lets capture start from READY only; the reader's own
  `close()` stops it again, if the process lives that long.  Hence `Up` in most
  of `Session`'s properties; `CaptureOnlyWhenReady` says what happens instead of
  exempting it.
* A start that raises something other than `CaptureError` after capture is up,
  for one a failing `config.save()` in `server.py:96-98`, leaves it running
  (`session.py:270`).  `ReleasedAtEnd` excepts it.
* With the queue full of keyframes the awaited one is lost to the suppressed
  `QueueFull` after the dropping flag was cleared (`session.py:329`).
  `NoHoleInGroup` speaks of groups whose keyframe was sent; of the group of the
  lost one the deltas are sent, and the picture is wrong until the encoder's next
  keyframe.
* A running server never rereads `devices.json`, so a revocation takes effect
  at its next start (`auth.py:63`, `docs/MANUAL_TEST.md:96-97`);
  `BannedStaysOut` is about revocations while it is down.  A PIN is issued at
  start-up only (`server.py:148`, `260`): after it expired or was used, no other
  client can pair until a restart.  A PIN is consumed before the registry is saved
  and `auth_ok` sent (`session.py:217-228`): a failure between leaves a client
  that is not paired, or is and does not know its token (`untold`), with the PIN
  gone.
* A `devices.json` that cannot be read or parsed starts the server with no
  devices, and the next save overwrites the file (`auth.py:68-72`): everybody
  paired before is `forgotten`.
* Portal.  `PortalSource.start` closes the session only for failures after
  `open()` returned: a timeout or refusal inside leaves it at the portal
  (`pipeline.py:80`), a bus error is not a `PortalError` and is not caught
  there.  A `Close` that fails or times out is only logged and the handle set to
  None (`portal_session.py:394-397`): the cast stays open and the input it
  pressed stays down.  `left` marks the sessions that stay.  Session and request
  tokens are the same in every `PortalSession` (`portal_session.py:88`, `180`):
  a request made while another client's waits is answered on a path nobody
  computed, and times out. `NoResponseLost` speaks of responses on the path the
  call waits for.
* X11.  The driver may refuse creations and queries; the run and the proofs take
  removals to be refused only where X does (a mode in use).  A query that fails
  after the output was enabled leaves an extension nobody undoes before the next
  start (`x11.py:303`), and after a crash on the last rung the next start takes
  the enlarged framebuffer for the original (`x11.py:321`): `lost` marks both.
  A rung that fails ends the ladder (`x11.py:286`), though
  `docs/ARCHITECTURE.md:87` lets the first that works win. The `clean_stale` of
  a second client's source removes the first one's output (`x11.py:238`), so
  `OnlyOwnShown` and `ImplementsVideoSource` speak of a source that is alone.
  With two sources on the last rung the framebuffer may stay enlarged: the
  second takes the first one's for the original, and restores it after the first
  has gone; `RestoredAfterUse` excepts this.
* Doctor.  The report looks at neither the pipeline's other elements nor, on
  Wayland, at RemoteDesktop: mirror "YES" can be wrong without them
  (`doctor.py:431`), and the announced uinput fallback for a missing
  RemoteDesktop does not exist, since the portal session is opened on it
  (`doctor.py:224`).  `Unseen` names all of it.  Nor does it look for
  python-evdev: with access to `/dev/uinput` alone it reports uinput for a
  stream that is view-only.
* Client.  A late `onDisconnected` of an old client clears the new one
  (`MainViewModel.kt:231`); a message that arrives in the 150 ms after
  `disconnect()` still reaches the listener (`UbuDeskClient.kt:123`).  Both set
  `stale`.
* A reconnect replaces the view model's client without closing it
  (`MainViewModel.kt:94-109`).  The orphan goes on pinging and so keeps its session
  at the server for as long as the app runs.  It sets `stale` as well, so
  `UnusedSessionsEnd` and `ScreensMoveOn` say nothing of behaviours with one.
* `disconnect()` before the socket is assigned closes nothing
  (`UbuDeskClient.kt:184`), and what `connect()` opens afterwards stays open until
  the server's idle timeout ends the session.
* Touch.  Two fingers that move less than a scroll step are always a click: the
  slop is measured against a start that was set to the current position a few
  lines before (`TouchForwarder.kt:126-128`).  A mode changed
  in the middle of a gesture leaves a finger or a button down until the stream
  stops, and so does a message the full channel drops: the mishaps.
* Decoder.  `poll()` in the loop may remove a keyframe that `feed` added after
  its purge, while the loop hands on the frame it had peeked at
  (`VideoDecoder.kt:106`, `123`): the picture is lost then, and heals with
  the next keyframe of the encoder, at most two seconds later.  So it is with
  the other losses: no input buffer for a frame already polled
  (`VideoDecoder.kt:125`); two loops on one codec; an old loop that goes on with
  its own codec, not released yet, and hands it the new stream's frames, its
  keyframe too (`VideoDecoder.kt:132`); a codec that a late `createCodec()` of
  the old thread replaces (`VideoDecoder.kt:81`), which nobody releases.
  `KeyIsAskedFor` excepts what is lost.  A codec whose creation ends after
  `stop()` is released by nobody either, and a creation that fails ends the
  decoder until there is a new surface, also if it is the old thread's and a new
  start is running (`VideoDecoder.kt:86`).

## 4. Proofs

The theorems hold for every value of the constants, under the assumptions named
in the modules: numbers are naturals, the bounds of queues and the number of
attempts are not zero.

* `SessionProofs`.  `TypesDuringShutdown`: the types, for both specifications at
  once; inductive as stated, since `TypeOK` also says that a task waiting for a
  sender or a source names one.  Most of the rest speaks of a session that no
  server stop has reached (`Up`).  `CaptureStartsInReady` does not: a reader
  that looks at the parameters of a start or waits for its source has an
  authenticated session in which no stream runs (`StartStates`); the server's
  stop can take READY from it, and put only CLOSED in its place.
  `CaptureIsAuthorized` follows from `SInv`, which adds `Authorized` (a source
  exists only if a client was authenticated, which READY and STREAMING imply)
  and `Places` (where the reader is determines the state: in `check_start` and
  `starting` it is READY, inside `_stop_stream` STREAMING, and CLOSED only at
  the end). `OneCaptureAtATime`, `VideoIsOfTheStream` and `EndReleases` follow
  from one invariant of the stream: the reader's place determines which source,
  sender, input, queued frames and posted callbacks there can be.  Its core is
  that the source of every earlier generation is over, and that a posted frame
  of the current one lies before the completion of its stop.  Server stop
  destroys exactly this, since two tasks are then inside `_stop_stream`.
  `HandlesAlwaysAgree` is about `ShutdownSpec` and needs an invariant that
  survives it: a source that starts or runs is the one the reader waits for and
  is none the session holds yet (`Awaited`), and its completion is the only one
  the reader can meet (`Completions`). `WakeUpAlwaysComes`, during a server stop
  too: no task waits for what will not come, neither for a sender that nobody
  has cancelled nor for an executor job whose completion is not on its way.
  `Wakes` adds what makes two tasks in `_stop_stream` harmless: they may wait
  for one sender, but the source has been taken by the first of them, so a job
  has one waiter (`OwnJobs`); and the completion stays in the loop until this
  task takes it (`CompletionStays`). `WakeUpComes` is the safety half of
  `LostClientReleased`.
* `FrameQueueProofs`.  `QueueTypes` (with the maxsize), `DeltasBounded`
  (inductive: only a delta that finds no backlog adds one), `KeyAlwaysComing`
  (needs that nothing is dropped before the stream), and
  `NoDeltaWithoutReference`.  The last rests on `SentInOrder` and `Groups`:
  what was taken of a group, sent or queued, is a prefix of it, and while the
  session is not dropping it is all the group has so far.  A purge keeps the
  first because what precedes a sent frame is not in the queue.
* `AuthProofs`.  `AuthTypes` and `PinBounded` (with revocations) from `PinInv`:
  an active PIN has seen no pairing, and its wrong guesses are the attempts.
  `PairingsDurable` (before the first revocation, since those share the file):
  the registry has a client's own token, or a later one it was not told of,
  unless a start forgot it; from the order held, disk, memory, last token, and
  from `SaveInv`: between the steps of a save, `devices.tmp` is the memory.
  `BannedAreOut` (with revocations) from `BanInv`: no copy of the registry,
  neither `devices.tmp` nor the revoking process's own, has a banned device.
* `CaptureProofs`, about `PortalSource`.  `PortalTypes` and `TokenIsSaved` from
  `PInv`: what is held at each place of `start` and `stop` (`Held`), and that a
  token, once issued, is the one that will be saved (`TokenKept`).
  `PortalIsAVideoSource` is the refinement: `CreateSession`, `Start` and `Play`
  map to `Acquire`, a failed request to `Refuse`, `SaveToken` to `Ready`, `Stop`
  and failures past the descriptor to `BeginEnd`, `Halt` to `EndFlow`,
  `Close` to `Release`, `UserEnds` to `Interrupt`; the rest stutters.  A step that
  sets `left`, a failed `Close` among them, or raises is excepted, and only it.
  About `PortalRequests`, for any number of clients: `RequestTypes`, and
  `ResponsesArrive`: a call that waits on a path has subscribed to it, and gets
  the response sent there however early it comes.
  About `Doctor`, for any set of machines: `EncodersAgree` and
  `MatrixAlwaysRight`, from `DoctorInv`: the report and the stream are those of
  the machine.  The first needs that `find_encoder` finds the first usable of
  its list exactly when there is one (`FindsAnEncoder`); the second is a case
  distinction over session, mode and what is missing (`WaylandIsRight`,
  `X11IsRight`).  The proof showed that the report's input line does not look at
  python-evdev, which the run had taken for granted; the property now says so
  and the run's machines differ in it.
* `X11ExtendProofs`, for any number of sources, connectors and sizes.
  `ScreenTypes` holds for any refusing driver.  The rest has one hypothesis about
  the constants, `Reliable`: the driver may refuse queries and creations, and
  refuses a removal only when it is not possible (a mode in use, say); of a
  driver that fails to switch an output off no program can promise that it is
  off.  The run has the same.  Three invariants carry the theorems.
  - `Shown`, over crashes: of a source that is alone it says what is seen on the
    X server at each of its places.  A mode in use is attached to its output, so
    `clean_stale` finds it, and as long as something is shown the command that
    removes it is on the list.  `OwnIsShown` follows.
  - `Rungs`, while nothing was lost: at each place of a source that is alone the
    X server looks exactly as that rung of the ladder leaves it (`Clean`, `Made`,
    `Added`, `Enabled`; `Wide`, `Region`), and what is left of a rollback or
    cleanup is what takes this rung down; the order of the list makes each of
    its commands possible when its turn comes.
  - `Covered`, while nothing was lost, for sources that meet: no rung tells what
    is there any more, but whatever is there is owed (`Owed`).  Each mode has a
    source that will remove it, each attached mode one that will delete and
    remove it, each output that is on one that will switch it off too; what such
    a source will still run is its `Debt`.  It is inductive because the list is
    run in the order of `Before`: a removal that is not possible when its turn
    comes fails because of something a *different* source owes, with the removal
    that failed among its own (`RunListedOwed`).
  `RestoresAfterUse` takes everything but the framebuffer from `Covered`, and the
  framebuffer of a single source from `Rungs`.  A step is one source's
  (`StepFrame`), so a source that is alone after it took the step itself
  (`AloneFrame`).  `X11IsAVideoSource` is the refinement for a source until
  another is begun: where it goes (`Goes`) tells the action, `NewMode` and
  `Enlarge` map to `Acquire`, a start that ends earlier to `Refuse`,
  `BuildPipeline` to `Ready`, rollbacks and `Stop` to `BeginEnd`, the last
  command of a list to `Release`; the rest stutters, and a step that sets `lost`
  is excepted.
* `InputProofs`.  `StopLetsGo`, with any number of fingers and mishaps: closing
  the portal's session lets go of everything and nothing is pressed after it, and
  what a session holds that could not be closed is the exception; a uinput device
  keeps its button until it is closed.  `InputTypeCorrect`.
  `EveryMessageFits` and `WhatIsHeldAgrees` (both without mishaps) from
  `InFlight`: the messages under way lead from what the PC holds to what the
  fingers hold, each fitting where it is handled.  "Lead" is a sequence of held
  states, one between any two messages (`Path`), so a message sent lengthens it
  at its end, a message handled shortens it at its front, and no induction over
  the channel is needed.
* `VideoDecoderProofs`, for any number of starts whose threads overlap.
  `DecoderTypes` is inductive as stated; it says too that a stopped decoder has
  no handler, so that what was posted to an old one is never its first
  `createCodec`. `RunningHasLoop`: a thread that took the codec away, or found
  it throwing, will post to the handler there is when it reads it, whichever
  thread that is (`Alive`).  `EmptyQueueTakesMore` for `MAX_QUEUED > 1`: the
  counter exceeds the queue by at most one for every loop that has polled and
  not yet counted (`Excess`, with the number of those threads), and by one for
  `feed()`. `KeyAlwaysAskedFor` from `KeyInv`: either a keyframe was asked for,
  or one is on its way, or the picture is lost, or the frames in line (in
  `feed`, in the queue, in the hands of the loop of the current codec) continue
  without a gap what the codec decoded last (`Lined`); what a loop peeked at is
  the queue's head unless it misses (`Peeked`), who waits has asked (`Waits`),
  what `feed()` has in hand is the newest frame (`Newest`), and a codec has one
  loop unless its picture is lost (`Solo`), where a codec is one of those made
  (`Made`).
* `ClientProofs`.  `ClientTypes`, and `ScreensHaveClients` for any number of
  attempts, from where a client can be when it is not the view model's.

The non-temporal part of each is a lemma for the initial states and one for the
steps, which splits on the disjuncts of `Next`.

**Model-checked only.**  Liveness (`LostClientReleased`, `StartAndStopEnd`,
`UnusedSessionsEnd`, `ScreensMoveOn`): fairness and ENABLED are beyond the
prover.  Every other property of a passing run is stated by a theorem.  No
module uses RECURSIVE.

## 5. Plan

Done: all modules of section 2, a proof of every safety invariant and action
property the runs check, and both refinements.  What could follow, in this
order:

1. `Server`: many sessions, accept, stop and `wait_closed`.
2. The settings' resolution arithmetic as a pure function.
3. Two X11 sources that go live together: which of their outputs stays on.

## 6. Not modelled

* Many sessions and `Server.wait_closed()`: whether it waits for connections
  depends on the release of asyncio, and one that does is a deadlock with
  sessions waiting for the server (see the hazards).
* The framing codecs of both ends: no state; unit tests share their vectors.
* TLS identity and pinning, mDNS, adb, configuration and log, Android storage
  and discovery: I/O without a protocol of this code's own.
* In modelled parts: contents of messages and frames beyond what handlers tell
  apart; keys and text, which the app never sends; the doctor's checks that are
  only printed; the drawing of the test pattern; encoder properties by name;
  statistics and layout of the Android screens.  Times are only modelled where
  an order of events depends on them.
* The test client, probes, packaging and CI: not part of the running system.
