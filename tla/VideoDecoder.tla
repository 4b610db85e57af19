----------------------------- MODULE VideoDecoder -----------------------------
(***************************************************************************)
(* The app's VideoDecoder (video/VideoDecoder.kt): threads share a queue,  *)
(* a counter of its length and a few flags without a lock.  The network    *)
(* thread feeds it, a decoder thread's loop hands frames to the codec, the *)
(* main thread starts and stops it with the surface.  Every start makes a  *)
(* decoder thread of its own and does not wait for the one before, which   *)
(* may still create a codec, be in its loop, or recreate.                  *)
(*                                                                         *)
(* A step is one access that another thread can see.  Abstractions: the    *)
(* plain fields codec and handler are seen as they were last written; a    *)
(* codec that was released throws, as any codec may; what is posted to a   *)
(* thread that was told to quit may run or not.                            *)
(***************************************************************************)
EXTENDS Integers, Sequences, SequencesExt

CONSTANTS MaxFrames,  \* bound: frames the server sends
          MaxStarts,  \* bound: surfaces created
          MaxErrors,  \* bound: exceptions of the codec
          MAX_QUEUED

ASSUME DecoderAssumption ==
    /\ MaxFrames \in Nat /\ MaxStarts \in Nat /\ MaxErrors \in Nat
    /\ MAX_QUEUED \in Nat \ {0}

VARIABLES
    d,                \* what the threads share
    net,              \* the network thread, with its frame
    dec, posted,      \* the decoder threads, and what is posted to their handlers
    main,             \* the main thread
    sent, starts, errors

vars == <<d, net, dec, posted, main, sent, starts, errors>>

Frames == [n : 0..MaxFrames, key : BOOLEAN]
NoFrame == [n |-> 0, key |-> FALSE]
Idle == [at |-> "idle", f |-> NoFrame]

\* A decoder thread is named by the start() that made it.
Threads == 1..MaxStarts

Shared == [running : BOOLEAN,
           waiting : BOOLEAN,      \* waitingForKeyframe
           pending : Seq(Frames),
           count : Int,            \* pendingCount
           handler : 0..MaxStarts, \* whose handler it is, or null
           codec : Nat,            \* the codec, or null, of the `made` there were
           made : Nat,
           \* what the codec shows, or the next one if there is none: nothing yet,
           \* a picture right up to the last frame, a wrong one; or history: a
           \* frame was lost to it that nobody dropped
           picture : {"fresh", "right", "wrong", "lost"},
           last : 0..MaxFrames,
           asked : BOOLEAN]        \* an IDR was asked for, and none came since

\* A decoder thread: where it is, the frame and the codec its loop has in hand,
\* and what it posts to whose handler.
Places == {"off", "creating", "top", "peeked", "polled", "queue", "thrown", "nulled",
           "cleared", "read", "post"}
Thread == [at : Places, f : Frames, c : Nat, job : {"loop", "again"}, to : 0..MaxStarts]
Off == [at |-> "off", f |-> NoFrame, c |-> 0, job |-> "loop", to |-> 0]

\* createCodec, that of recreate(), and the loop.
Jobs == {"create", "again", "loop"}

TypeOK ==
    /\ d \in Shared /\ d.codec <= d.made
    /\ net \in [at : {"idle", "room", "purge", "purged", "open", "add", "added"}, f : Frames]
    /\ dec \in [Threads -> Thread] /\ posted \in [Threads -> [Jobs -> Nat]]
    /\ main \in {"idle", "stop", "clear", "stopped", "begun", "started"}
    /\ sent \in 0..MaxFrames /\ starts \in 0..MaxStarts /\ errors \in 0..MaxErrors
    \* a stopped decoder has no handler, a first createCodec waits on no other
    /\ main \in {"stop", "clear", "stopped", "begun"} => d.handler = 0
    /\ main \in {"stop", "clear", "stopped"} => ~d.running
    /\ \A t \in Threads : posted[t]["create"] > 0 => t = d.handler

Init ==
    /\ d = [running |-> FALSE, waiting |-> TRUE, pending |-> <<>>, count |-> 0,
            handler |-> 0, codec |-> 0, made |-> 0, picture |-> "fresh", last |-> 0,
            asked |-> FALSE]
    /\ net = Idle
    /\ dec = [t \in Threads |-> Off] /\ posted = [t \in Threads |-> [j \in Jobs |-> 0]]
    /\ main = "stopped" /\ sent = 0 /\ starts = 0 /\ errors = 0

NoCodec == [d EXCEPT !.codec = 0, !.picture = "fresh", !.last = 0]
Lost(lost, D) == IF lost THEN [D EXCEPT !.picture = "lost", !.last = 0] ELSE D
Polled(D) == [D EXCEPT !.pending = IF @ = <<>> THEN @ ELSE Tail(@)]

-----------------------------------------------------------------------------
(* feed(), on the network thread.                                          *)

Feed(from, to, D) ==
    /\ net.at = from /\ d' = D
    /\ net' = IF to = "idle" THEN Idle ELSE [net EXCEPT !.at = to]
    /\ UNCHANGED <<dec, posted, main, sent, starts, errors>>

FrameArrives ==
    /\ net.at = "idle" /\ sent < MaxFrames /\ sent' = sent + 1
    /\ \E key \in BOOLEAN :
         /\ net' = IF d.running /\ (key \/ ~d.waiting)
                   THEN [at |-> "room", f |-> [n |-> sent + 1, key |-> key]] ELSE Idle
         /\ d' = [d EXCEPT !.asked = @ /\ ~key]
    /\ UNCHANGED <<dec, posted, main, starts, errors>>

\* Backlog: a delta is dropped and an IDR asked for, a key frame purges.
\* Variant: the IDR is not asked for.
FeedRoomUnasked ==
    \/ d.count < MAX_QUEUED /\ Feed("room", "open", d)
    \/ d.count >= MAX_QUEUED /\ net.f.key /\ Feed("room", "purge", d)
    \/ d.count >= MAX_QUEUED /\ ~net.f.key /\ Feed("room", "idle", [d EXCEPT !.waiting = TRUE])
FeedRoom ==
    \/ d.count < MAX_QUEUED /\ Feed("room", "open", d)
    \/ d.count >= MAX_QUEUED /\ net.f.key /\ Feed("room", "purge", d)
    \/ /\ d.count >= MAX_QUEUED /\ ~net.f.key
       /\ Feed("room", "idle", [d EXCEPT !.waiting = TRUE, !.asked = TRUE])

\* Variant: the counter is not told of what was purged.
FeedPurgesUncounted ==
    \/ d.pending = <<>> /\ Feed("purge", "open", d)
    \/ d.pending # <<>> /\ Feed("purge", "purge", Polled(d))
FeedPurges ==
    \/ d.pending = <<>> /\ Feed("purge", "open", d)
    \/ d.pending # <<>> /\ Feed("purge", "purged", Polled(d))
    \/ Feed("purged", "purge", [d EXCEPT !.count = @ - 1])

FeedAdds ==
    \/ Feed("open", "add", [d EXCEPT !.waiting = FALSE])
    \/ Feed("add", "added", [d EXCEPT !.pending = Append(@, net.f)])
    \/ Feed("added", "idle", [d EXCEPT !.count = @ + 1])

-----------------------------------------------------------------------------
(* The decoder threads.                                                    *)

Takes(t, job) ==
    /\ dec[t].at = "off" /\ posted[t][job] > 0
    /\ posted' = [posted EXCEPT ![t][job] = @ - 1]

\* A step of t, and what it changes.
Step(t, from, thread, D) ==
    /\ dec[t].at = from /\ dec' = [dec EXCEPT ![t] = thread] /\ d' = D
    /\ UNCHANGED <<net, posted, main, sent, starts, errors>>

At(t, place) == [dec[t] EXCEPT !.at = place]

\* handler?.post: the handler is read, then posted to, stopped meanwhile or not.
Reads(job) == [Off EXCEPT !.at = "read", !.job = job]
Posts(t) ==
    \/ d.handler = 0 /\ Step(t, "read", Off, d)
    \/ d.handler # 0 /\ Step(t, "read", [dec[t] EXCEPT !.at = "post", !.to = d.handler], d)
    \/ /\ dec[t].at = "post" /\ dec' = [dec EXCEPT ![t] = Off]
       /\ posted' = [posted EXCEPT ![dec[t].to][dec[t].job] = @ + 1]
       /\ UNCHANGED <<d, net, main, sent, starts, errors>>

\* createCodec takes its time: what it made replaces the codec there is, stopped
\* or started again meanwhile or not, and so does its failure stop what runs.
Creates(t) ==
    /\ Takes(t, "create") \/ (d.running /\ Takes(t, "again"))
    /\ dec' = [dec EXCEPT ![t].at = "creating"]
    /\ UNCHANGED <<d, net, main, sent, starts, errors>>
Created == [Lost(d.codec # 0, d) EXCEPT !.codec = d.made + 1, !.made = d.made + 1]
\* Variant: a decoder without a codec goes on running.
CreateCodecRunsOn(t) ==
    \/ Creates(t)
    \/ Step(t, "creating", Reads("loop"), Created)
    \/ Step(t, "creating", Off, d)
CreateCodec(t) ==
    \/ Creates(t)
    \/ Step(t, "creating", Reads("loop"), Created)
    \/ Step(t, "creating", Off, [d EXCEPT !.running = FALSE])

\* What finds the decoder stopped, or the codec taken away.
RunsOut(t) ==
    /\ \/ ~d.running /\ Takes(t, "again")
       \/ (~d.running \/ d.codec = 0) /\ Takes(t, "loop")
    /\ UNCHANGED <<d, net, dec, main, sent, starts, errors>>

\* Two loops on one codec take their frames in any order.
Top(codec) == [Off EXCEPT !.at = "top", !.c = codec]
InLoop(t) == dec[t].at \in {"top", "peeked", "polled", "queue"}
LoopBegins(t) ==
    /\ d.running /\ d.codec # 0 /\ Takes(t, "loop")
    /\ dec' = [dec EXCEPT ![t] = Top(d.codec)]
    /\ d' = Lost(\E u \in Threads : InLoop(u), d)
    /\ UNCHANGED <<net, main, sent, starts, errors>>

\* Once begun the loop looks at neither the codec nor `running` again, and ends
\* when the queue is empty or the codec has no buffer.
LoopPeeks(t) ==
    \/ d.pending # <<>> /\ Step(t, "top", [At(t, "peeked") EXCEPT !.f = Head(d.pending)], d)
    \/ d.pending = <<>> /\ Step(t, "top", Reads("loop"), d)
    \/ Step(t, "peeked", Reads("loop"), d)

\* A frame misses the codec: it is not the one peeked at, or the loop's codec is
\* no longer the current one.
Misses(t) == (d.pending # <<>> /\ Head(d.pending) # dec[t].f) \/ dec[t].c # d.codec
LoopPolls(t) ==
    \/ Step(t, "peeked", At(t, "polled"), Lost(Misses(t), Polled(d)))
    \/ Step(t, "polled", At(t, "queue"), [d EXCEPT !.count = @ - 1])

\* A picture is right after a key frame, and as long as no frame is missing.
Decoded(f) == IF d.picture = "lost" THEN d
              ELSE IF f.key \/ (d.picture = "right" /\ f.n = d.last + 1)
              THEN [d EXCEPT !.picture = "right", !.last = f.n]
              ELSE [d EXCEPT !.picture = "wrong", !.last = 0]
\* Or there is no input buffer, and the frame is dropped.
LoopQueues(t) ==
    \/ Step(t, "queue", Top(dec[t].c), IF dec[t].c = d.codec THEN Decoded(dec[t].f) ELSE d)
    \/ Step(t, "queue", Reads("loop"), Lost(TRUE, d))

\* Any call on the codec: recreate(), which does nothing once stopped.
CodecThrows(t) ==
    /\ dec[t].at \in {"top", "peeked", "queue"}
    /\ errors < MaxErrors /\ errors' = errors + 1
    /\ dec' = [dec EXCEPT ![t] = IF d.running THEN [Off EXCEPT !.at = "thrown"] ELSE Off]
    /\ UNCHANGED <<d, net, posted, main, sent, starts>>

\* The rest of recreate(), whose codec is the current one.
Recreate(t) ==
    \/ Step(t, "thrown", At(t, "nulled"), NoCodec)
    \/ Step(t, "nulled", At(t, "cleared"), [d EXCEPT !.pending = <<>>])
    \/ Step(t, "cleared", Reads("again"),
            [d EXCEPT !.count = 0, !.waiting = TRUE, !.asked = TRUE])

-----------------------------------------------------------------------------
(* start() and stop(), on the main thread, with the surface.               *)

Main(from, to, D) == /\ main = from /\ main' = to /\ d' = D
                     /\ UNCHANGED <<net, dec, sent, errors>>

Stopped == [NoCodec EXCEPT !.running = FALSE, !.handler = 0]

\* start() begins with a stop().  What is posted to the handler is removed; what
\* runs goes on.
\* Variant: what is posted stays.
StopKeepsPosted ==
    /\ \E from \in {"idle", "stopped"} : Main(from, "stop", Stopped)
    /\ UNCHANGED <<posted, starts>>
Stop ==
    /\ \E from \in {"idle", "stopped"} : Main(from, "stop", Stopped)
    /\ posted' = [t \in Threads |-> IF t = d.handler THEN [j \in Jobs |-> 0] ELSE posted[t]]
    /\ UNCHANGED starts

StopClears ==
    /\ \/ Main("stop", "clear", [d EXCEPT !.pending = <<>>])
       \/ Main("clear", "stopped", [d EXCEPT !.count = 0])
    /\ UNCHANGED <<posted, starts>>

\* The rest of start(), and the IDR that surfaceCreated asks for.
Start ==
    /\ starts < MaxStarts
    /\ \/ /\ Main("stopped", "begun", [d EXCEPT !.running = TRUE])
          /\ UNCHANGED <<posted, starts>>
       \/ /\ Main("begun", "started", [d EXCEPT !.waiting = TRUE, !.handler = starts + 1])
          /\ starts' = starts + 1
          /\ posted' = [posted EXCEPT ![starts + 1]["create"] = 1]

StartAsks == Main("started", "idle", [d EXCEPT !.asked = TRUE]) /\ UNCHANGED <<posted, starts>>

-----------------------------------------------------------------------------
DecStep(t) == \/ CreateCodec(t) \/ RunsOut(t) \/ LoopBegins(t) \/ LoopPeeks(t) \/ LoopPolls(t)
              \/ LoopQueues(t) \/ CodecThrows(t) \/ Recreate(t) \/ Posts(t)

Next == \/ FrameArrives \/ FeedRoom \/ FeedPurges \/ FeedAdds
        \/ \E t \in Threads : DecStep(t)
        \/ Stop \/ StopClears \/ Start \/ StartAsks

Spec == Init /\ [][Next]_vars

-----------------------------------------------------------------------------
(* Properties.                                                             *)

\* An empty queue takes the next frame: the counter, which threads reset and
\* change without a lock, never counts MAX_QUEUED frames that are not there.
AtRest == /\ net.at = "idle" /\ main # "clear"
          /\ \A t \in Threads : dec[t].at \notin {"polled", "cleared"}
EmptyQueueAccepts == AtRest /\ d.pending = <<>> => d.count < MAX_QUEUED

\* A key frame is asked for, or about to be, or between the reader and the codec.
KeyIsComing ==
    \/ d.asked
    \/ net.at # "idle" /\ net.f.key
    \/ \E i \in DOMAIN d.pending : d.pending[i].key
    \/ \E t \in Threads : \/ dec[t].at \in {"polled", "queue"} /\ dec[t].f.key
                            /\ dec[t].c = d.codec
                         \/ dec[t].at \in {"thrown", "nulled", "cleared"}

\* Who waits for a keyframe has asked for one.  When the codec's picture is
\* wrong a keyframe is coming, however feed(), the loops, recreate(), start() and
\* stop() met; unless its picture is lost: two loops fed it, a frame was polled
\* that is not the one peeked at or for another codec, a codec was replaced that
\* nobody had taken away, or the codec had no input buffer for a frame.
KeyIsAskedFor ==
    d.running /\ main = "idle"
    /\ (d.waiting \/ (d.codec # 0 /\ d.picture = "wrong"))
        => KeyIsComing

\* A running decoder is not left without a loop, whatever threads of earlier
\* starts still do: a codec is being made or will be, or there is one and a
\* loop is running or will be, on the thread whose handler it is.
CodecComing(h) ==
    \/ posted[h]["create"] > 0 \/ posted[h]["again"] > 0 \/ dec[h].at = "creating"
    \/ \E t \in Threads :
          \/ dec[t].at \in {"nulled", "cleared"}
          \/ dec[t].job = "again" /\ (dec[t].at = "read" \/ (dec[t].at = "post" /\ dec[t].to = h))
LoopComing(h) ==
    \/ posted[h]["loop"] > 0 \/ InLoop(h)
    \/ \E t \in Threads :
          \/ dec[t].at = "thrown"
          \/ dec[t].job = "loop" /\ (dec[t].at = "read" \/ (dec[t].at = "post" /\ dec[t].to = h))
LoopAlive ==
    d.running /\ d.handler # 0 =>
        CodecComing(d.handler) \/ (d.codec # 0 /\ LoopComing(d.handler))
=============================================================================
