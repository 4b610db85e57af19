------------------------------ MODULE FrameQueue ------------------------------
(***************************************************************************)
(* The per-client video queue of one stream                                *)
(* (server/ubudesk_server/net/session.py: _enqueue_frame,                  *)
(* _drain_queue_nonkey, _video_sender) between an encoder that never waits *)
(* and a socket that may stall for as long as the client likes.            *)
(*                                                                         *)
(* A frame is its position in the encoder's output.  The encoder posts     *)
(* frames to the loop in that order and the loop runs the callbacks in the *)
(* order posted, so a queue that is only ever appended to, thinned out and *)
(* taken from at the front is a set of positions, front first.             *)
(*                                                                         *)
(* A delta frame can be decoded only if the frame before it was: the       *)
(* encoders are configured without B-frames and with one reference.        *)
(***************************************************************************)
EXTENDS Naturals, FiniteSets

CONSTANTS
    QUEUE_MAX_FRAMES,  \* as in the code; the asyncio.Queue holds twice as many
    KeyInterval,       \* least distance of a keyframe nobody asked for from
                       \* the one before it
    MaxFrames          \* bound: frames the encoder produces

ASSUME QueueAssumption == QUEUE_MAX_FRAMES \in Nat \ {0}
ASSUME EncoderAssumption == KeyInterval \in Nat /\ MaxFrames \in Nat

VARIABLES
    emitted,    \* frames 1..emitted have been posted by the capture thread
    keys,       \* those that are keyframes
    keyWanted,  \* request_keyframe() was called and not yet answered
    handled,    \* frames 1..handled have been through _enqueue_frame
    streaming,  \* Session.state is STREAMING: _on_start has resumed
    dropping,   \* Session._dropping_until_key
    queue,      \* Session._video_queue
    sender,     \* "get": awaits a frame, "drain": awaits the socket
    sent        \* frames written to the socket

vars == <<emitted, keys, keyWanted, handled, streaming, dropping, queue,
          sender, sent>>

Capacity == 2 * QUEUE_MAX_FRAMES

TypeOK ==
    /\ emitted \in Nat
    /\ keys \in SUBSET (1..emitted)
    /\ keyWanted \in BOOLEAN
    /\ handled \in 0..emitted
    /\ streaming \in BOOLEAN
    /\ dropping \in BOOLEAN
    /\ queue \in SUBSET (1..handled)
    /\ Cardinality(queue) <= Capacity
    /\ sender \in {"get", "drain"}
    /\ sent \in SUBSET (1..handled)

Init ==
    /\ emitted = 0
    /\ keys = {}
    /\ keyWanted = FALSE
    /\ handled = 0
    /\ streaming = FALSE
    /\ dropping = FALSE
    /\ queue = {}
    /\ sender = "get"
    /\ sent = {}

\* The encoder starts with a keyframe and emits others periodically, at scene
\* cuts and on request; one that was asked for may come after frames already
\* in the pipeline.
KeyDue == keyWanted \/ \A k \in keys : k + KeyInterval <= emitted + 1

Emit ==
    /\ emitted < MaxFrames
    /\ emitted' = emitted + 1
    /\ \/ /\ KeyDue
          /\ keys' = keys \cup {emitted + 1}
          /\ keyWanted' = FALSE
       \/ emitted # 0 /\ UNCHANGED <<keys, keyWanted>>
    /\ UNCHANGED <<handled, streaming, dropping, queue, sender, sent>>

\* _on_start resumes after source.start() returned: frames may have been
\* posted, and handled, before.  `started` is written in this step.
Start ==
    /\ ~streaming
    /\ streaming' = TRUE
    /\ dropping' = FALSE
    /\ UNCHANGED <<emitted, keys, keyWanted, handled, queue, sender, sent>>

\* The client asks for a keyframe ({"t":"idr"}), or start() itself does.
OnIdr ==
    /\ keyWanted' = TRUE
    /\ UNCHANGED <<emitted, keys, handled, streaming, dropping, queue, sender,
                   sent>>

\* Variant: a queue without maxsize.
PutUnbounded(q, n) == q \cup {n}

\* put_nowait with QueueFull suppressed.
PutNowait(q, n) == IF Cardinality(q) < Capacity THEN q \cup {n} ELSE q

\* Variant: the backlog test is off by one.
BacklogAbove == Cardinality(queue) > QUEUE_MAX_FRAMES

Backlog == Cardinality(queue) >= QUEUE_MAX_FRAMES

\* _enqueue_frame outside STREAMING, or a delta while waiting for a keyframe.
Ignored(n) == ~streaming \/ (dropping /\ n \notin keys)

\* Variant: the purge does not enter the dropping state.
EnqueueNoDropping ==
    /\ handled < emitted
    /\ handled' = handled + 1
    /\ LET n == handled + 1 IN
       \/ /\ Ignored(n)
          /\ UNCHANGED <<dropping, queue, keyWanted>>
       \/ /\ ~Ignored(n)
          /\ dropping' = FALSE
          /\ queue' = LET q == IF Backlog THEN queue \cap keys ELSE queue
                      IN IF Backlog /\ n \notin keys THEN q ELSE PutNowait(q, n)
          /\ keyWanted' = (keyWanted \/ Backlog)
    /\ UNCHANGED <<emitted, keys, streaming, sender, sent>>

\* Variant: the purge does not ask for a keyframe.
EnqueueNoRequest ==
    /\ handled < emitted
    /\ handled' = handled + 1
    /\ LET n == handled + 1 IN
       \/ /\ Ignored(n)
          /\ UNCHANGED <<dropping, queue>>
       \/ /\ ~Ignored(n)
          /\ dropping' = (Backlog /\ n \notin keys)
          /\ queue' = LET q == IF Backlog THEN queue \cap keys ELSE queue
                      IN IF Backlog /\ n \notin keys THEN q ELSE PutNowait(q, n)
    /\ UNCHANGED <<emitted, keys, keyWanted, streaming, sender, sent>>

EnqueueFrame ==
    /\ handled < emitted
    /\ handled' = handled + 1
    /\ LET n == handled + 1 IN
       \/ /\ Ignored(n)
          /\ UNCHANGED <<dropping, queue, keyWanted>>
       \/ /\ ~Ignored(n)
          /\ ~Backlog
          /\ dropping' = FALSE
          /\ queue' = PutNowait(queue, n)
          /\ UNCHANGED keyWanted
       \* Backlog: keep the queued keyframes, ask for another one, and take
       \* this frame if it is one.
       \/ /\ ~Ignored(n)
          /\ Backlog
          /\ dropping' = (n \notin keys)
          /\ queue' = IF n \in keys THEN PutNowait(queue \cap keys, n)
                      ELSE queue \cap keys
          /\ keyWanted' = TRUE
    /\ UNCHANGED <<emitted, keys, streaming, sender, sent>>

Front(n) == n \in queue /\ \A m \in queue : n <= m

\* get() and write(); the sender then waits for the socket.
SendFrame ==
    /\ streaming
    /\ sender = "get"
    /\ \E n \in queue : /\ Front(n)
                        /\ queue' = queue \ {n}
                        /\ sent' = sent \cup {n}
    /\ sender' = "drain"
    /\ UNCHANGED <<emitted, keys, keyWanted, handled, streaming, dropping>>

\* drain() returns.  Nothing says when.
SocketReady ==
    /\ sender = "drain"
    /\ sender' = "get"
    /\ UNCHANGED <<emitted, keys, keyWanted, handled, streaming, dropping,
                   queue, sent>>

Next == Emit \/ OnIdr \/ Start \/ EnqueueFrame \/ SendFrame \/ SocketReady

Spec == Init /\ [][Next]_vars

-----------------------------------------------------------------------------
(* Properties.                                                             *)

\* n belongs to the group of pictures that keyframe k opens.
InGroup(k, n) == k <= n /\ \A j \in keys : ~(k < j /\ j <= n)

\* Within a group whose keyframe was sent, what is sent is a prefix of the
\* group: no delta follows a delta that was dropped.  (The drop-to-keyframe
\* policy of _enqueue_frame.)
NoHoleInGroup ==
    \A k \in keys \cap sent : \A n \in sent : InGroup(k, n) => (k..n) \subseteq sent

\* However long the socket stalls, at most QUEUE_MAX_FRAMES delta frames wait
\* for it: the latency a client can accumulate is bounded.
DeltaBacklogBounded == Cardinality(queue \ keys) <= QUEUE_MAX_FRAMES

\* The queue is first in first out across purges: everything still queued is
\* later than everything sent.
SentInOrder == \A n \in sent, m \in queue : n < m

\* A session that drops until the next keyframe always has one coming: it was
\* asked for and not answered, or it is posted and not yet handled.
KeyIsComing == dropping => keyWanted \/ \E k \in keys : handled < k

\* The first frame after `started` is a keyframe (docs/PROTOCOL.md section 4).
FirstFrameIsKey ==
    \A n \in sent : (\A m \in sent : n <= m) => n \in keys
=============================================================================
