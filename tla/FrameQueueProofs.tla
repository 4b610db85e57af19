--------------------------- MODULE FrameQueueProofs ---------------------------
(***************************************************************************)
(* What holds of FrameQueue for every queue size, keyframe interval and    *)
(* number of frames: the queue never grows past its bounds, it is first in *)
(* first out, a dropping session has a keyframe coming, and what is sent   *)
(* of a group of pictures is a prefix of it.                               *)
(***************************************************************************)
EXTENDS FrameQueue, FiniteSetTheorems, TLAPS

-----------------------------------------------------------------------------
(* Sizes.                                                                  *)

\* What is queued is a finite set.
LEMMA QueueFinite == TypeOK => IsFiniteSet(queue)
  <1> SUFFICES ASSUME TypeOK PROVE IsFiniteSet(queue)
    OBVIOUS
  <1>1. handled \in Int BY DEF TypeOK
  <1>2. IsFiniteSet(1..handled) BY <1>1, FS_Interval
  <1>3. queue \in SUBSET (1..handled) BY DEF TypeOK
  <1> QED BY <1>2, <1>3, FS_Subset

\* put_nowait never takes the queue past its maxsize.
LEMMA PutBounded ==
    ASSUME NEW q, IsFiniteSet(q), Cardinality(q) <= Capacity, NEW n
    PROVE  /\ IsFiniteSet(PutNowait(q, n))
           /\ Cardinality(PutNowait(q, n)) <= Capacity
  <1>1. Cardinality(q) \in Nat BY FS_CardinalityType
  <1>2. /\ IsFiniteSet(q \cup {n})
        /\ Cardinality(q \cup {n}) \in {Cardinality(q), Cardinality(q) + 1}
    BY FS_AddElement
  <1>3. Capacity \in Nat BY QueueAssumption DEF Capacity
  <1> QED BY <1>1, <1>2, <1>3 DEF PutNowait

\* A part of a finite set is no larger.
LEMMA PartBounded ==
    ASSUME NEW q, IsFiniteSet(q), NEW p \in SUBSET q
    PROVE  /\ IsFiniteSet(p) /\ Cardinality(p) \in Nat
           /\ Cardinality(q) \in Nat
           /\ Cardinality(p) <= Cardinality(q)
  BY FS_Subset, FS_CardinalityType

-----------------------------------------------------------------------------
(* Types.                                                                  *)

LEMMA InitTypeOK == Init => TypeOK
  <1>1. Cardinality({}) = 0 BY FS_EmptySet
  <1>2. Capacity \in Nat BY QueueAssumption DEF Capacity
  <1>3. Init => Cardinality(queue) <= Capacity BY <1>1, <1>2 DEF Init
  <1>4. Init => /\ emitted \in Nat
                /\ handled \in 0..emitted
                /\ keys \in SUBSET (1..emitted)
                /\ queue \in SUBSET (1..handled)
                /\ sent \in SUBSET (1..handled)
    BY DEF Init
  <1> QED BY <1>3, <1>4 DEF Init, TypeOK

LEMMA EnqueueTypeOK == TypeOK /\ EnqueueFrame => TypeOK'
  <1> SUFFICES ASSUME TypeOK, EnqueueFrame PROVE TypeOK'
    OBVIOUS
  <1> DEFINE n == handled + 1
  <1>1. n \in 1..emitted /\ handled' = n /\ handled \in 0..emitted
    BY DEF TypeOK, EnqueueFrame
  <1>2. ASSUME NEW q \in SUBSET queue
        PROVE  /\ q \in SUBSET (1..n) /\ PutNowait(q, n) \in SUBSET (1..n)
               /\ Cardinality(q) <= Capacity
               /\ Cardinality(PutNowait(q, n)) <= Capacity
    <2>1. q \in SUBSET (1..n) BY <1>1 DEF TypeOK
    <2>2. PutNowait(q, n) \in SUBSET (1..n) BY <1>1, <2>1 DEF PutNowait
    <2>3. IsFiniteSet(q) /\ Cardinality(q) <= Capacity
      <3>1. Capacity \in Nat BY QueueAssumption DEF Capacity
      <3>2. Cardinality(queue) <= Capacity BY DEF TypeOK
      <3> QED BY <3>1, <3>2, QueueFinite, PartBounded
    <2> QED BY <2>1, <2>2, <2>3, PutBounded
  <1>3. queue' \in {queue, queue \cap keys, PutNowait(queue, n),
                    PutNowait(queue \cap keys, n)}
    BY DEF EnqueueFrame
  <1>4. queue' \in SUBSET (1..n) /\ Cardinality(queue') <= Capacity
    BY <1>2, <1>3
  <1>5. dropping' \in BOOLEAN /\ keyWanted' \in BOOLEAN
    BY DEF TypeOK, EnqueueFrame
  <1>6. sent' \in SUBSET (1..n) BY <1>1 DEF TypeOK, EnqueueFrame
  <1> HIDE DEF n
  <1>7. UNCHANGED <<emitted, keys, streaming, sender>> BY DEF EnqueueFrame
  <1>8. Capacity' = Capacity BY DEF Capacity
  <1> QED BY <1>1, <1>4, <1>5, <1>6, <1>7, <1>8 DEF TypeOK

LEMMA NextTypeOK == TypeOK /\ [Next]_vars => TypeOK'
  <1> SUFFICES ASSUME TypeOK, [Next]_vars PROVE TypeOK'
    OBVIOUS
  <1>1. CASE Emit
    <2>1. emitted' \in Nat /\ handled' \in 0..emitted'
      BY <1>1 DEF Emit, TypeOK
    <2>2. keys' \in SUBSET (1..emitted')
      <3>1. keys' \subseteq keys \cup {emitted + 1} /\ emitted' = emitted + 1
        BY <1>1 DEF Emit
      <3>2. keys \subseteq 1..emitted /\ emitted \in Nat BY DEF TypeOK
      <3> QED BY <3>1, <3>2
    <2>3. keyWanted' \in BOOLEAN BY <1>1 DEF Emit, TypeOK
    <2> QED BY <1>1, <2>1, <2>2, <2>3 DEF Emit, TypeOK, Capacity
  <1>2. CASE OnIdr BY <1>2 DEF OnIdr, TypeOK, Capacity
  <1>3. CASE Start BY <1>3 DEF Start, TypeOK, Capacity
  <1>4. CASE EnqueueFrame BY <1>4, EnqueueTypeOK
  <1>5. CASE SendFrame
    <2>1. PICK n \in queue : queue' = queue \ {n} /\ sent' = sent \cup {n}
      BY <1>5 DEF SendFrame
    <2>2. Capacity \in Nat /\ Capacity' = Capacity
      BY QueueAssumption DEF Capacity
    <2>3. Cardinality(queue') <= Capacity
      <3>1. Cardinality(queue') <= Cardinality(queue)
        BY <2>1, QueueFinite, PartBounded
      <3> QED BY <2>1, <2>2, <3>1, QueueFinite, PartBounded DEF TypeOK
    <2> QED BY <1>5, <2>1, <2>2, <2>3 DEF SendFrame, TypeOK
  <1>6. CASE SocketReady BY <1>6 DEF SocketReady, TypeOK, Capacity
  <1>7. CASE UNCHANGED vars BY <1>7 DEF vars, TypeOK, Capacity
  <1> QED BY <1>1, <1>2, <1>3, <1>4, <1>5, <1>6, <1>7 DEF Next

\* The queue never holds more than its maxsize, nor a frame not yet handled.
THEOREM QueueTypes == Spec => []TypeOK
  BY InitTypeOK, NextTypeOK, PTL DEF Spec

-----------------------------------------------------------------------------
(* Backlog.                                                                *)

LEMMA InitDeltas == Init => DeltaBacklogBounded
  <1>1. Cardinality({}) = 0 BY FS_EmptySet
  <1>2. Init => queue \ keys = {} BY DEF Init
  <1> QED BY <1>1, <1>2, QueueAssumption DEF DeltaBacklogBounded

\* Only a delta that finds no backlog adds to the deltas that wait.
LEMMA NextDeltas ==
    TypeOK /\ DeltaBacklogBounded /\ [Next]_vars => DeltaBacklogBounded'
  <1> SUFFICES ASSUME TypeOK, DeltaBacklogBounded, [Next]_vars
               PROVE  Cardinality(queue' \ keys') <= QUEUE_MAX_FRAMES
    BY DEF DeltaBacklogBounded
  <1> DEFINE n == handled + 1
             deltas == queue \ keys
  <1>1. QUEUE_MAX_FRAMES \in Nat /\ IsFiniteSet(queue) /\ IsFiniteSet(deltas)
    BY QueueAssumption, QueueFinite, FS_Subset
  <1>2. Cardinality(deltas) <= QUEUE_MAX_FRAMES BY DEF DeltaBacklogBounded
  <1>3. CASE queue' \ keys' \subseteq deltas
    <2>1. Cardinality(queue' \ keys') <= Cardinality(deltas)
          /\ Cardinality(queue' \ keys') \in Nat
          /\ Cardinality(deltas) \in Nat
      BY <1>1, <1>3, PartBounded
    <2> QED BY <1>1, <1>2, <2>1
  <1>4. CASE EnqueueFrame /\ ~Backlog /\ queue' \ keys' \subseteq queue \cup {n}
    <2>1. /\ Cardinality(queue) \in Nat
          /\ Cardinality(queue) < QUEUE_MAX_FRAMES
      BY <1>1, <1>4, FS_CardinalityType DEF Backlog
    <2>2. /\ IsFiniteSet(queue \cup {n})
          /\ Cardinality(queue \cup {n}) <= Cardinality(queue) + 1
      BY <1>1, <2>1, FS_AddElement
    <2>3. /\ Cardinality(queue' \ keys') <= Cardinality(queue \cup {n})
          /\ Cardinality(queue' \ keys') \in Nat
          /\ Cardinality(queue \cup {n}) \in Nat
      BY <1>4, <2>2, PartBounded
    <2> QED BY <1>1, <2>1, <2>2, <2>3
  <1>5. CASE EnqueueFrame
    <2>1. keys' = keys BY <1>5 DEF EnqueueFrame
    <2>2. CASE queue' = queue \/ queue' = queue \cap keys
      BY <1>3, <2>1, <2>2
    <2>3. CASE n \in keys /\ queue' = PutNowait(queue \cap keys, n)
      BY <1>3, <2>1, <2>3 DEF PutNowait
    <2>4. CASE ~Backlog /\ queue' = PutNowait(queue, n)
      BY <1>4, <1>5, <2>4 DEF PutNowait
    <2> QED BY <1>5, <2>2, <2>3, <2>4 DEF EnqueueFrame
  <1>6. CASE Emit BY <1>3, <1>6 DEF Emit
  <1>7. CASE SendFrame BY <1>3, <1>7 DEF SendFrame
  <1>8. CASE OnIdr \/ Start \/ SocketReady \/ UNCHANGED vars
    BY <1>3, <1>8 DEF OnIdr, Start, SocketReady, vars
  <1> QED BY <1>5, <1>6, <1>7, <1>8 DEF Next

\* However long the socket stalls, at most QUEUE_MAX_FRAMES deltas wait.
THEOREM DeltasBounded == Spec => []DeltaBacklogBounded
  <1>1. Init => TypeOK /\ DeltaBacklogBounded BY InitTypeOK, InitDeltas
  <1>2. (TypeOK /\ DeltaBacklogBounded) /\ [Next]_vars
          => (TypeOK /\ DeltaBacklogBounded)'
    BY NextTypeOK, NextDeltas
  <1> QED BY <1>1, <1>2, PTL DEF Spec

-----------------------------------------------------------------------------
(* Keyframes.                                                              *)

\* Before the stream nothing has been dropped.
NoDropBefore == ~streaming => ~dropping

\* A session enters the dropping state only in the step that asks for a
\* keyframe, and leaves it with the first one it handles.
LEMMA NextKeyIsComing ==
    TypeOK /\ NoDropBefore /\ KeyIsComing /\ [Next]_vars => KeyIsComing'
  <1> SUFFICES ASSUME TypeOK, NoDropBefore, KeyIsComing, [Next]_vars, dropping'
               PROVE  keyWanted' \/ \E k \in keys' : handled' < k
    BY DEF KeyIsComing
  <1> DEFINE Coming == keyWanted \/ \E k \in keys : handled < k
  <1>0. dropping => Coming BY DEF KeyIsComing
  <1>1. CASE Emit
    <2>1. Coming BY <1>0, <1>1 DEF Emit
    <2>2. CASE keys' = keys \cup {emitted + 1}
      <3>1. handled' < emitted + 1 BY <1>1 DEF Emit, TypeOK
      <3> QED BY <2>2, <3>1
    <2>3. CASE UNCHANGED <<keys, keyWanted>> BY <1>1, <2>1, <2>3 DEF Emit
    <2> QED BY <1>1, <2>2, <2>3 DEF Emit
  <1>2. CASE EnqueueFrame
    <2>1. CASE Ignored(handled + 1) /\ UNCHANGED <<dropping, keyWanted>>
      <3>1. dropping BY <2>1
      <3>2. streaming BY <3>1 DEF NoDropBefore
      <3>3. handled + 1 \notin keys BY <2>1, <3>2 DEF Ignored
      <3>4. \A k \in keys : handled < k => handled + 1 < k
        BY <3>3 DEF TypeOK
      <3>5. handled' = handled + 1 /\ keys' = keys BY <1>2 DEF EnqueueFrame
      <3> QED BY <1>0, <2>1, <3>1, <3>4, <3>5
    <2>2. CASE keyWanted' BY <2>2
    <2>3. CASE dropping' = FALSE BY <2>3
    <2> QED BY <1>2, <2>1, <2>2, <2>3 DEF EnqueueFrame
  <1>3. CASE OnIdr BY <1>3 DEF OnIdr
  <1>4. CASE Start BY <1>4 DEF Start
  <1>5. CASE UNCHANGED <<dropping, keyWanted, keys, handled>> BY <1>0, <1>5
  <1> QED BY <1>1, <1>2, <1>3, <1>4, <1>5
          DEF Next, SendFrame, SocketReady, vars

LEMMA NextNoDropBefore == NoDropBefore /\ [Next]_vars => NoDropBefore'
  BY DEF NoDropBefore, Next, Emit, OnIdr, Start, EnqueueFrame, Ignored,
         SendFrame, SocketReady, vars

\* A session that drops frames until a keyframe always has one coming.
THEOREM KeyAlwaysComing == Spec => []KeyIsComing
  <1> DEFINE Inv == TypeOK /\ NoDropBefore /\ KeyIsComing
  <1>1. Init => Inv BY InitTypeOK DEF Init, NoDropBefore, KeyIsComing
  <1>2. Inv /\ [Next]_vars => Inv'
    BY NextTypeOK, NextNoDropBefore, NextKeyIsComing
  <1>3. Inv => KeyIsComing OBVIOUS
  <1> QED BY <1>1, <1>2, <1>3, PTL DEF Spec

-----------------------------------------------------------------------------
(* Order and groups of pictures.                                           *)

\* Frames in the queue and frames sent: all that were taken and not purged.
Taken == sent \cup queue

\* The queue is taken from at its front and appended to at its end.
LEMMA NextInOrder == TypeOK /\ SentInOrder /\ [Next]_vars => SentInOrder'
  <1> SUFFICES ASSUME TypeOK, SentInOrder, [Next]_vars,
                      NEW n \in sent', NEW m \in queue'
               PROVE  n < m
    BY DEF SentInOrder
  <1>0. \A i \in sent, j \in queue : i < j BY DEF SentInOrder
  <1>1. CASE EnqueueFrame
    <2>1. n \in sent /\ n \in 1..handled BY <1>1 DEF EnqueueFrame, TypeOK
    <2>2. m \in queue \/ m = handled + 1 BY <1>1 DEF EnqueueFrame, PutNowait
    <2>3. handled \in Nat BY DEF TypeOK
    <2>4. CASE m \in queue BY <1>0, <2>1, <2>4
    <2>5. CASE m = handled + 1 BY <2>1, <2>3, <2>5
    <2> QED BY <2>2, <2>4, <2>5
  <1>2. CASE SendFrame
    <2>1. PICK f \in queue : /\ \A j \in queue : f <= j
                             /\ queue' = queue \ {f}
                             /\ sent' = sent \cup {f}
      BY <1>2 DEF SendFrame, Front
    <2>2. f \in Nat /\ m \in Nat /\ f <= m /\ f # m BY <2>1 DEF TypeOK
    <2> QED BY <1>0, <2>1, <2>2
  <1>3. CASE UNCHANGED <<sent, queue>> BY <1>0, <1>3
  <1> QED BY <1>1, <1>2, <1>3
          DEF Next, Emit, OnIdr, Start, SocketReady, vars

\* Of a group whose keyframe was taken, what was taken is a prefix, and while
\* the session neither drops nor waits to start it is all there is so far.
Whole(k, n) == InGroup(k, n) => (k..n) \subseteq Taken
Groups ==
    /\ ~streaming => Taken = {}
    /\ \A k \in keys \cap Taken : \A n \in Taken : Whole(k, n)
    /\ streaming /\ ~dropping => \A k \in keys \cap Taken : Whole(k, handled)

\* Emitting a frame does not change the groups of the frames before it.
LEMMA EmitGroups == TypeOK /\ Groups /\ Emit => Groups'
  <1> SUFFICES ASSUME TypeOK, Groups, Emit PROVE Groups'
    OBVIOUS
  <1>1. Taken' = Taken /\ handled' = handled
    BY DEF Emit, Taken
  <1>2. Taken \subseteq 1..handled /\ handled <= emitted /\ emitted \in Nat
    BY DEF TypeOK, Taken
  <1>3. keys \subseteq keys' /\ keys' \subseteq keys \cup {emitted + 1}
    BY DEF Emit
  <1>4. keys' \cap Taken = keys \cap Taken
    <2>1. emitted + 1 \notin 1..handled /\ handled \in Int
      BY <1>2 DEF TypeOK
    <2> QED BY <1>2, <1>3, <2>1
  <1>5. ASSUME NEW k \in keys \cap Taken, NEW n, InGroup(k, n)', Whole(k, n)
        PROVE  (k..n) \subseteq Taken'
    BY <1>1, <1>3, <1>5 DEF InGroup, Whole
  <1>6. ASSUME NEW k \in (keys \cap Taken)', NEW n \in Taken' PROVE Whole(k, n)'
    BY <1>1, <1>4, <1>5 DEF Groups, Whole
  <1>7. ASSUME streaming, ~dropping, NEW k \in (keys \cap Taken)'
        PROVE  Whole(k, handled)'
    BY <1>1, <1>4, <1>5, <1>7 DEF Groups, Whole
  <1>8. UNCHANGED <<streaming, dropping>> BY DEF Emit
  <1>9. ~streaming => Taken' = {} BY <1>1 DEF Groups
  <1> QED BY <1>6, <1>7, <1>8, <1>9 DEF Groups

\* A frame handled: appended, refused, ignored, or taken after a purge.
LEMMA EnqueueGroups == TypeOK /\ SentInOrder /\ Groups /\ EnqueueFrame => Groups'
  <1> SUFFICES ASSUME TypeOK, SentInOrder, Groups, EnqueueFrame PROVE Groups'
    OBVIOUS
  <1> DEFINE n == handled + 1
  <1>1. /\ n \in Nat /\ handled' = n /\ UNCHANGED <<keys, streaming, sent>>
        /\ keys \subseteq Nat /\ Taken \subseteq 1..handled /\ handled \in Nat
    BY DEF EnqueueFrame, TypeOK, Taken
  <1>2. \A k, m : InGroup(k, m)' <=> InGroup(k, m) BY <1>1 DEF InGroup
  <1>3. \A k : n \in keys /\ InGroup(k, n) /\ k \in Nat => k = n
    BY <1>1 DEF InGroup
  <1>4. CASE Ignored(n)
    <2>1. Taken' = Taken /\ dropping' = dropping
      BY <1>1, <1>4 DEF EnqueueFrame, Taken
    <2>2. ~(streaming' /\ ~dropping') BY <1>1, <1>4, <2>1 DEF Ignored
    <2> QED BY <1>1, <1>2, <2>1, <2>2 DEF Groups, Whole
  <1>5. CASE ~Ignored(n) /\ ~Backlog
    <2>1. streaming /\ (dropping => n \in keys) BY <1>5 DEF Ignored
    <2>2. Taken' = Taken \cup {n}
      <3>1. Cardinality(queue) \in Nat BY QueueFinite, FS_CardinalityType
      <3>2. Cardinality(queue) < Capacity
        BY <1>5, <3>1, QueueAssumption DEF Backlog, Capacity
      <3> QED BY <1>1, <1>5, <3>2 DEF EnqueueFrame, PutNowait, Taken
    <2>3. ASSUME NEW k \in keys \cap (Taken \cup {n}), InGroup(k, n)
          PROVE  (k..n) \subseteq Taken'
      <3>1. CASE k = n BY <1>1, <2>2, <3>1
      <3>2. CASE k # n
        <4>1. n \notin keys /\ k \in keys \cap Taken BY <1>1, <1>3, <2>3, <3>2
        <4>2. ~dropping BY <2>1, <4>1
        <4>3. InGroup(k, handled) BY <1>1, <2>3, <4>1 DEF InGroup
        <4>4. (k..handled) \subseteq Taken
          BY <2>1, <4>1, <4>2, <4>3 DEF Groups, Whole
        <4> QED BY <1>1, <2>2, <4>1, <4>4
      <3> QED BY <3>1, <3>2
    <2>4. ASSUME NEW k \in keys \cap (Taken \cup {n}), NEW m \in Taken,
                 InGroup(k, m)
          PROVE  (k..m) \subseteq Taken'
      <3>1. k \in Taken BY <1>1, <2>4 DEF InGroup
      <3> QED BY <2>2, <2>4, <3>1 DEF Groups, Whole
    <2>5. \A k \in (keys \cap Taken)' : \A m \in Taken' : Whole(k, m)'
      BY <1>1, <1>2, <2>2, <2>3, <2>4 DEF Whole
    <2>6. \A k \in (keys \cap Taken)' : Whole(k, handled)'
      BY <1>1, <1>2, <2>2, <2>3 DEF Whole
    <2> QED BY <1>1, <2>1, <2>5, <2>6 DEF Groups
  <1>6. CASE ~Ignored(n) /\ Backlog
    <2>1. streaming /\ dropping' = (n \notin keys)
      BY <1>6 DEF Ignored, EnqueueFrame
    <2>2. /\ Taken' \subseteq sent \cup (queue \cap keys) \cup (keys \cap {n})
          /\ sent \subseteq Taken' /\ queue \cap keys \subseteq Taken'
      BY <1>1, <1>6 DEF EnqueueFrame, PutNowait, Taken
    <2>3. ASSUME NEW k \in keys \cap Taken', NEW m \in Taken', InGroup(k, m)
          PROVE  (k..m) \subseteq Taken'
      <3>1. CASE m \in keys
        <4>1. k = m BY <1>1, <2>2, <2>3, <3>1 DEF InGroup, Taken
        <4> QED BY <1>1, <2>3, <3>1, <4>1
      \* What precedes a frame that was sent was not in the queue.
      <3>2. CASE m \notin keys
        <4>1. m \in sent /\ m \in 1..handled BY <1>1, <2>2, <3>2 DEF Taken
        <4>2. k \in Taken /\ k <= m
          BY <1>1, <2>2, <2>3, <4>1 DEF Taken, InGroup
        <4>3. (k..m) \subseteq Taken
          BY <2>3, <4>1, <4>2 DEF Groups, Whole, Taken
        <4>4. \A j \in k..m : j \notin queue
          BY <1>1, <4>1, <4>2 DEF SentInOrder, Taken
        <4> QED BY <2>2, <4>3, <4>4 DEF Taken
      <3> QED BY <3>1, <3>2
    <2>4. \A k \in (keys \cap Taken)' : \A m \in Taken' : Whole(k, m)'
      BY <1>1, <1>2, <2>3 DEF Whole
    <2>5. ~dropping' => \A k \in (keys \cap Taken)' : Whole(k, handled)'
      <3> SUFFICES ASSUME n \in keys, NEW k \in keys \cap Taken', InGroup(k, n)
                   PROVE  (k..n) \subseteq Taken'
        BY <1>1, <1>2, <2>1 DEF Whole
      <3>1. k = n BY <1>1, <1>3
      <3> QED BY <1>1, <3>1
    <2> QED BY <1>1, <2>1, <2>4, <2>5 DEF Groups
  <1> QED BY <1>4, <1>5, <1>6

LEMMA NextGroups == TypeOK /\ SentInOrder /\ Groups /\ [Next]_vars => Groups'
  <1> SUFFICES ASSUME TypeOK, SentInOrder, Groups, [Next]_vars PROVE Groups'
    OBVIOUS
  <1>1. CASE Emit BY <1>1, EmitGroups
  <1>2. CASE EnqueueFrame BY <1>2, EnqueueGroups
  <1>3. CASE Start
    <2>1. Taken' = {} BY <1>3 DEF Start, Groups, Taken
    <2> QED BY <2>1 DEF Groups
  <1>4. CASE SendFrame
    <2>1. Taken' = Taken BY <1>4 DEF SendFrame, Front, Taken
    <2>2. UNCHANGED <<keys, handled, streaming, dropping>> BY <1>4 DEF SendFrame
    <2> QED BY <2>1, <2>2 DEF Groups, Whole, InGroup
  <1>5. CASE OnIdr \/ SocketReady \/ UNCHANGED vars
    BY <1>5 DEF OnIdr, SocketReady, vars, Groups, Whole, InGroup, Taken
  <1> QED BY <1>1, <1>2, <1>3, <1>4, <1>5 DEF Next

\* Of a group whose keyframe was sent, what is sent is a prefix: no frame is
\* ever sent whose reference frame was dropped.
THEOREM NoDeltaWithoutReference == Spec => []NoHoleInGroup
  <1> DEFINE Inv == TypeOK /\ SentInOrder /\ Groups
  <1>1. Init => Inv
    BY InitTypeOK DEF Init, SentInOrder, Groups, Taken
  <1>2. Inv /\ [Next]_vars => Inv' BY NextTypeOK, NextInOrder, NextGroups
  <1>3. Inv => NoHoleInGroup
    <2> SUFFICES ASSUME TypeOK, SentInOrder, Groups,
                        NEW k \in keys \cap sent, NEW n \in sent, InGroup(k, n),
                        NEW j \in k..n
                 PROVE  j \in sent
      BY DEF NoHoleInGroup
    <2>1. j \in sent \cup queue BY DEF Groups, Whole, Taken
    <2>2. j <= n /\ n \in Nat /\ j \in Int BY DEF TypeOK
    <2> QED BY <2>1, <2>2 DEF SentInOrder
  <1> QED BY <1>1, <1>2, <1>3, PTL DEF Spec
=============================================================================
