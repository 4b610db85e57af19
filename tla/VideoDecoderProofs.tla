-------------------------- MODULE VideoDecoderProofs --------------------------
(***************************************************************************)
(* What holds of VideoDecoder for any number of frames, surfaces, threads  *)
(* and exceptions of the codec: the types, that a running decoder has a    *)
(* loop, that an empty queue takes the next frame, and that a key frame is *)
(* coming whenever one is needed.                                          *)
(***************************************************************************)
EXTENDS VideoDecoder, FiniteSetTheorems, TLAPS

Nets == [at : {"idle", "room", "purge", "purged", "open", "add", "added"}, f : Frames]
Mains == {"idle", "stop", "clear", "stopped", "begun", "started"}
Queues == [Threads -> [Jobs -> Nat]]

\* The types, with nothing but membership of each part, and the rest of TypeOK.
Types ==
    /\ d \in Shared /\ d.codec <= d.made
    /\ net \in Nets
    /\ dec \in [Threads -> Thread] /\ posted \in Queues
    /\ main \in Mains
    /\ sent \in 0..MaxFrames /\ starts \in 0..MaxStarts /\ errors \in 0..MaxErrors

Quiet ==
    /\ main \in {"stop", "clear", "stopped", "begun"} => d.handler = 0
    /\ main \in {"stop", "clear", "stopped"} => ~d.running
    /\ \A t \in Threads : posted[t]["create"] > 0 => t = d.handler

LEMMA TypeOKParts == TypeOK <=> Types /\ Quiet
  BY DEF TypeOK, Types, Quiet, Nets, Mains, Queues

LEMMA FirstValues ==
    /\ NoFrame \in Frames /\ Idle \in Nets /\ Off \in Thread
    /\ 0 \in 0..MaxStarts /\ 0 \in 0..MaxFrames
    /\ \A t \in Threads : t \in 0..MaxStarts /\ t # 0
    /\ \A h \in 0..MaxStarts : h # 0 => h \in Threads
  <1>1. NoFrame \in Frames BY DecoderAssumption DEF NoFrame, Frames
  <1> QED BY <1>1, DecoderAssumption DEF Idle, Off, Nets, Thread, Places, Threads

\* Two states of what is shared that differ in the queue, the counter and the
\* picture at most.
Same(D, E) ==
    /\ E \in Shared /\ E.running = D.running /\ E.handler = D.handler
    /\ E.codec = D.codec /\ E.made = D.made /\ E.asked = D.asked /\ E.waiting = D.waiting

LEMMA PolledSame ==
    ASSUME NEW D \in Shared
    PROVE  /\ Same(D, Polled(D)) /\ Polled(D).count = D.count
           /\ Polled(D).picture = D.picture /\ Polled(D).last = D.last
           /\ Polled(D).pending = IF D.pending = <<>> THEN D.pending ELSE Tail(D.pending)
  <1> DEFINE rest == IF D.pending = <<>> THEN D.pending ELSE Tail(D.pending)
  <1>1. D.pending \in Seq(Frames) BY DEF Shared
  <1>2. rest \in Seq(Frames) BY <1>1
  <1>3. Polled(D) = [D EXCEPT !.pending = rest] BY DEF Polled
  <1> HIDE DEF rest
  <1>4. /\ Same(D, Polled(D)) /\ Polled(D).count = D.count
        /\ Polled(D).picture = D.picture /\ Polled(D).last = D.last
        /\ Polled(D).pending = rest
    BY <1>2, <1>3 DEF Shared, Same
  <1> QED BY <1>4 DEF rest

LEMMA PendingSame ==
    ASSUME NEW D \in Shared, NEW q \in Seq(Frames)
    PROVE  LET E == [D EXCEPT !.pending = q]
           IN  /\ Same(D, E) /\ E.count = D.count /\ E.picture = D.picture
               /\ E.last = D.last /\ E.pending = q
  BY DEF Shared, Same

LEMMA CountSame ==
    ASSUME NEW D \in Shared, NEW n \in Int
    PROVE  LET E == [D EXCEPT !.count = n]
           IN  /\ Same(D, E) /\ E.count = n /\ E.picture = D.picture
               /\ E.last = D.last /\ E.pending = D.pending
  BY DEF Shared, Same

LEMMA LostSame ==
    ASSUME NEW D \in Shared, NEW b \in BOOLEAN
    PROVE  LET E == Lost(b, D)
           IN  /\ Same(D, E) /\ E.count = D.count /\ E.pending = D.pending
               /\ b => E.picture = "lost"
               /\ ~b => E = D
  <1>1. CASE b BY <1>1, FirstValues DEF Shared, Same, Lost
  <1>2. CASE ~b BY <1>2 DEF Same, Lost
  <1> QED BY <1>1, <1>2

LEMMA DecodedSame ==
    ASSUME d \in Shared, NEW f \in Frames
    PROVE  LET E == Decoded(f)
           IN  /\ Same(d, E) /\ E.count = d.count /\ E.pending = d.pending
               /\ d.picture = "lost" => E = d
               /\ d.picture # "lost" =>
                     IF f.key \/ (d.picture = "right" /\ f.n = d.last + 1)
                     THEN E.picture = "right" /\ E.last = f.n
                     ELSE E.picture = "wrong"
  <1>1. f.n \in 0..MaxFrames BY DEF Frames
  <1>2. [d EXCEPT !.picture = "right", !.last = f.n] \in Shared BY <1>1 DEF Shared
  <1>3. [d EXCEPT !.picture = "wrong", !.last = 0] \in Shared BY FirstValues DEF Shared
  <1>4. CASE d.picture = "lost" BY <1>4 DEF Decoded, Same
  <1>5. CASE d.picture # "lost" /\ (f.key \/ (d.picture = "right" /\ f.n = d.last + 1))
    <2>1. Decoded(f) = [d EXCEPT !.picture = "right", !.last = f.n] BY <1>5 DEF Decoded
    <2> QED BY <1>2, <1>5, <2>1 DEF Same, Shared
  <1>6. CASE d.picture # "lost" /\ ~(f.key \/ (d.picture = "right" /\ f.n = d.last + 1))
    <2>1. Decoded(f) = [d EXCEPT !.picture = "wrong", !.last = 0] BY <1>6 DEF Decoded
    <2> QED BY <1>3, <1>6, <2>1 DEF Same, Shared
  <1> QED BY <1>4, <1>5, <1>6

LEMMA CreatedParts ==
    ASSUME d \in Shared
    PROVE  /\ Created \in Shared /\ Created.codec = d.made + 1 /\ Created.made = d.made + 1
           /\ Created.running = d.running /\ Created.handler = d.handler
           /\ Created.asked = d.asked /\ Created.waiting = d.waiting
           /\ Created.count = d.count /\ Created.pending = d.pending
           /\ d.codec # 0 => Created.picture = "lost"
           /\ d.codec = 0 => Created.picture = d.picture /\ Created.last = d.last
  <1> DEFINE L == Lost(d.codec # 0, d)
  <1>1. /\ Same(d, L) /\ L.count = d.count /\ L.pending = d.pending
        /\ d.codec # 0 => L.picture = "lost"
        /\ d.codec = 0 => L = d
    BY LostSame
  <1>2. Created = [L EXCEPT !.codec = d.made + 1, !.made = d.made + 1] BY DEF Created
  <1>3. d.made + 1 \in Nat BY DEF Shared
  <1> HIDE DEF L
  <1> QED BY <1>1, <1>2, <1>3 DEF Same, Shared

LEMMA NoCodecParts ==
    ASSUME d \in Shared
    PROVE  /\ NoCodec \in Shared /\ NoCodec.codec = 0 /\ NoCodec.made = d.made
           /\ NoCodec.running = d.running /\ NoCodec.handler = d.handler
           /\ NoCodec.asked = d.asked /\ NoCodec.waiting = d.waiting
           /\ NoCodec.count = d.count /\ NoCodec.pending = d.pending
           /\ NoCodec.picture = "fresh"
  BY FirstValues DEF NoCodec, Shared

LEMMA StoppedParts ==
    ASSUME d \in Shared
    PROVE  /\ Stopped \in Shared /\ Stopped.codec = 0 /\ Stopped.made = d.made
           /\ Stopped.running = FALSE /\ Stopped.handler = 0
           /\ Stopped.count = d.count /\ Stopped.pending = d.pending
           /\ Stopped.picture = "fresh"
  <1>1. NoCodec \in Shared /\ NoCodec.codec = 0 /\ NoCodec.made = d.made
        /\ NoCodec.count = d.count /\ NoCodec.pending = d.pending /\ NoCodec.picture = "fresh"
    BY NoCodecParts
  <1> QED BY <1>1, FirstValues DEF Stopped, Shared

\* Two states of what is shared that differ in the flags, the handler and the
\* counter at most.
Flags(D, E) ==
    /\ E \in Shared /\ E.codec = D.codec /\ E.made = D.made /\ E.pending = D.pending
    /\ E.picture = D.picture /\ E.last = D.last

LEMMA SomeFlags ==
    ASSUME NEW D \in Shared
    PROVE  /\ \A w, a \in BOOLEAN :
              LET E == [D EXCEPT !.waiting = w, !.asked = a]
              IN  /\ Flags(D, E) /\ E.waiting = w /\ E.asked = a
                  /\ E.running = D.running /\ E.handler = D.handler /\ E.count = D.count
           /\ \A w \in BOOLEAN :
              LET E == [D EXCEPT !.waiting = w]
              IN  /\ Flags(D, E) /\ E.waiting = w /\ E.asked = D.asked
                  /\ E.running = D.running /\ E.handler = D.handler /\ E.count = D.count
           /\ \A a \in BOOLEAN :
              LET E == [D EXCEPT !.asked = a]
              IN  /\ Flags(D, E) /\ E.waiting = D.waiting /\ E.asked = a
                  /\ E.running = D.running /\ E.handler = D.handler /\ E.count = D.count
           /\ \A r \in BOOLEAN :
              LET E == [D EXCEPT !.running = r]
              IN  /\ Flags(D, E) /\ E.waiting = D.waiting /\ E.asked = D.asked
                  /\ E.running = r /\ E.handler = D.handler /\ E.count = D.count
  <1>1. \A w, a \in BOOLEAN :
          LET E == [D EXCEPT !.waiting = w, !.asked = a]
          IN  /\ Flags(D, E) /\ E.waiting = w /\ E.asked = a
              /\ E.running = D.running /\ E.handler = D.handler /\ E.count = D.count
    BY DEF Shared, Flags
  <1>2. \A w \in BOOLEAN :
          LET E == [D EXCEPT !.waiting = w]
          IN  /\ Flags(D, E) /\ E.waiting = w /\ E.asked = D.asked
              /\ E.running = D.running /\ E.handler = D.handler /\ E.count = D.count
    BY DEF Shared, Flags
  <1>3. \A a \in BOOLEAN :
          LET E == [D EXCEPT !.asked = a]
          IN  /\ Flags(D, E) /\ E.waiting = D.waiting /\ E.asked = a
              /\ E.running = D.running /\ E.handler = D.handler /\ E.count = D.count
    BY DEF Shared, Flags
  <1>4. \A r \in BOOLEAN :
          LET E == [D EXCEPT !.running = r]
          IN  /\ Flags(D, E) /\ E.waiting = D.waiting /\ E.asked = D.asked
              /\ E.running = r /\ E.handler = D.handler /\ E.count = D.count
    BY DEF Shared, Flags
  <1> QED BY ONLY <1>1, <1>2, <1>3, <1>4, Zenon

\* What the assignments of feed(), start() and recreate() come to.
LEMMA FlagParts ==
    ASSUME NEW D \in Shared
    PROVE  /\ LET E == [D EXCEPT !.waiting = TRUE, !.asked = TRUE]
              IN  /\ Flags(D, E) /\ E.waiting = TRUE /\ E.asked = TRUE
                  /\ E.running = D.running /\ E.handler = D.handler /\ E.count = D.count
           /\ LET E == [D EXCEPT !.count = 0, !.waiting = TRUE, !.asked = TRUE]
              IN  /\ Flags(D, E) /\ E.waiting = TRUE /\ E.asked = TRUE
                  /\ E.running = D.running /\ E.handler = D.handler /\ E.count = 0
           /\ LET E == [D EXCEPT !.waiting = FALSE]
              IN  /\ Flags(D, E) /\ E.waiting = FALSE /\ E.asked = D.asked
                  /\ E.running = D.running /\ E.handler = D.handler /\ E.count = D.count
           /\ LET E == [D EXCEPT !.asked = TRUE]
              IN  /\ Flags(D, E) /\ E.waiting = D.waiting /\ E.asked = TRUE
                  /\ E.running = D.running /\ E.handler = D.handler /\ E.count = D.count
           /\ LET E == [D EXCEPT !.running = TRUE]
              IN  /\ Flags(D, E) /\ E.waiting = D.waiting /\ E.asked = D.asked
                  /\ E.running = TRUE /\ E.handler = D.handler /\ E.count = D.count
           /\ LET E == [D EXCEPT !.running = FALSE]
              IN  /\ Flags(D, E) /\ E.waiting = D.waiting /\ E.asked = D.asked
                  /\ E.running = FALSE /\ E.handler = D.handler /\ E.count = D.count
  <1>1. TRUE \in BOOLEAN /\ FALSE \in BOOLEAN OBVIOUS
  <1> DEFINE C == [D EXCEPT !.count = 0]
             E == [C EXCEPT !.waiting = TRUE, !.asked = TRUE]
  <1>2. C \in Shared /\ Same(D, C) /\ C.count = 0 /\ C.picture = D.picture
        /\ C.last = D.last /\ C.pending = D.pending
    BY CountSame DEF Same
  <1> HIDE DEF C
  <1>3. /\ Flags(C, E) /\ E.waiting = TRUE /\ E.asked = TRUE
        /\ E.running = C.running /\ E.handler = C.handler /\ E.count = C.count
    BY <1>1, <1>2, SomeFlags, Zenon
  <1> HIDE DEF E
  <1>4. /\ Flags(D, E) /\ E.waiting = TRUE /\ E.asked = TRUE
        /\ E.running = D.running /\ E.handler = D.handler /\ E.count = 0
    BY <1>2, <1>3, Zenon DEF Same, Flags
  <1>5. LET F == [D EXCEPT !.count = 0, !.waiting = TRUE, !.asked = TRUE]
        IN  /\ Flags(D, F) /\ F.waiting = TRUE /\ F.asked = TRUE
            /\ F.running = D.running /\ F.handler = D.handler /\ F.count = 0
    BY <1>4 DEF E, C
  <1> QED BY ONLY <1>1, <1>5, SomeFlags, D \in Shared, Zenon

LEMMA AskedParts ==
    ASSUME NEW D \in Shared, NEW a \in BOOLEAN, NEW E, E = [D EXCEPT !.asked = a]
    PROVE  /\ Flags(D, E) /\ E.waiting = D.waiting /\ E.asked = a
           /\ E.running = D.running /\ E.handler = D.handler /\ E.count = D.count
  <1>1. CASE a = TRUE BY <1>1 DEF Shared, Flags
  <1>2. CASE a = FALSE BY <1>2 DEF Shared, Flags
  <1> QED BY <1>1, <1>2

LEMMA HandlerParts ==
    ASSUME NEW D \in Shared, NEW h \in 0..MaxStarts
    PROVE  LET E == [D EXCEPT !.waiting = TRUE, !.handler = h]
           IN  Flags(D, E) /\ E.handler = h /\ E.count = D.count
  BY DEF Shared, Flags

-----------------------------------------------------------------------------
(* The network thread.                                                     *)

NetStep == FrameArrives \/ FeedRoom \/ FeedPurges \/ FeedAdds

\* What it leaves alone.
NetLeaves ==
    /\ UNCHANGED <<dec, posted, main, starts, errors>>
    /\ d'.running = d.running /\ d'.handler = d.handler /\ d'.codec = d.codec
    /\ d'.made = d.made /\ d'.picture = d.picture /\ d'.last = d.last

LEMMA FeedLeaves ==
    ASSUME TypeOK, NEW from, NEW to \in {"idle", "room", "purge", "purged", "open", "add", "added"},
           NEW D \in Shared, Feed(from, to, D),
           Same(d, D) \/ (Flags(d, D) /\ D.running = d.running /\ D.handler = d.handler),
           D.picture = d.picture, D.last = d.last
    PROVE  NetLeaves /\ net' \in Nets /\ d' \in Shared /\ sent' \in 0..MaxFrames
  <1>1. net \in Nets /\ sent \in 0..MaxFrames BY TypeOKParts DEF Types
  <1>2. net' \in Nets
    BY <1>1, FirstValues DEF Feed, Nets
  <1> QED BY <1>1, <1>2 DEF Feed, NetLeaves, Same, Flags

LEMMA NetLeavesAlone ==
    TypeOK /\ NetStep => NetLeaves /\ net' \in Nets /\ d' \in Shared /\ sent' \in 0..MaxFrames
  <1> SUFFICES ASSUME TypeOK, NetStep
               PROVE  NetLeaves /\ net' \in Nets /\ d' \in Shared /\ sent' \in 0..MaxFrames
    OBVIOUS
  <1>0. /\ d \in Shared /\ net \in Nets /\ sent \in 0..MaxFrames
        /\ d.pending \in Seq(Frames) /\ d.count \in Int /\ net.f \in Frames
    BY TypeOKParts DEF Types, Shared, Nets
  <1>1. CASE FrameArrives
    <2>1. PICK key \in BOOLEAN :
             /\ net' = IF d.running /\ (key \/ ~d.waiting)
                       THEN [at |-> "room", f |-> [n |-> sent + 1, key |-> key]] ELSE Idle
             /\ d' = [d EXCEPT !.asked = d.asked /\ ~key]
      BY <1>1 DEF FrameArrives
    <2>2. sent + 1 \in 0..MaxFrames BY <1>0, <1>1, DecoderAssumption DEF FrameArrives
    <2>3. [n |-> sent + 1, key |-> key] \in Frames BY <2>2 DEF Frames
    <2>4. net' \in Nets BY <2>1, <2>3, FirstValues DEF Nets
    <2> DEFINE b == d.asked /\ ~key
    <2>5. b \in BOOLEAN /\ d' = [d EXCEPT !.asked = b] BY <2>1
    <2> HIDE DEF b
    <2>6. Flags(d, d') /\ d'.running = d.running /\ d'.handler = d.handler
      BY <1>0, <2>5, AskedParts
    <2> QED BY <1>1, <2>2, <2>4, <2>6 DEF FrameArrives, NetLeaves, Flags
  <1>2. CASE FeedRoom
    <2>1. Same(d, d) BY <1>0 DEF Same
    <2> DEFINE E == [d EXCEPT !.waiting = TRUE, !.asked = TRUE]
    <2>2. Flags(d, E) /\ E.running = d.running /\ E.handler = d.handler BY <1>0, FlagParts
    <2>3. E \in Shared /\ E.picture = d.picture /\ E.last = d.last BY <2>2 DEF Flags
    <2>4. Feed("room", "open", d) \/ Feed("room", "purge", d) \/ Feed("room", "idle", E)
      BY <1>2 DEF FeedRoom
    <2> HIDE DEF E
    <2> QED BY <1>0, <2>1, <2>2, <2>3, <2>4, FeedLeaves
  <1>3. CASE FeedPurges
    <2>1. Same(d, d) BY <1>0 DEF Same
    <2>2. Same(d, Polled(d)) /\ Polled(d).picture = d.picture /\ Polled(d).last = d.last
          /\ Polled(d) \in Shared
      BY <1>0, PolledSame DEF Same
    <2> DEFINE E == [d EXCEPT !.count = d.count - 1]
    <2>3. Same(d, E) /\ E.picture = d.picture /\ E.last = d.last /\ E \in Shared
      BY <1>0, CountSame DEF Same
    <2>4. Feed("purge", "open", d) \/ Feed("purge", "purged", Polled(d))
          \/ Feed("purged", "purge", E)
      BY <1>3 DEF FeedPurges
    <2> HIDE DEF E
    <2> QED BY <1>0, <2>1, <2>2, <2>3, <2>4, FeedLeaves
  <1>4. CASE FeedAdds
    <2> DEFINE E == [d EXCEPT !.count = d.count + 1]
               F == [d EXCEPT !.pending = Append(d.pending, net.f)]
               G == [d EXCEPT !.waiting = FALSE]
    <2>1. Same(d, E) /\ E.picture = d.picture /\ E.last = d.last /\ E \in Shared
      BY <1>0, CountSame DEF Same
    <2>2. Append(d.pending, net.f) \in Seq(Frames) BY <1>0
    <2>3. Same(d, F) /\ F.picture = d.picture /\ F.last = d.last /\ F \in Shared
      BY <1>0, <2>2, PendingSame DEF Same
    <2>4. Flags(d, G) /\ G.running = d.running /\ G.handler = d.handler BY <1>0, FlagParts
    <2>5. G \in Shared /\ G.picture = d.picture /\ G.last = d.last BY <2>4 DEF Flags
    <2>6. Feed("open", "add", G) \/ Feed("add", "added", F) \/ Feed("added", "idle", E)
      BY <1>4 DEF FeedAdds
    <2> HIDE DEF E, F, G
    <2> QED BY <1>0, <2>1, <2>3, <2>4, <2>5, <2>6, FeedLeaves
  <1> QED BY <1>1, <1>2, <1>3, <1>4 DEF NetStep

LEMMA NetTypeOK == TypeOK /\ NetStep => TypeOK'
  <1> SUFFICES ASSUME TypeOK, NetStep PROVE TypeOK'
    OBVIOUS
  <1>1. NetLeaves /\ net' \in Nets /\ d' \in Shared /\ sent' \in 0..MaxFrames
    BY NetLeavesAlone
  <1>2. Types' BY <1>1, TypeOKParts DEF Types, NetLeaves
  <1>3. Quiet' BY <1>1, TypeOKParts DEF Quiet, NetLeaves
  <1> QED BY <1>2, <1>3, TypeOKParts DEF TypeOK, Types, Quiet, Nets, Mains, Queues

-----------------------------------------------------------------------------
(* The decoder threads.                                                    *)

\* A step of t that posts nothing and takes nothing posted.
ThreadStep(t, thread) ==
    /\ dec' = [dec EXCEPT ![t] = thread] /\ thread \in Thread
    /\ d' \in Shared /\ d'.codec <= d'.made /\ d'.handler = d.handler
    /\ d'.running => d.running
    /\ UNCHANGED <<net, posted, main, sent, starts>> /\ errors' \in 0..MaxErrors

LEMMA ThreadTypeOK ==
    ASSUME TypeOK, NEW t \in Threads, NEW thread, ThreadStep(t, thread) PROVE TypeOK'
  <1>1. Types' BY TypeOKParts DEF Types, ThreadStep
  <1>2. Quiet' BY TypeOKParts DEF Quiet, ThreadStep
  <1> QED BY <1>1, <1>2 DEF TypeOK, Types, Quiet, Nets, Mains, Queues

\* Something posted to t is taken.
TakeStep(t, job, thread) ==
    /\ Takes(t, job) /\ dec' = [dec EXCEPT ![t] = thread] /\ thread \in Thread
    /\ d' \in Shared /\ d'.codec <= d'.made /\ d'.handler = d.handler
    /\ d'.running = d.running
    /\ UNCHANGED <<net, main, sent, starts, errors>>

LEMMA TakesPosted ==
    ASSUME TypeOK, NEW t \in Threads, NEW job \in Jobs, Takes(t, job)
    PROVE  /\ posted' \in Queues
           /\ \A u \in Threads : \A j \in Jobs :
                 posted'[u][j] = IF u = t /\ j = job THEN posted[u][j] - 1 ELSE posted[u][j]
  <1>1. posted \in Queues BY TypeOKParts DEF Types
  <1>2. /\ posted[t][job] \in Nat /\ posted[t][job] > 0
        /\ posted' = [posted EXCEPT ![t] = [posted[t] EXCEPT ![job] = posted[t][job] - 1]]
    BY <1>1 DEF Takes, Queues
  <1>3. posted[t][job] - 1 \in Nat BY <1>2
  <1>4. posted[t] \in [Jobs -> Nat] BY <1>1 DEF Queues
  <1>5. [posted[t] EXCEPT ![job] = posted[t][job] - 1] \in [Jobs -> Nat] BY <1>3, <1>4
  <1>6. posted' \in Queues BY <1>1, <1>2, <1>5 DEF Queues
  <1> QED BY <1>1, <1>2, <1>4, <1>6 DEF Queues

LEMMA TakeTypeOK ==
    ASSUME TypeOK, NEW t \in Threads, NEW job \in Jobs, NEW thread, TakeStep(t, job, thread)
    PROVE  TypeOK'
  <1>1. /\ posted' \in Queues
        /\ \A u \in Threads : \A j \in Jobs :
              posted'[u][j] = IF u = t /\ j = job THEN posted[u][j] - 1 ELSE posted[u][j]
    BY TakesPosted DEF TakeStep
  <1>2. Types' BY <1>1, TypeOKParts DEF Types, TakeStep
  <1>3. \A u \in Threads : posted'[u]["create"] > 0 => posted[u]["create"] > 0
    <2>1. posted \in Queues BY TypeOKParts DEF Types
    <2>2. \A u \in Threads : posted[u]["create"] \in Nat BY <2>1 DEF Queues, Jobs
    <2> QED BY <1>1, <2>2 DEF Jobs
  <1>4. Quiet' BY <1>3, TypeOKParts DEF Quiet, TakeStep
  <1> QED BY <1>2, <1>4 DEF TypeOK, Types, Quiet, Nets, Mains, Queues

\* Something is posted, to a thread that may have been told to quit.
PostStep(t) ==
    /\ dec[t].at = "post" /\ dec' = [dec EXCEPT ![t] = Off]
    /\ posted' = [posted EXCEPT ![dec[t].to][dec[t].job] = @ + 1]
    /\ UNCHANGED <<d, net, main, sent, starts, errors>>

LEMMA PostPosted ==
    ASSUME TypeOK, NEW t \in Threads, PostStep(t)
    PROVE  /\ posted' \in Queues
           /\ \A u \in Threads : \A j \in Jobs :
                 posted'[u][j] = IF u = dec[t].to /\ j = dec[t].job
                                 THEN posted[u][j] + 1 ELSE posted[u][j]
  <1> DEFINE to == dec[t].to
             job == dec[t].job
  <1>1. posted \in Queues /\ job \in Jobs
    BY TypeOKParts DEF Types, Thread, Jobs
  <1>2. posted' = [posted EXCEPT ![to] = [posted[to] EXCEPT ![job] = posted[to][job] + 1]]
    BY DEF PostStep
  <1> HIDE DEF to, job
  <1>3. CASE to \in Threads
    <2>1. posted[to] \in [Jobs -> Nat] /\ posted[to][job] + 1 \in Nat
      BY <1>1, <1>3 DEF Queues
    <2>2. [posted[to] EXCEPT ![job] = posted[to][job] + 1] \in [Jobs -> Nat]
      BY <1>1, <2>1
    <2>3. posted' \in Queues BY <1>1, <1>2, <2>2 DEF Queues
    <2> QED BY <1>1, <1>2, <1>3, <2>1, <2>3 DEF Queues, to, job
  <1>4. CASE to \notin Threads
    <2>1. posted' = posted BY <1>1, <1>2, <1>4 DEF Queues
    <2> QED BY <1>1, <1>4, <2>1 DEF to
  <1> QED BY <1>3, <1>4

LEMMA PostTypeOK == ASSUME TypeOK, NEW t \in Threads, PostStep(t) PROVE TypeOK'
  <1>1. /\ posted' \in Queues
        /\ \A u \in Threads : \A j \in Jobs :
              posted'[u][j] = IF u = dec[t].to /\ j = dec[t].job
                              THEN posted[u][j] + 1 ELSE posted[u][j]
    BY PostPosted
  <1>2. dec[t].job # "create" BY TypeOKParts DEF Types, Thread
  <1>3. Types' BY <1>1, TypeOKParts, FirstValues DEF Types, PostStep
  <1>4. Quiet' BY <1>1, <1>2, TypeOKParts DEF Quiet, PostStep, Jobs
  <1> QED BY <1>3, <1>4 DEF TypeOK, Types, Quiet, Nets, Mains, Queues

\* What the actions come to.
LEMMA ThreadTypes ==
    ASSUME TypeOK, NEW t \in Threads
    PROVE  /\ d \in Shared /\ d.codec \in Nat /\ d.made \in Nat /\ d.codec <= d.made
           /\ d.pending \in Seq(Frames) /\ d.count \in Int /\ d.handler \in 0..MaxStarts
           /\ dec \in [Threads -> Thread] /\ dec[t] \in Thread /\ dec[t].f \in Frames
           /\ errors \in 0..MaxErrors
           /\ \A place \in Places : At(t, place) \in Thread
           /\ \A job \in {"loop", "again"} : Reads(job) \in Thread
           /\ Top(d.codec) \in Thread /\ Top(dec[t].c) \in Thread
  <1>1. d \in Shared /\ d.codec <= d.made /\ dec \in [Threads -> Thread]
        /\ errors \in 0..MaxErrors
    BY TypeOKParts DEF Types
  <1>2. dec[t] \in Thread BY <1>1
  <1>3. /\ d.codec \in Nat /\ d.made \in Nat /\ d.pending \in Seq(Frames) /\ d.count \in Int
        /\ d.handler \in 0..MaxStarts
    BY <1>1 DEF Shared
  <1>4. dec[t].f \in Frames /\ dec[t].c \in Nat BY <1>2 DEF Thread
  <1>5. \A place \in Places : At(t, place) \in Thread BY <1>2 DEF At, Thread
  <1>6. \A job \in {"loop", "again"} : Reads(job) \in Thread
    BY FirstValues DEF Reads, Thread, Places
  <1>7. \A c \in Nat : Top(c) \in Thread BY FirstValues DEF Top, Thread, Places
  <1> QED BY <1>1, <1>2, <1>3, <1>4, <1>5, <1>6, <1>7

LEMMA StepIsThreadStep ==
    ASSUME TypeOK, NEW t \in Threads, NEW from, NEW thread \in Thread, NEW D \in Shared,
           D.codec <= D.made, D.handler = d.handler, D.running => d.running,
           Step(t, from, thread, D)
    PROVE  ThreadStep(t, thread) /\ dec[t].at = from /\ d' = D
  BY ThreadTypes DEF Step, ThreadStep

LEMMA CreateShapes ==
    ASSUME TypeOK, NEW t \in Threads, CreateCodec(t)
    PROVE  \/ /\ \/ TakeStep(t, "create", At(t, "creating"))
                 \/ TakeStep(t, "again", At(t, "creating"))
              /\ d' = d
           \/ dec[t].at = "creating" /\ ThreadStep(t, Reads("loop")) /\ d' = Created
           \/ /\ dec[t].at = "creating" /\ ThreadStep(t, Off)
              /\ d' = [d EXCEPT !.running = FALSE]
  <1>1. CASE Creates(t)
    <2>1. At(t, "creating") \in Thread BY ThreadTypes DEF Places
    <2>2. dec' = [dec EXCEPT ![t] = At(t, "creating")]
      BY <1>1, ThreadTypes DEF Creates, At
    <2> QED BY <1>1, <2>1, <2>2, ThreadTypes DEF Creates, TakeStep
  <1>2. CASE Step(t, "creating", Reads("loop"), Created)
    <2>1. Reads("loop") \in Thread BY ThreadTypes
    <2>2. /\ Created \in Shared /\ Created.codec <= Created.made
          /\ Created.handler = d.handler /\ Created.running = d.running
      BY ThreadTypes, CreatedParts
    <2> QED BY <1>2, <2>1, <2>2, StepIsThreadStep
  <1>3. CASE Step(t, "creating", Off, [d EXCEPT !.running = FALSE])
    <2> DEFINE D == [d EXCEPT !.running = FALSE]
    <2>1. Flags(d, D) /\ D.running = FALSE /\ D.handler = d.handler
      BY ThreadTypes, FlagParts
    <2>2. D \in Shared /\ D.codec <= D.made BY <2>1, ThreadTypes DEF Flags
    <2> HIDE DEF D
    <2>3. ThreadStep(t, Off) /\ dec[t].at = "creating" /\ d' = D
      BY <1>3, <2>1, <2>2, FirstValues, StepIsThreadStep DEF D
    <2> QED BY <2>3 DEF D
  <1> QED BY <1>1, <1>2, <1>3 DEF CreateCodec

LEMMA RunsOutShapes ==
    ASSUME TypeOK, NEW t \in Threads, RunsOut(t)
    PROVE  /\ \/ TakeStep(t, "again", dec[t]) /\ ~d.running
              \/ TakeStep(t, "loop", dec[t]) /\ (~d.running \/ d.codec = 0)
           /\ d' = d
  <1>1. dec' = [dec EXCEPT ![t] = dec[t]] BY ThreadTypes DEF RunsOut
  <1> QED BY <1>1, ThreadTypes DEF RunsOut, TakeStep

LEMMA BeginsShape ==
    ASSUME TypeOK, NEW t \in Threads, LoopBegins(t)
    PROVE  /\ TakeStep(t, "loop", Top(d.codec)) /\ d.running /\ d.codec # 0 /\ Same(d, d')
           /\ d'.pending = d.pending /\ d'.count = d.count
           /\ (\E u \in Threads : InLoop(u)) => d'.picture = "lost"
           /\ ~(\E u \in Threads : InLoop(u)) => d' = d
  <1> DEFINE b == \E u \in Threads : InLoop(u)
  <1>1. b \in BOOLEAN /\ d' = Lost(b, d) BY DEF LoopBegins
  <1> HIDE DEF b
  <1>2. /\ Same(d, d') /\ d'.count = d.count /\ d'.pending = d.pending
        /\ b => d'.picture = "lost"
        /\ ~b => d' = d
    BY <1>1, ThreadTypes, LostSame
  <1>3. TakeStep(t, "loop", Top(d.codec))
    BY <1>2, ThreadTypes DEF LoopBegins, TakeStep, Same
  <1> QED BY <1>2, <1>3 DEF LoopBegins, b

LEMMA PeeksShapes ==
    ASSUME TypeOK, NEW t \in Threads, LoopPeeks(t)
    PROVE  /\ d' = d
           /\ \/ /\ d.pending # <<>> /\ dec[t].at = "top"
                 /\ ThreadStep(t, [At(t, "peeked") EXCEPT !.f = Head(d.pending)])
              \/ dec[t].at \in {"top", "peeked"} /\ ThreadStep(t, Reads("loop"))
  <1>1. Reads("loop") \in Thread /\ d \in Shared /\ d.codec <= d.made BY ThreadTypes
  <1>2. CASE d.pending # <<>> /\ Step(t, "top", [At(t, "peeked") EXCEPT !.f = Head(d.pending)], d)
    <2>1. At(t, "peeked") \in Thread BY ThreadTypes DEF Places
    <2>2. Head(d.pending) \in Frames BY <1>2, ThreadTypes
    <2>3. [At(t, "peeked") EXCEPT !.f = Head(d.pending)] \in Thread
      BY <2>1, <2>2 DEF Thread
    <2> QED BY <1>1, <1>2, <2>3, StepIsThreadStep
  <1>3. CASE Step(t, "top", Reads("loop"), d) \/ Step(t, "peeked", Reads("loop"), d)
    BY <1>1, <1>3, StepIsThreadStep
  <1> QED BY <1>2, <1>3 DEF LoopPeeks

LEMMA PollsShapes ==
    ASSUME TypeOK, NEW t \in Threads, LoopPolls(t)
    PROVE  \/ /\ dec[t].at = "peeked" /\ ThreadStep(t, At(t, "polled")) /\ Same(d, d')
              /\ d'.count = d.count
              /\ d'.pending = IF d.pending = <<>> THEN d.pending ELSE Tail(d.pending)
              /\ Misses(t) => d'.picture = "lost"
              /\ ~Misses(t) => d'.picture = d.picture /\ d'.last = d.last
           \/ /\ dec[t].at = "polled" /\ ThreadStep(t, At(t, "queue")) /\ Same(d, d')
              /\ d'.count = d.count - 1 /\ d'.pending = d.pending
              /\ d'.picture = d.picture /\ d'.last = d.last
  <1>1. CASE Step(t, "peeked", At(t, "polled"), Lost(Misses(t), Polled(d)))
    <2> DEFINE P == Polled(d)
               b == Misses(t)
               D == Lost(b, P)
    <2>1. /\ Same(d, P) /\ P.count = d.count /\ P.picture = d.picture /\ P.last = d.last
          /\ P.pending = IF d.pending = <<>> THEN d.pending ELSE Tail(d.pending)
      BY ThreadTypes, PolledSame
    <2>2. b \in BOOLEAN BY DEF Misses
    <2>3. P \in Shared BY <2>1 DEF Same
    <2> HIDE DEF P, b
    <2>4. /\ Same(P, D) /\ D.count = P.count /\ D.pending = P.pending
          /\ b => D.picture = "lost"
          /\ ~b => D = P
      BY <2>2, <2>3, LostSame
    <2>5. Step(t, "peeked", At(t, "polled"), D) BY <1>1 DEF b, P
    <2> HIDE DEF D
    <2>6. D \in Shared /\ D.codec <= D.made /\ D.handler = d.handler /\ D.running = d.running
          /\ Same(d, D)
      BY <2>1, <2>4, ThreadTypes DEF Same
    <2>7. At(t, "polled") \in Thread BY ThreadTypes DEF Places
    <2>8. ThreadStep(t, At(t, "polled")) /\ dec[t].at = "peeked" /\ d' = D
      BY <2>5, <2>6, <2>7, StepIsThreadStep
    <2> QED BY <2>1, <2>4, <2>6, <2>8 DEF b
  <1>2. CASE Step(t, "polled", At(t, "queue"), [d EXCEPT !.count = d.count - 1])
    <2> DEFINE D == [d EXCEPT !.count = d.count - 1]
    <2>1. d.count - 1 \in Int BY ThreadTypes
    <2>2. /\ Same(d, D) /\ D.count = d.count - 1 /\ D.picture = d.picture
          /\ D.last = d.last /\ D.pending = d.pending
      BY <2>1, ThreadTypes, CountSame
    <2>3. At(t, "queue") \in Thread BY ThreadTypes DEF Places
    <2>4. Step(t, "polled", At(t, "queue"), D) BY <1>2
    <2> HIDE DEF D
    <2>5. D \in Shared /\ D.codec <= D.made /\ D.handler = d.handler /\ D.running = d.running
      BY <2>2, ThreadTypes DEF Same
    <2> QED BY <2>2, <2>3, <2>4, <2>5, StepIsThreadStep
  <1> QED BY <1>1, <1>2 DEF LoopPolls

LEMMA QueuesShapes ==
    ASSUME TypeOK, NEW t \in Threads, LoopQueues(t)
    PROVE  /\ dec[t].at = "queue" /\ Same(d, d')
           /\ d'.count = d.count /\ d'.pending = d.pending
           /\ \/ ThreadStep(t, Top(dec[t].c)) /\ dec[t].c = d.codec /\ d' = Decoded(dec[t].f)
              \/ ThreadStep(t, Top(dec[t].c)) /\ dec[t].c # d.codec /\ d' = d
              \/ ThreadStep(t, Reads("loop")) /\ d'.picture = "lost"
  <1>1. Same(d, d) BY ThreadTypes DEF Same
  <1>2. CASE dec[t].c = d.codec /\ Step(t, "queue", Top(dec[t].c), Decoded(dec[t].f))
    <2> DEFINE D == Decoded(dec[t].f)
    <2>1. Same(d, D) /\ D.count = d.count /\ D.pending = d.pending
      BY ThreadTypes, DecodedSame
    <2> HIDE DEF D
    <2>2. D \in Shared /\ D.codec <= D.made /\ D.handler = d.handler /\ D.running = d.running
      BY <2>1, ThreadTypes DEF Same
    <2>3. Step(t, "queue", Top(dec[t].c), D) BY <1>2 DEF D
    <2>4. ThreadStep(t, Top(dec[t].c)) /\ dec[t].at = "queue" /\ d' = D
      BY <2>2, <2>3, ThreadTypes, StepIsThreadStep
    <2> QED BY <1>2, <2>1, <2>4 DEF D
  <1>3. CASE dec[t].c # d.codec /\ Step(t, "queue", Top(dec[t].c), d)
    BY <1>1, <1>3, ThreadTypes, StepIsThreadStep
  <1>4. CASE Step(t, "queue", Reads("loop"), Lost(TRUE, d))
    <2> DEFINE D == Lost(TRUE, d)
    <2>1. Same(d, D) /\ D.count = d.count /\ D.pending = d.pending /\ D.picture = "lost"
      BY ThreadTypes, LostSame
    <2> HIDE DEF D
    <2>2. D \in Shared /\ D.codec <= D.made /\ D.handler = d.handler /\ D.running = d.running
      BY <2>1, ThreadTypes DEF Same
    <2>3. Step(t, "queue", Reads("loop"), D) BY <1>4 DEF D
    <2>4. ThreadStep(t, Reads("loop")) /\ dec[t].at = "queue" /\ d' = D
      BY <2>2, <2>3, ThreadTypes, StepIsThreadStep
    <2> QED BY <2>1, <2>4
  <1> QED BY <1>2, <1>3, <1>4 DEF LoopQueues

LEMMA ThrowsShape ==
    ASSUME TypeOK, NEW t \in Threads, CodecThrows(t)
    PROVE  /\ dec[t].at \in {"top", "peeked", "queue"} /\ d' = d
           /\ ThreadStep(t, IF d.running THEN [Off EXCEPT !.at = "thrown"] ELSE Off)
  <1>1. [Off EXCEPT !.at = "thrown"] \in Thread /\ Off \in Thread
    BY FirstValues DEF Thread, Places
  <1>2. errors' \in 0..MaxErrors BY ThreadTypes, DecoderAssumption DEF CodecThrows
  <1> QED BY <1>1, <1>2, ThreadTypes DEF CodecThrows, ThreadStep

LEMMA RecreateShapes ==
    ASSUME TypeOK, NEW t \in Threads, Recreate(t)
    PROVE  \/ dec[t].at = "thrown" /\ ThreadStep(t, At(t, "nulled")) /\ d' = NoCodec
           \/ /\ dec[t].at = "nulled" /\ ThreadStep(t, At(t, "cleared")) /\ Same(d, d')
              /\ d'.pending = <<>> /\ d'.picture = d.picture
           \/ /\ dec[t].at = "cleared" /\ ThreadStep(t, Reads("again")) /\ Flags(d, d')
              /\ d'.count = 0 /\ d'.waiting = TRUE /\ d'.asked = TRUE
              /\ d'.running = d.running
  <1>1. CASE Step(t, "thrown", At(t, "nulled"), NoCodec)
    <2>1. NoCodec \in Shared /\ NoCodec.codec <= NoCodec.made
          /\ NoCodec.handler = d.handler /\ NoCodec.running = d.running
      BY ThreadTypes, NoCodecParts
    <2>2. At(t, "nulled") \in Thread BY ThreadTypes DEF Places
    <2> QED BY <1>1, <2>1, <2>2, StepIsThreadStep
  <1>2. CASE Step(t, "nulled", At(t, "cleared"), [d EXCEPT !.pending = <<>>])
    <2> DEFINE D == [d EXCEPT !.pending = <<>>]
    <2>1. <<>> \in Seq(Frames) OBVIOUS
    <2>2. Same(d, D) /\ D.pending = <<>> /\ D.picture = d.picture
      BY <2>1, ThreadTypes, PendingSame
    <2>3. Step(t, "nulled", At(t, "cleared"), D) BY <1>2
    <2> HIDE DEF D
    <2>4. D \in Shared /\ D.codec <= D.made /\ D.handler = d.handler /\ D.running = d.running
      BY <2>2, ThreadTypes DEF Same
    <2>5. At(t, "cleared") \in Thread BY ThreadTypes DEF Places
    <2> QED BY <2>2, <2>3, <2>4, <2>5, StepIsThreadStep
  <1>3. CASE Step(t, "cleared", Reads("again"),
                  [d EXCEPT !.count = 0, !.waiting = TRUE, !.asked = TRUE])
    <2> DEFINE D == [d EXCEPT !.count = 0, !.waiting = TRUE, !.asked = TRUE]
    <2>1. /\ Flags(d, D) /\ D.waiting = TRUE /\ D.asked = TRUE /\ D.count = 0
          /\ D.running = d.running /\ D.handler = d.handler
      BY ThreadTypes, FlagParts
    <2>2. Step(t, "cleared", Reads("again"), D) BY <1>3
    <2> HIDE DEF D
    <2>3. D \in Shared /\ D.codec <= D.made BY <2>1, ThreadTypes DEF Flags
    <2> QED BY <2>1, <2>2, <2>3, ThreadTypes, StepIsThreadStep
  <1> QED BY <1>1, <1>2, <1>3 DEF Recreate

LEMMA PostsShapes ==
    ASSUME TypeOK, NEW t \in Threads, Posts(t)
    PROVE  /\ d' = d
           /\ \/ dec[t].at = "read" /\ d.handler = 0 /\ ThreadStep(t, Off)
              \/ /\ dec[t].at = "read" /\ d.handler # 0
                 /\ ThreadStep(t, [dec[t] EXCEPT !.at = "post", !.to = d.handler])
              \/ PostStep(t)
  <1>1. [dec[t] EXCEPT !.at = "post", !.to = d.handler] \in Thread
    <2>1. At(t, "post") \in Thread BY ThreadTypes DEF Places
    <2>2. [At(t, "post") EXCEPT !.to = d.handler] \in Thread
      BY <2>1, ThreadTypes DEF Thread
    <2> QED BY <2>2 DEF At
  <1> QED BY <1>1, ThreadTypes, FirstValues, StepIsThreadStep DEF Posts, PostStep

LEMMA DecTypeOK == ASSUME TypeOK, NEW t \in Threads, DecStep(t) PROVE TypeOK'
  <1>1. ASSUME NEW thread, ThreadStep(t, thread) PROVE TypeOK' BY <1>1, ThreadTypeOK
  <1>2. ASSUME NEW job \in Jobs, NEW thread, TakeStep(t, job, thread) PROVE TypeOK'
    BY <1>2, TakeTypeOK
  <1>3. {"create", "again", "loop"} \subseteq Jobs BY DEF Jobs
  <1>4. CASE CreateCodec(t) BY <1>1, <1>2, <1>3, <1>4, CreateShapes
  <1>5. CASE RunsOut(t) BY <1>2, <1>3, <1>5, RunsOutShapes
  <1>6. CASE LoopBegins(t) BY <1>2, <1>3, <1>6, BeginsShape
  <1>7. CASE LoopPeeks(t) BY <1>1, <1>7, PeeksShapes
  <1>8. CASE LoopPolls(t) BY <1>1, <1>8, PollsShapes
  <1>9. CASE LoopQueues(t) BY <1>1, <1>9, QueuesShapes
  <1>10. CASE CodecThrows(t) BY <1>1, <1>10, ThrowsShape
  <1>11. CASE Recreate(t) BY <1>1, <1>11, RecreateShapes
  <1>12. CASE Posts(t) BY <1>1, <1>12, PostsShapes, PostTypeOK
  <1> QED BY <1>4, <1>5, <1>6, <1>7, <1>8, <1>9, <1>10, <1>11, <1>12 DEF DecStep

-----------------------------------------------------------------------------
(* The main thread.                                                        *)

MainStep == Stop \/ StopClears \/ Start \/ StartAsks

Removed == [t \in Threads |-> IF t = d.handler THEN [j \in Jobs |-> 0] ELSE posted[t]]

MainStops ==
    /\ main \in {"idle", "stopped"} /\ main' = "stop" /\ d' = Stopped
    /\ posted' = Removed /\ starts' = starts
MainClears ==
    /\ Same(d, d') /\ d'.picture = d.picture /\ posted' = posted /\ starts' = starts
    /\ \/ main = "stop" /\ main' = "clear" /\ d'.pending = <<>>
       \/ main = "clear" /\ main' = "stopped" /\ d'.count = 0 /\ d'.pending = d.pending
MainBegins ==
    /\ main = "stopped" /\ main' = "begun" /\ Flags(d, d') /\ posted' = posted
    /\ d'.handler = d.handler /\ d'.count = d.count /\ starts' = starts
MainStarts ==
    /\ main = "begun" /\ main' = "started" /\ Flags(d, d')
    /\ starts + 1 \in Threads /\ starts' = starts + 1
    /\ d'.handler = starts + 1 /\ d'.count = d.count
    /\ posted' = [posted EXCEPT ![starts + 1]["create"] = 1]
MainAsks ==
    /\ main = "started" /\ main' = "idle" /\ Flags(d, d') /\ posted' = posted
    /\ d'.handler = d.handler /\ d'.count = d.count /\ d'.running = d.running
    /\ d'.asked = TRUE /\ starts' = starts

LEMMA MainShapes ==
    TypeOK /\ MainStep =>
        /\ UNCHANGED <<net, dec, sent, errors>>
        /\ MainStops \/ MainClears \/ MainBegins \/ MainStarts \/ MainAsks
  <1> SUFFICES ASSUME TypeOK, MainStep
               PROVE  /\ UNCHANGED <<net, dec, sent, errors>>
                      /\ MainStops \/ MainClears \/ MainBegins \/ MainStarts \/ MainAsks
    OBVIOUS
  <1>0. d \in Shared /\ starts \in 0..MaxStarts BY TypeOKParts DEF Types
  <1>1. UNCHANGED <<net, dec, sent, errors>>
    BY DEF MainStep, Stop, StopClears, Start, StartAsks, Main
  <1>2. CASE Stop BY <1>1, <1>2 DEF Stop, Main, MainStops, Removed
  <1>3. CASE StopClears
    <2>1. <<>> \in Seq(Frames) /\ 0 \in Int OBVIOUS
    <2> DEFINE D == [d EXCEPT !.pending = <<>>]
               E == [d EXCEPT !.count = 0]
    <2>2. Same(d, D) /\ D.pending = <<>> /\ D.picture = d.picture
      BY <1>0, <2>1, PendingSame
    <2>3. Same(d, E) /\ E.count = 0 /\ E.pending = d.pending /\ E.picture = d.picture
      BY <1>0, <2>1, CountSame
    <2>4. /\ Main("stop", "clear", D) \/ Main("clear", "stopped", E)
          /\ UNCHANGED <<posted, starts>>
      BY <1>3 DEF StopClears
    <2> HIDE DEF D, E
    <2> QED BY <1>1, <2>2, <2>3, <2>4 DEF Main, MainClears
  <1>4. CASE Start
    <2> DEFINE D == [d EXCEPT !.running = TRUE]
               E == [d EXCEPT !.waiting = TRUE, !.handler = starts + 1]
    <2>1. starts + 1 \in Threads /\ starts + 1 \in 0..MaxStarts
      BY <1>0, <1>4, DecoderAssumption DEF Start, Threads
    <2>2. Flags(d, D) /\ D.handler = d.handler /\ D.count = d.count BY <1>0, FlagParts
    <2>3. Flags(d, E) /\ E.handler = starts + 1 /\ E.count = d.count
      BY <1>0, <2>1, HandlerParts
    <2>4. \/ Main("stopped", "begun", D) /\ UNCHANGED <<posted, starts>>
          \/ /\ Main("begun", "started", E) /\ starts' = starts + 1
             /\ posted' = [posted EXCEPT ![starts + 1]["create"] = 1]
      BY <1>4 DEF Start
    <2> HIDE DEF D, E
    <2> QED BY <1>1, <2>1, <2>2, <2>3, <2>4 DEF Main, MainBegins, MainStarts
  <1>5. CASE StartAsks
    <2> DEFINE D == [d EXCEPT !.asked = TRUE]
    <2>1. /\ Flags(d, D) /\ D.handler = d.handler /\ D.count = d.count /\ D.asked = TRUE
          /\ D.running = d.running
      BY <1>0, FlagParts
    <2>2. Main("started", "idle", D) /\ UNCHANGED <<posted, starts>> BY <1>5 DEF StartAsks
    <2> HIDE DEF D
    <2> QED BY <1>1, <2>1, <2>2 DEF Main, MainAsks
  <1> QED BY <1>2, <1>3, <1>4, <1>5 DEF MainStep

LEMMA MainPosted ==
    ASSUME TypeOK
    PROVE  /\ posted \in Queues
           /\ MainStops => posted' \in Queues
           /\ MainStarts =>
                 /\ posted' \in Queues /\ posted'[starts + 1]["create"] = 1
                 /\ \A u \in Threads : u # starts + 1 => posted'[u] = posted[u]
  <1>1. posted \in Queues BY TypeOKParts DEF Types
  <1>2. ASSUME MainStops PROVE posted' \in Queues
    <2>1. [j \in Jobs |-> 0] \in [Jobs -> Nat] OBVIOUS
    <2>2. Removed \in Queues BY <1>1, <2>1 DEF Removed, Queues
    <2> QED BY <1>2, <2>2 DEF MainStops
  <1>3. ASSUME MainStarts
        PROVE  /\ posted' \in Queues /\ posted'[starts + 1]["create"] = 1
               /\ \A u \in Threads : u # starts + 1 => posted'[u] = posted[u]
    <2> DEFINE h == starts + 1
               q == [posted[h] EXCEPT !["create"] = 1]
    <2>1. h \in Threads /\ posted' = [posted EXCEPT ![h] = q] BY <1>3 DEF MainStarts
    <2>2. q \in [Jobs -> Nat] /\ q["create"] = 1
      <3>1. posted[h] \in [Jobs -> Nat] BY <1>1, <2>1 DEF Queues
      <3> QED BY <3>1 DEF Jobs
    <2> HIDE DEF h, q
    <2>3. posted' \in Queues /\ posted'[h] = q /\ \A u \in Threads : u # h => posted'[u] = posted[u]
      BY <1>1, <2>1, <2>2 DEF Queues
    <2> QED BY <2>2, <2>3 DEF h
  <1> QED BY <1>1, <1>2, <1>3

LEMMA MainTypeOK == TypeOK /\ MainStep => TypeOK'
  <1> SUFFICES ASSUME TypeOK, MainStep PROVE TypeOK'
    OBVIOUS
  <1>0. /\ d \in Shared /\ d.codec <= d.made /\ Types /\ Quiet
        /\ UNCHANGED <<net, dec, sent, errors>>
    BY TypeOKParts, MainShapes DEF Types
  <1>1. CASE MainStops
    <2>1. d' \in Shared /\ d'.codec <= d'.made /\ d'.running = FALSE /\ d'.handler = 0
      <3>1. /\ Stopped \in Shared /\ Stopped.codec = 0 /\ Stopped.made = d.made
            /\ Stopped.running = FALSE /\ Stopped.handler = 0
        BY <1>0, StoppedParts, Zenon
      <3>2. d.made \in Nat /\ d' = Stopped BY <1>0, <1>1 DEF Shared, MainStops
      <3>3. Stopped.codec <= Stopped.made BY <3>1, <3>2
      <3> QED BY ONLY <3>1, <3>2, <3>3, Zenon
    <2>2. Types' BY <1>0, <1>1, <2>1, MainPosted DEF Types, MainStops, Mains
    <2>3. \A t \in Threads : ~(posted'[t]["create"] > 0)
      BY <1>0, <1>1 DEF MainStops, Removed, Quiet, Jobs
    <2>4. Quiet' BY <2>1, <2>3 DEF Quiet
    <2> QED BY <2>2, <2>4 DEF TypeOK, Types, Quiet, Nets, Mains, Queues
  <1>2. CASE MainClears
    <2>1. Types' BY <1>0, <1>2 DEF Types, MainClears, Mains, Same
    <2>2. Quiet' BY <1>0, <1>2 DEF Quiet, MainClears, Same
    <2> QED BY <2>1, <2>2 DEF TypeOK, Types, Quiet, Nets, Mains, Queues
  <1>3. CASE MainBegins \/ MainAsks
    <2>1. Types' BY <1>0, <1>3 DEF Types, MainBegins, MainAsks, Mains, Flags
    <2>2. Quiet' BY <1>0, <1>3 DEF Quiet, MainBegins, MainAsks, Flags
    <2> QED BY <2>1, <2>2 DEF TypeOK, Types, Quiet, Nets, Mains, Queues
  <1>4. CASE MainStarts
    <2>1. /\ posted' \in Queues
          /\ \A u \in Threads : u # starts + 1 => posted'[u] = posted[u]
      BY <1>4, MainPosted
    <2>2. starts' \in 0..MaxStarts BY <1>0, <1>4, FirstValues DEF MainStarts
    <2>3. Types' BY <1>0, <1>4, <2>1, <2>2 DEF Types, MainStarts, Mains, Flags
    <2>4. \A u \in Threads : ~(posted[u]["create"] > 0)
      BY <1>0, <1>4, FirstValues DEF Quiet, MainStarts
    <2>5. Quiet' BY <1>0, <1>4, <2>1, <2>4 DEF Quiet, MainStarts
    <2> QED BY <2>3, <2>5 DEF TypeOK, Types, Quiet, Nets, Mains, Queues
  <1> QED BY <1>1, <1>2, <1>3, <1>4, MainShapes

LEMMA InitTypeOK == Init => TypeOK
  <1> SUFFICES ASSUME Init PROVE TypeOK
    OBVIOUS
  <1>1. <<>> \in Seq(Frames) OBVIOUS
  <1>2. d \in Shared /\ d.codec <= d.made /\ d.handler = 0 /\ d.running = FALSE
    BY <1>1, FirstValues DEF Init, Shared
  <1>3. dec \in [Threads -> Thread] BY FirstValues DEF Init
  <1>4. posted \in Queues BY DEF Init, Queues
  <1>5. Types
    BY <1>2, <1>3, <1>4, FirstValues, DecoderAssumption DEF Init, Types, Mains
  <1>6. \A t \in Threads : posted[t]["create"] = 0 BY DEF Init, Jobs
  <1>7. Quiet BY <1>2, <1>6 DEF Quiet
  <1> QED BY <1>5, <1>7, TypeOKParts

LEMMA NextSteps == Next <=> NetStep \/ (\E t \in Threads : DecStep(t)) \/ MainStep
  BY DEF Next, NetStep, MainStep

LEMMA NextTypeOK == TypeOK /\ [Next]_vars => TypeOK'
  <1> SUFFICES ASSUME TypeOK, [Next]_vars PROVE TypeOK'
    OBVIOUS
  <1>1. CASE NetStep BY <1>1, NetTypeOK
  <1>2. CASE \E t \in Threads : DecStep(t) BY <1>2, DecTypeOK
  <1>3. CASE MainStep BY <1>3, MainTypeOK
  <1>4. CASE UNCHANGED vars BY <1>4 DEF vars, TypeOK, Shared
  <1> QED BY <1>1, <1>2, <1>3, <1>4, NextSteps

\* The types, that a stopped decoder has no handler, and that the first
\* createCodec of a start waits on the handler that start() made: stop() leaves
\* nothing posted that a later start would run into.
THEOREM DecoderTypes == Spec => []TypeOK
  BY InitTypeOK, NextTypeOK, PTL DEF Spec

-----------------------------------------------------------------------------
(* The loop.                                                               *)

\* What a thread does for the codec, and for the loop, of the handler h.
MakesCodec(thread, t, h) ==
    \/ t = h /\ thread.at = "creating"
    \/ thread.at \in {"nulled", "cleared"}
    \/ thread.job = "again" /\ (thread.at = "read" \/ (thread.at = "post" /\ thread.to = h))
MakesLoop(thread, t, h) ==
    \/ t = h /\ thread.at \in {"top", "peeked", "polled", "queue"}
    \/ thread.at = "thrown"
    \/ thread.job = "loop" /\ (thread.at = "read" \/ (thread.at = "post" /\ thread.to = h))

CodecMade(h) ==
    \/ posted[h]["create"] > 0 \/ posted[h]["again"] > 0
    \/ \E t \in Threads : MakesCodec(dec[t], t, h)
LoopMade(h) ==
    \/ posted[h]["loop"] > 0
    \/ \E t \in Threads : MakesLoop(dec[t], t, h)
Alive == d.running /\ d.handler # 0 =>
            CodecMade(d.handler) \/ (d.codec # 0 /\ LoopMade(d.handler))

LEMMA AliveIsLoopAlive == TypeOK => (Alive <=> LoopAlive)
  <1> SUFFICES ASSUME TypeOK PROVE Alive <=> LoopAlive
    OBVIOUS
  <1>1. d.handler # 0 => d.handler \in Threads
    BY TypeOKParts, FirstValues DEF Types, Shared
  <1>2. ASSUME NEW h \in Threads
        PROVE  (CodecMade(h) <=> CodecComing(h)) /\ (LoopMade(h) <=> LoopComing(h))
    BY DEF CodecMade, CodecComing, LoopMade, LoopComing, MakesCodec, MakesLoop, InLoop
  <1> QED BY <1>1, <1>2 DEF Alive, LoopAlive

\* A step of t without anything posted: it now makes what is needed, or what it
\* made before.
LEMMA ThreadAlive ==
    ASSUME TypeOK, Alive, NEW t \in Threads, NEW thread, ThreadStep(t, thread),
           d'.running =>
              LET h == d.handler
              IN  \/ MakesCodec(thread, t, h)
                  \/ d'.codec # 0 /\ MakesLoop(thread, t, h)
                  \/ /\ ~MakesCodec(dec[t], t, h) /\ (d.codec # 0 => d'.codec # 0)
                     /\ MakesLoop(dec[t], t, h) => MakesLoop(thread, t, h)
    PROVE  Alive'
  <1> SUFFICES ASSUME d'.running, d'.handler # 0
               PROVE  CodecMade(d.handler)' \/ (d'.codec # 0 /\ LoopMade(d.handler)')
    BY DEF Alive, ThreadStep
  <1> DEFINE h == d.handler
  <1>1. d.running /\ h # 0 /\ posted' = posted BY DEF ThreadStep
  <1>2. dec \in [Threads -> Thread] BY TypeOKParts DEF Types
  <1>3. dec'[t] = thread /\ \A u \in Threads : u # t => dec'[u] = dec[u]
    BY <1>2 DEF ThreadStep
  <1>4. h' = h BY DEF ThreadStep
  <1>5. CASE MakesCodec(thread, t, h) BY <1>3, <1>4, <1>5 DEF CodecMade
  <1>6. CASE d'.codec # 0 /\ MakesLoop(thread, t, h) BY <1>3, <1>4, <1>6 DEF LoopMade
  <1>7. CASE /\ ~MakesCodec(dec[t], t, h) /\ (d.codec # 0 => d'.codec # 0)
             /\ MakesLoop(dec[t], t, h) => MakesLoop(thread, t, h)
    <2>1. CodecMade(h) => CodecMade(d.handler)' BY <1>1, <1>3, <1>4, <1>7 DEF CodecMade
    <2>2. LoopMade(h) => LoopMade(d.handler)' BY <1>1, <1>3, <1>4, <1>7 DEF LoopMade
    <2> QED BY <1>1, <1>7, <2>1, <2>2 DEF Alive
  <1> QED BY <1>5, <1>6, <1>7

\* Something posted to t is taken, by a t that makes nothing before.
LEMMA TakeAlive ==
    ASSUME TypeOK, Alive, NEW t \in Threads, NEW job \in Jobs, NEW thread,
           TakeStep(t, job, thread), d'.codec = d.codec,
           d.running /\ t = d.handler =>
              \/ MakesCodec(thread, t, t)
              \/ d.codec # 0 /\ MakesLoop(thread, t, t)
              \/ d.codec = 0 /\ job = "loop"
    PROVE  Alive'
  <1> SUFFICES ASSUME d.running, d.handler # 0
               PROVE  CodecMade(d.handler)' \/ (d'.codec # 0 /\ LoopMade(d.handler)')
    BY DEF Alive, TakeStep
  <1> DEFINE h == d.handler
  <1>1. h' = h BY DEF TakeStep
  <1>2. dec \in [Threads -> Thread] /\ h \in Threads
    BY TypeOKParts, FirstValues DEF Types, Shared
  <1>3. dec'[t] = thread /\ \A u \in Threads : u # t => dec'[u] = dec[u]
    BY <1>2 DEF TakeStep
  <1>4. dec[t].at = "off" BY DEF TakeStep, Takes
  <1>5. ~MakesCodec(dec[t], t, h) /\ ~MakesLoop(dec[t], t, h)
    BY <1>4 DEF MakesCodec, MakesLoop
  <1>6. \A u \in Threads : \A j \in Jobs :
           posted'[u][j] = IF u = t /\ j = job THEN posted[u][j] - 1 ELSE posted[u][j]
    BY TakesPosted DEF TakeStep
  <1>7. CASE t # h
    <2>1. \A j \in Jobs : posted'[h][j] = posted[h][j] BY <1>2, <1>6, <1>7
    <2>2. CodecMade(h) => CodecMade(d.handler)'
      BY <1>1, <1>3, <1>5, <2>1 DEF CodecMade, Jobs
    <2>3. LoopMade(h) => LoopMade(d.handler)'
      BY <1>1, <1>3, <1>5, <2>1 DEF LoopMade, Jobs
    <2> QED BY <2>2, <2>3 DEF Alive
  <1>8. CASE t = h /\ MakesCodec(thread, t, t) BY <1>1, <1>3, <1>8 DEF CodecMade
  <1>9. CASE t = h /\ d.codec # 0 /\ MakesLoop(thread, t, t) BY <1>1, <1>3, <1>9 DEF LoopMade
  <1>10. CASE d.codec = 0 /\ job = "loop"
    <2>1. CodecMade(h) BY <1>10 DEF Alive
    <2>2. posted'[h]["create"] = posted[h]["create"] /\ posted'[h]["again"] = posted[h]["again"]
      BY <1>2, <1>6, <1>10 DEF Jobs
    <2> QED BY <1>1, <1>3, <1>5, <2>1, <2>2 DEF CodecMade
  <1> QED BY <1>7, <1>8, <1>9, <1>10

LEMMA PostAlive == ASSUME TypeOK, Alive, NEW t \in Threads, PostStep(t) PROVE Alive'
  <1> SUFFICES ASSUME d.running, d.handler # 0
               PROVE  CodecMade(d.handler)' \/ (d'.codec # 0 /\ LoopMade(d.handler)')
    BY DEF Alive, PostStep
  <1> DEFINE h == d.handler
  <1>1. d' = d BY DEF PostStep
  <1>2. dec \in [Threads -> Thread] /\ h \in Threads
    BY TypeOKParts, FirstValues DEF Types, Shared
  <1>3. \A u \in Threads : u # t => dec'[u] = dec[u] BY <1>2 DEF PostStep
  <1>4. dec[t].at = "post" /\ dec[t].job \in {"loop", "again"}
    BY <1>2 DEF PostStep, Thread
  <1>5. posted \in Queues /\ posted' \in Queues
        /\ \A u \in Threads : \A j \in Jobs :
              posted'[u][j] = IF u = dec[t].to /\ j = dec[t].job
                              THEN posted[u][j] + 1 ELSE posted[u][j]
    BY PostPosted, TypeOKParts DEF Types
  <1>6. \A j \in Jobs : posted[h][j] \in Nat /\ (posted[h][j] > 0 => posted'[h][j] > 0)
    BY <1>2, <1>5 DEF Queues
  <1>7. dec[t].to = h => posted'[h][dec[t].job] > 0
    BY <1>2, <1>4, <1>5, <1>6 DEF Jobs
  <1>8. CodecMade(h) => CodecMade(d.handler)'
    BY <1>1, <1>3, <1>4, <1>6, <1>7 DEF CodecMade, MakesCodec, Jobs
  <1>9. LoopMade(h) => LoopMade(d.handler)'
    BY <1>1, <1>3, <1>4, <1>6, <1>7 DEF LoopMade, MakesLoop, Jobs
  <1> QED BY <1>1, <1>8, <1>9 DEF Alive

LEMMA DecAlive == ASSUME TypeOK, Alive, NEW t \in Threads, DecStep(t) PROVE Alive'
  <1> DEFINE h == d.handler
  <1>0. dec[t] \in Thread /\ {"create", "again", "loop"} \subseteq Jobs
    BY ThreadTypes DEF Jobs
  <1>1. CASE CreateCodec(t)
    <2>1. ASSUME NEW job \in Jobs, TakeStep(t, job, At(t, "creating")), d' = d PROVE Alive'
      <3>1. MakesCodec(At(t, "creating"), t, t) BY <1>0 DEF MakesCodec, At, Thread
      <3> QED BY <2>1, <3>1, TakeAlive
    <2>2. ASSUME ThreadStep(t, Reads("loop")), d' = Created PROVE Alive'
      <3>1. d'.codec # 0 BY <2>2, ThreadTypes, CreatedParts
      <3>2. MakesLoop(Reads("loop"), t, h) BY DEF MakesLoop, Reads, Off
      <3> QED BY <2>2, <3>1, <3>2, ThreadAlive
    <2>3. ASSUME d' = [d EXCEPT !.running = FALSE] PROVE Alive'
      <3>1. d'.running = FALSE BY <2>3, ThreadTypes DEF Shared
      <3> QED BY <3>1 DEF Alive
    <2> QED BY <1>0, <1>1, <2>1, <2>2, <2>3, CreateShapes
  <1>2. CASE RunsOut(t)
    <2>1. ASSUME ~d.running, d' = d PROVE Alive' BY <2>1 DEF Alive
    <2>2. ASSUME TakeStep(t, "loop", dec[t]), d.codec = 0, d' = d PROVE Alive'
      BY <1>0, <2>2, TakeAlive
    <2> QED BY <1>2, <2>1, <2>2, RunsOutShapes
  <1>3. CASE LoopBegins(t)
    <2>1. TakeStep(t, "loop", Top(d.codec)) /\ d.codec # 0 /\ d'.codec = d.codec
      BY <1>3, BeginsShape DEF Same
    <2>2. MakesLoop(Top(d.codec), t, t) BY DEF MakesLoop, Top, Off
    <2> QED BY <1>0, <2>1, <2>2, TakeAlive
  <1>4. CASE LoopPeeks(t)
    <2>1. d' = d /\ dec[t].at \in {"top", "peeked"} BY <1>4, PeeksShapes
    <2>2. ~MakesCodec(dec[t], t, h) BY <2>1 DEF MakesCodec
    <2>3. MakesLoop(Reads("loop"), t, h) BY DEF MakesLoop, Reads, Off
    <2>4. MakesLoop(dec[t], t, h) =>
             MakesLoop([At(t, "peeked") EXCEPT !.f = Head(d.pending)], t, h)
      BY <1>0, <2>1 DEF MakesLoop, At, Thread
    <2> QED BY <1>4, <2>1, <2>2, <2>3, <2>4, PeeksShapes, ThreadAlive
  <1>5. CASE LoopPolls(t)
    <2>1. d'.codec = d.codec /\ dec[t].at \in {"peeked", "polled"}
      BY <1>5, PollsShapes DEF Same
    <2>2. ~MakesCodec(dec[t], t, h) BY <2>1 DEF MakesCodec
    <2>3. MakesLoop(dec[t], t, h) =>
             MakesLoop(At(t, "polled"), t, h) /\ MakesLoop(At(t, "queue"), t, h)
      BY <1>0, <2>1 DEF MakesLoop, At, Thread
    <2> QED BY <1>5, <2>1, <2>2, <2>3, PollsShapes, ThreadAlive
  <1>6. CASE LoopQueues(t)
    <2>1. d'.codec = d.codec /\ dec[t].at = "queue" BY <1>6, QueuesShapes DEF Same
    <2>2. ~MakesCodec(dec[t], t, h) BY <2>1 DEF MakesCodec
    <2>3. MakesLoop(Reads("loop"), t, h) BY DEF MakesLoop, Reads, Off
    <2>4. MakesLoop(dec[t], t, h) => MakesLoop(Top(dec[t].c), t, h)
      BY <2>1 DEF MakesLoop, Top, Off
    <2> QED BY <1>6, <2>1, <2>2, <2>3, <2>4, QueuesShapes, ThreadAlive
  <1>7. CASE CodecThrows(t)
    <2>1. /\ dec[t].at \in {"top", "peeked", "queue"} /\ d' = d
          /\ ThreadStep(t, IF d.running THEN [Off EXCEPT !.at = "thrown"] ELSE Off)
      BY <1>7, ThrowsShape
    <2>2. ~MakesCodec(dec[t], t, h) BY <2>1 DEF MakesCodec
    <2>3. MakesLoop([Off EXCEPT !.at = "thrown"], t, h) BY DEF MakesLoop, Off
    <2> QED BY <2>1, <2>2, <2>3, ThreadAlive
  <1>8. CASE Recreate(t)
    <2>1. MakesCodec(At(t, "nulled"), t, h) /\ MakesCodec(At(t, "cleared"), t, h)
      BY <1>0 DEF MakesCodec, At, Thread
    <2>2. MakesCodec(Reads("again"), t, h) BY DEF MakesCodec, Reads, Off
    <2> QED BY <1>8, <2>1, <2>2, RecreateShapes, ThreadAlive
  <1>9. CASE Posts(t)
    <2>1. CASE dec[t].at = "read" /\ d.handler = 0 /\ d' = d BY <2>1 DEF Alive
    <2>2. CASE /\ dec[t].at = "read" /\ d.handler # 0 /\ d' = d
               /\ ThreadStep(t, [dec[t] EXCEPT !.at = "post", !.to = d.handler])
      <3> DEFINE thread == [dec[t] EXCEPT !.at = "post", !.to = d.handler]
      <3>1. thread.at = "post" /\ thread.to = h /\ thread.job = dec[t].job
            /\ dec[t].job \in {"loop", "again"}
        BY <1>0 DEF Thread
      <3>2. CASE dec[t].job = "again"
        <4>1. MakesCodec(thread, t, h) BY <3>1, <3>2 DEF MakesCodec
        <4> QED BY <2>2, <4>1, ThreadAlive
      <3>3. CASE dec[t].job = "loop"
        <4>1. ~MakesCodec(dec[t], t, h) BY <2>2, <3>3 DEF MakesCodec
        <4>2. MakesLoop(thread, t, h) BY <3>1, <3>3 DEF MakesLoop
        <4> QED BY <2>2, <4>1, <4>2, ThreadAlive
      <3> QED BY <3>1, <3>2, <3>3
    <2> QED BY <1>9, <2>1, <2>2, PostsShapes, PostAlive
  <1> QED BY <1>1, <1>2, <1>3, <1>4, <1>5, <1>6, <1>7, <1>8, <1>9 DEF DecStep

LEMMA NextAlive == TypeOK /\ Alive /\ [Next]_vars => Alive'
  <1> SUFFICES ASSUME TypeOK, Alive, [Next]_vars PROVE Alive'
    OBVIOUS
  <1>1. CASE NetStep
    BY <1>1, NetLeavesAlone DEF NetLeaves, Alive, CodecMade, LoopMade
  <1>2. CASE \E t \in Threads : DecStep(t) BY <1>2, DecAlive
  <1>3. CASE MainStep
    <2>1. dec' = dec BY <1>3, MainShapes
    <2>2. CASE MainStops
      <3>1. d'.running = FALSE BY <2>2, StoppedParts, TypeOKParts DEF MainStops, Types
      <3> QED BY <3>1 DEF Alive
    <2>3. CASE MainClears
      BY <2>1, <2>3 DEF MainClears, Same, Alive, CodecMade, LoopMade
    <2>4. CASE MainBegins
      <3>1. d'.handler = 0 BY <2>4, TypeOKParts DEF MainBegins, Quiet
      <3> QED BY <3>1 DEF Alive
    <2>5. CASE MainStarts
      <3>1. posted'[d'.handler]["create"] = 1 BY <2>5, MainPosted DEF MainStarts
      <3> QED BY <3>1 DEF Alive, CodecMade
    <2>6. CASE MainAsks
      BY <2>1, <2>6 DEF MainAsks, Flags, Alive, CodecMade, LoopMade
    <2> QED BY <1>3, <2>2, <2>3, <2>4, <2>5, <2>6, MainShapes
  <1>4. CASE UNCHANGED vars BY <1>4 DEF vars, Alive, CodecMade, LoopMade
  <1> QED BY <1>1, <1>2, <1>3, <1>4, NextSteps

\* A running decoder is never left without a loop, however many starts there
\* were and whatever their threads still do: the loops that go on after a stop,
\* a createCodec that ends late, recreate() at any of its steps, on any thread.
THEOREM RunningHasLoop == Spec => []LoopAlive
  <1>1. Init => Alive BY DEF Init, Alive
  <1> QED BY <1>1, NextAlive, AliveIsLoopAlive, DecoderTypes, PTL DEF Spec

-----------------------------------------------------------------------------
(* The counter.  It may count one frame too many for as long as the queue  *)
(* lives: one that feed() puts in while stop() or recreate() empties it.   *)

One(b) == IF b THEN 1 ELSE 0
PolledBy == {t \in Threads : dec[t].at = "polled"}

\* What the counter counts beyond the queue and what is about to be counted.
Excess == d.count - Len(d.pending) - One(net.at = "purged") - Cardinality(PolledBy)
              + One(net.at = "added")

\* Between emptying the queue and resetting the counter it may count anything.
Resetting == main = "clear" \/ \E t \in Threads : dec[t].at = "cleared"

Over == Resetting \/ Excess <= 1

LEMMA ThreadsFinite ==
    /\ IsFiniteSet(Threads)
    /\ \A S \in SUBSET Threads : IsFiniteSet(S) /\ Cardinality(S) \in Nat
  <1>1. 1 \in Int /\ MaxStarts \in Int BY DecoderAssumption
  <1>2. IsFiniteSet(Threads) BY <1>1, FS_Interval DEF Threads
  <1>3. \A S \in SUBSET Threads : IsFiniteSet(S) BY <1>2, FS_Subset
  <1> QED BY <1>2, <1>3, FS_CardinalityType

LEMMA Numbers ==
    ASSUME TypeOK
    PROVE  /\ d.count \in Int /\ Len(d.pending) \in Nat /\ d.pending \in Seq(Frames)
           /\ Cardinality(PolledBy) \in Nat
           /\ \A b \in BOOLEAN : One(b) \in {0, 1}
           /\ Excess \in Int
  <1>1. d.count \in Int /\ d.pending \in Seq(Frames) BY TypeOKParts DEF Types, Shared
  <1>2. Len(d.pending) \in Nat BY <1>1
  <1>3. Cardinality(PolledBy) \in Nat BY ThreadsFinite DEF PolledBy
  <1> QED BY <1>1, <1>2, <1>3 DEF One, Excess

LEMMA NumbersNext ==
    ASSUME TypeOK'
    PROVE  /\ d'.count \in Int /\ Len(d'.pending) \in Nat /\ d'.pending \in Seq(Frames)
           /\ Cardinality(PolledBy)' \in Nat
           /\ Excess' = d'.count - Len(d'.pending) - One(net.at = "purged")'
                           - Cardinality(PolledBy)' + One(net.at = "added")'
           /\ Excess' \in Int
  <1>1. d'.count \in Int /\ d'.pending \in Seq(Frames) BY DEF TypeOK, Shared
  <1>2. Len(d'.pending) \in Nat BY <1>1
  <1>3. Cardinality(PolledBy)' \in Nat
    <2>1. PolledBy' \subseteq Threads BY DEF PolledBy
    <2> QED BY <2>1, ThreadsFinite
  <1>4. One(net.at = "purged")' \in {0, 1} /\ One(net.at = "added")' \in {0, 1} BY DEF One
  <1>5. Excess' = d'.count - Len(d'.pending) - One(net.at = "purged")'
                     - Cardinality(PolledBy)' + One(net.at = "added")'
    BY DEF Excess
  <1> QED BY <1>1, <1>2, <1>3, <1>4, <1>5

LEMMA OverKept ==
    ASSUME TypeOK, TypeOK', Over, Resetting => Resetting', Excess' <= Excess PROVE Over'
  <1>1. Excess \in Int /\ Excess' \in Int BY Numbers, NumbersNext
  <1> HIDE DEF Excess
  <1> QED BY <1>1 DEF Over

\* After a reset there is at most the frame that feed() is about to count.
LEMMA ResetOver == ASSUME TypeOK', d'.count = 0 PROVE Over'
  <1> DEFINE len == Len(d'.pending)
             card == Cardinality(PolledBy)'
             purged == One(net.at = "purged")'
             added == One(net.at = "added")'
  <1>1. len \in Nat /\ card \in Nat BY NumbersNext
  <1>2. purged \in {0, 1} /\ added \in {0, 1} BY DEF One
  <1>3. Excess' = 0 - len - purged - card + added BY NumbersNext
  <1> HIDE DEF len, card, purged, added
  <1>4. Excess' <= 1 BY <1>1, <1>2, <1>3
  <1> QED BY <1>4 DEF Over

LEMMA PolledCard ==
    ASSUME TypeOK, NEW t \in Threads, NEW thread, dec' = [dec EXCEPT ![t] = thread]
    PROVE  Cardinality(PolledBy)'
              = Cardinality(PolledBy) - One(dec[t].at = "polled") + One(thread.at = "polled")
  <1>1. dec \in [Threads -> Thread] BY TypeOKParts DEF Types
  <1>2. dec'[t] = thread /\ \A u \in Threads : u # t => dec'[u] = dec[u] BY <1>1
  <1>3. IsFiniteSet(PolledBy) /\ Cardinality(PolledBy) \in Nat
    BY ThreadsFinite DEF PolledBy
  <1>4. PolledBy \ {t} = PolledBy' \ {t} BY <1>2 DEF PolledBy
  <1> DEFINE R == PolledBy \ {t}
  <1>5. /\ IsFiniteSet(R) /\ Cardinality(R) \in Nat
        /\ Cardinality(R \cup {t}) = Cardinality(R) + 1
    <2>1. IsFiniteSet(R) BY ThreadsFinite DEF PolledBy
    <2> QED BY <2>1, FS_AddElement, FS_CardinalityType
  <1>6. PolledBy = IF dec[t].at = "polled" THEN R \cup {t} ELSE R BY DEF PolledBy
  <1>7. PolledBy' = IF thread.at = "polled" THEN R \cup {t} ELSE R
    BY <1>2, <1>4 DEF PolledBy
  <1> HIDE DEF R
  <1>8. Cardinality(PolledBy) = Cardinality(R) + One(dec[t].at = "polled")
    BY <1>5, <1>6 DEF One
  <1>9. Cardinality(PolledBy)' = Cardinality(R) + One(thread.at = "polled")
    BY <1>5, <1>7 DEF One
  <1>10. One(dec[t].at = "polled") \in {0, 1} BY DEF One
  <1> QED BY <1>5, <1>8, <1>9, <1>10

LEMMA NetOver == TypeOK /\ TypeOK' /\ Over /\ NetStep => Over'
  <1> SUFFICES ASSUME TypeOK, TypeOK', Over, NetStep PROVE Over'
    OBVIOUS
  <1>0. d \in Shared /\ net \in Nets BY TypeOKParts DEF Types
  <1>1. UNCHANGED <<dec, main>> BY NetLeavesAlone DEF NetLeaves
  <1>2. Resetting' = Resetting /\ PolledBy' = PolledBy BY <1>1 DEF Resetting, PolledBy
  <1> DEFINE len == Len(d.pending)
             card == Cardinality(PolledBy)
  <1>3. len \in Nat /\ card \in Nat /\ d.count \in Int /\ d.pending \in Seq(Frames)
    BY Numbers
  <1>4. ASSUME d'.count - Len(d'.pending) - One(net.at = "purged")' + One(net.at = "added")'
                  <= d.count - len - One(net.at = "purged") + One(net.at = "added")
        PROVE  Over'
    <2> DEFINE p == One(net.at = "purged")
               a == One(net.at = "added")
               pp == One(net.at = "purged")'
               aa == One(net.at = "added")'
               l == Len(d'.pending)
    <2>1. Excess = d.count - len - p - card + a BY DEF Excess
    <2>2. Cardinality(PolledBy)' = card BY <1>2
    <2>3. Excess' = d'.count - l - pp - card + aa BY <2>2, NumbersNext
    <2>4. p \in Int /\ a \in Int /\ pp \in Int /\ aa \in Int BY DEF One
    <2>5. l \in Int /\ d'.count \in Int /\ d.count \in Int /\ len \in Int /\ card \in Int
      BY <1>3, NumbersNext
    <2>6. d'.count - l - pp + aa <= d.count - len - p + a BY <1>4
    <2> HIDE DEF len, card, p, a, pp, aa, l
    <2>7. d'.count - l - pp - card + aa <= d.count - len - p - card + a
      BY ONLY <2>4, <2>5, <2>6
    <2>8. Excess' <= Excess BY ONLY <2>1, <2>3, <2>7, Zenon
    <2> QED BY <1>2, <2>8, OverKept
  <1>5. ASSUME d'.count = d.count, d'.pending = d.pending,
               net.at \notin {"purged", "added"}, net'.at \notin {"purged", "added"}
        PROVE  Over'
    <2>1. One(net.at = "purged") = 0 /\ One(net.at = "added") = 0 BY <1>5 DEF One
    <2>2. One(net.at = "purged")' = 0 /\ One(net.at = "added")' = 0 BY <1>5 DEF One
    <2> QED BY <1>3, <1>4, <1>5, <2>1, <2>2
  <1>6. CASE FrameArrives
    <2>1. net.at = "idle" /\ net'.at \in {"room", "idle"}
      BY <1>6 DEF FrameArrives, Idle
    <2>2. d'.count = d.count /\ d'.pending = d.pending
      BY <1>0, <1>6 DEF FrameArrives, Shared
    <2> QED BY <1>5, <2>1, <2>2
  <1>7. CASE FeedRoom
    <2>1. net.at = "room" /\ net'.at \in {"open", "purge", "idle"}
      BY <1>0, <1>7 DEF FeedRoom, Feed, Idle, Nets
    <2>2. d'.count = d.count /\ d'.pending = d.pending
      BY <1>0, <1>7 DEF FeedRoom, Feed, Shared
    <2> QED BY <1>5, <2>1, <2>2
  <1>8. CASE Feed("purge", "open", d)
    BY <1>0, <1>5, <1>8 DEF Feed, Nets
  <1>9. CASE d.pending # <<>> /\ Feed("purge", "purged", Polled(d))
    <2>1. net.at = "purge" /\ net'.at = "purged" /\ d' = Polled(d)
      BY <1>0, <1>9 DEF Feed, Nets
    <2>2. d'.count = d.count /\ d'.pending = Tail(d.pending)
      BY <1>0, <1>9, <2>1, PolledSame
    <2>3. Len(d'.pending) = len - 1 BY <1>3, <1>9, <2>2
    <2>4. One(net.at = "purged") = 0 /\ One(net.at = "added") = 0 BY <2>1 DEF One
    <2>5. One(net.at = "purged")' = 1 /\ One(net.at = "added")' = 0 BY <2>1 DEF One
    <2> QED BY <1>3, <1>4, <2>2, <2>3, <2>4, <2>5
  <1>10. CASE Feed("purged", "purge", [d EXCEPT !.count = d.count - 1])
    <2>1. net.at = "purged" /\ net'.at = "purge" BY <1>0, <1>10 DEF Feed, Nets
    <2>2. d'.count = d.count - 1 /\ d'.pending = d.pending
      BY <1>0, <1>10 DEF Feed, Shared
    <2>3. One(net.at = "purged") = 1 /\ One(net.at = "added") = 0 BY <2>1 DEF One
    <2>4. One(net.at = "purged")' = 0 /\ One(net.at = "added")' = 0 BY <2>1 DEF One
    <2> QED BY <1>3, <1>4, <2>2, <2>3, <2>4
  <1>11. CASE Feed("open", "add", [d EXCEPT !.waiting = FALSE])
    BY <1>0, <1>5, <1>11 DEF Feed, Nets, Shared
  <1>12. CASE Feed("add", "added", [d EXCEPT !.pending = Append(d.pending, net.f)])
    <2>1. net.at = "add" /\ net'.at = "added" BY <1>0, <1>12 DEF Feed, Nets
    <2>2. d'.count = d.count /\ d'.pending = Append(d.pending, net.f)
      BY <1>0, <1>12 DEF Feed, Shared
    <2>3. Len(d'.pending) = len + 1 BY <1>3, <2>2
    <2>4. One(net.at = "purged") = 0 /\ One(net.at = "added") = 0 BY <2>1 DEF One
    <2>5. One(net.at = "purged")' = 0 /\ One(net.at = "added")' = 1 BY <2>1 DEF One
    <2> QED BY <1>3, <1>4, <2>2, <2>3, <2>4, <2>5
  <1>13. CASE Feed("added", "idle", [d EXCEPT !.count = d.count + 1])
    <2>1. net.at = "added" /\ net'.at = "idle" BY <1>0, <1>13 DEF Feed, Nets, Idle
    <2>2. d'.count = d.count + 1 /\ d'.pending = d.pending
      BY <1>0, <1>13 DEF Feed, Shared
    <2>3. One(net.at = "purged") = 0 /\ One(net.at = "added") = 1 BY <2>1 DEF One
    <2>4. One(net.at = "purged")' = 0 /\ One(net.at = "added")' = 0 BY <2>1 DEF One
    <2> QED BY <1>3, <1>4, <2>2, <2>3, <2>4
  <1> QED BY <1>6, <1>7, <1>8, <1>9, <1>10, <1>11, <1>12, <1>13
          DEF NetStep, FeedPurges, FeedAdds

\* A step of t that does not count too much.
LEMMA ThreadOver ==
    ASSUME TypeOK, TypeOK', Over, NEW t \in Threads, NEW thread,
           dec' = [dec EXCEPT ![t] = thread], net' = net, main' = main,
           dec[t].at # "cleared",
           d'.count - Len(d'.pending) - One(thread.at = "polled")
              <= d.count - Len(d.pending) - One(dec[t].at = "polled")
    PROVE  Over'
  <1>1. dec \in [Threads -> Thread] BY TypeOKParts DEF Types
  <1>2. \A u \in Threads : u # t => dec'[u] = dec[u] BY <1>1
  <1>3. Resetting => Resetting' BY <1>2 DEF Resetting
  <1> DEFINE len == Len(d.pending)
             card == Cardinality(PolledBy)
             purged == One(net.at = "purged")
             added == One(net.at = "added")
             was == One(dec[t].at = "polled")
             is == One(thread.at = "polled")
             l == Len(d'.pending)
  <1>4. len \in Nat /\ card \in Nat /\ d.count \in Int BY Numbers
  <1>5. purged \in Int /\ added \in Int /\ was \in Int /\ is \in Int BY DEF One
  <1>6. Excess = d.count - len - purged - card + added BY DEF Excess
  <1>7. Cardinality(PolledBy)' = card - was + is BY PolledCard
  <1>8. One(net.at = "purged")' = purged /\ One(net.at = "added")' = added BY DEF One
  <1>9. Excess' = d'.count - l - purged - (card - was + is) + added
    BY <1>7, <1>8, NumbersNext
  <1>10. l \in Nat /\ d'.count \in Int BY NumbersNext
  <1>11. d'.count - l - is <= d.count - len - was OBVIOUS
  <1> HIDE DEF len, card, purged, added, was, is, l
  <1>12. d'.count - l - purged - (card - was + is) + added
            <= d.count - len - purged - card + added
    BY ONLY <1>4, <1>5, <1>10, <1>11
  <1>13. Excess' <= Excess BY ONLY <1>6, <1>9, <1>12, Zenon
  <1> QED BY <1>3, <1>13, OverKept

LEMMA DecOver == ASSUME TypeOK, TypeOK', Over, NEW t \in Threads, DecStep(t) PROVE Over'
  <1>0. dec \in [Threads -> Thread] /\ dec[t] \in Thread BY ThreadTypes
  <1> DEFINE len == Len(d.pending)
  <1>1. len \in Nat /\ d.count \in Int /\ d.pending \in Seq(Frames) BY Numbers
  <1>2. ASSUME NEW thread, dec' = [dec EXCEPT ![t] = thread], UNCHANGED <<net, main>>,
               d'.count = d.count, d'.pending = d.pending,
               dec[t].at \notin {"cleared", "polled"}, thread.at # "polled"
        PROVE  Over'
    <2>1. One(thread.at = "polled") = 0 /\ One(dec[t].at = "polled") = 0 BY <1>2 DEF One
    <2>2. d'.count - Len(d'.pending) - One(thread.at = "polled")
             <= d.count - Len(d.pending) - One(dec[t].at = "polled")
      BY <1>1, <1>2, <2>1
    <2> QED BY <1>2, <2>2, ThreadOver
  <1>3. CASE CreateCodec(t)
    <2>1. /\ \/ Takes(t, "create") \/ Takes(t, "again")
             \/ dec[t].at = "creating"
          /\ \E thread \in {At(t, "creating"), Reads("loop"), Off} :
                dec' = [dec EXCEPT ![t] = thread]
          /\ UNCHANGED <<net, main>>
      BY <1>3, CreateShapes DEF TakeStep, ThreadStep
    <2>2. dec[t].at \notin {"cleared", "polled"} BY <2>1 DEF Takes
    <2>3. At(t, "creating").at = "creating" /\ Reads("loop").at = "read" /\ Off.at = "off"
      BY <1>0 DEF At, Reads, Off, Thread
    <2>4. d'.count = d.count /\ d'.pending = d.pending
      <3>1. d' = Created => d'.count = d.count /\ d'.pending = d.pending
        BY ThreadTypes, CreatedParts
      <3>2. d' = [d EXCEPT !.running = FALSE] => d'.count = d.count /\ d'.pending = d.pending
        BY ThreadTypes DEF Shared
      <3> QED BY <1>3, <3>1, <3>2, CreateShapes
    <2> QED BY <1>2, <2>1, <2>2, <2>3, <2>4
  <1>4. CASE RunsOut(t)
    <2>1. d' = d /\ dec' = dec /\ UNCHANGED <<net, main>> BY <1>4 DEF RunsOut
    <2> QED BY <2>1 DEF Over, Resetting, Excess, PolledBy
  <1>5. CASE LoopBegins(t)
    <2>1. /\ dec' = [dec EXCEPT ![t] = Top(d.codec)] /\ UNCHANGED <<net, main>>
          /\ d'.count = d.count /\ d'.pending = d.pending /\ dec[t].at = "off"
      BY <1>5, BeginsShape DEF TakeStep, Takes
    <2>2. Top(d.codec).at = "top" BY DEF Top, Off
    <2> QED BY <1>2, <2>1, <2>2
  <1>6. CASE LoopPeeks(t)
    <2> DEFINE peeked == [At(t, "peeked") EXCEPT !.f = Head(d.pending)]
    <2>1. /\ d' = d /\ dec[t].at \in {"top", "peeked"} /\ UNCHANGED <<net, main>>
          /\ \E thread \in {peeked, Reads("loop")} : dec' = [dec EXCEPT ![t] = thread]
      BY <1>6, PeeksShapes DEF ThreadStep
    <2>2. peeked.at = "peeked" /\ Reads("loop").at = "read"
      BY <1>0 DEF At, Reads, Off, Thread
    <2> HIDE DEF peeked
    <2> QED BY <1>2, <2>1, <2>2
  <1>7. CASE LoopPolls(t)
    <2>1. CASE /\ dec[t].at = "peeked" /\ ThreadStep(t, At(t, "polled"))
               /\ d'.count = d.count
               /\ d'.pending = IF d.pending = <<>> THEN d.pending ELSE Tail(d.pending)
      <3>1. At(t, "polled").at = "polled" BY <1>0 DEF At, Thread
      <3>2. One(At(t, "polled").at = "polled") = 1 /\ One(dec[t].at = "polled") = 0
        BY <2>1, <3>1 DEF One
      <3>3. Len(d'.pending) \in Nat /\ Len(d'.pending) >= len - 1 BY <1>1, <2>1
      <3>4. d'.count - Len(d'.pending) - One(At(t, "polled").at = "polled")
               <= d.count - Len(d.pending) - One(dec[t].at = "polled")
        BY <1>1, <2>1, <3>2, <3>3
      <3>5. dec' = [dec EXCEPT ![t] = At(t, "polled")] /\ UNCHANGED <<net, main>>
        BY <2>1 DEF ThreadStep
      <3> QED BY <2>1, <3>4, <3>5, ThreadOver
    <2>2. CASE /\ dec[t].at = "polled" /\ ThreadStep(t, At(t, "queue"))
               /\ d'.count = d.count - 1 /\ d'.pending = d.pending
      <3>1. At(t, "queue").at = "queue" BY <1>0 DEF At, Thread
      <3>2. One(At(t, "queue").at = "polled") = 0 /\ One(dec[t].at = "polled") = 1
        BY <2>2, <3>1 DEF One
      <3>3. d'.count - Len(d'.pending) - One(At(t, "queue").at = "polled")
               <= d.count - Len(d.pending) - One(dec[t].at = "polled")
        BY <1>1, <2>2, <3>2
      <3>4. dec' = [dec EXCEPT ![t] = At(t, "queue")] /\ UNCHANGED <<net, main>>
        BY <2>2 DEF ThreadStep
      <3> QED BY <2>2, <3>3, <3>4, ThreadOver
    <2> QED BY <1>7, <2>1, <2>2, PollsShapes
  <1>8. CASE LoopQueues(t)
    <2>1. /\ dec[t].at = "queue" /\ d'.count = d.count /\ d'.pending = d.pending
          /\ UNCHANGED <<net, main>>
          /\ \E thread \in {Top(dec[t].c), Reads("loop")} : dec' = [dec EXCEPT ![t] = thread]
      BY <1>8, QueuesShapes DEF ThreadStep
    <2>2. Top(dec[t].c).at = "top" /\ Reads("loop").at = "read" BY DEF Top, Reads, Off
    <2> QED BY <1>2, <2>1, <2>2
  <1>9. CASE CodecThrows(t)
    <2>1. /\ dec[t].at \in {"top", "peeked", "queue"} /\ d' = d /\ UNCHANGED <<net, main>>
          /\ \E thread \in {[Off EXCEPT !.at = "thrown"], Off} : dec' = [dec EXCEPT ![t] = thread]
      BY <1>9, ThrowsShape DEF ThreadStep
    <2>2. [Off EXCEPT !.at = "thrown"].at = "thrown" /\ Off.at = "off" BY DEF Off
    <2> QED BY <1>2, <2>1, <2>2
  <1>10. CASE Recreate(t)
    <2>1. CASE dec[t].at = "thrown" /\ ThreadStep(t, At(t, "nulled")) /\ d' = NoCodec
      <3>1. At(t, "nulled").at = "nulled" BY <1>0 DEF At, Thread
      <3>2. d'.count = d.count /\ d'.pending = d.pending BY <2>1, ThreadTypes, NoCodecParts
      <3> QED BY <1>2, <2>1, <3>1, <3>2 DEF ThreadStep
    <2>2. CASE ThreadStep(t, At(t, "cleared"))
      <3>1. At(t, "cleared").at = "cleared" BY <1>0 DEF At, Thread
      <3>2. dec'[t].at = "cleared" BY <1>0, <2>2, <3>1 DEF ThreadStep
      <3> QED BY <3>2 DEF Over, Resetting
    <2>3. CASE d'.count = 0 BY <2>3, ResetOver
    <2> QED BY <1>10, <2>1, <2>2, <2>3, RecreateShapes
  <1>11. CASE Posts(t)
    <2> DEFINE post == [dec[t] EXCEPT !.at = "post", !.to = d.handler]
    <2>1. /\ d' = d /\ dec[t].at \in {"read", "post"} /\ UNCHANGED <<net, main>>
          /\ \E thread \in {post, Off} : dec' = [dec EXCEPT ![t] = thread]
      BY <1>11, PostsShapes DEF ThreadStep, PostStep
    <2>2. post.at = "post" /\ Off.at = "off" BY <1>0 DEF Off, Thread
    <2> HIDE DEF post
    <2> QED BY <1>2, <2>1, <2>2
  <1> QED BY <1>3, <1>4, <1>5, <1>6, <1>7, <1>8, <1>9, <1>10, <1>11 DEF DecStep

LEMMA MainOver == TypeOK /\ TypeOK' /\ Over /\ MainStep => Over'
  <1> SUFFICES ASSUME TypeOK, TypeOK', Over, MainStep PROVE Over'
    OBVIOUS
  <1>0. d \in Shared BY TypeOKParts DEF Types
  <1>1. net' = net /\ dec' = dec BY MainShapes
  <1>2. ASSUME d'.count = d.count, d'.pending = d.pending, main # "clear" PROVE Over'
    BY <1>1, <1>2 DEF Over, Resetting, Excess, PolledBy
  <1>3. CASE MainStops BY <1>0, <1>2, <1>3, StoppedParts DEF MainStops
  <1>4. CASE MainClears
    <2>1. CASE main' = "clear" BY <2>1 DEF Over, Resetting
    <2>2. CASE d'.count = 0 BY <2>2, ResetOver
    <2> QED BY <1>4, <2>1, <2>2 DEF MainClears
  <1>5. CASE MainBegins \/ MainStarts \/ MainAsks
    BY <1>2, <1>5 DEF MainBegins, MainStarts, MainAsks, Flags
  <1> QED BY <1>3, <1>4, <1>5, MainShapes

\* However the threads reset the counter and the others change it, an empty
\* queue takes the next frame, if it has room for more than one: what is
\* overlooked at a reset is one frame at most, and never adds up.
THEOREM EmptyQueueTakesMore == ASSUME MAX_QUEUED > 1 PROVE Spec => []EmptyQueueAccepts
  <1>1. Init => Over
    <2> SUFFICES ASSUME Init PROVE Over
      OBVIOUS
    <2>1. d.count = 0 /\ d.pending = <<>> /\ net.at = "idle" BY DEF Init, Idle
    <2>2. Len(d.pending) = 0 BY <2>1
    <2>3. Cardinality(PolledBy) \in Nat BY ThreadsFinite DEF PolledBy
    <2> QED BY <2>1, <2>2, <2>3 DEF Over, Excess, One
  <1>2. TypeOK /\ TypeOK' /\ Over /\ [Next]_vars => Over'
    <2> SUFFICES ASSUME TypeOK, TypeOK', Over, [Next]_vars PROVE Over'
      OBVIOUS
    <2>1. CASE NetStep BY <2>1, NetOver
    <2>2. CASE \E t \in Threads : DecStep(t) BY <2>2, DecOver
    <2>3. CASE MainStep BY <2>3, MainOver
    <2>4. CASE UNCHANGED vars BY <2>4 DEF vars, Over, Resetting, Excess, PolledBy
    <2> QED BY <2>1, <2>2, <2>3, <2>4, NextSteps
  <1>3. TypeOK /\ Over => EmptyQueueAccepts
    <2> SUFFICES ASSUME TypeOK, Over, AtRest, d.pending = <<>>
                 PROVE  d.count < MAX_QUEUED
      BY DEF EmptyQueueAccepts
    <2>1. ~Resetting /\ net.at = "idle" /\ PolledBy = {}
      BY DEF AtRest, Resetting, PolledBy
    <2>2. d.count \in Int /\ Len(d.pending) = 0 BY Numbers
    <2>3. Cardinality(PolledBy) = 0 BY <2>1, FS_EmptySet
    <2>4. d.count <= 1 BY <2>1, <2>2, <2>3 DEF Over, Excess, One
    <2> QED BY <2>2, <2>4, DecoderAssumption
  <1> QED BY <1>1, <1>2, <1>3, DecoderTypes, PTL DEF Spec

-----------------------------------------------------------------------------
(* The key frame.  The frames behind the last key frame on their way to    *)
(* the codec follow one another up to the newest, and when no key frame is *)
(* on its way, from the last that the codec took.                          *)

\* The frames of q from the i-th on are numbered on from b.
Runs(q, b, i) == \A j \in i..Len(q) : q[j].n = b + j
\* A key frame in q, and nothing missing after it.
HasKey(q, b) == \E i \in 1..Len(q) : q[i].key /\ Runs(q, b, i)

NetHolds == net.at \in {"room", "purge", "purged", "open", "add"}
NetKey == NetHolds /\ net.f.key

\* A thread whose loop runs on the codec, and has a frame for it in hand.
Loops(thread, codec) ==
    thread.at \in {"top", "peeked", "polled", "queue"} /\ thread.c = codec
Holds(thread, codec) == thread.at \in {"polled", "queue"} /\ thread.c = codec
Holder(t) == Holds(dec[t], d.codec)
Held == \E t \in Threads : Holder(t)

\* The number before the first of the queue, when nothing is missing behind it.
Base == sent - One(NetHolds) - Len(d.pending)

InLine ==
    \/ NetKey
    \/ HasKey(d.pending, Base)
    \/ \E t \in Threads : /\ Holder(t) /\ dec[t].f.key /\ dec[t].f.n = Base
                          /\ Runs(d.pending, Base, 1)
    \/ /\ d.picture = "right" /\ d.last = Base - One(Held)
       /\ \A t \in Threads : Holder(t) => dec[t].f.n = Base
       /\ Runs(d.pending, Base, 1)

\* What was peeked at is the head, unless a key frame purged it.
AtHead(t) ==
    \/ d.pending # <<>> /\ Head(d.pending) = dec[t].f
    \/ NetKey
    \/ \E i \in 1..Len(d.pending) : d.pending[i].key

\* A key frame was asked for, or recreate() is about to.
Mending == d.asked \/ \E t \in Threads : dec[t].at \in {"thrown", "nulled", "cleared"}

Straight == d.running /\ main = "idle" /\ d.picture # "lost" /\ ~Mending

Lined == Straight => InLine
Peeked == Straight =>
             \A t \in Threads : dec[t].at = "peeked" /\ dec[t].c = d.codec => AtHead(t)

\* Who waits has asked, or the key frame has come and is about to end it.
Waits == d.running /\ main = "idle" /\ d.waiting => d.asked \/ (NetKey /\ net.at # "add")

Newest == net.at # "idle" => net.f.n = sent /\ (net.at \in {"purge", "purged"} => net.f.key)

\* One loop on the codec, unless its picture is lost, and no loop without one.
Solo ==
    d.picture # "lost" =>
        \A t, u \in Threads : Loops(dec[t], d.codec) /\ Loops(dec[u], d.codec) => t = u
Made == \A t \in Threads : InLoop(t) => dec[t].c \in 1..d.made

KeyInv == Lined /\ Peeked /\ Waits /\ Newest /\ Solo /\ Made

LEMMA RunsTail ==
    ASSUME NEW q \in Seq(Frames), q # <<>>, NEW b \in Int
    PROVE  /\ Tail(q) \in Seq(Frames) /\ Len(Tail(q)) = Len(q) - 1
           /\ Runs(q, b, 1) => Head(q).n = b + 1 /\ Runs(Tail(q), b + 1, 1)
           /\ HasKey(q, b) => \/ Head(q).key /\ Head(q).n = b + 1 /\ Runs(Tail(q), b + 1, 1)
                              \/ HasKey(Tail(q), b + 1)
  <1> DEFINE n == Len(q)
             r == Tail(q)
  <1>1. n \in Nat /\ n >= 1 /\ r \in Seq(Frames) /\ Len(r) = n - 1 /\ Head(q) = q[1]
    OBVIOUS
  <1>2. \A j \in 1..(n - 1) : r[j] = q[j + 1] OBVIOUS
  <1> HIDE DEF n, r
  <1>3. ASSUME NEW i \in 1..n, i > 1, Runs(q, b, i) PROVE Runs(r, b + 1, i - 1)
    <2> SUFFICES ASSUME NEW j \in (i - 1)..(n - 1) PROVE r[j].n = (b + 1) + j
      BY <1>1 DEF Runs
    <2>1. j \in 1..(n - 1) /\ j + 1 \in i..n BY <1>1, <1>3
    <2>2. q[j + 1].n = b + (j + 1) BY <1>3, <2>1 DEF Runs, n
    <2> QED BY <1>2, <2>1, <2>2
  <1>4. ASSUME Runs(q, b, 1) PROVE Head(q).n = b + 1 /\ Runs(r, b + 1, 1)
    <2>1. 1 \in 1..n BY <1>1
    <2>2. q[1].n = b + 1 BY <1>4, <2>1 DEF Runs, n
    <2>3. ASSUME NEW j \in 1..(n - 1) PROVE r[j].n = (b + 1) + j
      <3>1. j + 1 \in 1..n BY <1>1
      <3>2. q[j + 1].n = b + (j + 1) BY <1>4, <3>1 DEF Runs, n
      <3> QED BY <1>2, <3>2
    <2> QED BY <1>1, <2>2, <2>3 DEF Runs
  <1>5. ASSUME HasKey(q, b)
        PROVE  (Head(q).key /\ Head(q).n = b + 1 /\ Runs(r, b + 1, 1)) \/ HasKey(r, b + 1)
    <2>1. PICK i \in 1..n : q[i].key /\ Runs(q, b, i) BY <1>5 DEF HasKey, n
    <2>2. CASE i = 1 BY <1>1, <1>4, <2>1, <2>2
    <2>3. CASE i > 1
      <3>1. i - 1 \in 1..(n - 1) /\ r[i - 1] = q[i] BY <1>1, <1>2, <2>3
      <3>2. Runs(r, b + 1, i - 1) BY <1>3, <2>1, <2>3
      <3> QED BY <1>1, <2>1, <3>1, <3>2 DEF HasKey
    <2> QED BY <1>1, <2>2, <2>3
  <1> QED BY <1>1, <1>4, <1>5 DEF n, r

LEMMA RunsAppend ==
    ASSUME NEW q \in Seq(Frames), NEW f \in Frames, NEW b \in Int, f.n = b + Len(q) + 1
    PROVE  /\ Append(q, f) \in Seq(Frames) /\ Len(Append(q, f)) = Len(q) + 1
           /\ Runs(q, b, 1) => Runs(Append(q, f), b, 1)
           /\ HasKey(q, b) \/ f.key => HasKey(Append(q, f), b)
  <1> DEFINE n == Len(q)
             r == Append(q, f)
  <1>1. n \in Nat /\ r \in Seq(Frames) /\ Len(r) = n + 1 /\ r[n + 1] = f OBVIOUS
  <1>2. \A j \in 1..n : r[j] = q[j] OBVIOUS
  <1>3. f.n = b + (n + 1) BY <1>1
  <1> HIDE DEF n, r
  <1>4. ASSUME NEW i \in 1..(n + 1), i <= n => Runs(q, b, i) PROVE Runs(r, b, i)
    <2> SUFFICES ASSUME NEW j \in i..(n + 1) PROVE r[j].n = b + j
      BY <1>1 DEF Runs
    <2>1. CASE j = n + 1 BY <1>1, <1>3, <2>1
    <2>2. CASE j <= n
      <3>1. j \in i..n /\ j \in 1..n /\ i <= n BY <1>1, <2>2
      <3>2. q[j].n = b + j BY <1>4, <3>1 DEF Runs, n
      <3> QED BY <1>2, <3>1, <3>2
    <2> QED BY <1>1, <2>1, <2>2
  <1>5. Runs(q, b, 1) => Runs(r, b, 1) BY <1>1, <1>4
  <1>6. ASSUME HasKey(q, b) PROVE HasKey(r, b)
    <2>1. PICK i \in 1..n : q[i].key /\ Runs(q, b, i) BY <1>6 DEF HasKey, n
    <2>2. i \in 1..(n + 1) /\ r[i].key BY <1>1, <1>2, <2>1
    <2> QED BY <1>1, <1>4, <2>1, <2>2 DEF HasKey
  <1>7. ASSUME f.key PROVE HasKey(r, b)
    <2>1. n + 1 \in 1..(n + 1) /\ ~(n + 1 <= n) /\ r[n + 1].key BY <1>1, <1>7
    <2> QED BY <1>1, <1>4, <2>1 DEF HasKey
  <1> QED BY <1>1, <1>5, <1>6, <1>7 DEF n, r

LEMMA KeyNumbers ==
    ASSUME TypeOK
    PROVE  /\ d \in Shared /\ net \in Nets /\ dec \in [Threads -> Thread]
           /\ sent \in Nat /\ Len(d.pending) \in Nat /\ d.pending \in Seq(Frames)
           /\ d.last \in Int /\ net.f \in Frames /\ d.made \in Nat /\ d.codec \in Nat
           /\ \A t \in Threads : dec[t] \in Thread /\ dec[t].f \in Frames /\ dec[t].f.n \in Int
           /\ Base \in Int
  <1>1. /\ d \in Shared /\ net \in Nets /\ dec \in [Threads -> Thread] /\ sent \in Nat
    BY TypeOKParts, DecoderAssumption DEF Types
  <1>2. /\ d.pending \in Seq(Frames) /\ d.last \in Int /\ net.f \in Frames
        /\ d.made \in Nat /\ d.codec \in Nat
    BY <1>1, DecoderAssumption DEF Shared, Nets
  <1>3. Len(d.pending) \in Nat BY <1>2
  <1>4. \A t \in Threads : dec[t] \in Thread /\ dec[t].f \in Frames BY <1>1 DEF Thread
  <1>5. \A f \in Frames : f.n \in Int BY DecoderAssumption DEF Frames
  <1>6. Base \in Int BY <1>1, <1>3 DEF Base, One
  <1> QED BY <1>1, <1>2, <1>3, <1>4, <1>5, <1>6

\* A step of the network thread leaves the loops as they are.
LEMMA NetLoops ==
    ASSUME NetLeaves
    PROVE  /\ (Solo => Solo') /\ (Made => Made')
           /\ Held' = Held /\ dec' = dec
           /\ \A t \in Threads : Holder(t)' <=> Holder(t)
  <1>1. dec' = dec /\ d'.codec = d.codec /\ d'.made = d.made /\ d'.picture = d.picture
    BY DEF NetLeaves
  <1>2. Solo => Solo' BY <1>1 DEF Solo
  <1>3. Made => Made' BY <1>1 DEF Made, InLoop
  <1>4. \A t \in Threads : Holder(t)' <=> Holder(t) BY <1>1 DEF Holder
  <1>5. Held' = Held BY <1>1 DEF Held, Holder
  <1> QED BY <1>1, <1>2, <1>3, <1>4, <1>5

\* It holds a key frame.
LEMMA NetKeyComes ==
    ASSUME KeyInv, NetLeaves, Newest', NetKey', net'.at # "add" \/ ~d'.waiting
    PROVE  KeyInv'
  <1>1. Lined' BY DEF Lined, InLine
  <1>2. Peeked' BY DEF Peeked, AtHead
  <1>3. Waits' BY DEF Waits
  <1> QED BY <1>1, <1>2, <1>3, NetLoops DEF KeyInv

\* It holds none, and leaves the queue.
LEMMA NetQueueKept ==
    ASSUME KeyInv, NetLeaves, Newest', ~NetKey, d'.pending = d.pending,
           d.asked => d'.asked,
           main = "idle" /\ d.running => d'.asked \/ (Base' = Base /\ (d'.waiting => d.waiting))
    PROVE  KeyInv'
  <1>1. /\ UNCHANGED <<dec, main>> /\ d'.running = d.running /\ d'.picture = d.picture
        /\ d'.last = d.last
    BY DEF NetLeaves
  <1>2. Straight' => Straight /\ ~d'.asked /\ d.running /\ main = "idle"
    BY <1>1 DEF Straight, Mending
  <1>3. Lined'
    <2> SUFFICES ASSUME Straight' PROVE InLine'
      BY DEF Lined
    <2>1. Base' = Base /\ InLine BY <1>2 DEF KeyInv, Lined
    <2> QED BY <1>1, <2>1, NetLoops DEF InLine
  <1>4. Waits' BY <1>1 DEF KeyInv, Waits
  <1>5. Peeked'
    <2> SUFFICES ASSUME Straight', NEW t \in Threads, dec'[t].at = "peeked", dec'[t].c = d'.codec
                 PROVE  AtHead(t)'
      BY DEF Peeked
    <2>1. d'.codec = d.codec BY DEF NetLeaves
    <2>2. AtHead(t) BY <1>1, <1>2, <2>1 DEF KeyInv, Peeked
    <2> QED BY <1>1, <2>2 DEF AtHead
  <1> QED BY <1>3, <1>4, <1>5, NetLoops DEF KeyInv

LEMMA ArrivesKeyInv == TypeOK /\ KeyInv /\ FrameArrives => KeyInv'
  <1> SUFFICES ASSUME TypeOK, KeyInv, FrameArrives PROVE KeyInv'
    OBVIOUS
  <1>0. /\ d \in Shared /\ net \in Nets /\ sent \in Nat /\ Len(d.pending) \in Nat
    BY KeyNumbers
  <1>1. NetLeaves BY NetLeavesAlone DEF NetStep
  <1>2. PICK key \in BOOLEAN :
           /\ net' = IF d.running /\ (key \/ ~d.waiting)
                     THEN [at |-> "room", f |-> [n |-> sent + 1, key |-> key]] ELSE Idle
           /\ d' = [d EXCEPT !.asked = d.asked /\ ~key]
    BY DEF FrameArrives
  <1>3. net.at = "idle" /\ sent' = sent + 1 BY DEF FrameArrives
  <1>4. /\ d'.pending = d.pending /\ d'.waiting = d.waiting
        /\ d'.asked = (d.asked /\ ~key)
    BY <1>0, <1>2 DEF Shared
  <1>5. Newest' BY <1>2, <1>3 DEF Newest, Idle
  <1>6. CASE ~d.running
    <2>1. d'.running = FALSE BY <1>0, <1>1, <1>6 DEF NetLeaves, Shared
    <2>2. Lined' /\ Peeked' /\ Waits' BY <2>1 DEF Lined, Peeked, Waits, Straight
    <2> QED BY <1>1, <1>5, <2>2, NetLoops DEF KeyInv
  <1>7. CASE d.running /\ key
    <2>1. NetKey' /\ net'.at # "add" BY <1>2, <1>7 DEF NetKey, NetHolds
    <2> QED BY <1>1, <1>5, <2>1, NetKeyComes
  <1>8. CASE d.running /\ ~key
    <2>1. ~NetKey /\ ~NetHolds BY <1>3 DEF NetKey, NetHolds
    <2>2. d.asked => d'.asked BY <1>4, <1>8
    <2>3. CASE d.waiting
      <3>1. main = "idle" => d'.asked BY <1>8, <2>1, <2>2, <2>3 DEF KeyInv, Waits
      <3> QED BY <1>1, <1>4, <1>5, <2>1, <2>2, <3>1, NetQueueKept
    <2>4. CASE ~d.waiting
      <3>1. NetHolds' BY <1>2, <1>8, <2>4 DEF NetHolds
      <3>2. Base' = Base BY <1>0, <1>3, <1>4, <2>1, <3>1 DEF Base, One
      <3> QED BY <1>1, <1>4, <1>5, <2>1, <2>2, <3>2, NetQueueKept
    <2> QED BY <2>3, <2>4
  <1> QED BY <1>6, <1>7, <1>8

LEMMA FeedKeyInv == TypeOK /\ KeyInv /\ (FeedRoom \/ FeedPurges) => KeyInv'
  <1> SUFFICES ASSUME TypeOK, KeyInv, FeedRoom \/ FeedPurges PROVE KeyInv'
    OBVIOUS
  <1>0. /\ d \in Shared /\ net \in Nets /\ sent \in Nat /\ Len(d.pending) \in Nat
    BY KeyNumbers
  <1>1. NetLeaves BY NetLeavesAlone DEF NetStep
  <1>2. sent' = sent /\ net.at \in {"room", "purge", "purged"}
        /\ (net' = Idle \/ net'.f = net.f)
    BY <1>0 DEF FeedRoom, FeedPurges, Feed, Nets
  <1>3. net.at \in {"purge", "purged"} \/ net'.at = "purge" => net.f.key
    BY <1>0 DEF FeedRoom, FeedPurges, Feed, KeyInv, Newest, Nets, Idle
  <1>4. net'.at \in {"purge", "purged", "open", "idle"}
    BY <1>0 DEF FeedRoom, FeedPurges, Feed, Nets, Idle
  <1>5. net'.at = "purged" => net.f.key
    BY <1>0, <1>3 DEF FeedRoom, FeedPurges, Feed, Nets, Idle
  <1>6. Newest' BY <1>2, <1>3, <1>5 DEF KeyInv, Newest, Idle
  <1>7. CASE net.f.key
    <2>1. net'.at # "idle" BY <1>0, <1>7 DEF FeedRoom, FeedPurges, Feed, Nets, Idle
    <2>2. NetKey' /\ net'.at # "add" BY <1>2, <1>4, <1>7, <2>1 DEF NetKey, NetHolds, Idle
    <2> QED BY <1>1, <1>6, <2>2, NetKeyComes
  <1>8. CASE ~net.f.key
    <2>1. ~NetKey BY <1>8 DEF NetKey
    <2>2. \/ Feed("room", "open", d)
          \/ Feed("room", "idle", [d EXCEPT !.waiting = TRUE, !.asked = TRUE])
      BY <1>2, <1>3, <1>8 DEF FeedRoom, FeedPurges, Feed
    <2>3. CASE Feed("room", "open", d)
      <3>1. d' = d /\ NetHolds /\ NetHolds' BY <1>0, <2>3 DEF Feed, NetHolds, Nets
      <3>2. Base' = Base BY <1>2, <3>1 DEF Base
      <3> QED BY <1>1, <1>6, <2>1, <3>1, <3>2, NetQueueKept
    <2>4. CASE Feed("room", "idle", [d EXCEPT !.waiting = TRUE, !.asked = TRUE])
      <3>1. d'.asked = TRUE /\ d'.pending = d.pending BY <1>0, <2>4 DEF Feed, Shared
      <3> QED BY <1>1, <1>6, <2>1, <3>1, NetQueueKept
    <2> QED BY <2>2, <2>3, <2>4
  <1> QED BY <1>7, <1>8

LEMMA AddsKeyInv == TypeOK /\ KeyInv /\ FeedAdds => KeyInv'
  <1> SUFFICES ASSUME TypeOK, KeyInv, FeedAdds PROVE KeyInv'
    OBVIOUS
  <1>0. /\ d \in Shared /\ net \in Nets /\ net.f \in Frames
        /\ sent \in Nat /\ Len(d.pending) \in Nat /\ d.pending \in Seq(Frames) /\ Base \in Int
    BY KeyNumbers
  <1>1. NetLeaves BY NetLeavesAlone DEF NetStep
  <1>2. sent' = sent /\ net'.at \in {"add", "added", "idle"}
        /\ (net'.at = "idle" \/ net'.f = net.f)
    BY <1>0 DEF FeedAdds, Feed, Nets, Idle
  <1>3. Newest' BY <1>2 DEF KeyInv, Newest, FeedAdds, Feed
  <1>4. CASE Feed("open", "add", [d EXCEPT !.waiting = FALSE])
    <2>1. /\ d'.waiting = FALSE /\ d'.asked = d.asked /\ d'.pending = d.pending
          /\ NetHolds /\ NetHolds' /\ net'.f = net.f
      BY <1>0, <1>4 DEF Feed, Shared, NetHolds, Nets
    <2>2. CASE net.f.key
      <3>1. NetKey' BY <2>1, <2>2 DEF NetKey
      <3> QED BY <1>1, <1>3, <2>1, <3>1, NetKeyComes
    <2>3. CASE ~net.f.key
      <3>1. ~NetKey /\ Base' = Base BY <1>2, <2>1, <2>3 DEF NetKey, Base
      <3> QED BY <1>1, <1>3, <2>1, <3>1, NetQueueKept
    <2> QED BY <2>2, <2>3
  <1>5. CASE Feed("added", "idle", [d EXCEPT !.count = d.count + 1])
    <2>1. /\ d'.waiting = d.waiting /\ d'.asked = d.asked /\ d'.pending = d.pending
          /\ ~NetHolds /\ ~NetHolds'
      BY <1>0, <1>5 DEF Feed, Shared, NetHolds, Idle
    <2>2. ~NetKey /\ Base' = Base BY <1>2, <2>1 DEF NetKey, Base, One
    <2> QED BY <1>1, <1>3, <2>1, <2>2, NetQueueKept
  <1>6. CASE Feed("add", "added", [d EXCEPT !.pending = Append(d.pending, net.f)])
    <2> DEFINE q == d.pending
    <2>1. /\ d'.waiting = d.waiting /\ d'.asked = d.asked /\ d'.pending = Append(q, net.f)
          /\ NetHolds /\ ~NetHolds' /\ net.at = "add" /\ ~NetKey'
      BY <1>0, <1>6 DEF Feed, Shared, NetHolds, NetKey, Nets
    <2>2. /\ Len(Append(q, net.f)) = Len(q) + 1
          /\ q # <<>> => Append(q, net.f) # <<>> /\ Head(Append(q, net.f)) = Head(q)
          /\ \A i \in 1..Len(q) : Append(q, net.f)[i] = q[i]
          /\ Append(q, net.f)[Len(q) + 1] = net.f
      <3> DEFINE f == net.f
                 r == Append(q, f)
      <3>1. q \in Seq(Frames) /\ f \in Frames BY <1>0
      <3> HIDE DEF q, f
      <3>2. Len(r) = Len(q) + 1 /\ r[Len(q) + 1] = f /\ r \in Seq(Frames) BY <3>1
      <3>3. \A i \in 1..Len(q) : r[i] = q[i] BY <3>1
      <3>4. q # <<>> => Len(q) >= 1 /\ Head(q) = q[1] BY <3>1
      <3>5. r # <<>> /\ Head(r) = r[1] BY <3>1, <3>2
      <3>6. Len(q) \in Nat BY <3>1
      <3> QED BY <3>2, <3>3, <3>4, <3>5, <3>6 DEF q, f
    <2>3. Base' = Base /\ net.f.n = Base + Len(q) + 1
      BY <1>0, <1>2, <2>1, <2>2 DEF Base, One, KeyInv, Newest
    <2>4. /\ Runs(q, Base, 1) => Runs(Append(q, net.f), Base, 1)
          /\ HasKey(q, Base) \/ net.f.key => HasKey(Append(q, net.f), Base)
      BY <1>0, <2>3, RunsAppend
    <2>5. /\ dec' = dec /\ main' = main /\ d'.running = d.running /\ d'.picture = d.picture
          /\ d'.last = d.last /\ d'.codec = d.codec
      BY <1>1 DEF NetLeaves
    <2>6. Straight' => Straight BY <2>1, <2>5 DEF Straight, Mending
    <2>7. InLine => InLine'
      BY <1>1, <2>1, <2>3, <2>4, <2>5, NetLoops DEF InLine, NetKey
    <2>8. Lined' BY <2>6, <2>7 DEF KeyInv, Lined
    <2>9. Waits' BY <2>1, <2>5 DEF KeyInv, Waits
    <2>10. Peeked'
      <3> SUFFICES ASSUME Straight', NEW t \in Threads, dec[t].at = "peeked", dec[t].c = d.codec,
                          ~\E i \in 1..Len(d'.pending) : d'.pending[i].key
                   PROVE  d'.pending # <<>> /\ Head(d'.pending) = dec[t].f
        BY <2>5 DEF Peeked, AtHead
      <3>1. \A i \in 1..(Len(q) + 1) : ~Append(q, net.f)[i].key BY <2>1, <2>2
      <3>2. ~net.f.key /\ \A i \in 1..Len(q) : ~q[i].key BY <1>0, <2>2, <3>1
      <3>3. AtHead(t) BY <2>6 DEF KeyInv, Peeked
      <3>4. q # <<>> /\ Head(q) = dec[t].f BY <3>2, <3>3 DEF AtHead, NetKey
      <3> QED BY <2>1, <2>2, <3>4
    <2> QED BY <1>1, <1>3, <2>8, <2>9, <2>10, NetLoops DEF KeyInv
  <1> QED BY <1>4, <1>5, <1>6 DEF FeedAdds

\* A step of t, which is now `thread`.
ThreadMoves(t, thread) ==
    /\ dec' = [dec EXCEPT ![t] = thread]
    /\ UNCHANGED <<net, main, sent>> /\ (d'.running => d.running)

\* The parts of KeyInv' that are about the line, which a step may break off.
LEMMA LineParts ==
    ASSUME KeyInv, NEW t \in Threads, NEW thread, ThreadMoves(t, thread),
           d.asked => d'.asked, d'.waiting => d.waiting \/ d'.asked,
           Solo', Made',
           Straight' => /\ InLine'
                        /\ \A u \in Threads : dec'[u].at = "peeked" /\ dec'[u].c = d'.codec
                                                 => AtHead(u)'
    PROVE  KeyInv'
  <1>1. Newest' BY DEF KeyInv, Newest, ThreadMoves
  <1>2. NetKey' = NetKey BY DEF NetKey, NetHolds, ThreadMoves
  <1>3. Waits' BY <1>2 DEF KeyInv, Waits, ThreadMoves
  <1>4. Lined' BY DEF Lined
  <1>5. Peeked' BY DEF Peeked
  <1> QED BY <1>1, <1>3, <1>4, <1>5 DEF KeyInv

\* It breaks off when the decoder stops, the picture is lost or recreate() runs.
LEMMA NotStraight ==
    ASSUME NEW t \in Threads, TypeOK, NEW thread, ThreadMoves(t, thread),
           \/ d'.running = FALSE \/ d'.picture = "lost" \/ d'.asked = TRUE
           \/ thread.at \in {"thrown", "nulled", "cleared"}
    PROVE  ~Straight'
  <1>1. dec'[t] = thread BY KeyNumbers DEF ThreadMoves
  <1>2. CASE thread.at \in {"thrown", "nulled", "cleared"}
    BY <1>1, <1>2 DEF Straight, Mending
  <1>3. CASE d'.running = FALSE \/ d'.picture = "lost" \/ d'.asked = TRUE
    BY <1>3 DEF Straight, Mending
  <1> QED BY <1>2, <1>3

\* The loops: t goes on with the one it has, has none, or is the first.
LEMMA LoopsKept ==
    ASSUME TypeOK, KeyInv, NEW t \in Threads, NEW thread, dec' = [dec EXCEPT ![t] = thread],
           d'.picture # "lost" => d.picture # "lost",
           d'.codec = d.codec, d'.made = d.made,
           thread.at \in {"top", "peeked", "polled", "queue"} =>
              \/ InLoop(t) /\ thread.c = dec[t].c
              \/ /\ thread.c \in 1..d.made
                 /\ d'.picture = "lost" \/ \A u \in Threads : ~InLoop(u)
    PROVE  Solo' /\ Made'
  <1>1. dec'[t] = thread /\ \A u \in Threads : u # t => dec'[u] = dec[u] BY KeyNumbers
  <1>2. Made' BY <1>1 DEF KeyInv, Made, InLoop
  <1>3. Solo'
    <2> SUFFICES ASSUME d'.picture # "lost", NEW u \in Threads, NEW v \in Threads,
                        Loops(dec'[u], d'.codec), Loops(dec'[v], d'.codec), u # v
                 PROVE  FALSE
      BY DEF Solo
    <2>1. \A w \in Threads : Loops(dec'[w], d'.codec) =>
             Loops(dec[w], d.codec) \/ (w = t /\ \A x \in Threads : ~InLoop(x))
      BY <1>1 DEF Loops, InLoop
    <2>2. Loops(dec[u], d.codec) /\ Loops(dec[v], d.codec)
      BY <1>1, <2>1 DEF Loops, InLoop
    <2> QED BY <2>2 DEF KeyInv, Solo
  <1> QED BY <1>2, <1>3

\* The line stays when t's hands do not change and the queue neither.
LEMMA LineKept ==
    ASSUME TypeOK, NEW t \in Threads, NEW thread, ThreadMoves(t, thread),
           d'.pending = d.pending, d'.picture = d.picture, d'.last = d.last,
           \A u \in Threads : (Holder(u)' <=> Holder(u)) /\ (Holder(u) => dec'[u].f = dec[u].f),
           InLine
    PROVE  InLine'
  <1>1. NetKey' = NetKey /\ Base' = Base
    BY DEF NetKey, NetHolds, Base, ThreadMoves
  <1>2. Held' = Held BY DEF Held
  <1> QED BY <1>1, <1>2 DEF InLine

LEMMA HeadsKept ==
    ASSUME TypeOK, NEW t \in Threads, NEW thread, ThreadMoves(t, thread),
           d'.pending = d.pending, d'.codec = d.codec,
           thread.at = "peeked" =>
              \/ dec[t].at = "peeked" /\ thread.f = dec[t].f /\ thread.c = dec[t].c
              \/ d.pending # <<>> /\ thread.f = Head(d.pending),
           \A u \in Threads : dec[u].at = "peeked" /\ dec[u].c = d.codec => AtHead(u)
    PROVE  \A u \in Threads : dec'[u].at = "peeked" /\ dec'[u].c = d'.codec => AtHead(u)'
  <1>1. dec'[t] = thread /\ \A u \in Threads : u # t => dec'[u] = dec[u]
    BY KeyNumbers DEF ThreadMoves
  <1>2. NetKey' = NetKey BY DEF NetKey, NetHolds, ThreadMoves
  <1> SUFFICES ASSUME NEW u \in Threads, dec'[u].at = "peeked", dec'[u].c = d'.codec
               PROVE  AtHead(u)'
    OBVIOUS
  <1>3. CASE u = t /\ d.pending # <<>> /\ thread.f = Head(d.pending)
    BY <1>1, <1>3 DEF AtHead
  <1>4. CASE dec[u].at = "peeked" /\ dec'[u].f = dec[u].f /\ dec[u].c = d.codec
    <2>1. AtHead(u) BY <1>4
    <2> QED BY <1>2, <1>4, <2>1 DEF AtHead
  <1> QED BY <1>1, <1>3, <1>4

\* A step that changes nothing but what t does, flags apart.
LEMMA QuietStep ==
    ASSUME TypeOK, KeyInv, NEW t \in Threads, NEW thread, ThreadMoves(t, thread),
           d'.pending = d.pending, d'.codec = d.codec, d'.made = d.made,
           d'.asked = d.asked, d'.waiting = d.waiting,
           d'.picture = "lost" \/ (d'.picture = d.picture /\ d'.last = d.last),
           dec[t].at \notin {"thrown", "nulled", "cleared"},
           thread.at \in {"top", "peeked", "polled", "queue"} =>
              \/ InLoop(t) /\ thread.c = dec[t].c
              \/ /\ thread.c \in 1..d.made
                 /\ d'.picture = "lost" \/ \A u \in Threads : ~InLoop(u),
           \/ d'.running = FALSE \/ d'.picture = "lost" \/ thread.at = "thrown"
           \/ /\ Holds(thread, d.codec) <=> Holder(t)
              /\ Holder(t) => thread.f = dec[t].f,
           thread.at = "peeked" =>
              \/ dec[t].at = "peeked" /\ thread.f = dec[t].f /\ thread.c = dec[t].c
              \/ d.pending # <<>> /\ thread.f = Head(d.pending)
    PROVE  KeyInv'
  <1>1. /\ dec' = [dec EXCEPT ![t] = thread] /\ dec'[t] = thread
        /\ \A u \in Threads : u # t => dec'[u] = dec[u]
    BY KeyNumbers DEF ThreadMoves
  <1>2. Solo' /\ Made'
    <2>1. d'.picture # "lost" => d.picture # "lost" OBVIOUS
    <2> QED BY <1>1, <2>1, LoopsKept
  <1>3. ASSUME Straight'
        PROVE  /\ InLine'
               /\ \A u \in Threads : dec'[u].at = "peeked" /\ dec'[u].c = d'.codec => AtHead(u)'
    <2>1. d'.running # FALSE /\ d'.picture # "lost" /\ thread.at # "thrown"
      BY <1>3, NotStraight
    <2>2. Straight
      <3>1. \A u \in Threads : dec[u].at \in {"thrown", "nulled", "cleared"}
                                  => dec'[u].at \in {"thrown", "nulled", "cleared"}
        BY <1>1
      <3> QED BY <1>3, <2>1, <3>1 DEF Straight, Mending, ThreadMoves
    <2>3. InLine /\ \A u \in Threads : dec[u].at = "peeked" /\ dec[u].c = d.codec => AtHead(u)
      BY <2>2 DEF KeyInv, Lined, Peeked
    <2>4. \A u \in Threads : (Holder(u)' <=> Holder(u)) /\ (Holder(u) => dec'[u].f = dec[u].f)
      BY <1>1, <2>1 DEF Holder
    <2> QED BY <2>1, <2>3, <2>4, LineKept, HeadsKept
  <1> QED BY <1>2, <1>3, LineParts

LEMMA ThreadStepMoves ==
    ASSUME NEW t, NEW thread, ThreadStep(t, thread) PROVE ThreadMoves(t, thread)
  BY DEF ThreadStep, ThreadMoves

LEMMA TakeStepMoves ==
    ASSUME NEW t, NEW job, NEW thread, TakeStep(t, job, thread)
    PROVE  ThreadMoves(t, thread) /\ dec[t].at = "off"
  BY DEF TakeStep, Takes, ThreadMoves

LEMMA CreateKeyInv ==
    ASSUME TypeOK, KeyInv, NEW t \in Threads, CreateCodec(t) PROVE KeyInv'
  <1>0. d \in Shared /\ dec \in [Threads -> Thread] /\ dec[t] \in Thread
        /\ d.made \in Nat /\ d.codec \in Nat
    BY KeyNumbers
  <1>1. ASSUME NEW job, TakeStep(t, job, At(t, "creating")), d' = d PROVE KeyInv'
    <2>1. ThreadMoves(t, At(t, "creating")) /\ dec[t].at = "off" BY <1>1, TakeStepMoves
    <2>2. At(t, "creating").at = "creating" BY <1>0 DEF At, Thread
    <2>3. ~Holds(At(t, "creating"), d.codec) /\ ~Holder(t)
      BY <2>1, <2>2 DEF Holder, Holds
    <2> QED BY <1>1, <2>1, <2>2, <2>3, QuietStep
  <1>2. CASE dec[t].at = "creating" /\ ThreadStep(t, Reads("loop")) /\ d' = Created
    <2>1. ThreadMoves(t, Reads("loop")) BY <1>2, ThreadStepMoves
    <2>2. Reads("loop").at = "read" BY DEF Reads, Off
    <2>3. /\ d'.codec = d.made + 1 /\ d'.made = d.made + 1 /\ d'.running = d.running
          /\ d'.asked = d.asked /\ d'.waiting = d.waiting /\ d'.pending = d.pending
          /\ d.codec # 0 => d'.picture = "lost"
          /\ d.codec = 0 => d'.picture = d.picture /\ d'.last = d.last
      BY <1>0, <1>2, CreatedParts
    <2>4. dec'[t].at = "read" /\ \A u \in Threads : u # t => dec'[u] = dec[u]
      BY <1>0, <2>1, <2>2 DEF ThreadMoves
    <2>5. \A u \in Threads : InLoop(u)' => InLoop(u) /\ dec'[u] = dec[u]
      BY <2>4 DEF InLoop
    <2>6. Made'
      <3>1. 1..d.made \subseteq 1..(d.made + 1) BY <1>0
      <3> QED BY <2>3, <2>5, <3>1 DEF KeyInv, Made
    <2>7. \A u \in Threads : ~Loops(dec'[u], d'.codec)
      <3> SUFFICES ASSUME NEW u \in Threads, Loops(dec'[u], d'.codec) PROVE FALSE
        OBVIOUS
      <3>1. InLoop(u)' BY DEF Loops, InLoop
      <3>2. dec[u].c \in 1..d.made /\ dec[u].c = d.made + 1
        BY <2>3, <2>5, <3>1 DEF KeyInv, Made, Loops
      <3> QED BY <1>0, <3>2
    <2>8. Solo' BY <2>7 DEF Solo
    <2>9. ASSUME Straight'
          PROVE  /\ InLine'
                 /\ \A u \in Threads : dec'[u].at = "peeked" /\ dec'[u].c = d'.codec
                                          => AtHead(u)'
      <3>1. d'.picture # "lost" BY <2>9 DEF Straight
      <3>2. d.codec = 0 /\ d'.picture = d.picture /\ d'.last = d.last BY <2>3, <3>1
      <3>3. Straight
        <4>1. \A u \in Threads : dec[u].at \in {"thrown", "nulled", "cleared"}
                                    => dec'[u].at \in {"thrown", "nulled", "cleared"}
          BY <1>2, <2>4
        <4> QED BY <2>1, <2>3, <2>9, <3>2, <4>1 DEF Straight, Mending, ThreadMoves
      <3>4. InLine BY <3>3 DEF KeyInv, Lined
      <3>5. \A u \in Threads : ~Holder(u)
        <4> SUFFICES ASSUME NEW u \in Threads, Holder(u) PROVE FALSE
          OBVIOUS
        <4>1. InLoop(u) /\ dec[u].c = 0 BY <3>2 DEF Holder, Holds, InLoop
        <4>2. dec[u].c \in 1..d.made BY <4>1 DEF KeyInv, Made
        <4> QED BY <1>0, <4>1, <4>2
      <3>6. \A u \in Threads : ~Holder(u)'
        BY <2>7 DEF Holder, Holds, Loops
      <3>7. InLine' BY <2>1, <2>3, <3>2, <3>4, <3>5, <3>6, LineKept
      <3>8. \A u \in Threads : ~(dec'[u].at = "peeked" /\ dec'[u].c = d'.codec)
        BY <2>7 DEF Loops
      <3> QED BY <3>7, <3>8
    <2> QED BY <2>1, <2>3, <2>6, <2>8, <2>9, LineParts
  <1>3. CASE dec[t].at = "creating" /\ ThreadStep(t, Off) /\ d' = [d EXCEPT !.running = FALSE]
    <2>1. /\ d'.running = FALSE /\ d'.pending = d.pending /\ d'.codec = d.codec
          /\ d'.made = d.made /\ d'.asked = d.asked /\ d'.waiting = d.waiting
          /\ d'.picture = d.picture /\ d'.last = d.last
      BY <1>0, <1>3 DEF Shared
    <2>2. ThreadMoves(t, Off) /\ Off.at = "off" BY <1>3, ThreadStepMoves DEF Off
    <2> QED BY <1>3, <2>1, <2>2, QuietStep
  <1> QED BY <1>1, <1>2, <1>3, CreateShapes

LEMMA BeginsKeyInv ==
    ASSUME TypeOK, KeyInv, NEW t \in Threads, RunsOut(t) \/ LoopBegins(t) PROVE KeyInv'
  <1>0. d \in Shared /\ dec \in [Threads -> Thread] /\ d.made \in Nat /\ d.codec \in Nat
    BY KeyNumbers
  <1>1. CASE RunsOut(t)
    <2>1. d' = d /\ ThreadMoves(t, dec[t]) /\ dec[t].at = "off"
      BY <1>1, RunsOutShapes, TakeStepMoves
    <2>2. ~Holder(t) BY <2>1 DEF Holder, Holds
    <2> QED BY <2>1, <2>2, QuietStep DEF Holder
  <1>2. CASE LoopBegins(t)
    <2>1. /\ ThreadMoves(t, Top(d.codec)) /\ dec[t].at = "off" /\ d.codec # 0
          /\ d'.pending = d.pending /\ d'.codec = d.codec /\ d'.made = d.made
          /\ d'.asked = d.asked /\ d'.waiting = d.waiting
          /\ \/ d'.picture = "lost"
             \/ d' = d /\ \A u \in Threads : ~InLoop(u)
      BY <1>2, BeginsShape, TakeStepMoves DEF Same
    <2>2. Top(d.codec).at = "top" /\ Top(d.codec).c = d.codec BY DEF Top, Off
    <2>3. d.codec \in 1..d.made BY <1>0, <2>1, TypeOKParts DEF Types
    <2>4. ~Holder(t) /\ ~Holds(Top(d.codec), d.codec) BY <2>1, <2>2 DEF Holder, Holds
    <2> QED BY <2>1, <2>2, <2>3, <2>4, QuietStep
  <1> QED BY <1>1, <1>2

LEMMA PeeksKeyInv ==
    ASSUME TypeOK, KeyInv, NEW t \in Threads, LoopPeeks(t) PROVE KeyInv'
  <1>0. dec[t] \in Thread BY KeyNumbers
  <1>1. d' = d BY PeeksShapes
  <1>2. CASE dec[t].at \in {"top", "peeked"} /\ ThreadStep(t, Reads("loop"))
    <2>1. ThreadMoves(t, Reads("loop")) /\ Reads("loop").at = "read"
      BY <1>2, ThreadStepMoves DEF Reads, Off
    <2>2. ~Holder(t) /\ ~Holds(Reads("loop"), d.codec) BY <1>2, <2>1 DEF Holder, Holds
    <2> QED BY <1>1, <1>2, <2>1, <2>2, QuietStep
  <1>3. CASE /\ d.pending # <<>> /\ dec[t].at = "top"
             /\ ThreadStep(t, [At(t, "peeked") EXCEPT !.f = Head(d.pending)])
    <2> DEFINE thread == [At(t, "peeked") EXCEPT !.f = Head(d.pending)]
    <2>1. thread.at = "peeked" /\ thread.f = Head(d.pending) /\ thread.c = dec[t].c
      BY <1>0 DEF At, Thread
    <2>2. ThreadMoves(t, thread) BY <1>3, ThreadStepMoves
    <2> HIDE DEF thread
    <2>3. ~Holder(t) /\ ~Holds(thread, d.codec) /\ InLoop(t)
      BY <1>3, <2>1 DEF Holder, Holds, InLoop
    <2> QED BY <1>1, <1>3, <2>1, <2>2, <2>3, QuietStep
  <1> QED BY <1>2, <1>3, PeeksShapes

LEMMA PollsKeyInv ==
    ASSUME TypeOK, KeyInv, NEW t \in Threads, LoopPolls(t) PROVE KeyInv'
  <1>0. /\ dec \in [Threads -> Thread] /\ dec[t] \in Thread /\ d.pending \in Seq(Frames)
        /\ Base \in Int /\ sent \in Nat /\ Len(d.pending) \in Nat /\ d.last \in Int
    BY KeyNumbers
  <1>1. CASE /\ dec[t].at = "peeked" /\ ThreadStep(t, At(t, "polled")) /\ Same(d, d')
             /\ d'.pending = IF d.pending = <<>> THEN d.pending ELSE Tail(d.pending)
             /\ Misses(t) => d'.picture = "lost"
             /\ ~Misses(t) => d'.picture = d.picture /\ d'.last = d.last
    <2> DEFINE thread == At(t, "polled")
    <2>1. thread.at = "polled" /\ thread.f = dec[t].f /\ thread.c = dec[t].c
      BY <1>0 DEF At, Thread
    <2>2. ThreadMoves(t, thread) BY <1>1, ThreadStepMoves
    <2> HIDE DEF thread
    <2>3. dec' = [dec EXCEPT ![t] = thread] /\ dec'[t] = thread
          /\ \A u \in Threads : u # t => dec'[u] = dec[u]
      BY <1>0, <2>2 DEF ThreadMoves
    <2>4. /\ d'.codec = d.codec /\ d'.made = d.made /\ d'.running = d.running
          /\ d'.asked = d.asked /\ d'.waiting = d.waiting
      BY <1>1 DEF Same
    <2>5. Solo' /\ Made'
      <3>1. InLoop(t) BY <1>1 DEF InLoop
      <3>2. d'.picture # "lost" => d.picture # "lost"
        <4>1. CASE Misses(t) BY <1>1, <4>1
        <4>2. CASE ~Misses(t) BY <1>1, <4>2
        <4> QED BY <4>1, <4>2
      <3> QED BY <2>1, <2>3, <2>4, <3>1, <3>2, LoopsKept
    <2>6. ASSUME Straight'
          PROVE  /\ InLine'
                 /\ \A u \in Threads : dec'[u].at = "peeked" /\ dec'[u].c = d'.codec
                                          => AtHead(u)'
      <3>1. ~Misses(t) /\ d'.picture # "lost"
        BY <1>1, <2>6 DEF Straight
      <3>2. /\ dec[t].c = d.codec /\ d'.picture = d.picture /\ d'.last = d.last
            /\ d.pending # <<>> => Head(d.pending) = dec[t].f
        BY <1>1, <3>1 DEF Misses
      <3>3. Straight
        <4>1. \A u \in Threads : dec[u].at \in {"thrown", "nulled", "cleared"}
                                    => dec'[u].at \in {"thrown", "nulled", "cleared"}
          BY <1>1, <2>3
        <4> QED BY <2>2, <2>4, <2>6, <3>2, <4>1 DEF Straight, Mending, ThreadMoves
      <3>4. InLine /\ AtHead(t) BY <1>1, <3>2, <3>3 DEF KeyInv, Lined, Peeked
      <3>5. \A u \in Threads : Loops(dec[u], d.codec) => u = t
        BY <1>1, <3>1, <3>2 DEF KeyInv, Solo, Loops
      <3>6. \A u \in Threads : ~Holder(u)
        BY <1>1, <3>5 DEF Holder, Holds, Loops
      <3>7. \A u \in Threads : Holder(u)' <=> u = t
        BY <2>1, <2>3, <2>4, <3>2, <3>6 DEF Holder, Holds
      <3>8. ~Held /\ Held' BY <3>6, <3>7 DEF Held
      <3>9. NetKey' = NetKey /\ NetHolds' = NetHolds /\ sent' = sent
        BY <2>2 DEF NetKey, NetHolds, ThreadMoves
      <3>10. CASE d.pending = <<>>
        <4>1. NetKey BY <3>4, <3>10 DEF AtHead
        <4> QED BY <2>1, <2>3, <2>4, <3>5, <3>9, <4>1 DEF InLine, Loops
      <3>11. CASE d.pending # <<>>
        <4> DEFINE q == d.pending
                   r == Tail(d.pending)
        <4>1. /\ Len(r) = Len(q) - 1
              /\ Runs(q, Base, 1) => Head(q).n = Base + 1 /\ Runs(r, Base + 1, 1)
              /\ HasKey(q, Base) =>
                   \/ Head(q).key /\ Head(q).n = Base + 1 /\ Runs(r, Base + 1, 1)
                   \/ HasKey(r, Base + 1)
          BY <1>0, <3>11, RunsTail
        <4>2. d'.pending = r /\ Head(q) = dec[t].f BY <1>1, <3>2, <3>11
        <4> HIDE DEF q, r
        <4>3. Base' = Base + 1 BY <1>0, <3>9, <4>1, <4>2 DEF Base, q, One
        <4>4. dec'[t].f = dec[t].f BY <2>1, <2>3
        <4>5. InLine'
          <5>1. CASE NetKey BY <3>9, <5>1 DEF InLine
          <5>2. CASE HasKey(q, Base)
            <6>1. CASE HasKey(r, Base + 1) BY <4>2, <4>3, <6>1 DEF InLine
            <6>2. CASE Head(q).key /\ Head(q).n = Base + 1 /\ Runs(r, Base + 1, 1)
              BY <3>7, <4>2, <4>3, <4>4, <6>2 DEF InLine
            <6> QED BY <4>1, <5>2, <6>1, <6>2
          <5>3. CASE d.picture = "right" /\ d.last = Base - One(Held) /\ Runs(q, Base, 1)
            <6>1. d'.picture = "right" /\ d'.last = Base' - One(Held')
              BY <1>0, <3>2, <3>8, <4>3, <5>3 DEF One
            <6>2. dec'[t].f.n = Base' /\ Runs(d'.pending, Base', 1)
              BY <4>1, <4>2, <4>3, <4>4, <5>3
            <6> QED BY <3>7, <6>1, <6>2 DEF InLine
          <5> QED BY <3>4, <3>6, <5>1, <5>2, <5>3 DEF InLine, q
        <4>6. \A u \in Threads : ~(dec'[u].at = "peeked" /\ dec'[u].c = d'.codec)
          BY <2>1, <2>3, <2>4, <3>5 DEF Loops
        <4> QED BY <4>5, <4>6
      <3> QED BY <3>10, <3>11
    <2> QED BY <2>2, <2>4, <2>5, <2>6, LineParts
  <1>2. CASE /\ dec[t].at = "polled" /\ ThreadStep(t, At(t, "queue")) /\ Same(d, d')
             /\ d'.pending = d.pending /\ d'.picture = d.picture /\ d'.last = d.last
    <2> DEFINE thread == At(t, "queue")
    <2>1. thread.at = "queue" /\ thread.f = dec[t].f /\ thread.c = dec[t].c
      BY <1>0 DEF At, Thread
    <2>2. ThreadMoves(t, thread) BY <1>2, ThreadStepMoves
    <2> HIDE DEF thread
    <2>3. Holds(thread, d.codec) <=> Holder(t) BY <1>2, <2>1 DEF Holder, Holds
    <2>4. InLoop(t) BY <1>2 DEF InLoop
    <2>5. /\ d'.codec = d.codec /\ d'.made = d.made
          /\ d'.asked = d.asked /\ d'.waiting = d.waiting
      BY <1>2 DEF Same
    <2> QED BY <1>2, <2>1, <2>2, <2>3, <2>4, <2>5, QuietStep
  <1> QED BY <1>1, <1>2, PollsShapes


LEMMA QueuesKeyInv ==
    ASSUME TypeOK, KeyInv, NEW t \in Threads, LoopQueues(t) PROVE KeyInv'
  <1>0. /\ d \in Shared /\ dec \in [Threads -> Thread] /\ dec[t].f \in Frames
        /\ dec[t].f.n \in Int /\ Base \in Int /\ d.last \in Int
    BY KeyNumbers
  <1>1. /\ dec[t].at = "queue" /\ d'.pending = d.pending /\ d'.codec = d.codec
        /\ d'.made = d.made /\ d'.running = d.running
        /\ d'.asked = d.asked /\ d'.waiting = d.waiting
    BY QueuesShapes DEF Same
  <1>2. InLoop(t) BY <1>1 DEF InLoop
  <1>3. /\ Top(dec[t].c).at = "top" /\ Top(dec[t].c).c = dec[t].c
        /\ Reads("loop").at = "read"
    BY DEF Top, Reads, Off
  <1>4. CASE ThreadStep(t, Top(dec[t].c)) /\ dec[t].c = d.codec /\ d' = Decoded(dec[t].f)
    <2> DEFINE thread == Top(dec[t].c)
               f == dec[t].f
    <2>1. thread.at = "top" /\ thread.c = d.codec BY <1>3, <1>4
    <2>2. ThreadMoves(t, thread) BY <1>4, ThreadStepMoves
    <2>3. /\ d.picture = "lost" => d' = d
          /\ d.picture # "lost" =>
                IF f.key \/ (d.picture = "right" /\ f.n = d.last + 1)
                THEN d'.picture = "right" /\ d'.last = f.n
                ELSE d'.picture = "wrong"
      BY <1>0, <1>4, DecodedSame
    <2> HIDE DEF thread, f
    <2>4. /\ dec' = [dec EXCEPT ![t] = thread] /\ dec'[t] = thread
          /\ \A u \in Threads : u # t => dec'[u] = dec[u]
      BY <1>0, <2>2 DEF ThreadMoves
    <2>5. d'.picture # "lost" => d.picture # "lost" BY <2>3
    <2>6. Solo' /\ Made' BY <1>1, <1>2, <1>4, <2>1, <2>4, <2>5, LoopsKept
    <2>7. ASSUME Straight'
          PROVE  /\ InLine'
                 /\ \A u \in Threads : dec'[u].at = "peeked" /\ dec'[u].c = d'.codec
                                          => AtHead(u)'
      <3>1. d.picture # "lost" BY <2>5, <2>7 DEF Straight
      <3>2. Straight
        <4>1. \A u \in Threads : dec[u].at \in {"thrown", "nulled", "cleared"}
                                    => dec'[u].at \in {"thrown", "nulled", "cleared"}
          BY <1>1, <2>4
        <4> QED BY <1>1, <2>2, <2>7, <3>1, <4>1 DEF Straight, Mending, ThreadMoves
      <3>3. /\ InLine
            /\ \A u \in Threads : dec[u].at = "peeked" /\ dec[u].c = d.codec => AtHead(u)
        BY <3>2 DEF KeyInv, Lined, Peeked
      <3>4. \A u \in Threads : Holder(u) <=> u = t
        BY <1>1, <1>4, <3>1 DEF KeyInv, Solo, Holder, Holds, Loops
      <3>5. \A u \in Threads : ~Holder(u)'
        BY <1>1, <2>1, <2>4, <3>4 DEF Holder, Holds
      <3>6. Held /\ ~Held' BY <3>4, <3>5 DEF Held
      <3>7. NetKey' = NetKey /\ Base' = Base
        BY <1>1, <2>2 DEF NetKey, NetHolds, Base, ThreadMoves
      <3>8. InLine'
        <4>1. CASE NetKey \/ HasKey(d.pending, Base) BY <1>1, <3>7, <4>1 DEF InLine
        <4>2. ASSUME d'.picture = "right", d'.last = Base, Runs(d.pending, Base, 1)
              PROVE  InLine'
          <5>1. d'.last = Base' - One(Held') BY <1>0, <3>6, <3>7, <4>2 DEF One
          <5> QED BY <1>1, <3>5, <3>7, <4>2, <5>1 DEF InLine
        <4>3. CASE f.key /\ f.n = Base /\ Runs(d.pending, Base, 1)
          BY <2>3, <3>1, <4>2, <4>3
        <4>4. CASE /\ d.picture = "right" /\ d.last = Base - One(Held)
                   /\ f.n = Base /\ Runs(d.pending, Base, 1)
          <5>1. f.n = d.last + 1 BY <1>0, <3>6, <4>4 DEF One, f
          <5> QED BY <2>3, <3>1, <4>2, <4>4, <5>1
        <4>5. \/ NetKey \/ HasKey(d.pending, Base)
              \/ f.key /\ f.n = Base /\ Runs(d.pending, Base, 1)
              \/ /\ d.picture = "right" /\ d.last = Base - One(Held)
                 /\ f.n = Base /\ Runs(d.pending, Base, 1)
          BY <3>3, <3>4 DEF InLine, f
        <4> QED BY <4>1, <4>3, <4>4, <4>5
      <3>9. thread.at # "peeked" BY <2>1
      <3>10. \A u \in Threads : dec'[u].at = "peeked" /\ dec'[u].c = d'.codec => AtHead(u)'
        BY <1>1, <2>2, <3>3, <3>9, HeadsKept
      <3> QED BY <3>8, <3>10
    <2> QED BY <1>1, <2>2, <2>6, <2>7, LineParts
  <1>5. CASE ThreadStep(t, Top(dec[t].c)) /\ dec[t].c # d.codec /\ d' = d
    <2>1. ThreadMoves(t, Top(dec[t].c)) BY <1>5, ThreadStepMoves
    <2>2. ~Holder(t) /\ ~Holds(Top(dec[t].c), d.codec)
      BY <1>3, <1>5 DEF Holder, Holds
    <2> QED BY <1>1, <1>2, <1>3, <1>5, <2>1, <2>2, QuietStep
  <1>6. CASE ThreadStep(t, Reads("loop")) /\ d'.picture = "lost"
    <2>1. ThreadMoves(t, Reads("loop")) BY <1>6, ThreadStepMoves
    <2> QED BY <1>1, <1>3, <1>6, <2>1, QuietStep
  <1> QED BY <1>4, <1>5, <1>6, QueuesShapes

LEMMA ThrowsKeyInv ==
    ASSUME TypeOK, KeyInv, NEW t \in Threads, CodecThrows(t) PROVE KeyInv'
  <1> DEFINE thread == IF d.running THEN [Off EXCEPT !.at = "thrown"] ELSE Off
  <1>1. d' = d /\ dec[t].at \in {"top", "peeked", "queue"} /\ ThreadMoves(t, thread)
    BY ThrowsShape, ThreadStepMoves
  <1>2. thread.at = (IF d.running THEN "thrown" ELSE "off") BY DEF Off
  <1>3. d.running \in BOOLEAN BY KeyNumbers DEF Shared
  <1>4. d'.running = FALSE \/ thread.at = "thrown" BY <1>1, <1>2, <1>3
  <1>5. thread.at \in {"thrown", "off"} BY <1>2
  <1> HIDE DEF thread
  <1> QED BY <1>1, <1>4, <1>5, QuietStep

LEMMA RecreateKeyInv ==
    ASSUME TypeOK, KeyInv, NEW t \in Threads, Recreate(t) PROVE KeyInv'
  <1>0. d \in Shared /\ dec \in [Threads -> Thread] /\ dec[t] \in Thread /\ d.made \in Nat
    BY KeyNumbers
  <1>1. CASE dec[t].at = "thrown" /\ ThreadStep(t, At(t, "nulled")) /\ d' = NoCodec
    <2>1. ThreadMoves(t, At(t, "nulled")) /\ At(t, "nulled").at = "nulled"
      BY <1>0, <1>1, ThreadStepMoves DEF At, Thread
    <2>2. /\ d'.codec = 0 /\ d'.made = d.made /\ d'.asked = d.asked
          /\ d'.waiting = d.waiting
      BY <1>0, <1>1, NoCodecParts
    <2>3. dec'[t].at = "nulled" /\ \A u \in Threads : u # t => dec'[u] = dec[u]
      BY <1>0, <2>1 DEF ThreadMoves
    <2>4. Made' BY <2>2, <2>3 DEF KeyInv, Made, InLoop
    <2>5. \A u \in Threads : ~Loops(dec'[u], d'.codec)
      <3> SUFFICES ASSUME NEW u \in Threads, Loops(dec'[u], d'.codec) PROVE FALSE
        OBVIOUS
      <3>1. dec'[u].c \in 1..d.made /\ dec'[u].c = 0
        BY <2>2, <2>4 DEF Made, Loops, InLoop
      <3> QED BY <1>0, <3>1
    <2>6. Solo' BY <2>5 DEF Solo
    <2>7. ~Straight' BY <2>1, NotStraight
    <2> QED BY <2>1, <2>2, <2>4, <2>6, <2>7, LineParts
  <1>2. CASE /\ dec[t].at = "nulled" /\ ThreadStep(t, At(t, "cleared")) /\ Same(d, d')
             /\ d'.picture = d.picture
    <2>1. ThreadMoves(t, At(t, "cleared")) /\ At(t, "cleared").at = "cleared"
      BY <1>0, <1>2, ThreadStepMoves DEF At, Thread
    <2>2. d'.codec = d.codec /\ d'.made = d.made /\ d'.asked = d.asked
          /\ d'.waiting = d.waiting
      BY <1>2 DEF Same
    <2>3. Solo' /\ Made' BY <1>2, <2>1, <2>2, LoopsKept DEF ThreadMoves
    <2>4. ~Straight' BY <2>1, NotStraight
    <2> QED BY <2>1, <2>2, <2>3, <2>4, LineParts
  <1>3. CASE /\ dec[t].at = "cleared" /\ ThreadStep(t, Reads("again")) /\ Flags(d, d')
             /\ d'.asked = TRUE
    <2>1. ThreadMoves(t, Reads("again")) /\ Reads("again").at = "read"
      BY <1>3, ThreadStepMoves DEF Reads, Off
    <2>2. d'.codec = d.codec /\ d'.made = d.made /\ d'.picture = d.picture
      BY <1>3 DEF Flags
    <2>3. Solo' /\ Made' BY <1>3, <2>1, <2>2, LoopsKept DEF ThreadMoves
    <2>4. ~Straight' BY <1>3, <2>1, NotStraight
    <2> QED BY <1>3, <2>1, <2>3, <2>4, LineParts
  <1> QED BY <1>1, <1>2, <1>3, RecreateShapes

LEMMA PostsKeyInv ==
    ASSUME TypeOK, KeyInv, NEW t \in Threads, Posts(t) PROVE KeyInv'
  <1>0. dec[t] \in Thread BY KeyNumbers
  <1>1. d' = d BY PostsShapes
  <1>2. ASSUME dec[t].at \in {"read", "post"}, NEW thread, thread.at \in {"off", "post"},
               ThreadMoves(t, thread)
        PROVE  KeyInv'
    <2>1. ~Holder(t) /\ ~Holds(thread, d.codec) BY <1>2 DEF Holder, Holds
    <2> QED BY <1>1, <1>2, <2>1, QuietStep
  <1>3. Off.at = "off" BY DEF Off
  <1>4. CASE dec[t].at = "read" /\ ThreadStep(t, Off)
    <2>1. ThreadMoves(t, Off) BY <1>4, ThreadStepMoves
    <2> QED BY <1>2, <1>3, <1>4, <2>1
  <1>5. CASE /\ dec[t].at = "read"
             /\ ThreadStep(t, [dec[t] EXCEPT !.at = "post", !.to = d.handler])
    <2> DEFINE thread == [dec[t] EXCEPT !.at = "post", !.to = d.handler]
    <2>1. ThreadMoves(t, thread) BY <1>5, ThreadStepMoves
    <2>2. thread.at = "post" BY <1>0 DEF Thread
    <2> HIDE DEF thread
    <2> QED BY <1>2, <1>5, <2>1, <2>2
  <1>6. CASE PostStep(t)
    <2>1. ThreadMoves(t, Off) /\ dec[t].at = "post" BY <1>6 DEF PostStep, ThreadMoves
    <2> QED BY <1>2, <1>3, <2>1
  <1> QED BY <1>4, <1>5, <1>6, PostsShapes

LEMMA DecKeyInv == ASSUME TypeOK, KeyInv, NEW t \in Threads, DecStep(t) PROVE KeyInv'
  BY CreateKeyInv, BeginsKeyInv, PeeksKeyInv, PollsKeyInv, QueuesKeyInv, ThrowsKeyInv,
     RecreateKeyInv, PostsKeyInv DEF DecStep

LEMMA MainKeyInv == TypeOK /\ KeyInv /\ MainStep => KeyInv'
  <1> SUFFICES ASSUME TypeOK, KeyInv, MainStep PROVE KeyInv'
    OBVIOUS
  <1>0. d \in Shared /\ d.made \in Nat BY KeyNumbers
  <1>1. UNCHANGED <<net, dec, sent>> BY MainShapes
  <1>2. Newest' BY <1>1 DEF KeyInv, Newest
  <1>3. d'.made = d.made /\ (d'.codec = 0 \/ d'.codec = d.codec)
    <2>1. CASE MainStops BY <1>0, <2>1, StoppedParts DEF MainStops
    <2> QED BY <2>1, MainShapes DEF MainClears, MainBegins, MainStarts, MainAsks, Same, Flags
  <1>4. Made' BY <1>1, <1>3 DEF KeyInv, Made, InLoop
  <1>5. CASE MainStops
    <2>1. d'.codec = 0 /\ d'.running = FALSE
      BY <1>0, <1>5, StoppedParts DEF MainStops
    <2>2. \A u \in Threads : ~Loops(dec'[u], d'.codec)
      <3> SUFFICES ASSUME NEW u \in Threads, Loops(dec'[u], d'.codec) PROVE FALSE
        OBVIOUS
      <3>1. dec'[u].c \in 1..d.made /\ dec'[u].c = 0
        BY <1>3, <1>4, <2>1 DEF Made, Loops, InLoop
      <3> QED BY <1>0, <3>1
    <2>3. Solo' BY <2>2 DEF Solo
    <2>4. Lined' /\ Peeked' /\ Waits' BY <2>1 DEF Lined, Peeked, Waits, Straight
    <2> QED BY <1>2, <1>4, <2>3, <2>4 DEF KeyInv
  <1>6. CASE MainAsks
    <2>1. d'.asked = TRUE /\ d'.codec = d.codec /\ d'.picture = d.picture
      BY <1>6 DEF MainAsks, Flags
    <2>2. Solo' BY <1>1, <2>1 DEF KeyInv, Solo
    <2>3. Lined' /\ Peeked' /\ Waits' BY <2>1 DEF Lined, Peeked, Waits, Straight, Mending
    <2> QED BY <1>2, <1>4, <2>2, <2>3 DEF KeyInv
  <1>7. CASE MainBegins \/ MainStarts
    <2>1. main' # "idle" /\ d'.codec = d.codec /\ d'.picture = d.picture
      BY <1>7 DEF MainBegins, MainStarts, Flags
    <2>2. Solo' BY <1>1, <2>1 DEF KeyInv, Solo
    <2>3. Lined' /\ Peeked' /\ Waits' BY <2>1 DEF Lined, Peeked, Waits, Straight
    <2> QED BY <1>2, <1>4, <2>2, <2>3 DEF KeyInv
  <1>8. CASE MainClears
    <2>1. main' # "idle" /\ d'.codec = d.codec BY <1>8 DEF MainClears, Same
    <2>2. d'.picture = d.picture BY <1>8 DEF MainClears
    <2>3. Solo' BY <1>1, <2>1, <2>2 DEF KeyInv, Solo
    <2>4. Lined' /\ Peeked' /\ Waits' BY <2>1 DEF Lined, Peeked, Waits, Straight
    <2> QED BY <1>2, <1>4, <2>3, <2>4 DEF KeyInv
  <1> QED BY <1>5, <1>6, <1>7, <1>8, MainShapes

LEMMA InitKeyInv == Init => KeyInv
  <1> SUFFICES ASSUME Init PROVE KeyInv
    OBVIOUS
  <1>1. d.running = FALSE /\ net.at = "idle" BY DEF Init, Idle
  <1>2. \A t \in Threads : dec[t].at = "off" BY DEF Init, Off
  <1>3. Lined /\ Peeked /\ Waits BY <1>1 DEF Lined, Peeked, Waits, Straight
  <1>4. Solo /\ Made BY <1>2 DEF Solo, Made, Loops, InLoop
  <1> QED BY <1>1, <1>3, <1>4 DEF KeyInv, Newest

LEMMA NextKeyInv == TypeOK /\ KeyInv /\ [Next]_vars => KeyInv'
  <1> SUFFICES ASSUME TypeOK, KeyInv, [Next]_vars PROVE KeyInv'
    OBVIOUS
  <1>1. CASE NetStep BY <1>1, ArrivesKeyInv, FeedKeyInv, AddsKeyInv DEF NetStep
  <1>2. CASE \E t \in Threads : DecStep(t) BY <1>2, DecKeyInv
  <1>3. CASE MainStep BY <1>3, MainKeyInv
  <1>4. CASE UNCHANGED vars
    BY <1>4 DEF vars, KeyInv, Lined, Peeked, Waits, Newest, Solo, Made, Straight, InLine, AtHead,
       Mending, Held, Holder, Base, NetKey, NetHolds, InLoop
  <1> QED BY <1>1, <1>2, <1>3, <1>4, NextSteps

LEMMA KeyInvIsEnough == TypeOK /\ KeyInv => KeyIsAskedFor
  <1> SUFFICES ASSUME TypeOK, KeyInv, d.running, main = "idle",
                      d.waiting \/ (d.codec # 0 /\ d.picture = "wrong")
               PROVE  KeyIsComing
    BY DEF KeyIsAskedFor
  <1>1. NetKey => KeyIsComing BY DEF NetKey, NetHolds, KeyIsComing
  <1>2. CASE d.waiting BY <1>1, <1>2 DEF KeyInv, Waits, KeyIsComing
  <1>3. CASE d.picture = "wrong"
    <2>1. CASE Mending BY <2>1 DEF Mending, KeyIsComing
    <2>2. CASE ~Mending
      <3>1. InLine BY <1>3, <2>2 DEF KeyInv, Lined, Straight
      <3>2. HasKey(d.pending, Base) => \E i \in DOMAIN d.pending : d.pending[i].key
        BY KeyNumbers DEF HasKey
      <3>3. (\E t \in Threads : Holder(t) /\ dec[t].f.key) => KeyIsComing
        BY DEF Holder, Holds, KeyIsComing
      <3> QED BY <1>1, <1>3, <3>1, <3>2, <3>3 DEF InLine, KeyIsComing
    <2> QED BY <2>1, <2>2
  <1> QED BY <1>2, <1>3

\* Who waits for a key frame has asked for one, and the codec's picture is wrong
\* only when one was asked for or is on its way, however the network thread, the
\* loops of this start and of earlier ones, recreate(), start() and stop() meet;
\* unless the picture is lost, in one of the ways KeyIsAskedFor names.
THEOREM KeyAlwaysAskedFor == Spec => []KeyIsAskedFor
  <1>1. Init => TypeOK /\ KeyInv BY InitTypeOK, InitKeyInv
  <1>2. TypeOK /\ KeyInv /\ [Next]_vars => (TypeOK /\ KeyInv)' BY NextTypeOK, NextKeyInv
  <1>3. TypeOK /\ KeyInv => KeyIsAskedFor BY KeyInvIsEnough
  <1> QED BY <1>1, <1>2, <1>3, PTL DEF Spec

===============================================================================
