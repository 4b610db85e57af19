---------------------------- MODULE SessionProofs ----------------------------
(***************************************************************************)
(* What holds of Session for every number of starts and of waiting         *)
(* callbacks: its types, which handles it keeps and that what a task waits *)
(* for comes, also while the server shuts down, and, as long as the server *)
(* stays up, that capture is reached only by authenticated clients and     *)
(* only from READY, that captures of one client never overlap, that no     *)
(* frame of an earlier stream follows `started`, and that nothing is left  *)
(* at the end.                                                             *)
(***************************************************************************)
EXTENDS Session, FiniteSetTheorems, TLAPS

\* What the loop pops from its callbacks, and what it leaves.
LEMMA HeadAndTail ==
    ASSUME NEW S, NEW q \in Seq(S), q # <<>>
    PROVE  Head(q) \in S /\ Tail(q) \in Seq(S)
  OBVIOUS

\* Types hold initially.
LEMMA InitTypeOK == Init => TypeOK
  <1> SUFFICES ASSUME Init PROVE TypeOK
    OBVIOUS
  <1> USE DEF Init, None
  <1>1. pc \in [Tasks -> AwaitLabels \cup StepLabels]
    BY DEF AwaitLabels, StepLabels
  <1>2. arg \in [Tasks -> Gens \cup {None}] BY DEF None
  <1>3. \A t \in Tasks : pc[t] \notin {"stop_sender", "stop_source", "starting"}
    OBVIOUS
  <1>4. sender \in [Gens -> SenderStates] BY DEF SenderStates
  <1>5. src \in [Gens -> SourceStates] BY DEF SourceStates
  <1>6. posted \in Seq(Callbacks) OBVIOUS
  <1>7. wire \in [started : Gens \cup {None}, video : Gens \cup {None}]
    OBVIOUS
  <1>8. state \in States BY DEF States
  <1> QED BY <1>1, <1>2, <1>3, <1>4, <1>5, <1>6, <1>7, <1>8 DEF TypeOK

\* Every action of the reader, of stopping and of closing keeps the types.
LEMMA ReaderTypeOK == TypeOK /\ (Reader \/ Drain \/ RejectStart) => TypeOK'
  <1> SUFFICES ASSUME TypeOK, Reader \/ Drain \/ RejectStart PROVE TypeOK'
    OBVIOUS
  <1> USE DEF TypeOK, session, Reading, Goto, LoopHead, Tasks, AwaitLabels,
              StepLabels, States
  <1>1. CASE Leave BY <1>1 DEF Leave
  <1>2. CASE OnQuiet BY <1>2 DEF OnQuiet
  <1>3. CASE OnHello BY <1>3 DEF OnHello
  <1>4. CASE OnAuth
    <2>1. pc' \in [Tasks -> AwaitLabels \cup StepLabels] BY <1>4 DEF OnAuth
    <2>2. state' \in States /\ authed' \in BOOLEAN BY <1>4 DEF OnAuth
    <2>3. \A t \in Tasks :
            pc'[t] \in {"stop_sender", "stop_source", "starting"} => arg[t] # None
      BY <1>4 DEF OnAuth
    <2> QED BY <1>4, <2>1, <2>2, <2>3 DEF OnAuth
  <1>5. CASE OnPing BY <1>5 DEF OnPing
  <1>6. CASE OnStart BY <1>6 DEF OnStart
  <1>7. CASE Drain BY <1>7 DEF Drain
  <1>8. CASE RejectStart BY <1>8 DEF RejectStart
  <1> QED BY <1>1, <1>2, <1>3, <1>4, <1>5, <1>6, <1>7, <1>8 DEF Reader

LEMMA StartTypeOK ==
    TypeOK /\ (AcceptStart \/ StartResumes \/ Executor) => TypeOK'
  <1> SUFFICES ASSUME TypeOK, AcceptStart \/ StartResumes \/ Executor
               PROVE  TypeOK'
    OBVIOUS
  <1> USE DEF TypeOK, session, Goto, Tasks, AwaitLabels, StepLabels, States,
              SourceStates, SenderStates, Callbacks, None
  <1>1. CASE AcceptStart BY <1>1 DEF AcceptStart, Unused, Gens
  <1>2. CASE StartResumes
    <2>1. posted \in Seq(Callbacks) /\ posted # <<>> BY <1>2 DEF StartResumes
    <2>2. Head(posted) \in Callbacks /\ Tail(posted) \in Seq(Callbacks)
      BY <2>1, HeadAndTail
    <2> QED BY <1>2, <2>2 DEF StartResumes
  <1>3. ASSUME NEW g \in Gens, CaptureRuns(g) PROVE TypeOK'
    BY <1>3 DEF CaptureRuns
  <1>4. ASSUME NEW g \in Gens, StartEnds(g) PROVE TypeOK'
    <2>1. src' \in [Gens -> SourceStates] BY <1>4 DEF StartEnds
    <2>2. posted' \in Seq(Callbacks) BY <1>4 DEF StartEnds
    <2> QED BY <1>4, <2>1, <2>2 DEF StartEnds
  <1>5. ASSUME NEW t \in Tasks, StopEnds(t) PROVE TypeOK'
    <2>1. arg[t] \in Gens BY <1>5 DEF StopEnds
    <2>2. src' \in [Gens -> SourceStates] BY <1>5, <2>1 DEF StopEnds
    <2>3. posted' \in Seq(Callbacks) BY <1>5, <2>1 DEF StopEnds
    <2> QED BY <1>5, <2>2, <2>3 DEF StopEnds
  <1> QED BY <1>1, <1>2, <1>3, <1>4, <1>5 DEF Executor

LEMMA FrameTypeOK ==
    ASSUME TypeOK, NEW g \in Gens, EmitFrame(g) \/ EnqueueFrame \/ Sender(g)
    PROVE  TypeOK'
  <1> USE DEF TypeOK, session, SenderStates, Callbacks
  <1>1. CASE EmitFrame(g) BY <1>1 DEF EmitFrame
  <1>2. CASE EnqueueFrame
    <2>1. posted \in Seq(Callbacks) /\ posted # <<>> BY <1>2 DEF EnqueueFrame
    <2>2. Head(posted) \in Callbacks /\ Tail(posted) \in Seq(Callbacks)
      BY <2>1, HeadAndTail
    <2>3. queue' \in SUBSET Gens BY <1>2, <2>2 DEF EnqueueFrame
    <2> QED BY <1>2, <2>2, <2>3 DEF EnqueueFrame
  <1>3. CASE SendFrame(g) BY <1>3 DEF SendFrame
  <1>4. CASE SenderDrain(g) BY <1>4 DEF SenderDrain
  <1>5. CASE SenderCancelled(g) BY <1>5 DEF SenderCancelled
  <1> QED BY <1>1, <1>2, <1>3, <1>4, <1>5 DEF Sender

LEMMA TaskTypeOK ==
    ASSUME TypeOK, NEW t \in Tasks, Task(t)
    PROVE  TypeOK'
  <1> USE DEF TypeOK, session, Goto, AwaitLabels, StepLabels, States, None
  <1>1. CASE BeginStop(t)
    <2>1. CASE SenderAlive
      <3>1. senderTask \in Gens /\ senderTask # None
        BY <2>1 DEF SenderAlive, Gens
      <3>2. /\ sender' = [sender EXCEPT ![senderTask] = "cancelled"]
            /\ arg' = [arg EXCEPT ![t] = senderTask]
            /\ Goto(t, "stop_sender")
        BY <1>1, <2>1 DEF BeginStop
      <3>3. sender' \in [Gens -> SenderStates]
        BY <3>1, <3>2 DEF SenderStates
      <3>4. arg' \in [Tasks -> Gens \cup {None}] BY <3>1, <3>2
      <3>5. \A u \in Tasks :
              pc'[u] \in {"stop_sender", "stop_source", "starting"} =>
                arg'[u] # None
        BY <3>1, <3>2
      <3>6. pc' \in [Tasks -> AwaitLabels \cup StepLabels] BY <3>2
      <3> QED BY <1>1, <2>1, <3>3, <3>4, <3>5, <3>6 DEF BeginStop
    <2>2. CASE ~SenderAlive BY <1>1, <2>2 DEF BeginStop
    <2> QED BY <2>1, <2>2
  <1>2. CASE SenderStopped(t)
    <2>1. pc' \in [Tasks -> AwaitLabels \cup StepLabels]
      BY <1>2 DEF SenderStopped
    <2>2. \A u \in Tasks :
            pc'[u] \in {"stop_sender", "stop_source", "starting"} => arg[u] # None
      BY <1>2 DEF SenderStopped
    <2> QED BY <1>2, <2>1, <2>2 DEF SenderStopped
  <1>3. CASE StopCapture(t)
    <2>1. CASE source # None
      <3>1. source \in Gens BY <2>1
      <3>2. /\ src' = [src EXCEPT ![source] = "stopping"]
            /\ arg' = [arg EXCEPT ![t] = source]
            /\ source' = None
            /\ Goto(t, "stop_source")
        BY <1>3, <2>1 DEF StopCapture
      <3>3. src' \in [Gens -> SourceStates] BY <3>1, <3>2 DEF SourceStates
      <3>4. arg' \in [Tasks -> Gens \cup {None}] BY <3>1, <3>2
      <3>5. pc' \in [Tasks -> AwaitLabels \cup StepLabels] BY <3>2
      <3>6. \A u \in Tasks :
              pc'[u] \in {"stop_sender", "stop_source", "starting"} =>
                arg'[u] # None
        BY <2>1, <3>1, <3>2
      <3>7. source' \in Gens \cup {None} BY <3>2
      <3> QED BY <1>3, <3>3, <3>4, <3>5, <3>6, <3>7 DEF StopCapture
    <2>2. CASE source = None BY <1>3, <2>2 DEF StopCapture
    <2> QED BY <2>1, <2>2
  <1>4. CASE StopResumes(t)
    <2>1. posted \in Seq(Callbacks) /\ posted # <<>> BY <1>4 DEF StopResumes
    <2>2. Tail(posted) \in Seq(Callbacks) BY <2>1, HeadAndTail
    <2> QED BY <1>4, <2>2 DEF StopResumes
  <1>5. CASE StopInput(t) BY <1>5 DEF StopInput
  <1>6. CASE BeginClose(t)
    <2>1. pc' \in [Tasks -> AwaitLabels \cup StepLabels] BY <1>6 DEF BeginClose
    <2>2. state' \in States /\ closing' \in [Tasks -> BOOLEAN]
      BY <1>6 DEF BeginClose
    <2>3. \A u \in Tasks :
            pc'[u] \in {"stop_sender", "stop_source", "starting"} => arg[u] # None
      BY <1>6 DEF BeginClose
    <2> QED BY <1>6, <2>1, <2>2, <2>3 DEF BeginClose
  <1>7. CASE EndClose(t) BY <1>7 DEF EndClose
  <1>8. CASE Closed(t) BY <1>8 DEF Closed
  <1> QED BY <1>1, <1>2, <1>3, <1>4, <1>5, <1>6, <1>7, <1>8
          DEF Task, StopStream, Close

LEMMA NextTypeOK == TypeOK /\ [Next \/ ServerStop]_vars => TypeOK'
  <1> SUFFICES ASSUME TypeOK, [Next \/ ServerStop]_vars PROVE TypeOK'
    OBVIOUS
  <1>1. CASE Reader \/ Drain \/ RejectStart BY <1>1, ReaderTypeOK
  <1>2. CASE AcceptStart \/ StartResumes \/ Executor BY <1>2, StartTypeOK
  <1>3. CASE EnqueueFrame
    <2>1. Gens = {} => posted = <<>>
      \* Without a generation there is no callback to be had.
      <3> SUFFICES ASSUME Gens = {}, posted # <<>> PROVE FALSE
        OBVIOUS
      <3>1. Head(posted) \in Callbacks BY DEF TypeOK
      <3> QED BY <3>1 DEF Callbacks
    <2>2. PICK g \in Gens : TRUE BY <1>3, <2>1 DEF EnqueueFrame
    <2> QED BY <1>3, <2>2, FrameTypeOK
  <1>4. CASE ConnectionLost BY <1>4 DEF ConnectionLost, TypeOK, session
  <1>5. CASE \E t \in Tasks : Task(t) BY <1>5, TaskTypeOK
  <1>6. CASE \E g \in Gens : Sender(g) \/ EmitFrame(g) BY <1>6, FrameTypeOK
  <1>7. CASE ServerStop
    BY <1>7 DEF ServerStop, TypeOK, session, Goto, Tasks, StepLabels, AwaitLabels
  <1>8. CASE Terminated BY <1>8 DEF Terminated, vars, session, TypeOK
  <1>9. CASE UNCHANGED vars BY <1>9 DEF vars, TypeOK
  <1> QED BY <1>1, <1>2, <1>3, <1>4, <1>5, <1>6, <1>7, <1>8, <1>9 DEF Next

\* The session's variables keep their types, and a task that awaits a sender,
\* a stop or a start names one, also while the server shuts down.
THEOREM TypesDuringShutdown == ShutdownSpec => []TypeOK
  <1>1. Init => TypeOK BY InitTypeOK
  <1>2. TypeOK /\ [Next \/ ServerStop]_vars => TypeOK' BY NextTypeOK
  <1> QED BY <1>1, <1>2, PTL DEF ShutdownSpec

-----------------------------------------------------------------------------
(* While the server stays up the reader is the session's only task, and    *)
(* its place determines the state.                                         *)

StopLabels == {"begin_stop", "stop_sender", "stop_capture", "stop_source",
               "stop_input"}

Authorized ==
    /\ state \in {"READY", "STREAMING"} => authed
    /\ \A g \in Gens : src[g] # "none" => authed

Places ==
    /\ pc["stop"] = "idle"
    /\ state = "CLOSED" => pc["run"] \in {"end_close", "closing", "done"}
    /\ pc["run"] \in {"check_start", "starting"} => state = "READY"
    /\ pc["run"] \in StopLabels => state = "STREAMING"

SInv == TypeOK /\ Authorized /\ Places

LEMMA InitSInv == Init => SInv
  BY InitTypeOK DEF SInv, Init, Authorized, Places, Tasks, StopLabels

LEMMA ReaderSInv == SInv /\ (Reader \/ Drain \/ RejectStart) => Authorized' /\ Places'
  <1> SUFFICES ASSUME SInv, Reader \/ Drain \/ RejectStart
               PROVE  Authorized' /\ Places'
    OBVIOUS
  <1> USE DEF SInv, TypeOK, Authorized, Places, session, Reading, Goto,
              LoopHead, Tasks, StopLabels
  <1>1. CASE Leave BY <1>1 DEF Leave
  <1>2. CASE OnQuiet BY <1>2 DEF OnQuiet
  <1>3. CASE OnHello BY <1>3 DEF OnHello
  <1>4. CASE OnAuth BY <1>4 DEF OnAuth
  <1>5. CASE OnPing BY <1>5 DEF OnPing
  <1>6. CASE OnStart BY <1>6 DEF OnStart, Authenticated, States
  <1>7. CASE Drain BY <1>7 DEF Drain
  <1>8. CASE RejectStart BY <1>8 DEF RejectStart
  <1> QED BY <1>1, <1>2, <1>3, <1>4, <1>5, <1>6, <1>7, <1>8 DEF Reader

LEMMA StartSInv ==
    SInv /\ (AcceptStart \/ StartResumes \/ Executor) => Authorized' /\ Places'
  <1> SUFFICES ASSUME SInv, AcceptStart \/ StartResumes \/ Executor
               PROVE  Authorized' /\ Places'
    OBVIOUS
  <1> USE DEF SInv, TypeOK, Authorized, Places, session, Goto, Tasks, StopLabels
  <1>1. CASE AcceptStart BY <1>1 DEF AcceptStart, Unused
  <1>2. CASE StartResumes BY <1>2 DEF StartResumes
  <1>3. ASSUME NEW g \in Gens, CaptureRuns(g) PROVE Authorized' /\ Places'
    BY <1>3 DEF CaptureRuns
  <1>4. ASSUME NEW g \in Gens, StartEnds(g) PROVE Authorized' /\ Places'
    <2>1. src[g] # "none" BY <1>4 DEF StartEnds
    <2>2. authed BY <2>1
    <2> QED BY <1>4, <2>2 DEF StartEnds
  <1>5. ASSUME NEW t \in Tasks, StopEnds(t) PROVE Authorized' /\ Places'
    <2>1. arg[t] \in Gens BY <1>5 DEF StopEnds
    <2>2. authed BY <1>5, <2>1 DEF StopEnds
    <2> QED BY <1>5, <2>2 DEF StopEnds
  <1> QED BY <1>1, <1>2, <1>3, <1>4, <1>5 DEF Executor

LEMMA TaskSInv ==
    ASSUME SInv, NEW t \in Tasks, Task(t)
    PROVE  Authorized' /\ Places'
  <1>0. t = "run"
    BY DEF SInv, Places, Tasks, Task, StopStream, Close, BeginStop, Wakeable,
           SenderStopped, StopCapture, StopResumes, StopInput, BeginClose,
           EndClose, Closed
  <1> USE <1>0 DEF SInv, TypeOK, Authorized, Places, Goto, Tasks, StopLabels
  <1>1. CASE BeginStop(t) BY <1>1 DEF BeginStop
  <1>2. CASE SenderStopped(t) BY <1>2 DEF SenderStopped, Wakeable
  <1>3. CASE StopCapture(t) BY <1>3 DEF StopCapture
  <1>4. CASE StopResumes(t) BY <1>4 DEF StopResumes, session
  <1>5. CASE StopInput(t) BY <1>5 DEF StopInput
  <1>6. CASE BeginClose(t) BY <1>6 DEF BeginClose
  <1>7. CASE EndClose(t) BY <1>7 DEF EndClose
  <1>8. CASE Closed(t) BY <1>8 DEF Closed, session
  <1> QED BY <1>1, <1>2, <1>3, <1>4, <1>5, <1>6, <1>7, <1>8
          DEF Task, StopStream, Close

LEMMA NextSInv == SInv /\ [Next]_vars => SInv'
  <1> SUFFICES ASSUME SInv, [Next]_vars PROVE Authorized' /\ Places'
    BY NextTypeOK DEF SInv
  <1>1. CASE Reader \/ Drain \/ RejectStart BY <1>1, ReaderSInv
  <1>2. CASE AcceptStart \/ StartResumes \/ Executor BY <1>2, StartSInv
  <1>3. CASE EnqueueFrame
    BY <1>3 DEF EnqueueFrame, SInv, Authorized, Places, session
  <1>4. CASE ConnectionLost
    BY <1>4 DEF ConnectionLost, SInv, Authorized, Places, session
  <1>5. CASE \E t \in Tasks : Task(t) BY <1>5, TaskSInv
  <1>6. CASE \E g \in Gens : Sender(g) \/ EmitFrame(g)
    BY <1>6 DEF Sender, SendFrame, SenderDrain, SenderCancelled, EmitFrame,
                SInv, Authorized, Places, session
  <1>7. CASE Terminated BY <1>7 DEF Terminated, vars, session, SInv, Authorized, Places
  <1>8. CASE UNCHANGED vars BY <1>8 DEF vars, SInv, Authorized, Places
  <1> QED BY <1>1, <1>2, <1>3, <1>4, <1>5, <1>6, <1>7, <1>8 DEF Next

\* A server that is not stopping was not stopping before.
LEMMA UpBefore ==
    ASSUME TypeOK, [Next \/ ServerStop]_vars, Up'
    PROVE  Up /\ [Next]_vars
  <1> USE DEF Up, Goto, TypeOK, Tasks
  <1>1. CASE Reader \/ Drain \/ RejectStart
    BY <1>1 DEF Reader, Leave, OnQuiet, OnHello, OnAuth, OnPing, OnStart, Drain,
                RejectStart, Next
  <1>2. CASE AcceptStart \/ StartResumes \/ Executor
    BY <1>2 DEF AcceptStart, StartResumes, Executor, CaptureRuns, StartEnds,
                StopEnds, Next
  <1>3. CASE EnqueueFrame \/ ConnectionLost
    BY <1>3 DEF EnqueueFrame, ConnectionLost, Next
  <1>4. ASSUME NEW t \in Tasks, Task(t) PROVE Up /\ [Next]_vars
    <2>1. Up
      BY <1>4 DEF Task, StopStream, Close, BeginStop, SenderStopped, StopCapture,
                  StopResumes, StopInput, BeginClose, EndClose, Closed
    <2> QED BY <2>1, <1>4 DEF Next
  <1>5. CASE \E g \in Gens : Sender(g) \/ EmitFrame(g)
    BY <1>5 DEF Sender, SendFrame, SenderDrain, SenderCancelled, EmitFrame, Next
  <1>6. CASE ServerStop BY <1>6 DEF ServerStop
  <1>7. CASE Terminated \/ UNCHANGED vars BY <1>7 DEF Terminated, vars, Next
  <1> QED BY <1>1, <1>2, <1>3, <1>4, <1>5, <1>6, <1>7 DEF Next

\* With the server's stop: what holds, holds until it comes.
UntilStop == TypeOK /\ (Up => SInv)

LEMMA InitUntilStop == Init => UntilStop
  BY InitSInv DEF SInv, UntilStop

LEMMA NextUntilStop == UntilStop /\ [Next \/ ServerStop]_vars => UntilStop'
  <1> SUFFICES ASSUME UntilStop, [Next \/ ServerStop]_vars PROVE UntilStop'
    OBVIOUS
  <1>1. TypeOK' BY NextTypeOK DEF UntilStop
  <1>2. ASSUME Up' PROVE SInv'
    <2>1. Up /\ [Next]_vars BY <1>2, UpBefore DEF UntilStop
    <2> QED BY <2>1, NextSInv DEF UntilStop
  <1> QED BY <1>1, <1>2 DEF UntilStop

LEMMA AlwaysUntilStop == ShutdownSpec => []UntilStop
  BY InitUntilStop, NextUntilStop, PTL DEF ShutdownSpec

\* Until the server stops, nothing is captured for a client that was not
\* authenticated.
THEOREM CaptureIsAuthorized == ShutdownSpec => []CaptureNeedsAuth
  <1>1. UntilStop => CaptureNeedsAuth
    BY DEF UntilStop, SInv, Authorized, CaptureNeedsAuth, CaptureOnlyForAuthed,
           Capturing, Emitting
  <1> QED BY <1>1, AlwaysUntilStop, PTL

\* A reader that stops a stream or starts one has an authenticated session, in
\* which no stream runs once it looks at the new one's parameters; the server's
\* stop can take READY from it, and put only CLOSED in its place.
StartStates ==
    /\ pc["run"] \in StopLabels \cup {"check_start", "starting"} => Authenticated
    /\ pc["run"] \in {"check_start", "starting"} => state # "STREAMING"

LEMMA TaskStartStates ==
    ASSUME TypeOK, StartStates, NEW t \in Tasks, Task(t) PROVE StartStates'
  <1> USE DEF TypeOK, StartStates, Authenticated, Goto, Tasks, StopLabels
  <1>1. CASE BeginStop(t) BY <1>1 DEF BeginStop
  <1>2. CASE SenderStopped(t) BY <1>2 DEF SenderStopped, Wakeable
  <1>3. CASE StopCapture(t) BY <1>3 DEF StopCapture
  <1>4. CASE StopResumes(t) BY <1>4 DEF StopResumes, session
  <1>5. CASE StopInput(t) BY <1>5 DEF StopInput
  <1>6. CASE BeginClose(t) BY <1>6 DEF BeginClose
  <1>7. CASE EndClose(t) BY <1>7 DEF EndClose
  <1>8. CASE Closed(t) BY <1>8 DEF Closed, session
  <1> QED BY <1>1, <1>2, <1>3, <1>4, <1>5, <1>6, <1>7, <1>8
          DEF Task, StopStream, Close

LEMMA NextStartStates ==
    TypeOK /\ StartStates /\ [Next \/ ServerStop]_vars => StartStates'
  <1> SUFFICES ASSUME TypeOK, StartStates, [Next \/ ServerStop]_vars PROVE StartStates'
    OBVIOUS
  <1> USE DEF TypeOK, StartStates, Authenticated, Goto, Tasks, StopLabels, session
  <1>1. CASE Reader \/ Drain \/ RejectStart
    BY <1>1 DEF Reader, Reading, LoopHead, Leave, OnQuiet, OnHello, OnAuth, OnPing, OnStart,
                Drain, RejectStart
  <1>2. CASE AcceptStart \/ StartResumes \/ Executor
    BY <1>2 DEF AcceptStart, StartResumes, Executor, CaptureRuns, StartEnds, StopEnds
  <1>3. CASE EnqueueFrame \/ ConnectionLost \/ ServerStop
    BY <1>3 DEF EnqueueFrame, ConnectionLost, ServerStop
  <1>4. CASE \E t \in Tasks : Task(t) BY <1>4, TaskStartStates
  <1>5. CASE \E g \in Gens : Sender(g) \/ EmitFrame(g)
    BY <1>5 DEF Sender, SendFrame, SenderDrain, SenderCancelled, EmitFrame
  <1>6. CASE Terminated \/ UNCHANGED vars BY <1>6 DEF Terminated, vars
  <1> QED BY <1>1, <1>2, <1>3, <1>4, <1>5, <1>6 DEF Next

\* A stream enters the session only in READY, never over one that still runs;
\* in CLOSED too, but only when a server stop closed the session while source.start
\* ran.
THEOREM CaptureStartsInReady == ShutdownSpec => CaptureOnlyWhenReady
  <1>1. ASSUME UntilStop, StartStates, [Next \/ ServerStop]_vars,
               source' # source, source' # None
        PROVE  state = "READY" \/ (state = "CLOSED" /\ ~Up)
    <2>1. StartResumes
      BY <1>1 DEF Next, Reader, Leave, OnQuiet, OnHello, OnAuth, OnPing, OnStart,
             Drain, RejectStart, AcceptStart, Executor, CaptureRuns, StartEnds,
             StopEnds, EnqueueFrame, ConnectionLost, Task, StopStream, Close,
             BeginStop, SenderStopped, StopCapture, StopResumes, StopInput,
             BeginClose, EndClose, Closed, Sender, SendFrame, SenderDrain,
             SenderCancelled, EmitFrame, ServerStop, Terminated, vars, session
    <2>2. pc["run"] = "starting" BY <2>1 DEF StartResumes
    <2>3. Up => state = "READY" BY <1>1, <2>2 DEF UntilStop, SInv, Places
    <2>4. state \in {"READY", "CLOSED"}
      BY <1>1, <2>2 DEF StartStates, Authenticated, UntilStop, TypeOK, States
    <2> QED BY <2>3, <2>4
  <1>2. Init => StartStates BY DEF Init, StartStates, StopLabels, Tasks
  <1>3. UntilStop /\ StartStates /\ [Next \/ ServerStop]_vars => StartStates'
    BY NextStartStates DEF UntilStop
  <1>4. ShutdownSpec => []StartStates
    BY <1>2, <1>3, AlwaysUntilStop, PTL DEF ShutdownSpec
  <1>5. UntilStop /\ StartStates /\ [Next \/ ServerStop]_vars
          => [source' # source /\ source' # None
                => state = "READY" \/ (state = "CLOSED" /\ ~Up)]_vars
    BY <1>1
  <1> QED BY <1>4, <1>5, AlwaysUntilStop, PTL DEF ShutdownSpec, CaptureOnlyWhenReady

-----------------------------------------------------------------------------
(* The session's streams until the server stops.  The argument follows a   *)
(* stream through its reader: where the reader is tells what source,       *)
(* sender, input backend, queue and callbacks of the loop can be.          *)

StreamPlaces == {"read", "drain", "begin_close", "begin_stop", "stop_sender",
                 "stop_capture"}
ClosePlaces == {"begin_close", "end_close", "closing", "done"}

\* A source that starts or stops is the one the reader waits for; one whose
\* start() raised goes on only under a session that closes.
Sources ==
    /\ \A g \in Gens :
         /\ src[g] \in {"starting", "running"} =>
              pc["run"] = "starting" /\ arg["run"] = g
         /\ src[g] = "live" =>
              source = g \/ (pc["run"] = "starting" /\ arg["run"] = g)
         /\ src[g] = "stopping" => pc["run"] = "stop_source" /\ arg["run"] = g
         /\ src[g] = "orphan" =>
              \/ pc["run"] = "starting" /\ arg["run"] = g
              \/ pc["run"] \in ClosePlaces /\ state # "STREAMING"
    /\ \A g, h \in Gens : src[g] = "orphan" /\ src[h] = "orphan" => g = h

\* The stream of the session is the one that was announced.
Announced ==
    /\ source # None => /\ src[source] = "live" /\ state = "STREAMING"
                        /\ pc["run"] \in StreamPlaces
                        /\ wire.started = source
    /\ pc["run"] = "stop_source" => wire.started = arg["run"]
    /\ state = "STREAMING" =>
         pc["run"] \in StreamPlaces \cup {"stop_source", "stop_input"}

\* The loop has one completion of an executor job at most, the one the reader
\* waits for, and a source that ended has its frames before it.
IsDone(i) == posted[i].to = "run"
Completions ==
    /\ \A i \in 1..Len(posted) : IsDone(i) =>
         /\ posted[i].gen = arg["run"]
         /\ \/ /\ pc["run"] = "starting"
               /\ src[arg["run"]] \in {"live", "failed", "crashed", "orphan"}
            \/ pc["run"] = "stop_source" /\ src[arg["run"]] = "stopped"
    /\ \A i, j \in 1..Len(posted) : IsDone(i) /\ IsDone(j) => i = j
PostedBefore ==
    \A i \in 1..Len(posted) : posted[i].to = "enqueue" =>
      \/ src[posted[i].gen] \in Emitting
      \/ \E j \in 1..Len(posted) :
           j > i /\ IsDone(j) /\ posted[j].gen = posted[i].gen

Frames ==
    /\ queue \subseteq {wire.started}
    /\ queue # {} => state = "STREAMING"
    /\ wire.video \in {None, wire.started}

\* Sender and input backend that are in use are the session's.
Owned ==
    /\ \A g \in Gens : sender[g] \notin {"none", "done"} => senderTask = g
    /\ senderTask # None =>
         /\ state = "STREAMING"
         /\ pc["run"] \in {"read", "drain", "begin_close", "begin_stop",
                           "stop_sender"}
    /\ pc["run"] = "stop_sender" => arg["run"] = senderTask
    /\ \A g \in Gens : inp[g] = "open" =>
         \/ Raised(g) \/ input = g
         \/ pc["run"] = "starting" /\ arg["run"] = g
    /\ input # None => state = "STREAMING"

StreamInv == SInv /\ Sources /\ Announced /\ Completions /\ PostedBefore
             /\ Frames /\ Owned

LEMMA InitStreamInv == Init => StreamInv
  <1> SUFFICES ASSUME Init PROVE StreamInv
    OBVIOUS
  <1>1. SInv BY InitSInv
  <1>2. Len(posted) = 0 BY DEF Init
  <1>3. Sources /\ Announced BY DEF Init, Sources, Announced, Tasks, None
  <1>4. Completions /\ PostedBefore BY <1>2 DEF Completions, PostedBefore
  <1>5. Frames /\ Owned BY DEF Init, Frames, Owned, Tasks, None
  <1> QED BY <1>1, <1>3, <1>4, <1>5 DEF StreamInv

\* A callback put at the end, and one taken from the front.
LEMMA AppendEntries ==
    ASSUME NEW S, NEW q \in Seq(S), NEW x \in S
    PROVE  /\ Append(q, x) \in Seq(S) /\ Len(Append(q, x)) = Len(q) + 1
           /\ \A i \in 1..Len(q) : Append(q, x)[i] = q[i]
           /\ Append(q, x)[Len(q) + 1] = x
  OBVIOUS

LEMMA TailEntries ==
    ASSUME NEW S, NEW q \in Seq(S), q # <<>>
    PROVE  /\ Len(q) \in Nat \ {0} /\ Len(Tail(q)) = Len(q) - 1
           /\ \A i \in 1..Len(Tail(q)) : Tail(q)[i] = q[i + 1]
           /\ Head(q) = q[1]
  OBVIOUS

LEMMA EntryOf ==
    ASSUME NEW S, NEW q \in Seq(S), NEW i \in 1..Len(q)
    PROVE  q[i] \in S
  OBVIOUS

-----------------------------------------------------------------------------
(* The reader.                                                             *)

LEMMA ReaderStreamInv ==
    ASSUME StreamInv, Reader \/ Drain \/ RejectStart
    PROVE  Sources' /\ Announced' /\ Completions' /\ PostedBefore' /\ Frames' /\ Owned'
  <1> USE DEF StreamInv, SInv, TypeOK, Reading, Goto, LoopHead, Tasks, session
  <1>1. /\ pc["run"] \in {"read", "drain", "drain_last", "check_start"}
        /\ pc'["run"] \in {"read", "drain", "drain_last", "check_start",
                           "begin_close", "begin_stop"}
        /\ UNCHANGED <<arg, source, input, senderTask, sender, src, inp, posted,
                       queue, wire>>
    BY DEF Reader, Leave, OnQuiet, OnHello, OnAuth, OnPing, OnStart, Drain,
           RejectStart
  <1>2. /\ state' = "STREAMING" <=> state = "STREAMING"
        /\ state = "STREAMING" => pc'["run"] \in {"read", "drain", "begin_close", "begin_stop"}
    BY DEF Reader, Leave, OnQuiet, OnHello, OnAuth, OnPing, OnStart, Drain,
           RejectStart, Announced, StreamPlaces, Places, StopLabels, Authenticated
  <1>3. Sources' BY <1>1, <1>2 DEF Sources, ClosePlaces
  <1>4. Announced' BY <1>1, <1>2 DEF Announced, StreamPlaces
  <1>5. Completions' BY <1>1 DEF Completions, IsDone
  <1>6. PostedBefore' BY <1>1 DEF PostedBefore, IsDone
  <1>7. Frames' BY <1>1, <1>2 DEF Frames
  <1>8. Owned' BY <1>1, <1>2 DEF Owned, Raised
  <1> QED BY <1>3, <1>4, <1>5, <1>6, <1>7, <1>8

-----------------------------------------------------------------------------
(* Starting.                                                               *)

LEMMA AcceptStartStreamInv ==
    ASSUME StreamInv, AcceptStart
    PROVE  Sources' /\ Announced' /\ Completions' /\ PostedBefore' /\ Frames' /\ Owned'
  <1> USE DEF StreamInv, SInv, TypeOK, Goto, Tasks, session
  <1>1. PICK g \in Gens :
          /\ src[g] = "none"
          /\ src' = [src EXCEPT ![g] = "starting"]
          /\ inp' = [inp EXCEPT ![g] = "open"]
          /\ arg' = [arg EXCEPT !["run"] = g]
    BY DEF AcceptStart, Unused
  <1>2. /\ pc["run"] = "check_start" /\ pc'["run"] = "starting" /\ state = "READY"
        /\ UNCHANGED <<state, source, input, senderTask, sender, posted, queue, wire>>
    BY DEF AcceptStart, Places
  <1>3. Sources' BY <1>1, <1>2 DEF Sources, ClosePlaces
  <1>4. Announced' BY <1>1, <1>2 DEF Announced, StreamPlaces
  <1>5. Completions' BY <1>1, <1>2 DEF Completions, IsDone
  <1>6. PostedBefore' BY <1>1, <1>2 DEF PostedBefore, IsDone, Emitting
  <1>7. Frames' BY <1>1, <1>2 DEF Frames
  <1>8. Owned' BY <1>1, <1>2 DEF Owned, Raised
  <1> QED BY <1>3, <1>4, <1>5, <1>6, <1>7, <1>8

\* What is left of the callbacks when a completion was taken.
LEMMA CompletionTaken ==
    ASSUME TypeOK, Completions, PostedBefore, posted # <<>>,
           Head(posted).to = "run", posted' = Tail(posted)
    PROVE  /\ posted[1].to = "run" /\ posted[1].gen = Head(posted).gen
           /\ \A i \in 1..Len(posted') :
                posted'[i].to # "run" /\ posted'[i] = posted[i + 1]
           /\ \A i \in 1..Len(posted') :
                posted'[i].to = "enqueue" => src[posted'[i].gen] \in Emitting
  <1>1. /\ Len(posted) \in Nat \ {0} /\ Len(posted') = Len(posted) - 1
        /\ \A i \in 1..Len(posted') : posted'[i] = posted[i + 1]
        /\ Head(posted) = posted[1]
    BY TailEntries DEF TypeOK
  <1> QED BY <1>1 DEF Completions, PostedBefore, IsDone

LEMMA StartResumesStreamInv ==
    ASSUME StreamInv, StartResumes
    PROVE  Sources' /\ Announced' /\ Completions' /\ PostedBefore' /\ Frames' /\ Owned'
  <1> USE DEF StreamInv, SInv, TypeOK, Goto, Tasks, session
  <1>1. /\ pc["run"] = "starting" /\ state = "READY"
        /\ posted # <<>> /\ Head(posted).to = "run" /\ posted' = Tail(posted)
        /\ UNCHANGED <<arg, src, inp, queue>>
    BY DEF StartResumes, Places
  <1>2. PICK g \in Gens :
        /\ g = arg["run"] /\ g = Head(posted).gen
        /\ src[g] \in {"live", "failed", "crashed", "orphan"}
        /\ \A i \in 1..Len(posted') :
             /\ posted'[i].to # "run"
             /\ posted'[i].to = "enqueue" => src[posted'[i].gen] \in Emitting
    <2> DEFINE g == Head(posted).gen
    <2>1. posted[1].to = "run" /\ posted[1].gen = g /\ 1 \in 1..Len(posted)
      BY <1>1, CompletionTaken, TailEntries
    <2>2. g = arg["run"] /\ src[g] \in {"live", "failed", "crashed", "orphan"}
      BY <1>1, <2>1 DEF Completions, IsDone
    <2>3. g \in Gens BY <1>1, <2>2 DEF None
    <2> QED BY <1>1, <2>2, <2>3, CompletionTaken
  <1>3. source = None /\ senderTask = None /\ input = None /\ queue = {}
    BY <1>1 DEF Announced, Owned, Frames, StreamPlaces
  <1>4. Completions' /\ PostedBefore'
    BY <1>1, <1>2 DEF Completions, PostedBefore, IsDone
  <1>5. CASE src[g] = "live"
    <2>1. /\ source' = g /\ input' = g /\ state' = "STREAMING" /\ senderTask' = g
          /\ sender' = [sender EXCEPT ![g] = "get"]
          /\ wire' = [started |-> g, video |-> None]
          /\ pc'["run"] = "drain"
      BY <1>2, <1>5 DEF StartResumes
    <2>2. Sources'
      <3>1. \A h \in Gens : source # h BY <1>3 DEF None, Gens
      <3>2. \A h \in Gens :
              /\ src[h] \notin {"starting", "running", "stopping", "orphan"}
              /\ src[h] = "live" => h = g
        BY <1>1, <1>2, <1>5, <3>1 DEF Sources, ClosePlaces
      <3> QED BY <1>1, <2>1, <3>2 DEF Sources
    <2>3. Announced' BY <1>1, <1>2, <1>5, <2>1 DEF Announced, StreamPlaces
    <2>4. Frames' BY <1>1, <1>3, <2>1 DEF Frames
    <2>5. Owned'
      <3>1. \A h \in Gens : sender[h] \in {"none", "done"}
        BY <1>3 DEF Owned, None, Gens
      <3>2. \A h \in Gens : inp[h] = "open" => Raised(h) \/ h = g
        BY <1>2, <1>3 DEF Owned, None, Gens
      <3> QED BY <1>1, <2>1, <3>1, <3>2 DEF Owned, Raised
    <2> QED BY <1>4, <2>2, <2>3, <2>4, <2>5
  <1>6. CASE src[g] # "live"
    <2>1. /\ pc'["run"] = IF src[g] = "failed" THEN "drain" ELSE "begin_close"
          /\ UNCHANGED <<source, input, state, senderTask, sender, wire>>
      BY <1>2, <1>6 DEF StartResumes
    <2>2. Sources' BY <1>1, <1>2, <1>6, <2>1 DEF Sources, ClosePlaces
    <2>3. Announced' BY <1>1, <1>2, <1>3, <2>1 DEF Announced, StreamPlaces
    <2>4. Frames' BY <1>1, <1>3, <2>1 DEF Frames
    <2>5. Owned' BY <1>1, <1>2, <1>3, <1>6, <2>1 DEF Owned, Raised
    <2> QED BY <1>4, <2>2, <2>3, <2>4, <2>5
  <1> QED BY <1>5, <1>6

LEMMA ExecutorStreamInv ==
    ASSUME StreamInv, Up, Executor
    PROVE  Sources' /\ Announced' /\ Completions' /\ PostedBefore' /\ Frames' /\ Owned'
  <1> USE DEF StreamInv, SInv, TypeOK, Tasks, session
  <1>1. ASSUME NEW g \in Gens, CaptureRuns(g)
        PROVE  Sources' /\ Announced' /\ Completions' /\ PostedBefore' /\ Frames' /\ Owned'
    <2>1. /\ src[g] = "starting" /\ src' = [src EXCEPT ![g] = "running"]
          /\ UNCHANGED <<state, source, input, senderTask, pc, arg, sender, inp, posted,
                         queue, wire>>
      BY <1>1 DEF CaptureRuns
    <2>2. Sources' BY <2>1 DEF Sources
    <2>3. Announced' BY <2>1 DEF Announced
    <2>4. Completions' BY <2>1 DEF Completions, IsDone
    <2>5. PostedBefore' BY <2>1 DEF PostedBefore, IsDone, Emitting
    <2>6. Frames' /\ Owned' BY <2>1 DEF Frames, Owned, Raised
    <2> QED BY <2>2, <2>3, <2>4, <2>5, <2>6
  <1>2. ASSUME NEW g \in Gens, StartEnds(g)
        PROVE  Sources' /\ Announced' /\ Completions' /\ PostedBefore' /\ Frames' /\ Owned'
    <2>1. /\ src[g] \in {"starting", "running"}
          /\ \A h \in Gens \ {g} : src'[h] = src[h]
          /\ src'[g] \in {"live", "failed", "crashed", "orphan"}
          /\ posted' = Append(posted, [to |-> "run", gen |-> g])
          /\ UNCHANGED <<state, source, input, senderTask, pc, arg, sender, inp, queue, wire>>
      BY <1>2 DEF StartEnds
    <2>2. pc["run"] = "starting" /\ arg["run"] = g BY <2>1 DEF Sources
    <2>3. /\ Len(posted') = Len(posted) + 1 /\ Len(posted) \in Nat
          /\ \A i \in 1..Len(posted) : posted'[i] = posted[i]
          /\ posted'[Len(posted) + 1] = [to |-> "run", gen |-> g]
      <3>1. [to |-> "run", gen |-> g] \in Callbacks BY DEF Callbacks
      <3> QED BY <2>1, <3>1, AppendEntries
    <2>4. Sources'
      <3>1. \A h \in Gens \ {g} : /\ src[h] \notin {"starting", "running", "stopping", "orphan"}
                                  /\ src[h] = "live" => source = h
        BY <2>2 DEF Sources, ClosePlaces
      <3>2. \A h \in Gens :
              /\ src'[h] \notin {"starting", "running", "stopping"}
              /\ src'[h] = "live" => source = h \/ h = g
              /\ src'[h] = "orphan" => h = g
        BY <2>1, <3>1
      <3> QED BY <2>1, <2>2, <3>2 DEF Sources
    <2>5. Announced'
      <3>1. source = None BY <2>2 DEF Announced, StreamPlaces
      <3> QED BY <2>1, <2>2, <3>1 DEF Announced
    <2>6. Completions'
      <3>1. \A i \in 1..Len(posted) : ~IsDone(i)
        BY <2>1, <2>2 DEF Completions
      <3> QED BY <2>1, <2>2, <2>3, <3>1 DEF Completions, IsDone
    <2>7. PostedBefore'
      <3>0. \A i \in 1..Len(posted) : posted[i].gen \in Gens
        <4>1. \A i \in 1..Len(posted) : posted[i] \in Callbacks BY EntryOf
        <4> QED BY <4>1 DEF Callbacks
      <3>1. \A i \in 1..Len(posted) : posted[i].to = "enqueue" =>
              posted[i].gen = g \/ src'[posted[i].gen] \in Emitting
        <4> SUFFICES ASSUME NEW i \in 1..Len(posted), posted[i].to = "enqueue",
                            posted[i].gen # g
                     PROVE  src'[posted[i].gen] \in Emitting
          OBVIOUS
        <4>1. src'[posted[i].gen] = src[posted[i].gen] BY <2>1, <3>0
        <4>2. src[g] \notin {"live", "failed", "crashed", "orphan", "stopped"}
          BY <2>1
        <4>3. \A j \in 1..Len(posted) : ~IsDone(j)
          BY <2>2, <4>2 DEF Completions
        <4> QED BY <4>1, <4>3 DEF PostedBefore
      <3>2. ASSUME NEW i \in 1..Len(posted'), posted'[i].to = "enqueue"
            PROVE  \/ src'[posted'[i].gen] \in Emitting
                   \/ \E j \in 1..Len(posted') :
                        j > i /\ posted'[j].to = "run" /\ posted'[j].gen = posted'[i].gen
        <4>1. i \in 1..Len(posted) /\ posted'[i] = posted[i]
          BY <2>3, <3>2
        <4>2. CASE posted[i].gen = g
          <5>1. Len(posted) + 1 \in 1..Len(posted') /\ Len(posted) + 1 > i
            BY <2>3, <4>1
          <5> QED BY <2>3, <4>1, <4>2, <5>1
        <4> QED BY <3>1, <3>2, <4>1, <4>2
      <3> QED BY <3>2 DEF PostedBefore, IsDone
    <2>8. Frames' /\ Owned' BY <2>1, <2>2 DEF Frames, Owned, Raised
    <2> QED BY <2>4, <2>5, <2>6, <2>7, <2>8
  <1>3. ASSUME NEW t \in Tasks, StopEnds(t)
        PROVE  Sources' /\ Announced' /\ Completions' /\ PostedBefore' /\ Frames' /\ Owned'
    <2>0. PICK g \in Gens : g = arg["run"]
      BY <1>3 DEF StopEnds, Up, None
    <2>1. /\ t = "run" /\ pc["run"] = "stop_source" /\ src[g] = "stopping"
          /\ src' = [src EXCEPT ![g] = "stopped"]
          /\ posted' = Append(posted, [to |-> "run", gen |-> g])
          /\ UNCHANGED <<state, source, input, senderTask, pc, arg, sender, inp, queue, wire>>
      BY <1>3, <2>0 DEF StopEnds, Up
    <2>2. g = arg["run"] BY <2>0
    <2>3. /\ Len(posted') = Len(posted) + 1 /\ Len(posted) \in Nat
          /\ \A i \in 1..Len(posted) : posted'[i] = posted[i]
          /\ posted'[Len(posted) + 1] = [to |-> "run", gen |-> g]
      <3>1. [to |-> "run", gen |-> g] \in Callbacks BY DEF Callbacks
      <3> QED BY <2>1, <2>2, <3>1, AppendEntries
    <2>4. Sources' BY <2>1, <2>2 DEF Sources
    <2>5. Announced' BY <2>1, <2>2 DEF Announced
    <2>6. Completions' BY <2>1, <2>2, <2>3 DEF Completions, IsDone
    <2>7. PostedBefore'
      <3>1. \A i \in 1..Len(posted) : posted[i].to = "enqueue" =>
              posted[i].gen = g \/ src'[posted[i].gen] \in Emitting
        BY <2>1, <2>2 DEF PostedBefore, Completions, IsDone, Emitting
      <3>2. ASSUME NEW i \in 1..Len(posted'), posted'[i].to = "enqueue"
            PROVE  \/ src'[posted'[i].gen] \in Emitting
                   \/ \E j \in 1..Len(posted') :
                        j > i /\ posted'[j].to = "run" /\ posted'[j].gen = posted'[i].gen
        <4>1. i \in 1..Len(posted) /\ posted'[i] = posted[i]
          BY <2>3, <3>2
        <4>2. CASE posted[i].gen = g
          <5>1. Len(posted) + 1 \in 1..Len(posted') /\ Len(posted) + 1 > i
            BY <2>3, <4>1
          <5> QED BY <2>3, <4>1, <4>2, <5>1
        <4> QED BY <3>1, <3>2, <4>1, <4>2
      <3> QED BY <3>2 DEF PostedBefore, IsDone
    <2>8. Frames' /\ Owned' BY <2>1, <2>2 DEF Frames, Owned, Raised
    <2> QED BY <2>4, <2>5, <2>6, <2>7, <2>8
  <1> QED BY <1>1, <1>2, <1>3 DEF Executor

-----------------------------------------------------------------------------
(* Frames and senders.                                                     *)

LEMMA EmitStreamInv ==
    ASSUME StreamInv, NEW g \in Gens, EmitFrame(g)
    PROVE  Sources' /\ Announced' /\ Completions' /\ PostedBefore' /\ Frames' /\ Owned'
  <1> USE DEF StreamInv, SInv, TypeOK, session
  <1>1. /\ src[g] \in Emitting
        /\ posted' = Append(posted, [to |-> "enqueue", gen |-> g])
        /\ UNCHANGED <<state, source, input, senderTask, pc, arg, sender, src, inp, queue, wire>>
    BY DEF EmitFrame
  <1>2. /\ Len(posted') = Len(posted) + 1 /\ Len(posted) \in Nat
        /\ \A i \in 1..Len(posted) : posted'[i] = posted[i]
        /\ posted'[Len(posted) + 1] = [to |-> "enqueue", gen |-> g]
    BY <1>1, AppendEntries DEF Callbacks
  <1>3. Sources' /\ Announced' BY <1>1 DEF Sources, Announced
  <1>4. Completions' BY <1>1, <1>2 DEF Completions, IsDone
  <1>5. PostedBefore'
    <2> SUFFICES ASSUME NEW i \in 1..Len(posted'), posted'[i].to = "enqueue",
                        src[posted'[i].gen] \notin Emitting
                 PROVE  \E j \in 1..Len(posted') :
                          j > i /\ posted'[j].to = "run" /\ posted'[j].gen = posted'[i].gen
      BY <1>1 DEF PostedBefore, IsDone
    <2>1. i \in 1..Len(posted) /\ posted'[i] = posted[i] BY <1>1, <1>2
    <2>2. PICK j \in 1..Len(posted) :
            j > i /\ posted[j].to = "run" /\ posted[j].gen = posted[i].gen
      BY <2>1 DEF PostedBefore, IsDone
    <2> QED BY <1>2, <2>1, <2>2
  <1>6. Frames' /\ Owned' BY <1>1 DEF Frames, Owned, Raised
  <1> QED BY <1>3, <1>4, <1>5, <1>6

\* While the session streams, a frame comes from the stream it announced.
LEMMA FrameOfStream ==
    ASSUME StreamInv, posted # <<>>, Head(posted).to = "enqueue",
           state = "STREAMING"
    PROVE  Head(posted).gen = wire.started
  <1> USE DEF StreamInv, SInv, TypeOK
  <1> DEFINE g == Head(posted).gen
  <1>1. /\ 1 \in 1..Len(posted) /\ posted[1] = Head(posted) /\ g \in Gens
    <2>1. Head(posted) \in Callbacks BY HeadAndTail
    <2>2. 1 \in 1..Len(posted) /\ posted[1] = Head(posted) BY TailEntries
    <2> QED BY <2>1, <2>2 DEF Callbacks
  <1>2. CASE src[g] \in Emitting
    <2>1. pc["run"] # "starting" BY DEF Places
    <2>2. src[g] \in {"live", "stopping"}
      BY <1>1, <1>2, <2>1 DEF Sources, Emitting
    <2>3. g # None BY <1>1 DEF Gens, None
    <2>4. CASE src[g] = "live"
      <3>1. source = g BY <1>1, <2>1, <2>4 DEF Sources
      <3> QED BY <2>3, <3>1 DEF Announced
    <2>5. CASE src[g] = "stopping"
      <3>1. pc["run"] = "stop_source" /\ arg["run"] = g BY <1>1, <2>5 DEF Sources
      <3> QED BY <3>1 DEF Announced
    <2> QED BY <2>2, <2>4, <2>5
  <1>3. ASSUME NEW j \in 1..Len(posted), IsDone(j), posted[j].gen = g
        PROVE  g = wire.started
    BY <1>3 DEF Completions, Announced, StreamPlaces
  <1> QED BY <1>1, <1>2, <1>3 DEF PostedBefore

LEMMA EnqueueStreamInv ==
    ASSUME StreamInv, EnqueueFrame
    PROVE  Sources' /\ Announced' /\ Completions' /\ PostedBefore' /\ Frames' /\ Owned'
  <1> USE DEF StreamInv, SInv, TypeOK, session
  <1>1. /\ posted # <<>> /\ Head(posted).to = "enqueue" /\ posted' = Tail(posted)
        /\ UNCHANGED <<state, source, input, senderTask, pc, arg, sender, src, inp, wire>>
    BY DEF EnqueueFrame
  <1>2. /\ Len(posted) \in Nat \ {0} /\ Len(posted') = Len(posted) - 1
        /\ \A i \in 1..Len(posted') : posted'[i] = posted[i + 1]
        /\ posted[1].to = "enqueue"
    BY <1>1, TailEntries
  <1>3. Sources' /\ Announced' BY <1>1 DEF Sources, Announced
  <1>4. Completions' BY <1>1, <1>2 DEF Completions, IsDone
  <1>5. PostedBefore'
    <2> SUFFICES ASSUME NEW i \in 1..Len(posted'), posted'[i].to = "enqueue",
                        src[posted'[i].gen] \notin Emitting
                 PROVE  \E j \in 1..Len(posted') :
                          j > i /\ posted'[j].to = "run" /\ posted'[j].gen = posted'[i].gen
      BY <1>1 DEF PostedBefore, IsDone
    <2>1. i + 1 \in 1..Len(posted) /\ posted[i + 1] = posted'[i] BY <1>2
    <2>2. PICK j \in 1..Len(posted) :
            j > i + 1 /\ posted[j].to = "run" /\ posted[j].gen = posted[i + 1].gen
      BY <2>1 DEF PostedBefore, IsDone
    <2>3. j - 1 \in 1..Len(posted') /\ j - 1 > i /\ posted'[j - 1] = posted[j]
      BY <1>2, <2>2
    <2> QED BY <2>1, <2>2, <2>3
  <1>6. Frames'
    <2>1. CASE state = "STREAMING"
      <3>1. queue' \subseteq queue \cup {wire.started}
        BY <1>1, <2>1, FrameOfStream DEF EnqueueFrame
      <3> QED BY <1>1, <2>1, <3>1 DEF Frames
    <2>2. CASE state # "STREAMING" BY <1>1, <2>2 DEF Frames, EnqueueFrame
    <2> QED BY <2>1, <2>2
  <1>7. Owned' BY <1>1 DEF Owned, Raised
  <1> QED BY <1>3, <1>4, <1>5, <1>6, <1>7

LEMMA SenderStreamInv ==
    ASSUME StreamInv, NEW g \in Gens, Sender(g)
    PROVE  Sources' /\ Announced' /\ Completions' /\ PostedBefore' /\ Frames' /\ Owned'
  <1> USE DEF StreamInv, SInv, TypeOK, session
  <1>1. /\ sender[g] \in {"get", "drain", "cancelled"}
        /\ \A h \in Gens \ {g} : sender'[h] = sender[h]
        /\ wire'.started = wire.started
        /\ UNCHANGED <<state, source, input, senderTask, pc, arg, src, inp, posted>>
    BY DEF Sender, SendFrame, SenderDrain, SenderCancelled
  <1>2. Sources' /\ Announced' BY <1>1 DEF Sources, Announced
  <1>3. Completions' /\ PostedBefore'
    BY <1>1 DEF Completions, PostedBefore, IsDone
  <1>4. Frames'
    <2>1. CASE SendFrame(g)
      <3>1. /\ queue' \subseteq queue /\ wire'.video \in queue
            /\ queue # {}
        BY <2>1 DEF SendFrame
      <3> QED BY <1>1, <3>1 DEF Frames
    <2>2. CASE SenderDrain(g) \/ SenderCancelled(g)
      BY <2>2 DEF SenderDrain, SenderCancelled, Frames
    <2> QED BY <2>1, <2>2 DEF Sender
  <1>5. Owned' BY <1>1 DEF Owned, Raised
  <1> QED BY <1>2, <1>3, <1>4, <1>5

-----------------------------------------------------------------------------
(* Stopping and closing: with the server up, in the reader.                *)

LEMMA StopStreamInv ==
    ASSUME StreamInv, StopStream("run")
    PROVE  Sources' /\ Announced' /\ Completions' /\ PostedBefore' /\ Frames' /\ Owned'
  <1> USE DEF StreamInv, SInv, TypeOK, Goto, Tasks, session
  <1>1. CASE BeginStop("run")
    <2>1. /\ pc["run"] = "begin_stop" /\ pc'["run"] \in {"stop_sender", "stop_capture"}
          /\ UNCHANGED <<state, source, input, src, inp, posted, queue, wire>>
      BY <1>1 DEF BeginStop
    <2>2. Sources' BY <2>1 DEF Sources, ClosePlaces
    <2>3. Announced' BY <2>1 DEF Announced, StreamPlaces
    <2>4. Completions' /\ PostedBefore'
      BY <2>1 DEF Completions, PostedBefore, IsDone
    <2>5. Frames' BY <2>1 DEF Frames
    <2>6. Owned'
      <3>1. CASE SenderAlive
        <4>1. /\ senderTask \in Gens /\ senderTask' = senderTask
              /\ arg'["run"] = senderTask /\ pc'["run"] = "stop_sender"
              /\ \A g \in Gens \ {senderTask} : sender'[g] = sender[g]
          BY <1>1, <3>1 DEF BeginStop, SenderAlive
        <4> QED BY <2>1, <4>1 DEF Owned, Raised
      <3>2. CASE ~SenderAlive
        <4>1. /\ senderTask' = None /\ pc'["run"] = "stop_capture"
              /\ UNCHANGED <<sender, arg>>
          BY <1>1, <3>2 DEF BeginStop
        <4>2. \A g \in Gens : sender[g] \in {"none", "done"}
          BY <3>2 DEF Owned, SenderAlive
        <4> QED BY <2>1, <4>1, <4>2 DEF Owned, Raised
      <3> QED BY <3>1, <3>2
    <2> QED BY <2>2, <2>3, <2>4, <2>5, <2>6
  <1>2. CASE SenderStopped("run")
    <2>1. /\ pc["run"] = "stop_sender" /\ pc'["run"] = "stop_capture"
          /\ sender[arg["run"]] = "done" /\ senderTask' = None
          /\ UNCHANGED <<state, source, input, arg, sender, src, inp, posted, queue, wire>>
      BY <1>2 DEF SenderStopped, Wakeable
    <2>2. Sources' BY <2>1 DEF Sources, ClosePlaces
    <2>3. Announced' BY <2>1 DEF Announced, StreamPlaces
    <2>4. Completions' /\ PostedBefore'
      BY <2>1 DEF Completions, PostedBefore, IsDone
    <2>5. Frames' BY <2>1 DEF Frames
    <2>6. Owned'
      <3>1. \A g \in Gens : sender[g] \in {"none", "done"}
        BY <2>1 DEF Owned
      <3> QED BY <2>1, <3>1 DEF Owned, Raised
    <2> QED BY <2>2, <2>3, <2>4, <2>5, <2>6
  <1>3. CASE StopCapture("run")
    <2>1. CASE source # None
      <3>1. PICK g \in Gens : g = source BY <2>1
      <3>2. /\ pc["run"] = "stop_capture" /\ pc'["run"] = "stop_source"
            /\ src' = [src EXCEPT ![g] = "stopping"] /\ arg'["run"] = g /\ source' = None
            /\ UNCHANGED <<state, input, senderTask, sender, inp, posted, queue, wire>>
        BY <1>3, <2>1, <3>1 DEF StopCapture
      <3>3. /\ src[g] = "live" /\ wire.started = g /\ state = "STREAMING"
        BY <2>1, <3>1 DEF Announced
      <3>4. Sources' BY <3>1, <3>2, <3>3 DEF Sources, ClosePlaces
      <3>5. Announced' BY <3>2, <3>3 DEF Announced, StreamPlaces
      <3>6. Completions' BY <3>2 DEF Completions, IsDone
      <3>7. PostedBefore' BY <3>2 DEF PostedBefore, Completions, IsDone, Emitting
      <3>8. Frames' BY <3>2 DEF Frames
      <3>9. Owned' BY <3>2, <3>3 DEF Owned, Raised
      <3> QED BY <3>4, <3>5, <3>6, <3>7, <3>8, <3>9
    <2>2. CASE source = None
      <3>1. /\ pc["run"] = "stop_capture" /\ pc'["run"] = "stop_input"
            /\ UNCHANGED <<state, source, input, senderTask, arg, sender, src, inp, posted,
                           queue, wire>>
        BY <1>3, <2>2 DEF StopCapture
      <3>2. Sources' BY <3>1 DEF Sources, ClosePlaces
      <3>3. Announced' BY <2>2, <3>1 DEF Announced, StreamPlaces
      <3>4. Completions' /\ PostedBefore'
        BY <3>1 DEF Completions, PostedBefore, IsDone
      <3>5. Frames' /\ Owned' BY <3>1 DEF Frames, Owned, Raised
      <3> QED BY <3>2, <3>3, <3>4, <3>5
    <2> QED BY <2>1, <2>2
  <1>4. CASE StopResumes("run")
    <2>1. /\ pc["run"] = "stop_source" /\ pc'["run"] = "stop_input"
          /\ posted # <<>> /\ Head(posted).to = "run" /\ posted' = Tail(posted)
          /\ UNCHANGED <<state, source, input, senderTask, arg, sender, src, inp, queue, wire>>
      BY <1>4 DEF StopResumes
    <2>2. /\ posted[1].to = "run" /\ 1 \in 1..Len(posted)
          /\ \A i \in 1..Len(posted') :
               /\ posted'[i].to # "run"
               /\ posted'[i].to = "enqueue" => src[posted'[i].gen] \in Emitting
      BY <2>1, CompletionTaken, TailEntries
    <2>3. src[arg["run"]] = "stopped" BY <2>1, <2>2 DEF Completions, IsDone
    <2>4. Sources' BY <2>1, <2>3 DEF Sources, ClosePlaces
    <2>5. Announced' BY <2>1 DEF Announced, StreamPlaces
    <2>6. Completions' /\ PostedBefore'
      BY <2>1, <2>2 DEF Completions, PostedBefore, IsDone
    <2>7. Frames' /\ Owned' BY <2>1 DEF Frames, Owned, Raised
    <2> QED BY <2>4, <2>5, <2>6, <2>7
  <1>5. CASE StopInput("run")
    <2>1. /\ pc["run"] = "stop_input" /\ pc'["run"] \in {"end_close", "check_start"}
          /\ input' = None /\ queue' = {} /\ state' # "STREAMING"
          /\ \A g \in Gens : inp'[g] = IF g = input THEN "closed" ELSE inp[g]
          /\ UNCHANGED <<source, senderTask, arg, sender, src, posted, wire>>
      BY <1>5 DEF StopInput
    <2>2. source = None /\ senderTask = None BY <2>1 DEF Announced, Owned, StreamPlaces
    <2>3. Sources' BY <2>1 DEF Sources, ClosePlaces
    <2>4. Announced' BY <2>1, <2>2 DEF Announced, StreamPlaces
    <2>5. Completions' /\ PostedBefore'
      BY <2>1 DEF Completions, PostedBefore, IsDone
    <2>6. Frames' BY <2>1 DEF Frames
    <2>7. Owned' BY <2>1, <2>2 DEF Owned, Raised
    <2> QED BY <2>3, <2>4, <2>5, <2>6, <2>7
  <1> QED BY <1>1, <1>2, <1>3, <1>4, <1>5 DEF StopStream

LEMMA CloseStreamInv ==
    ASSUME StreamInv, Close("run")
    PROVE  Sources' /\ Announced' /\ Completions' /\ PostedBefore' /\ Frames' /\ Owned'
  <1> USE DEF StreamInv, SInv, TypeOK, Goto, Tasks, session
  <1>1. /\ pc["run"] \in ClosePlaces
        /\ pc'["run"] \in ClosePlaces \cup {"begin_stop"}
        /\ state = "STREAMING" <=> pc'["run"] = "begin_stop"
        /\ state' = "STREAMING" <=> state = "STREAMING"
        /\ UNCHANGED <<source, input, senderTask, arg, sender, src, inp, posted, queue, wire>>
    BY DEF Close, BeginClose, EndClose, Closed, ClosePlaces, Announced, StreamPlaces
  <1>2. Sources' BY <1>1 DEF Sources, ClosePlaces
  <1>3. Announced' BY <1>1 DEF Announced, StreamPlaces, ClosePlaces
  <1>4. Completions' /\ PostedBefore'
    BY <1>1 DEF Completions, PostedBefore, IsDone, ClosePlaces
  <1>5. Frames' BY <1>1 DEF Frames
  <1>6. Owned' BY <1>1 DEF Owned, Raised, ClosePlaces
  <1> QED BY <1>2, <1>3, <1>4, <1>5, <1>6

-----------------------------------------------------------------------------
LEMMA NextStreamInv == StreamInv /\ [Next]_vars => StreamInv'
  <1> SUFFICES ASSUME StreamInv, [Next]_vars
               PROVE  Sources' /\ Announced' /\ Completions' /\ PostedBefore' /\ Frames'
                      /\ Owned'
    BY NextSInv DEF StreamInv
  <1>0. Up BY DEF StreamInv, SInv, Places, Up
  <1>1. CASE Reader \/ Drain \/ RejectStart BY <1>1, ReaderStreamInv
  <1>2. CASE AcceptStart BY <1>2, AcceptStartStreamInv
  <1>3. CASE StartResumes BY <1>3, StartResumesStreamInv
  <1>4. CASE Executor BY <1>0, <1>4, ExecutorStreamInv
  <1>5. CASE EnqueueFrame BY <1>5, EnqueueStreamInv
  <1>6. CASE \E g \in Gens : Sender(g) \/ EmitFrame(g)
    BY <1>6, SenderStreamInv, EmitStreamInv
  <1>7. ASSUME NEW t \in Tasks, Task(t)
        PROVE  Sources' /\ Announced' /\ Completions' /\ PostedBefore' /\ Frames' /\ Owned'
    <2>1. t = "run"
      BY <1>0, <1>7 DEF Up, Tasks, Task, StopStream, Close, BeginStop, Wakeable,
         SenderStopped, StopCapture, StopResumes, StopInput, BeginClose,
         EndClose, Closed, StreamInv, SInv, TypeOK
    <2> QED BY <1>7, <2>1, StopStreamInv, CloseStreamInv DEF Task
  <1>8. CASE ConnectionLost \/ Terminated \/ UNCHANGED vars
    <2>1. UNCHANGED <<state, source, input, senderTask, pc, arg, sender, src, inp, posted,
                      queue, wire>>
      BY <1>8 DEF ConnectionLost, Terminated, vars, session
    <2> QED BY <2>1 DEF StreamInv, Sources, Announced, Completions, PostedBefore, IsDone,
                        Frames, Owned, Raised
  <1> QED BY <1>1, <1>2, <1>3, <1>4, <1>5, <1>6, <1>7, <1>8 DEF Next

\* Until the server stops.
StreamsUntilStop == UntilStop /\ (Up => StreamInv)

LEMMA AlwaysStreamInv == ShutdownSpec => []StreamsUntilStop
  <1>1. Init => StreamsUntilStop
    BY InitUntilStop, InitStreamInv DEF StreamsUntilStop
  <1>2. StreamsUntilStop /\ [Next \/ ServerStop]_vars => StreamsUntilStop'
    <2> SUFFICES ASSUME StreamsUntilStop, [Next \/ ServerStop]_vars
                 PROVE  StreamsUntilStop'
      OBVIOUS
    <2>1. UntilStop' BY NextUntilStop DEF StreamsUntilStop
    <2>2. ASSUME Up' PROVE StreamInv'
      <3>1. Up /\ [Next]_vars
        BY <2>2, UpBefore DEF StreamsUntilStop, UntilStop
      <3> QED BY <3>1, NextStreamInv DEF StreamsUntilStop
    <2> QED BY <2>1, <2>2 DEF StreamsUntilStop
  <1> QED BY <1>1, <1>2, PTL DEF ShutdownSpec

-----------------------------------------------------------------------------
(* The theorems.                                                           *)

\* Until the server stops there is one capture at most for a client: a
\* restart's new one starts when the old one has stopped, and none starts
\* beside one whose start() raised.
THEOREM OneCaptureAtATime == ShutdownSpec => []OneCapture
  <1>1. ASSUME StreamInv PROVE Cardinality(Capturing) <= 1
    <2>1. \A g, h \in Capturing : g = h
      <3> SUFFICES ASSUME NEW g \in Capturing, NEW h \in Capturing
                   PROVE  g = h
        OBVIOUS
      <3>1. /\ g \in Gens /\ src[g] \in {"starting", "running", "live", "stopping", "orphan"}
            /\ h \in Gens /\ src[h] \in {"starting", "running", "live", "stopping", "orphan"}
        BY DEF Capturing, Emitting
      <3>2. g # None /\ h # None BY <3>1 DEF Gens, None
      <3> QED BY <1>1, <3>1, <3>2
              DEF StreamInv, Sources, Announced, StreamPlaces, ClosePlaces
    <2>2. CASE Capturing = {} BY <2>2, FS_EmptySet
    <2>3. ASSUME NEW g \in Capturing PROVE Cardinality(Capturing) <= 1
      <3>1. Capturing = {g} BY <2>1, <2>3
      <3>2. Cardinality({g}) = 1 BY FS_Singleton
      <3>3. Cardinality(Capturing) = 1 BY <3>1, <3>2, Zenon
      <3> QED BY <3>3
    <2> QED BY <2>2, <2>3
  <1>2. StreamsUntilStop => OneCapture
    BY <1>1 DEF StreamsUntilStop, OneCapture
  <1> QED BY <1>2, AlwaysStreamInv, PTL

\* Until the server stops no frame of an earlier stream follows `started`.
THEOREM VideoIsOfTheStream == ShutdownSpec => []NoStaleVideo
  <1>1. StreamsUntilStop => NoStaleVideo
    BY DEF StreamsUntilStop, StreamInv, Frames, NoStaleVideo
  <1> QED BY <1>1, AlwaysStreamInv, PTL

\* A session that is over has released source, sender and input backend of
\* each of its streams, unless a start() raised.
THEOREM EndReleases == ShutdownSpec => []ReleasedAtEnd
  <1>1. ASSUME StreamInv, Ended, NEW g \in Gens, ~Raised(g)
        PROVE  /\ src[g] \in {"none", "stopped"}
               /\ sender[g] \in {"none", "done"}
               /\ inp[g] # "open"
    <2>1. pc["run"] = "done" /\ g # None BY <1>1 DEF Ended, Gens, None
    <2>2. state # "STREAMING" /\ source = None /\ senderTask = None /\ input = None
      BY <1>1, <2>1 DEF StreamInv, Announced, Owned, StreamPlaces
    <2>3. src[g] \in SourceStates BY <1>1 DEF StreamInv, SInv, TypeOK
    <2>4. src[g] \in {"none", "stopped"}
      BY <1>1, <2>1, <2>2, <2>3 DEF StreamInv, Sources, SourceStates, Raised
    <2> QED BY <1>1, <2>1, <2>2, <2>4 DEF StreamInv, Owned
  <1>2. StreamsUntilStop => ReleasedAtEnd
    BY <1>1 DEF StreamsUntilStop, ReleasedAtEnd
  <1> QED BY <1>2, AlwaysStreamInv, PTL

-----------------------------------------------------------------------------
(* The handles, also while the server stops and two tasks are inside       *)
(* _stop_stream.  What a start is about to store is new to the session,    *)
(* and its completion is the only one the reader can meet.                 *)

Awaited ==
    /\ \A g \in Gens : src[g] \in {"starting", "running"} =>
         pc["run"] = "starting" /\ arg["run"] = g
    /\ pc["run"] = "starting" =>
         /\ inp[arg["run"]] = "open" /\ src[arg["run"]] # "none"
         /\ arg["run"] \notin {source, input}
    /\ \A g \in Gens : src[g] = "none" => inp[g] = "none"

HandlesInv == TypeOK /\ HandlesAgree /\ Awaited /\ Completions

LEMMA InitHandlesInv == Init => HandlesInv
  <1> SUFFICES ASSUME Init PROVE HandlesInv
    OBVIOUS
  <1>1. TypeOK BY InitTypeOK
  <1>2. HandlesAgree BY DEF Init, HandlesAgree
  <1>3. Awaited BY DEF Init, Awaited, Tasks
  <1>4. Completions BY DEF Init, Completions
  <1> QED BY <1>1, <1>2, <1>3, <1>4 DEF HandlesInv

\* Completions speaks of the callbacks and of what the reader waits for.
LEMMA CompletionsKept ==
    ASSUME TypeOK, Completions, posted' = posted,
           \/ \A i \in 1..Len(posted) : posted[i].to # "run"
           \/ /\ pc'["run"] = pc["run"] /\ arg'["run"] = arg["run"]
              /\ src'[arg["run"]] = src[arg["run"]]
    PROVE  Completions'
  BY DEF Completions, IsDone

\* The reader's steps, and others that leave sources and callbacks alone.
LEMMA QuietHandlesInv ==
    ASSUME HandlesInv,
           Reader \/ Drain \/ RejectStart \/ ConnectionLost \/ ServerStop
           \/ (\E g \in Gens : Sender(g)) \/ (\E t \in Tasks : Close(t))
    PROVE  HandlesAgree' /\ Awaited' /\ Completions'
  <1> USE DEF HandlesInv, TypeOK, Tasks, session
  <1>1. UNCHANGED <<arg, source, input, senderTask, src, inp, posted>>
    BY DEF Reader, Leave, OnQuiet, OnHello, OnAuth, OnPing, OnStart, Drain, RejectStart,
           ConnectionLost, ServerStop, Sender, SendFrame, SenderDrain, SenderCancelled,
           Close, BeginClose, EndClose, Closed
  <1>2. /\ pc'["run"] # "starting" /\ pc["run"] \notin {"starting", "stop_source"}
        \/ pc'["run"] = pc["run"]
    BY DEF Reader, Leave, OnQuiet, OnHello, OnAuth, OnPing, OnStart, Drain, RejectStart,
           ConnectionLost, ServerStop, Sender, SendFrame, SenderDrain, SenderCancelled,
           Close, BeginClose, EndClose, Closed, Reading, Goto, LoopHead
  <1>3. Awaited' BY <1>1, <1>2 DEF Awaited
  <1>4. Completions'
    <2>1. \/ \A i \in 1..Len(posted) : posted[i].to # "run"
          \/ pc'["run"] = pc["run"]
      BY <1>2 DEF Completions, IsDone
    <2> QED BY <1>1, <2>1, CompletionsKept
  <1>5. /\ state' = "STREAMING" => state = "STREAMING"
        /\ state' = "STREAMING" => \A t \in Tasks : Stopping(t) => Stopping(t)'
    BY DEF Reader, Leave, OnQuiet, OnHello, OnAuth, OnPing, OnStart, Drain, RejectStart,
           ConnectionLost, ServerStop, Sender, SendFrame, SenderDrain, SenderCancelled,
           Close, BeginClose, EndClose, Closed, Reading, Goto, LoopHead, Stopping
  <1>6. HandlesAgree' BY <1>1, <1>5 DEF HandlesAgree
  <1> QED BY <1>3, <1>4, <1>6

\* A start is accepted, and the job that was waited for ends it.
LEMMA StartHandlesInv ==
    ASSUME HandlesInv, AcceptStart \/ StartResumes
    PROVE  HandlesAgree' /\ Awaited' /\ Completions'
  <1> USE DEF HandlesInv, TypeOK, Tasks, session
  <1>1. CASE AcceptStart
    <2>1. PICK g \in Unused : /\ src' = [src EXCEPT ![g] = "starting"]
                              /\ inp' = [inp EXCEPT ![g] = "open"]
                              /\ arg' = [arg EXCEPT !["run"] = g]
      BY <1>1 DEF AcceptStart
    <2>2. /\ pc["run"] = "check_start" /\ pc' = [pc EXCEPT !["run"] = "starting"]
          /\ UNCHANGED <<state, source, input, senderTask, posted>>
      BY <1>1 DEF AcceptStart, Goto
    <2>3. g \in Gens /\ src[g] = "none" /\ inp[g] = "none"
      BY DEF Unused, Awaited
    <2>4. g \notin {source, input, None}
      BY <2>3 DEF HandlesAgree, Gens, None
    <2>5. HandlesAgree' BY <2>1, <2>2, <2>3, <2>4 DEF HandlesAgree, Stopping
    <2>6. Awaited' BY <2>1, <2>2, <2>3, <2>4 DEF Awaited
    <2>7. \A i \in 1..Len(posted) : posted[i].to # "run"
      BY <2>2 DEF Completions, IsDone
    <2>8. Completions' BY <2>2, <2>7, CompletionsKept
    <2> QED BY <2>5, <2>6, <2>8
  <1>2. CASE StartResumes
    <2>1. /\ pc["run"] = "starting" /\ posted # <<>> /\ posted' = Tail(posted)
          /\ Head(posted).to = "run" /\ UNCHANGED <<arg, src, inp>>
          /\ pc' = [pc EXCEPT !["run"] = pc'["run"]]
          /\ pc'["run"] \in {"drain", "begin_close"}
      BY <1>2 DEF StartResumes, Goto
    <2>2. /\ Len(posted) \in Nat \ {0} /\ Len(posted') = Len(posted) - 1
          /\ \A i \in 1..Len(posted') : posted'[i] = posted[i + 1]
          /\ Head(posted) = posted[1]
      BY <2>1, TailEntries
    <2>3. Head(posted).gen = arg["run"] /\ src[arg["run"]] \notin {"starting", "running"}
      BY <2>1, <2>2 DEF Completions, IsDone
    <2>4. Completions' BY <2>1, <2>2 DEF Completions, IsDone
    <2>5. arg["run"] \in Gens /\ inp[arg["run"]] = "open"
      BY <2>1 DEF Awaited, None
    <2>6. CASE src[arg["run"]] = "live"
      <3>1. /\ state' = "STREAMING" /\ source' = arg["run"] /\ input' = arg["run"]
            /\ senderTask' = arg["run"]
        BY <1>2, <2>3, <2>6 DEF StartResumes
      <3>2. HandlesAgree' BY <2>1, <2>5, <2>6, <3>1 DEF HandlesAgree, Gens, None
      <3>3. Awaited' BY <2>1, <2>3, <2>6 DEF Awaited
      <3> QED BY <2>4, <3>2, <3>3
    <2>7. CASE src[arg["run"]] # "live"
      <3>1. UNCHANGED <<state, source, input, senderTask>>
        BY <1>2, <2>3, <2>7 DEF StartResumes
      <3>2. HandlesAgree' BY <2>1, <3>1 DEF HandlesAgree, Stopping
      <3>3. Awaited' BY <2>1, <2>3 DEF Awaited
      <3> QED BY <2>4, <3>2, <3>3
    <2> QED BY <2>6, <2>7
  <1> QED BY <1>1, <1>2

\* The capture threads and the executor, and frames put into the loop.
LEMMA ThreadHandlesInv ==
    ASSUME HandlesInv, Executor \/ (\E g \in Gens : EmitFrame(g)) \/ EnqueueFrame
    PROVE  HandlesAgree' /\ Awaited' /\ Completions'
  <1> USE DEF HandlesInv, TypeOK, Tasks, session
  <1>1. UNCHANGED <<state, source, input, senderTask, pc, arg, inp>>
    BY DEF Executor, CaptureRuns, StartEnds, StopEnds, EmitFrame, EnqueueFrame
  <1>2. ASSUME NEW c \in Callbacks, posted' = Append(posted, c)
        PROVE  /\ Len(posted') = Len(posted) + 1 /\ Len(posted) \in Nat
               /\ \A i \in 1..Len(posted) : posted'[i] = posted[i]
               /\ posted'[Len(posted) + 1] = c
    BY <1>2, AppendEntries
  <1>3. ASSUME NEW g \in Gens, CaptureRuns(g)
        PROVE  HandlesAgree' /\ Awaited' /\ Completions'
    <2>1. src[g] = "starting" /\ src' = [src EXCEPT ![g] = "running"] /\ posted' = posted
      BY <1>3 DEF CaptureRuns
    <2>2. HandlesAgree' BY <1>1, <2>1 DEF HandlesAgree, Stopping
    <2>3. Awaited' BY <1>1, <2>1 DEF Awaited
    <2>4. Completions' BY <1>1, <2>1 DEF Completions, IsDone
    <2> QED BY <2>2, <2>3, <2>4
  <1>4. ASSUME NEW g \in Gens, StartEnds(g)
        PROVE  HandlesAgree' /\ Awaited' /\ Completions'
    <2>1. /\ src[g] \in {"starting", "running"}
          /\ src'[g] \in {"live", "failed", "crashed", "orphan"}
          /\ \A h \in Gens \ {g} : src'[h] = src[h]
          /\ posted' = Append(posted, [to |-> "run", gen |-> g])
      BY <1>4 DEF StartEnds
    <2>2. pc["run"] = "starting" /\ arg["run"] = g BY <2>1 DEF Awaited
    <2>3. HandlesAgree' BY <1>1, <2>1 DEF HandlesAgree, Stopping
    <2>4. Awaited' BY <1>1, <2>1, <2>2 DEF Awaited
    <2>5. [to |-> "run", gen |-> g] \in Callbacks BY DEF Callbacks
    <2>6. \A i \in 1..Len(posted) : ~IsDone(i) BY <2>1, <2>2 DEF Completions
    <2>7. Completions' BY <1>1, <1>2, <2>1, <2>2, <2>5, <2>6 DEF Completions, IsDone
    <2> QED BY <2>3, <2>4, <2>7
  <1>5. ASSUME NEW t \in Tasks, StopEnds(t)
        PROVE  HandlesAgree' /\ Awaited' /\ Completions'
    <2>1. /\ pc[t] = "stop_source" /\ src[arg[t]] = "stopping"
          /\ src' = [src EXCEPT ![arg[t]] = "stopped"]
          /\ posted' = Append(posted, [to |-> t, gen |-> arg[t]])
          /\ arg[t] \in Gens
      BY <1>5 DEF StopEnds, None
    <2>2. HandlesAgree' BY <1>1, <2>1 DEF HandlesAgree, Stopping
    <2>3. Awaited' BY <1>1, <2>1 DEF Awaited
    <2>4. [to |-> t, gen |-> arg[t]] \in Callbacks BY <2>1 DEF Callbacks
    <2>5. CASE t = "run"
      <3>1. \A i \in 1..Len(posted) : ~IsDone(i) BY <2>1, <2>5 DEF Completions
      <3> QED BY <1>1, <1>2, <2>1, <2>2, <2>3, <2>4, <2>5, <3>1 DEF Completions, IsDone
    <2>6. CASE t # "run"
      <3>1. \A i \in 1..Len(posted) : IsDone(i) => src'[arg["run"]] = src[arg["run"]]
        BY <2>1 DEF Completions
      <3>2. Completions' BY <1>1, <1>2, <2>1, <2>4, <2>6, <3>1 DEF Completions, IsDone
      <3> QED BY <2>2, <2>3, <3>2
    <2> QED BY <2>5, <2>6
  <1>6. ASSUME NEW g \in Gens, EmitFrame(g)
        PROVE  HandlesAgree' /\ Awaited' /\ Completions'
    <2>1. src' = src /\ posted' = Append(posted, [to |-> "enqueue", gen |-> g])
      BY <1>6 DEF EmitFrame
    <2>2. [to |-> "enqueue", gen |-> g] \in Callbacks BY DEF Callbacks
    <2>3. Completions' BY <1>1, <1>2, <2>1, <2>2 DEF Completions, IsDone
    <2>4. HandlesAgree' /\ Awaited' BY <1>1, <2>1 DEF HandlesAgree, Stopping, Awaited
    <2> QED BY <2>3, <2>4
  <1>7. ASSUME EnqueueFrame PROVE HandlesAgree' /\ Awaited' /\ Completions'
    <2>1. src' = src /\ posted # <<>> /\ posted' = Tail(posted) BY <1>7 DEF EnqueueFrame
    <2>2. /\ Len(posted) \in Nat \ {0} /\ Len(posted') = Len(posted) - 1
          /\ \A i \in 1..Len(posted') : posted'[i] = posted[i + 1]
      BY <2>1, TailEntries
    <2>3. Completions' BY <1>1, <2>1, <2>2 DEF Completions, IsDone
    <2>4. HandlesAgree' /\ Awaited' BY <1>1, <2>1 DEF HandlesAgree, Stopping, Awaited
    <2> QED BY <2>3, <2>4
  <1> QED BY <1>3, <1>4, <1>5, <1>6, <1>7 DEF Executor

\* Either task in _stop_stream: each takes a handle out of the session before
\* it awaits what the handle stands for.
LEMMA StopHandlesInv ==
    ASSUME HandlesInv, NEW t \in Tasks, StopStream(t)
    PROVE  HandlesAgree' /\ Awaited' /\ Completions'
  <1> USE DEF HandlesInv, TypeOK, session
  <1>1. CASE BeginStop(t) \/ SenderStopped(t)
    <2>1. /\ pc[t] \in {"begin_stop", "stop_sender"}
          /\ pc' = [pc EXCEPT ![t] = pc'[t]] /\ pc'[t] \in {"stop_sender", "stop_capture"}
          /\ \A u \in Tasks \ {t} : arg'[u] = arg[u]
          /\ UNCHANGED <<state, source, input, src, inp, posted>>
      BY <1>1 DEF BeginStop, SenderStopped, Wakeable, Goto
    <2>2. Stopping(t)' /\ \A u \in Tasks : Stopping(u) => Stopping(u)'
      BY <2>1 DEF Stopping
    <2>3. HandlesAgree' BY <2>1, <2>2 DEF HandlesAgree
    <2>4. Awaited' BY <2>1 DEF Awaited, Tasks
    <2>5. \/ \A i \in 1..Len(posted) : posted[i].to # "run"
          \/ t # "run"
      BY <2>1 DEF Completions, IsDone
    <2>6. Completions' BY <2>1, <2>5, CompletionsKept DEF Tasks
    <2> QED BY <2>3, <2>4, <2>6
  <1>2. CASE StopCapture(t)
    <2>1. /\ pc[t] = "stop_capture"
          /\ pc' = [pc EXCEPT ![t] = pc'[t]] /\ pc'[t] \in {"stop_source", "stop_input"}
          /\ \A u \in Tasks \ {t} : arg'[u] = arg[u]
          /\ source' = None /\ UNCHANGED <<state, input, inp, posted>>
      BY <1>2 DEF StopCapture, Goto
    <2>2. /\ \A g \in Gens \ {source} : src'[g] = src[g]
          /\ source \in Gens => src[source] = "live" /\ src'[source] = "stopping"
      <3>0. None \notin Gens BY DEF Gens, None
      <3>1. CASE source # None
        <4>1. src' = [src EXCEPT ![source] = "stopping"] BY <1>2, <3>1 DEF StopCapture
        <4>2. src[source] = "live" BY <3>1 DEF HandlesAgree
        <4> QED BY <4>1, <4>2
      <3>2. CASE source = None
        <4>1. src' = src BY <1>2, <3>2 DEF StopCapture
        <4> QED BY <3>0, <3>2, <4>1
      <3> QED BY <3>1, <3>2
    <2>3. Stopping(t)' /\ \A u \in Tasks : Stopping(u) => Stopping(u)'
      BY <2>1 DEF Stopping
    <2>4. HandlesAgree' BY <2>1, <2>3 DEF HandlesAgree
    <2>5. Awaited'
      <3>1. pc'["run"] = "starting" =>
              pc["run"] = "starting" /\ arg'["run"] = arg["run"] /\ arg["run"] \in Gens \ {source}
        BY <2>1 DEF Awaited, Tasks, None
      <3>2. \A g \in Gens : src'[g] \in {"starting", "running", "none"} => src'[g] = src[g]
        BY <2>2
      <3>3. \A g \in Gens : src'[g] \in {"starting", "running"} =>
              pc'["run"] = "starting" /\ arg'["run"] = g
        BY <2>1, <3>2 DEF Awaited, Tasks
      <3>4. arg'["run"] # None => arg'["run"] \in Gens BY <1>2 DEF StopCapture, Tasks, None
      <3> QED BY <2>1, <2>2, <3>1, <3>2, <3>3, <3>4 DEF Awaited, Gens, None
    <2>6. \/ \A i \in 1..Len(posted) : posted[i].to # "run"
          \/ t # "run" /\ arg["run"] \in Gens \ {source}
      <3>1. ASSUME NEW i \in 1..Len(posted), IsDone(i)
            PROVE  t # "run" /\ arg["run"] \in Gens \ {source}
        <4>1. pc["run"] \in {"starting", "stop_source"} BY <3>1 DEF Completions
        <4>2. arg["run"] \in Gens BY <4>1 DEF Tasks, None
        <4>3. CASE pc["run"] = "starting" BY <2>1, <4>2, <4>3 DEF Awaited
        <4>4. CASE pc["run"] = "stop_source"
          <5>1. src[arg["run"]] = "stopped" BY <3>1, <4>4 DEF Completions
          <5> QED BY <2>1, <2>2, <4>2, <4>4, <5>1
        <4> QED BY <4>1, <4>3, <4>4
      <3> QED BY <3>1 DEF IsDone
    <2>7. Completions' BY <2>1, <2>2, <2>6, CompletionsKept DEF Tasks
    <2> QED BY <2>4, <2>5, <2>7
  <1>3. CASE StopResumes(t)
    <2>1. /\ pc[t] = "stop_source" /\ pc' = [pc EXCEPT ![t] = "stop_input"]
          /\ posted # <<>> /\ posted' = Tail(posted) /\ Head(posted).to = t
          /\ UNCHANGED <<state, source, input, senderTask, arg, src, inp>>
      BY <1>3 DEF StopResumes, Goto
    <2>2. /\ Len(posted) \in Nat \ {0} /\ Len(posted') = Len(posted) - 1
          /\ \A i \in 1..Len(posted') : posted'[i] = posted[i + 1]
          /\ Head(posted) = posted[1]
      BY <2>1, TailEntries
    <2>3. Completions' BY <2>1, <2>2 DEF Completions, IsDone, Tasks
    <2>4. Awaited' BY <2>1 DEF Awaited, Tasks
    <2>5. \A u \in Tasks : Stopping(u) => Stopping(u)' BY <2>1 DEF Stopping
    <2>6. HandlesAgree' BY <2>1, <2>5 DEF HandlesAgree
    <2> QED BY <2>3, <2>4, <2>6
  <1>4. CASE StopInput(t)
    <2>1. /\ pc[t] = "stop_input" /\ pc' = [pc EXCEPT ![t] = pc'[t]]
          /\ pc'[t] \in {"end_close", "check_start"}
          /\ state' # "STREAMING" /\ input' = None
          /\ inp' = [g \in Gens |-> IF g = input THEN "closed" ELSE inp[g]]
          /\ UNCHANGED <<source, senderTask, arg, src, posted>>
      BY <1>4 DEF StopInput, Goto
    <2>2. HandlesAgree' BY <2>1 DEF HandlesAgree
    <2>3. \A g \in Gens : src[g] = "none" => g # input
      BY DEF Awaited, HandlesAgree, Gens, None
    <2>4. pc["run"] = "starting" => arg["run"] \in Gens \ {input, None}
      BY DEF Awaited, Tasks, Gens, None
    <2>5. Awaited' BY <2>1, <2>3, <2>4 DEF Awaited, Tasks
    <2>6. \/ \A i \in 1..Len(posted) : posted[i].to # "run"
          \/ t # "run"
      BY <2>1 DEF Completions, IsDone
    <2>7. Completions' BY <2>1, <2>6, CompletionsKept DEF Tasks
    <2> QED BY <2>2, <2>5, <2>7
  <1> QED BY <1>1, <1>2, <1>3, <1>4 DEF StopStream

LEMMA NextHandlesInv == HandlesInv /\ [Next \/ ServerStop]_vars => HandlesInv'
  <1> SUFFICES ASSUME HandlesInv, [Next \/ ServerStop]_vars PROVE HandlesInv'
    OBVIOUS
  <1>1. TypeOK' BY NextTypeOK DEF HandlesInv
  <1>2. CASE Terminated \/ UNCHANGED vars
    <2>1. UNCHANGED vars BY <1>2 DEF Terminated
    <2>2. HandlesAgree' BY <2>1 DEF HandlesInv, vars, HandlesAgree, Stopping
    <2>3. Awaited' BY <2>1 DEF HandlesInv, vars, Awaited
    <2>4. Completions' BY <2>1 DEF HandlesInv, vars, Completions, IsDone
    <2> QED BY <1>1, <2>2, <2>3, <2>4 DEF HandlesInv
  <1>3. CASE \E t \in Tasks : StopStream(t)
    BY <1>1, <1>3, StopHandlesInv DEF HandlesInv
  <1>4. CASE AcceptStart \/ StartResumes BY <1>1, <1>4, StartHandlesInv DEF HandlesInv
  <1>5. CASE Executor \/ (\E g \in Gens : EmitFrame(g)) \/ EnqueueFrame
    BY <1>1, <1>5, ThreadHandlesInv DEF HandlesInv
  <1>6. CASE Reader \/ Drain \/ RejectStart \/ ConnectionLost \/ ServerStop
             \/ (\E g \in Gens : Sender(g)) \/ (\E t \in Tasks : Close(t))
    BY <1>1, <1>6, QuietHandlesInv DEF HandlesInv
  <1> QED BY <1>2, <1>3, <1>4, <1>5, <1>6 DEF Next, Task

\* The handles of a session agree, whoever stops it: no stopped source and no
\* closed input backend is kept, and a session that streams has all of one
\* and the same stream.
THEOREM HandlesAlwaysAgree == ShutdownSpec => []HandlesAgree
  <1>1. Init => HandlesInv BY InitHandlesInv
  <1>2. HandlesInv => HandlesAgree BY DEF HandlesInv
  <1> QED BY <1>1, <1>2, NextHandlesInv, PTL DEF ShutdownSpec

-----------------------------------------------------------------------------
(* What a task waits for comes.  An executor job has one task that waits   *)
(* for it: a source is taken out of the session before it is stopped, so   *)
(* two tasks never stop the same one, and the reader alone starts one.  A  *)
(* sender may be awaited by both tasks, and is cancelled by the first.     *)

SenderEnds(t) == pc[t] = "stop_sender" => sender[arg[t]] \in {"cancelled", "done"}
StopComes(t) == pc[t] = "stop_source" =>
    src[arg[t]] = "stopping" \/ (src[arg[t]] = "stopped" /\ JobDone(t))
StartComes == pc["run"] = "starting" =>
    /\ \/ src[arg["run"]] \in {"starting", "running"}
       \/ src[arg["run"]] \in {"live", "failed", "crashed", "orphan"} /\ JobDone("run")
    /\ sender[arg["run"]] = "none"
OwnJobs ==
    /\ pc["stop"] # "starting"
    /\ pc["run"] = "stop_source" /\ pc["stop"] = "stop_source" => arg["run"] # arg["stop"]
NewSenders ==
    /\ \A g \in Gens : src[g] = "none" => sender[g] = "none"
    /\ senderTask # None => sender[senderTask] # "none"

Wakes == (\A t \in Tasks : SenderEnds(t) /\ StopComes(t)) /\ StartComes /\ OwnJobs /\ NewSenders

\* A completion stays in the loop until its task takes it.
LEMMA CompletionStays ==
    ASSUME TypeOK, NEW t \in Tasks, JobDone(t), arg'[t] = arg[t],
           \/ posted' = posted
           \/ \E c \in Callbacks : posted' = Append(posted, c)
           \/ posted # <<>> /\ posted' = Tail(posted) /\ Head(posted).to # t
    PROVE  JobDone(t)'
  <1>1. PICK i \in 1..Len(posted) : posted[i] = [to |-> t, gen |-> arg[t]]
    BY DEF JobDone
  <1>2. CASE posted' = posted BY <1>1, <1>2 DEF JobDone
  <1>3. ASSUME NEW c \in Callbacks, posted' = Append(posted, c) PROVE JobDone(t)'
    <2>1. /\ Len(posted') = Len(posted) + 1 /\ Len(posted) \in Nat
          /\ posted'[i] = posted[i]
      BY <1>1, <1>3, AppendEntries DEF TypeOK
    <2>2. i \in 1..Len(posted') BY <1>1, <2>1
    <2>3. posted'[i] = [to |-> t, gen |-> arg'[t]] BY <1>1, <2>1
    <2> QED BY <2>2, <2>3 DEF JobDone
  <1>4. CASE posted # <<>> /\ posted' = Tail(posted) /\ Head(posted).to # t
    <2>1. /\ Len(posted) \in Nat \ {0} /\ Len(posted') = Len(posted) - 1
          /\ \A j \in 1..Len(posted') : posted'[j] = posted[j + 1]
          /\ Head(posted) = posted[1]
      BY <1>4, TailEntries DEF TypeOK
    <2>2. i # 1
      <3>1. posted[i].to = t BY <1>1
      <3>2. Head(posted) = posted[1] /\ Head(posted).to # t BY <1>4, <2>1, Zenon
      <3> QED BY <3>1, <3>2, Zenon
    <2>3. i - 1 \in 1..Len(posted') /\ posted'[i - 1] = posted[i] BY <1>1, <2>1, <2>2
    <2> QED BY <1>1, <2>3 DEF JobDone
  <1> QED BY <1>2, <1>3, <1>4

\* What is put at the end of the loop's callbacks is there.
LEMMA CompletionPosted ==
    ASSUME TypeOK, NEW t \in Tasks, arg'[t] = arg[t], arg[t] \in Gens,
           posted' = Append(posted, [to |-> t, gen |-> arg[t]])
    PROVE  JobDone(t)'
  <1>1. [to |-> t, gen |-> arg[t]] \in Callbacks BY DEF Callbacks
  <1>2. /\ Len(posted') = Len(posted) + 1 /\ Len(posted) \in Nat
        /\ posted'[Len(posted) + 1] = [to |-> t, gen |-> arg[t]]
    BY <1>1, AppendEntries DEF TypeOK
  <1> QED BY <1>2 DEF JobDone

\* A task that goes on to no wait, with sources and callbacks left alone.
LEMMA MoveWakes ==
    ASSUME TypeOK, Wakes, UNCHANGED <<arg, src, posted>>,
           \A t \in Tasks : pc'[t] # pc[t] =>
               pc'[t] \notin {"stop_sender", "stop_source", "starting"},
           \A g \in Gens : sender[g] \in {"cancelled", "done"} =>
               sender'[g] \in {"cancelled", "done"},
           \A g \in Gens : sender'[g] = "none" <=> sender[g] = "none",
           senderTask' \in {senderTask, None}
    PROVE  Wakes'
  <1> USE DEF TypeOK, Tasks
  <1>1. \A t \in Tasks : JobDone(t)' <=> JobDone(t) BY DEF JobDone
  <1>2. \A t \in Tasks : SenderEnds(t)'
    BY DEF Wakes, SenderEnds, None
  <1>3. \A t \in Tasks : StopComes(t)' BY <1>1 DEF Wakes, StopComes
  <1>4. StartComes' BY <1>1 DEF Wakes, StartComes, None
  <1>5. OwnJobs' BY DEF Wakes, OwnJobs
  <1>6. NewSenders' BY DEF Wakes, NewSenders
  <1> QED BY <1>2, <1>3, <1>4, <1>5, <1>6 DEF Wakes

\* The reader, closing, the senders, and what only moves on in _stop_stream.
LEMMA QuietWakes ==
    ASSUME TypeOK, Wakes,
           \/ Reader \/ Drain \/ RejectStart \/ ConnectionLost \/ ServerStop
           \/ (\E g \in Gens : Sender(g))
           \/ \E t \in Tasks : Close(t) \/ SenderStopped(t) \/ StopInput(t)
    PROVE  Wakes'
  <1> USE DEF TypeOK, Tasks, session
  <1>1. UNCHANGED <<arg, src, posted>> /\ senderTask' \in {senderTask, None}
    BY DEF Reader, Leave, OnQuiet, OnHello, OnAuth, OnPing, OnStart, Drain, RejectStart,
           ConnectionLost, ServerStop, Sender, SendFrame, SenderDrain, SenderCancelled,
           Close, BeginClose, EndClose, Closed, SenderStopped, StopInput
  <1>2. \A t \in Tasks : pc'[t] # pc[t] =>
            pc'[t] \notin {"stop_sender", "stop_source", "starting"}
    BY DEF Reader, Leave, OnQuiet, OnHello, OnAuth, OnPing, OnStart, Drain, RejectStart,
           ConnectionLost, ServerStop, Sender, SendFrame, SenderDrain, SenderCancelled,
           Close, BeginClose, EndClose, Closed, SenderStopped, StopInput, Reading, Goto,
           LoopHead
  <1>3. /\ \A g \in Gens : sender[g] \in {"cancelled", "done"} =>
               sender'[g] \in {"cancelled", "done"}
        /\ \A g \in Gens : sender'[g] = "none" <=> sender[g] = "none"
    BY DEF Reader, Leave, OnQuiet, OnHello, OnAuth, OnPing, OnStart, Drain, RejectStart,
           ConnectionLost, ServerStop, Sender, SendFrame, SenderDrain, SenderCancelled,
           Close, BeginClose, EndClose, Closed, SenderStopped, StopInput
  <1> QED BY <1>1, <1>2, <1>3, MoveWakes

\* The reader hands a start to the executor, and takes its completion.
LEMMA StartWakes ==
    ASSUME HandlesInv, Wakes, AcceptStart \/ StartResumes
    PROVE  Wakes'
  <1> USE DEF HandlesInv, TypeOK, Tasks, session
  <1>1. CASE AcceptStart
    <2>1. PICK g \in Unused : /\ src' = [src EXCEPT ![g] = "starting"]
                              /\ arg' = [arg EXCEPT !["run"] = g]
      BY <1>1 DEF AcceptStart
    <2>2. /\ pc["run"] = "check_start" /\ pc' = [pc EXCEPT !["run"] = "starting"]
          /\ UNCHANGED <<senderTask, sender, posted>>
      BY <1>1 DEF AcceptStart, Goto
    <2>3. g \in Gens /\ src[g] = "none" /\ sender[g] = "none"
      BY DEF Unused, Wakes, NewSenders
    <2>4. JobDone("stop") => JobDone("stop")' BY <2>1, <2>2, CompletionStays
    <2>5. pc["stop"] \in {"stop_sender", "stop_source"} => arg["stop"] \in Gens \ {g}
      BY <2>3 DEF Wakes, SenderEnds, StopComes, None
    <2>6. SenderEnds("stop")' /\ StopComes("stop")'
      BY <2>1, <2>2, <2>4, <2>5 DEF Wakes, SenderEnds, StopComes
    <2>7. SenderEnds("run")' /\ StopComes("run")' BY <2>2 DEF SenderEnds, StopComes
    <2>8. StartComes' BY <2>1, <2>2, <2>3 DEF StartComes
    <2>9. OwnJobs' BY <2>2 DEF Wakes, OwnJobs
    <2>10. NewSenders' BY <2>1, <2>2 DEF Wakes, NewSenders
    <2> QED BY <2>6, <2>7, <2>8, <2>9, <2>10 DEF Wakes
  <1>2. CASE StartResumes
    <2>1. /\ pc["run"] = "starting" /\ posted # <<>> /\ posted' = Tail(posted)
          /\ Head(posted).to = "run" /\ UNCHANGED <<arg, src>>
          /\ pc' = [pc EXCEPT !["run"] = pc'["run"]]
          /\ pc'["run"] \in {"drain", "begin_close"}
      BY <1>2 DEF StartResumes, Goto
    <2>2. Len(posted) \in Nat \ {0} /\ Head(posted) = posted[1]
      BY <2>1, TailEntries
    <2>3. Head(posted).gen = arg["run"] /\ src[arg["run"]] # "none"
      <3>1. IsDone(1) BY <2>1, <2>2, Zenon DEF IsDone
      <3>2. 1 \in 1..Len(posted) BY <2>2
      <3>3. posted[1].gen = arg["run"] /\ src[arg["run"]] # "none"
        BY <2>1, <3>1, <3>2 DEF Completions
      <3> QED BY <2>2, <3>3, Zenon
    <2>4. arg["run"] \in Gens /\ sender[arg["run"]] = "none"
      BY <2>1 DEF Wakes, StartComes, None
    <2>5. /\ \A g \in Gens \ {arg["run"]} : sender'[g] = sender[g]
          /\ \/ senderTask' = senderTask /\ sender' = sender
             \/ senderTask' = arg["run"] /\ sender'[arg["run"]] = "get"
      BY <1>2, <2>3, <2>4 DEF StartResumes
    <2>6. JobDone("stop") => JobDone("stop")' BY <2>1, CompletionStays
    <2>7. pc["stop"] = "stop_sender" => arg["stop"] \in Gens \ {arg["run"]}
      BY <2>4 DEF Wakes, SenderEnds, None
    <2>8. SenderEnds("stop")' /\ StopComes("stop")'
      BY <2>1, <2>5, <2>6, <2>7 DEF Wakes, SenderEnds, StopComes
    <2>9. SenderEnds("run")' /\ StopComes("run")' /\ StartComes'
      BY <2>1 DEF SenderEnds, StopComes, StartComes
    <2>10. OwnJobs' BY <2>1 DEF Wakes, OwnJobs
    <2>11. NewSenders' BY <2>1, <2>3, <2>4, <2>5 DEF Wakes, NewSenders, None
    <2> QED BY <2>8, <2>9, <2>10, <2>11 DEF Wakes
  <1> QED BY <1>1, <1>2

\* The capture threads and the executor, and frames put into the loop.
LEMMA ThreadWakes ==
    ASSUME HandlesInv, Wakes, Executor \/ (\E g \in Gens : EmitFrame(g)) \/ EnqueueFrame
    PROVE  Wakes'
  <1> USE DEF HandlesInv, TypeOK, Tasks, session
  <1>1. UNCHANGED <<senderTask, sender, pc, arg>>
    BY DEF Executor, CaptureRuns, StartEnds, StopEnds, EmitFrame, EnqueueFrame
  <1>2. (\A t \in Tasks : SenderEnds(t)') /\ OwnJobs'
    BY <1>1 DEF Wakes, SenderEnds, OwnJobs
  <1>3. pc["run"] # "starting" \/ arg["run"] \in Gens BY DEF None
  <1>4. ASSUME NEW g \in Gens, CaptureRuns(g) PROVE Wakes'
    <2>1. src[g] = "starting" /\ src' = [src EXCEPT ![g] = "running"] /\ posted' = posted
      BY <1>4 DEF CaptureRuns
    <2>2. \A t \in Tasks : JobDone(t) => JobDone(t)' BY <1>1, <2>1, CompletionStays
    <2>3. \A t \in Tasks : StopComes(t)' BY <1>1, <2>1, <2>2 DEF Wakes, StopComes
    <2>4. StartComes' BY <1>1, <2>1, <2>2 DEF Wakes, StartComes
    <2>5. NewSenders' BY <1>1, <2>1 DEF Wakes, NewSenders
    <2> QED BY <1>2, <2>3, <2>4, <2>5 DEF Wakes
  <1>5. ASSUME NEW g \in Gens, StartEnds(g) PROVE Wakes'
    <2>1. /\ src[g] \in {"starting", "running"}
          /\ src'[g] \in {"live", "failed", "crashed", "orphan"}
          /\ \A h \in Gens \ {g} : src'[h] = src[h]
          /\ posted' = Append(posted, [to |-> "run", gen |-> g])
      BY <1>5 DEF StartEnds
    <2>2. pc["run"] = "starting" /\ arg["run"] = g BY <2>1 DEF Awaited
    <2>3. JobDone("run")' BY <1>1, <2>1, <2>2, CompletionPosted
    <2>4. [to |-> "run", gen |-> g] \in Callbacks BY DEF Callbacks
    <2>5. JobDone("stop") => JobDone("stop")' BY <1>1, <2>1, <2>4, CompletionStays
    <2>6. pc["stop"] = "stop_source" => arg["stop"] \in Gens \ {g}
      BY <2>1 DEF Wakes, StopComes, None
    <2>7. StopComes("run")' BY <1>1, <2>2 DEF StopComes
    <2>8. StopComes("stop")' BY <1>1, <2>1, <2>5, <2>6 DEF Wakes, StopComes
    <2>9. StartComes' BY <1>1, <2>1, <2>2, <2>3 DEF Wakes, StartComes
    <2>10. NewSenders' BY <1>1, <2>1 DEF Wakes, NewSenders
    <2> QED BY <1>2, <2>7, <2>8, <2>9, <2>10 DEF Wakes
  <1>6. ASSUME NEW t \in Tasks, StopEnds(t) PROVE Wakes'
    <2>1. /\ pc[t] = "stop_source" /\ src[arg[t]] = "stopping"
          /\ src' = [src EXCEPT ![arg[t]] = "stopped"]
          /\ posted' = Append(posted, [to |-> t, gen |-> arg[t]])
          /\ arg[t] \in Gens
      BY <1>6 DEF StopEnds, None
    <2>2. JobDone(t)' BY <1>1, <2>1, CompletionPosted
    <2>3. [to |-> t, gen |-> arg[t]] \in Callbacks BY <2>1 DEF Callbacks
    <2>4. \A u \in Tasks : JobDone(u) => JobDone(u)' BY <1>1, <2>1, <2>3, CompletionStays
    <2>5. \A u \in Tasks \ {t} : pc[u] = "stop_source" => arg[u] \in Gens \ {arg[t]}
      BY <2>1 DEF Wakes, OwnJobs, None
    <2>6. \A u \in Tasks \ {t} : StopComes(u)'
      BY <1>1, <2>1, <2>4, <2>5 DEF Wakes, StopComes
    <2>7. StopComes(t)' BY <1>1, <2>1, <2>2 DEF StopComes
    <2>8. StartComes'
      <3>1. pc["run"] = "starting" => arg["run"] \in Gens \ {arg[t]}
        BY <1>3, <2>1 DEF Wakes, StartComes
      <3> QED BY <1>1, <2>1, <2>4, <3>1 DEF Wakes, StartComes
    <2>9. NewSenders' BY <1>1, <2>1 DEF Wakes, NewSenders
    <2> QED BY <1>2, <2>6, <2>7, <2>8, <2>9 DEF Wakes
  <1>7. ASSUME (\E g \in Gens : EmitFrame(g)) \/ EnqueueFrame PROVE Wakes'
    <2>1. src' = src BY <1>7 DEF EmitFrame, EnqueueFrame
    <2>2. \/ \E c \in Callbacks : posted' = Append(posted, c)
          \/ posted # <<>> /\ posted' = Tail(posted) /\ Head(posted).to = "enqueue"
      <3>1. \A g \in Gens : [to |-> "enqueue", gen |-> g] \in Callbacks BY DEF Callbacks
      <3> QED BY <1>7, <3>1 DEF EmitFrame, EnqueueFrame
    <2>3. \A t \in Tasks : JobDone(t) => JobDone(t)' BY <1>1, <2>2, CompletionStays
    <2>4. \A t \in Tasks : StopComes(t)' BY <1>1, <2>1, <2>3 DEF Wakes, StopComes
    <2>5. StartComes' BY <1>1, <2>1, <2>3 DEF Wakes, StartComes
    <2>6. NewSenders' BY <1>1, <2>1 DEF Wakes, NewSenders
    <2> QED BY <1>2, <2>4, <2>5, <2>6 DEF Wakes
  <1> QED BY <1>4, <1>5, <1>6, <1>7 DEF Executor

\* Either task cancels the sender, or takes the source to stop it.
LEMMA StopWakes ==
    ASSUME HandlesInv, Wakes, NEW t \in Tasks,
           BeginStop(t) \/ StopCapture(t) \/ StopResumes(t)
    PROVE  Wakes'
  <1> USE DEF HandlesInv, TypeOK, session
  <1>0. pc["run"] # "starting" \/ arg["run"] \in Gens BY DEF None, Tasks
  <1>1. CASE BeginStop(t)
    <2>1. /\ pc[t] = "begin_stop" /\ UNCHANGED <<src, posted>>
          /\ pc' = [pc EXCEPT ![t] = pc'[t]] /\ pc'[t] \in {"stop_sender", "stop_capture"}
      BY <1>1 DEF BeginStop, Goto
    <2>2. CASE SenderAlive
      <3>1. /\ senderTask \in Gens /\ arg' = [arg EXCEPT ![t] = senderTask]
            /\ sender' = [sender EXCEPT ![senderTask] = "cancelled"]
            /\ UNCHANGED senderTask
        BY <1>1, <2>2 DEF BeginStop, SenderAlive
      <3>2. sender[senderTask] # "none" BY <3>1 DEF Wakes, NewSenders, Gens, None
      <3>3. \A u \in Tasks \ {t} : JobDone(u) => JobDone(u)'
        BY <2>1, <3>1, CompletionStays
      <3>4. \A u \in Tasks \ {t} : SenderEnds(u)' /\ StopComes(u)'
        BY <2>1, <3>1, <3>3 DEF Wakes, SenderEnds, StopComes
      <3>5. SenderEnds(t)' /\ StopComes(t)' BY <2>1, <3>1 DEF SenderEnds, StopComes
      <3>6. StartComes'
        <4>1. t # "run" => arg["run"] # senderTask \/ pc["run"] # "starting"
          BY <3>2 DEF Wakes, StartComes
        <4> QED BY <1>0, <2>1, <3>1, <3>3, <4>1 DEF Wakes, StartComes, Tasks
      <3>7. OwnJobs' BY <2>1, <3>1 DEF Wakes, OwnJobs, Tasks
      <3>8. NewSenders' BY <2>1, <3>1, <3>2 DEF Wakes, NewSenders
      <3> QED BY <3>4, <3>5, <3>6, <3>7, <3>8 DEF Wakes
    <2>3. CASE ~SenderAlive
      <3>1. /\ senderTask' = None /\ UNCHANGED <<sender, arg>>
            /\ pc' = [pc EXCEPT ![t] = "stop_capture"]
        BY <1>1, <2>3 DEF BeginStop, Goto
      <3> QED BY <2>1, <3>1, MoveWakes
    <2> QED BY <2>2, <2>3
  <1>2. CASE StopCapture(t)
    <2>1. /\ pc[t] = "stop_capture" /\ UNCHANGED <<senderTask, sender, posted>>
          /\ pc' = [pc EXCEPT ![t] = pc'[t]]
      BY <1>2 DEF StopCapture, Goto
    <2>2. CASE source # None
      <3>1. /\ source \in Gens /\ src' = [src EXCEPT ![source] = "stopping"]
            /\ arg' = [arg EXCEPT ![t] = source] /\ pc'[t] = "stop_source"
            /\ src[source] = "live"
        BY <1>2, <2>2 DEF StopCapture, Goto, HandlesAgree
      <3>2. \A u \in Tasks \ {t} : JobDone(u) => JobDone(u)'
        BY <2>1, <3>1, CompletionStays
      <3>3. \A u \in Tasks \ {t} : pc[u] = "stop_source" => arg[u] \in Gens \ {source}
        BY <3>1 DEF Wakes, StopComes, None
      <3>4. \A u \in Tasks \ {t} : SenderEnds(u)' /\ StopComes(u)'
        BY <2>1, <3>1, <3>2, <3>3 DEF Wakes, SenderEnds, StopComes
      <3>5. SenderEnds(t)' /\ StopComes(t)' BY <2>1, <3>1 DEF SenderEnds, StopComes
      <3>6. StartComes'
        <4>1. pc["run"] = "starting" => arg["run"] \in Gens \ {source}
          BY <1>0 DEF Awaited
        <4> QED BY <2>1, <3>1, <3>2, <4>1 DEF Wakes, StartComes, Tasks
      <3>7. OwnJobs' BY <2>1, <3>1, <3>3 DEF Wakes, OwnJobs, Tasks
      <3>8. NewSenders' BY <2>1, <3>1 DEF Wakes, NewSenders
      <3> QED BY <3>4, <3>5, <3>6, <3>7, <3>8 DEF Wakes
    <2>3. CASE source = None
      <3>1. UNCHANGED <<src, arg>> /\ pc' = [pc EXCEPT ![t] = "stop_input"]
        BY <1>2, <2>3 DEF StopCapture, Goto
      <3> QED BY <2>1, <3>1, MoveWakes
    <2> QED BY <2>2, <2>3
  <1>3. CASE StopResumes(t)
    <2>1. /\ pc[t] = "stop_source" /\ pc' = [pc EXCEPT ![t] = "stop_input"]
          /\ posted # <<>> /\ posted' = Tail(posted) /\ Head(posted).to = t
          /\ UNCHANGED <<senderTask, sender, arg, src>>
      BY <1>3 DEF StopResumes, Goto
    <2>2. \A u \in Tasks \ {t} : JobDone(u) => JobDone(u)' BY <2>1, CompletionStays
    <2>3. \A u \in Tasks : SenderEnds(u)' /\ StopComes(u)'
      BY <2>1, <2>2 DEF Wakes, SenderEnds, StopComes
    <2>4. StartComes' BY <2>1, <2>2 DEF Wakes, StartComes, Tasks
    <2>5. OwnJobs' /\ NewSenders' BY <2>1 DEF Wakes, OwnJobs, NewSenders, Tasks
    <2> QED BY <2>3, <2>4, <2>5 DEF Wakes
  <1> QED BY <1>1, <1>2, <1>3

\* No task of a session waits for a sender nobody cancelled or for an executor
\* job that is over and has told another task, also while the server stops.
THEOREM WakeUpAlwaysComes == ShutdownSpec => []WakeUpComes
  <1>1. Init => HandlesInv /\ Wakes
    <2>1. ASSUME Init PROVE Wakes
      BY <2>1 DEF Init, Wakes, SenderEnds, StopComes, StartComes, OwnJobs, NewSenders, Tasks
    <2> QED BY <2>1, InitHandlesInv
  <1>2. HandlesInv /\ Wakes /\ [Next \/ ServerStop]_vars => HandlesInv' /\ Wakes'
    <2> SUFFICES ASSUME HandlesInv, Wakes, [Next \/ ServerStop]_vars
                 PROVE  HandlesInv' /\ Wakes'
      OBVIOUS
    <2>0. TypeOK /\ HandlesInv' BY NextHandlesInv DEF HandlesInv
    <2>1. CASE Terminated \/ UNCHANGED vars
      <3>1. UNCHANGED <<pc, arg, src, posted, sender, senderTask>>
        BY <2>1 DEF Terminated, vars, session
      <3> QED BY <2>0, <3>1, MoveWakes
    <2>2. CASE \E t \in Tasks : BeginStop(t) \/ StopCapture(t) \/ StopResumes(t)
      BY <2>0, <2>2, StopWakes
    <2>3. CASE AcceptStart \/ StartResumes BY <2>0, <2>3, StartWakes
    <2>4. CASE Executor \/ (\E g \in Gens : EmitFrame(g)) \/ EnqueueFrame
      BY <2>0, <2>4, ThreadWakes
    <2>5. CASE \/ Reader \/ Drain \/ RejectStart \/ ConnectionLost \/ ServerStop
               \/ (\E g \in Gens : Sender(g))
               \/ \E t \in Tasks : Close(t) \/ SenderStopped(t) \/ StopInput(t)
      BY <2>0, <2>5, QuietWakes
    <2> QED BY <2>1, <2>2, <2>3, <2>4, <2>5 DEF Next, Task, StopStream
  <1>3. Wakes => WakeUpComes
    BY DEF Wakes, SenderEnds, StopComes, StartComes, OwnJobs, WakeUpComes, JobRuns, Tasks
  <1> QED BY <1>1, <1>2, <1>3, PTL DEF ShutdownSpec

=============================================================================
