---------------------------- MODULE CaptureProofs ----------------------------
(***************************************************************************)
(* What holds of the two halves of the portal backend, and of the doctor's *)
(* report beside what a stream comes to.                                   *)
(*                                                                         *)
(* PortalSource, for every set of faults and every number of restore       *)
(* tokens: its types, that a running stream has saved its token, and that  *)
(* it implements a VideoSource.  The inductive invariant says what the     *)
(* backend holds at each place of start() and stop().                      *)
(*                                                                         *)
(* PortalRequests, for every set of clients and any number of              *)
(* PortalSessions: the types, and that no response is lost.                *)
(*                                                                         *)
(* Doctor, for every set of machines: that the report's encoder check and  *)
(* its support matrix are right.                                           *)
(***************************************************************************)
EXTENDS PortalSource, PortalRequests, Doctor, TLAPS

-----------------------------------------------------------------------------
(* PortalSource.                                                           *)


NoPipeline == {"idle", "remote", "encoder", "parse", "close"} \cup Requests
WithFd == (Building \ {"remote"}) \cup {"halt", "close", "live"}

Held ==
    /\ pc \in NoPipeline => pipeline = "none"
    /\ pc \in {"idle", "remote"} \cup Requests => ~fd
    /\ pc \in WithFd => fd
    /\ pc \in {"idle", "create"} => portal = "none"
    /\ left => pc \in {"idle", "raised"}
    /\ pc \in {"types", "select", "devices", "start", "remote"} => handle

TokenKept ==
    /\ pc \in Building \cup {"live"} => issued = valid
    /\ pc = "live" /\ issued # 0 => saved = issued

PInv == TypeOK /\ Held /\ TokenKept

LEMMA InitPInv == Init => PInv
  <1> SUFFICES ASSUME Init PROVE PInv
    OBVIOUS
  <1>1. /\ pc = "idle" /\ portal = "none" /\ pipeline = "none"
        /\ ~handle /\ handle \in BOOLEAN /\ ~fd /\ fd \in BOOLEAN /\ left \in BOOLEAN
        /\ issued = 0 /\ saved = 0 /\ valid = 0
    BY DEF Init
  <1>2. 0 \in Tokens BY PortalAssumption DEF Tokens
  <1> QED BY <1>1, <1>2 DEF PInv, TypeOK, Held, TokenKept, Building, Ending, Requests,
                            NoPipeline, WithFd

\* A request that fails leaves nothing held but a session that `left` tells of.
LEMMA AbandonPInv ==
    ASSUME PInv, pc \in Requests, pc' \in {"idle", "raised"},
           NEW kept, Abandon(kept)
    PROVE  PInv'
  <1>1. /\ ~handle' /\ handle' \in BOOLEAN /\ left' \in BOOLEAN
        /\ portal' = "none"
        /\ UNCHANGED <<fd, pipeline, issued, saved, valid>>
    BY DEF Abandon, Forget
  <1>2. ~fd /\ fd \in BOOLEAN /\ pipeline = "none"
    BY DEF PInv, TypeOK, Held, NoPipeline
  <1> QED BY <1>1, <1>2 DEF PInv, TypeOK, Held, TokenKept, Building, Ending, Requests,
                            NoPipeline, WithFd

\* A step that only moves on, and a new session at the portal.
LEMMA MovePInv ==
    ASSUME PInv, UNCHANGED <<handle, fd, pipeline, issued, saved, valid, left>>,
           portal' \in {"none", "open", "started"},
           <<pc, pc'>> \in {<<"types", "select">>, <<"select", "devices">>,
                            <<"devices", "start">>, <<"encoder", "parse">>,
                            <<"encoder", "close">>, <<"parse", "close">>,
                            <<"play", "halt">>, <<"wait", "wrap">>, <<"wait", "halt">>,
                            <<"live", "halt">>}
    PROVE  PInv'
  BY DEF PInv, TypeOK, Held, TokenKept, Building, Ending, Requests, NoPipeline, WithFd

\* Actions of start() up to Start: nothing but the portal's session is held.
LEMMA RequestsPInv ==
    ASSUME PInv, Begin \/ CreateSession \/ SourceTypes \/ SelectSources
                 \/ SelectDevices \/ Start
    PROVE  PInv'
  <1>0. portal \in {"none", "open", "started"} BY DEF PInv, TypeOK
  <1>1. CASE Begin
    <2>1. 0 \in Tokens BY PortalAssumption DEF Tokens
    <2>2. ~left' /\ left' \in BOOLEAN BY <1>1 DEF Begin
    <2> QED BY <1>1, <2>1, <2>2 DEF Begin, object, PInv, TypeOK, Held, TokenKept, Building,
                              Ending, Requests, NoPipeline, WithFd
  <1>2. CASE CreateSession
    <2>1. CASE Denied \/ NoAnswer({"none", "open"})
      BY <1>2, <2>1, AbandonPInv DEF CreateSession, Denied, NoAnswer, Fault, Requests
    <2>2. CASE pc' = "types" /\ portal' = "open" /\ handle' = TRUE
               /\ UNCHANGED <<fd, pipeline, issued, saved, valid, left>>
      <3>1. handle' /\ handle' \in BOOLEAN BY <2>2
      <3> QED BY <1>2, <2>2, <3>1 DEF CreateSession, PInv, TypeOK, Held, TokenKept,
                 Building, Ending, Requests, NoPipeline, WithFd
    <2> QED BY <1>2, <2>1, <2>2 DEF CreateSession
  <1>3. CASE SourceTypes
    BY <1>0, <1>3, AbandonPInv, MovePInv DEF SourceTypes, Fault, Requests, object
  <1>4. CASE SelectSources
    BY <1>0, <1>4, AbandonPInv, MovePInv
       DEF SelectSources, Select, Denied, NoAnswer, Fault, Requests, object
  <1>5. CASE SelectDevices
    BY <1>0, <1>5, AbandonPInv, MovePInv
       DEF SelectDevices, Select, Denied, NoAnswer, Fault, Requests, object
  <1>6. CASE Start
    <2>0. pc = "start" BY <1>6 DEF Start
    <2>1. CASE \/ Fault("no_streams", "idle") /\ Abandon("started")
               \/ Denied
               \/ NoAnswer({"open", "started"})
      BY <2>0, <2>1, AbandonPInv DEF Denied, NoAnswer, Fault, Requests
    <2>2. CASE /\ pc' = "remote" /\ portal' = "started"
               /\ valid' \in Tokens \ {valid} /\ issued' = valid'
               /\ UNCHANGED <<object, saved, left>>
      <3>1. /\ pc = "start" /\ ~fd /\ pipeline = "none" /\ handle
            /\ issued' = valid' /\ issued' \in Tokens
        BY <1>6, <2>2 DEF Start, PInv, TypeOK, Held, NoPipeline, Requests
      <3> QED BY <2>2, <3>1 DEF object, PInv, TypeOK, Held, TokenKept, Building, Ending,
                 Requests, NoPipeline, WithFd
    <2> QED BY <1>6, <2>1, <2>2 DEF Start
  <1> QED BY <1>1, <1>2, <1>3, <1>4, <1>5, <1>6

LEMMA PipelinePInv ==
    ASSUME PInv, OpenRemote \/ FindEncoder \/ Parse \/ Play \/ Playing \/ SaveToken
    PROVE  PInv'
  <1>0. portal \in {"none", "open", "started"} BY DEF PInv, TypeOK
  <1>1. CASE OpenRemote
    <2>1. CASE fd' = TRUE /\ pc' = "encoder"
      <3>1. fd' /\ fd' \in BOOLEAN BY <2>1
      <3>2. handle /\ handle \in BOOLEAN
        BY <1>1 DEF OpenRemote, PInv, TypeOK, Held
      <3> QED BY <1>1, <2>1, <3>1, <3>2 DEF OpenRemote, PInv, TypeOK, Held, TokenKept,
                 Building, Ending, Requests, NoPipeline, WithFd
    <2>2. CASE fd' = fd /\ pc' = "raised"
      BY <1>1, <2>2 DEF OpenRemote, PInv, TypeOK, Held, TokenKept, Building, Ending,
         Requests, NoPipeline, WithFd
    <2> QED BY <1>1, <2>1, <2>2 DEF OpenRemote, Fault
  <1>2. CASE FindEncoder
    BY <1>0, <1>2, MovePInv DEF FindEncoder, Fault, object
  <1>3. CASE Parse
    <2>1. CASE pc' = "close" BY <1>0, <1>3, <2>1, MovePInv DEF Parse, Fault
    <2>2. CASE pc' = "play"
      BY <1>3, <2>2 DEF Parse, Fault, PInv, TypeOK, Held, TokenKept, Building, Ending,
         Requests, NoPipeline, WithFd
    <2> QED BY <1>3, <2>1, <2>2 DEF Parse, Fault
  <1>4. CASE Play
    <2>1. CASE pc' = "halt" BY <1>0, <1>4, <2>1, MovePInv DEF Play, Fault
    <2>2. CASE pc' = "wait"
      BY <1>4, <2>2 DEF Play, Fault, PInv, TypeOK, Held, TokenKept, Building, Ending,
         Requests, NoPipeline, WithFd
    <2> QED BY <1>4, <2>1, <2>2 DEF Play, Fault
  <1>5. CASE Playing BY <1>0, <1>5, MovePInv DEF Playing, Fault, object
  <1>6. CASE SaveToken
    BY <1>6 DEF SaveToken, Saved, Fault, object, PInv, TypeOK, Held, TokenKept, Building,
       Ending, Requests, NoPipeline, WithFd
  <1> QED BY <1>1, <1>2, <1>3, <1>4, <1>5, <1>6

LEMMA NextPInv == PInv /\ [Next]_vars => PInv'
  <1> SUFFICES ASSUME PInv, [Next]_vars PROVE PInv'
    OBVIOUS
  <1>0. portal \in {"none", "open", "started"} BY DEF PInv, TypeOK
  <1>1. CASE Begin \/ CreateSession \/ SourceTypes \/ SelectSources \/ SelectDevices \/ Start
    BY <1>1, RequestsPInv
  <1>2. CASE OpenRemote \/ FindEncoder \/ Parse \/ Play \/ Playing \/ SaveToken
    BY <1>2, PipelinePInv
  <1>3. CASE Stop BY <1>0, <1>3, MovePInv DEF Stop, object
  <1>4. CASE Halt
    BY <1>4 DEF Halt, Halted, PInv, TypeOK, Held, TokenKept, Building, Ending, Requests,
       NoPipeline, WithFd
  <1>5. CASE Close
    <2>1. /\ pc = "close" /\ handle /\ fd /\ pipeline = "none"
      BY <1>5 DEF Close, PInv, TypeOK, Held, NoPipeline, WithFd
    <2>2. /\ ~fd' /\ fd' \in BOOLEAN /\ ~handle' /\ handle' \in BOOLEAN
          /\ portal' = "none" /\ left' \in BOOLEAN
      BY <1>5, <2>1 DEF Close, Closed, Forget
    <2> QED BY <1>5, <2>1, <2>2 DEF Close, PInv, TypeOK, Held, TokenKept, Building, Ending,
               Requests, NoPipeline, WithFd
  <1>6. CASE UserEnds
    BY <1>6 DEF UserEnds, object, PInv, TypeOK, Held, TokenKept, Building, Ending, Requests,
       NoPipeline, WithFd
  <1>7. CASE UNCHANGED vars
    BY <1>7 DEF vars, object, PInv, TypeOK, Held, TokenKept, Building, Ending, Requests,
       NoPipeline, WithFd
  <1> QED BY <1>1, <1>2, <1>3, <1>4, <1>5, <1>6, <1>7 DEF Next, StartStep, StopStep

LEMMA SpecPInv == Spec => []PInv
  BY InitPInv, NextPInv, PTL DEF Spec

\* Types, and what is open belongs to what is: the descriptor to a session
\* with a handle, the pipeline to a descriptor.
THEOREM PortalTypes == Spec => []TypeOK
  BY SpecPInv, PTL DEF PInv

\* A running stream has saved the token that the portal expects next.
THEOREM TokenIsSaved == Spec => []SavedTokenWorks
  <1>1. PInv => SavedTokenWorks
    BY DEF PInv, TokenKept, SavedTokenWorks
  <1> QED BY <1>1, SpecPInv, PTL

-----------------------------------------------------------------------------
(* PortalSource is a VideoSource.                                          *)

\* What the abstraction sees of a place in start() or stop().
LEMMA PhaseOf ==
    /\ pc \in Requests \cup Building => Phase = "starting"
    /\ pc \in Ending => Phase = "ending"
    /\ pc \in {"idle", "live", "raised"} => Phase = pc
  BY DEF Phase, Requests, Building, Ending

LEMMA FlagsOf ==
    /\ Holding \in BOOLEAN /\ Flowing \in BOOLEAN
    /\ portal # "none" \/ fd \/ pipeline # "none" \/ left <=> Holding
    /\ pipeline = "playing" /\ portal = "started" <=> Flowing
  BY DEF Holding, Flowing

LEMMA FlagsOfNext ==
    /\ Holding' \in BOOLEAN /\ Flowing' \in BOOLEAN
    /\ portal' # "none" \/ fd' \/ pipeline' # "none" \/ left' <=> Holding'
    /\ pipeline' = "playing" /\ portal' = "started" <=> Flowing'
  BY DEF Holding, Flowing

LEMMA PhaseOfNext ==
    /\ pc' \in Requests \cup Building => Phase' = "starting"
    /\ pc' \in Ending => Phase' = "ending"
    /\ pc' \in {"idle", "live", "raised"} => Phase' = pc'
  BY DEF Phase, Requests, Building, Ending

Step == Source!Next \/ left' # left \/ pc' = "raised"

\* A request that fails refuses the start, unless it leaves a session behind.
LEMMA AbandonRefines ==
    ASSUME PInv, pc \in Requests, pc' \in {"idle", "raised"}, NEW kept, Abandon(kept)
    PROVE  Step
  <1>1. CASE left' # left \/ pc' = "raised" BY <1>1 DEF Step
  <1>2. CASE left' = left /\ pc' = "idle"
    <2>1. portal' = "none" BY DEF Abandon, Forget
    <2>2. ~fd' /\ pipeline' = "none" /\ pipeline = "none" /\ ~left'
      BY <1>2 DEF Abandon, PInv, Held, TypeOK, NoPipeline, Requests
    <2>3. Phase = "starting" /\ Phase' = "idle"
      BY <1>2, PhaseOf, PhaseOfNext
    <2>4. ~Flowing /\ ~Flowing' /\ ~Holding'
      BY <2>1, <2>2, FlagsOf, FlagsOfNext
    <2>5. Holding' = FALSE /\ Flowing' = Flowing
      BY <2>4, FlagsOf, FlagsOfNext
    <2> QED BY <2>3, <2>4, <2>5 DEF Step, Source!Next, Source!Refuse
  <1> QED BY <1>1, <1>2

\* A step that changes neither the phase nor what is held is a stutter.
LEMMA QuietRefines ==
    ASSUME Phase' = Phase, UNCHANGED <<portal, fd, pipeline, left>>
    PROVE  UNCHANGED Source!vars
  BY DEF Source!vars, Holding, Flowing

\* A failure after OpenPipeWireRemote, and stop(), begin the end.
LEMMA EndRefines ==
    ASSUME pc \in Building \cup {"live"}, pc' \in Ending,
           UNCHANGED <<portal, fd, pipeline, left>>
    PROVE  Step
  <1>1. Phase \in {"starting", "live"} /\ Phase' = "ending"
    BY PhaseOf, PhaseOfNext
  <1>2. UNCHANGED <<Holding, Flowing>> BY DEF Holding, Flowing
  <1> QED BY <1>1, <1>2 DEF Step, Source!Next, Source!BeginEnd

LEMMA RequestsRefine ==
    ASSUME PInv, Begin \/ CreateSession \/ SourceTypes \/ SelectSources
                 \/ SelectDevices \/ Start
    PROVE  [Step]_(Source!vars)
  <1>1. CASE Begin
    <2>1. pc = "idle" /\ Phase = "idle" BY <1>1, PhaseOf DEF Begin
    <2>2. CASE pc' = "create" /\ left' = left
      <3>1. Phase' = "starting" BY <2>2, PhaseOfNext DEF Requests
      <3>2. UNCHANGED <<Holding, Flowing>>
        BY <1>1, <2>2 DEF Begin, object, Holding, Flowing
      <3> QED BY <2>1, <3>1, <3>2 DEF Step, Source!Next, Source!BeginStart
    <2>3. CASE pc' = "idle" /\ left' = left
      <3>1. Phase' = Phase BY <2>1, <2>3, PhaseOfNext
      <3> QED BY <1>1, <2>3, <3>1, QuietRefines DEF Begin, object
    <2> QED BY <1>1, <2>2, <2>3 DEF Begin, Step
  <1>2. CASE CreateSession
    <2>0. pc = "create" /\ Phase = "starting" BY <1>2, PhaseOf DEF CreateSession, Requests
    <2>1. CASE Denied \/ NoAnswer({"none", "open"})
      BY <2>0, <2>1, AbandonRefines DEF Denied, NoAnswer, Fault, Requests
    <2>2. CASE pc' = "types" /\ portal' = "open" /\ handle' = TRUE
               /\ UNCHANGED <<fd, pipeline, issued, saved, valid, left>>
      <3>1. Phase' = "starting" BY <2>2, PhaseOfNext DEF Requests
      <3>2. Holding' = TRUE BY <2>2, FlagsOfNext
      <3>3. ~Flowing /\ ~Flowing'
        BY <2>0, <2>2, FlagsOf, FlagsOfNext DEF PInv, Held, NoPipeline, Requests
      <3>4. Flowing' = Flowing BY <3>3, FlagsOf, FlagsOfNext
      <3> QED BY <2>0, <3>1, <3>2, <3>4 DEF Step, Source!Next, Source!Acquire
    <2> QED BY <1>2, <2>1, <2>2 DEF CreateSession
  <1>3. CASE SourceTypes \/ SelectSources \/ SelectDevices
    <2>0. pc \in Requests /\ Phase = "starting"
      BY <1>3, PhaseOf DEF SourceTypes, SelectSources, SelectDevices, Select, Requests
    <2>1. CASE \E kept : Abandon(kept) /\ pc' \in {"idle", "raised"}
      BY <2>0, <2>1, AbandonRefines
    <2>2. CASE pc' \in Requests /\ UNCHANGED <<portal, object, left>>
      <3>1. Phase' = Phase BY <2>0, <2>2, PhaseOfNext
      <3> QED BY <2>2, <3>1, QuietRefines DEF object
    <2> QED BY <1>3, <2>1, <2>2 DEF SourceTypes, SelectSources, SelectDevices, Select,
               Denied, NoAnswer, Fault, Requests
  <1>4. CASE Start
    <2>0. pc = "start" /\ Phase = "starting" BY <1>4, PhaseOf DEF Start, Requests
    <2>1. CASE \/ Fault("no_streams", "idle") /\ Abandon("started")
               \/ Denied
               \/ NoAnswer({"open", "started"})
      BY <2>0, <2>1, AbandonRefines DEF Denied, NoAnswer, Fault, Requests
    <2>2. CASE pc' = "remote" /\ portal' = "started" /\ UNCHANGED object
      <3>1. Phase' = "starting" BY <2>2, PhaseOfNext DEF Building
      <3>2. Holding' = TRUE BY <2>2, FlagsOfNext
      <3>3. ~Flowing /\ ~Flowing'
        BY <2>0, <2>2, FlagsOf, FlagsOfNext DEF object, PInv, Held, NoPipeline, Requests
      <3>4. Flowing' = Flowing BY <3>3, FlagsOf, FlagsOfNext
      <3> QED BY <2>0, <3>1, <3>2, <3>4 DEF Step, Source!Next, Source!Acquire
    <2> QED BY <1>4, <2>1, <2>2 DEF Start
  <1> QED BY <1>1, <1>2, <1>3, <1>4

LEMMA PipelineRefines ==
    ASSUME PInv, OpenRemote \/ FindEncoder \/ Parse \/ Play \/ Playing \/ SaveToken
    PROVE  [Step]_(Source!vars)
  <1>0. pc \in Building /\ Phase = "starting"
    BY PhaseOf DEF OpenRemote, FindEncoder, Parse, Play, Playing, SaveToken, Building
  <1>1. CASE OpenRemote
    <2>1. CASE pc' = "raised" BY <2>1 DEF Step
    <2>2. CASE portal = "started" /\ pc' = "encoder"
      <3>1. Phase' = "starting" BY <2>2, PhaseOfNext DEF Building
      <3>2. Holding /\ Holding' BY <1>1, <2>2, FlagsOf, FlagsOfNext DEF OpenRemote
      <3>3. Holding' = Holding BY <3>2, FlagsOf, FlagsOfNext
      <3>4. Flowing' = Flowing BY <1>1 DEF OpenRemote, Flowing
      <3> QED BY <1>0, <3>1, <3>3, <3>4 DEF Source!vars
    <2> QED BY <1>1, <2>1, <2>2 DEF OpenRemote, Fault
  <1>2. CASE FindEncoder \/ Playing
    <2>1. UNCHANGED <<portal, fd, pipeline, left>> BY <1>2 DEF FindEncoder, Playing, object
    <2>2. CASE pc' \in {"parse", "wrap"}
      <3>1. Phase' = Phase BY <1>0, <2>2, PhaseOfNext DEF Building
      <3> QED BY <2>1, <3>1, QuietRefines
    <2>3. CASE pc' \in Ending BY <1>0, <2>1, <2>3, EndRefines
    <2> QED BY <1>2, <2>2, <2>3 DEF FindEncoder, Playing, Fault, Ending
  <1>3. CASE Parse
    <2>1. CASE pc' = "close" /\ pipeline' = pipeline
      BY <1>0, <1>3, <2>1, EndRefines DEF Parse, Ending
    <2>2. CASE pc' = "play" /\ pipeline' = "built"
      <3>1. Phase' = Phase BY <1>0, <2>2, PhaseOfNext DEF Building
      <3>2. fd /\ fd' /\ pipeline = "none"
        BY <1>3 DEF Parse, PInv, Held, WithFd, NoPipeline, Building
      <3>3. Holding' = Holding BY <3>2, FlagsOf, FlagsOfNext
      <3>4. ~Flowing /\ ~Flowing' BY <2>2, <3>2, FlagsOf, FlagsOfNext
      <3>5. Flowing' = Flowing BY <3>4, FlagsOf, FlagsOfNext
      <3> QED BY <3>1, <3>3, <3>5 DEF Source!vars
    <2> QED BY <1>3, <2>1, <2>2 DEF Parse, Fault
  <1>4. CASE Play
    <2>1. CASE pc' = "halt" /\ pipeline' = pipeline
      BY <1>0, <1>4, <2>1, EndRefines DEF Play, Ending
    <2>2. CASE pc' = "wait" /\ pipeline' = "playing"
      <3>1. Phase' = Phase BY <1>0, <2>2, PhaseOfNext DEF Building
      <3>2. Holding' = TRUE BY <2>2, FlagsOfNext
      <3>3. Flowing' \in {Flowing, TRUE}
        <4>1. CASE portal = "started"
          BY <1>4, <2>2, <4>1, FlagsOfNext DEF Play
        <4>2. CASE portal # "started"
          <5>1. ~Flowing /\ ~Flowing' BY <1>4, <4>2, FlagsOf, FlagsOfNext DEF Play
          <5> QED BY <5>1, FlagsOf, FlagsOfNext
        <4> QED BY <4>1, <4>2
      <3> QED BY <1>0, <3>1, <3>2, <3>3 DEF Step, Source!Next, Source!Acquire
    <2> QED BY <1>4, <2>1, <2>2 DEF Play, Fault
  <1>5. CASE SaveToken
    <2>1. CASE pc' = "raised" BY <2>1 DEF Step
    <2>2. CASE pc' = "live"
      <3>1. Phase' = "live" BY <2>2, PhaseOfNext
      <3>2. UNCHANGED <<Holding, Flowing>> BY <1>5 DEF SaveToken, object, Holding, Flowing
      <3>3. Holding
        BY <1>5, FlagsOf DEF SaveToken, PInv, Held, WithFd, Building
      <3> QED BY <1>0, <3>1, <3>2, <3>3 DEF Step, Source!Next, Source!Ready
    <2> QED BY <1>5, <2>1, <2>2 DEF SaveToken, Fault
  <1> QED BY <1>1, <1>2, <1>3, <1>4, <1>5

LEMMA NextRefines == PInv /\ [Next]_vars => [Step]_(Source!vars)
  <1> SUFFICES ASSUME PInv, [Next]_vars PROVE [Step]_(Source!vars)
    OBVIOUS
  <1>1. CASE Begin \/ CreateSession \/ SourceTypes \/ SelectSources \/ SelectDevices \/ Start
    BY <1>1, RequestsRefine
  <1>2. CASE OpenRemote \/ FindEncoder \/ Parse \/ Play \/ Playing \/ SaveToken
    BY <1>2, PipelineRefines
  <1>3. CASE Stop BY <1>3, EndRefines DEF Stop, object, Ending
  <1>4. CASE Halt
    <2>1. pc = "halt" /\ pc' = "close" BY <1>4 DEF Halt, Halted
    <2>2. Phase = "ending" /\ Phase' = "ending"
      BY <2>1, PhaseOf, PhaseOfNext DEF Ending
    <2>3. fd /\ fd' BY <1>4, <2>1 DEF Halt, PInv, Held, WithFd
    <2>4. Holding' = Holding BY <2>3, FlagsOf, FlagsOfNext
    <2>5. ~Flowing' BY <1>4, FlagsOfNext DEF Halt
    <2>6. Flowing' = FALSE BY <2>5, FlagsOfNext
    <2> QED BY <2>2, <2>4, <2>6 DEF Step, Source!Next, Source!EndFlow
  <1>5. CASE Close
    <2>1. pc = "close" /\ pc' = "idle" BY <1>5 DEF Close
    <2>2. Phase = "ending" /\ Phase' = "idle"
      BY <2>1, PhaseOf, PhaseOfNext DEF Ending
    <2>3. handle /\ pipeline = "none"
      BY <2>1 DEF PInv, TypeOK, Held, WithFd, NoPipeline
    <2>4. portal' = "none" /\ ~fd' /\ pipeline' = "none"
      BY <1>5, <2>3 DEF Close, Closed, Forget
    <2>5. CASE left' = left
      <3>1. ~left' BY <2>1, <2>5 DEF PInv, Held
      <3>2. ~Holding' /\ ~Flowing' /\ ~Flowing
        BY <2>3, <2>4, <3>1, FlagsOf, FlagsOfNext
      <3>3. Holding' = FALSE /\ Flowing' = Flowing
        BY <3>2, FlagsOf, FlagsOfNext
      <3> QED BY <2>2, <3>2, <3>3 DEF Step, Source!Next, Source!Release
    <2> QED BY <2>5 DEF Step
  <1>6. CASE UserEnds
    <2>1. portal = "started" /\ portal' = "none" BY <1>6 DEF UserEnds
    <2>2. Phase' = Phase BY <1>6 DEF UserEnds, Phase
    <2>3. Holding /\ ~Flowing' BY <2>1, FlagsOf, FlagsOfNext
    <2>4. Flowing' = FALSE /\ Holding' \in {Holding, FALSE}
      BY <2>3, FlagsOf, FlagsOfNext
    <2> QED BY <2>2, <2>4 DEF Step, Source!Next, Source!Interrupt
  <1>7. CASE UNCHANGED vars
    BY <1>7 DEF vars, object, Source!vars, Phase, Holding, Flowing
  <1> QED BY <1>1, <1>2, <1>3, <1>4, <1>5, <1>6, <1>7 DEF Next, StartStep, StopStep

\* The Wayland backend keeps the contract of capture/base.py, for every set of
\* faults: a start that fails holds nothing, frames end before what they show
\* is given back, and stop() gives everything back; but for the steps that leave
\* the session at the portal, and an exception the caller does not expect.
THEOREM PortalIsAVideoSource == Spec => ImplementsVideoSource
  <1>1. Init => Source!Init
    <2> SUFFICES ASSUME Init PROVE Source!Init
      OBVIOUS
    <2>1. pc = "idle" /\ portal = "none" /\ ~fd /\ pipeline = "none" /\ ~left BY DEF Init
    <2>2. Phase = "idle" BY <2>1, PhaseOf
    <2>3. Holding = FALSE /\ Flowing = FALSE BY <2>1, FlagsOf
    <2> QED BY <2>2, <2>3 DEF Source!Init
  <1>2. PInv /\ [Next]_vars => [Source!Next \/ left' # left \/ pc' = "raised"]_(Source!vars)
    BY NextRefines DEF Step
  <1> QED BY <1>1, <1>2, SpecPInv, PTL DEF Spec, ImplementsVideoSource

-----------------------------------------------------------------------------
(* PortalRequests.                                                         *)

Called == {"subscribed", "calling", "waiting"}

\* Between two requests there is a token left for the next; a request is made
\* by a PortalSession, with a token that is not the session's.
Counted ==
    \A c \in Clients :
      /\ at[c] = "next" => token[c] \in SessionToken..(LastToken - 1)
      /\ at[c] \in Called => token[c] \in 2..LastToken
      /\ at[c] # "idle" => era[c] \in 1..MaxOpens

ReqInv == RequestsTypeOK /\ Counted

LEMMA InitReqInv == RequestsInit => ReqInv
  BY RequestsAssumption
  DEF RequestsInit, ReqInv, RequestsTypeOK, Counted, LastToken, SessionToken, Called

\* The steps of one client but Call, which alone makes a request.
LEMMA OpenReqInv == ASSUME ReqInv, NEW c \in Clients, Open(c) PROVE ReqInv'
  <1>1. era[c] \in Nat /\ era[c] + 1 \in 1..MaxOpens
    BY RequestsAssumption DEF Open, ReqInv, RequestsTypeOK
  <1>2. era' = [era EXCEPT ![c] = era[c] + 1] BY DEF Open
  <1>3. RequestsTypeOK'
    BY <1>1, <1>2 DEF Open, Goto, ReqInv, RequestsTypeOK, LastToken, SessionToken
  <1>4. Counted'
    BY <1>1, <1>2
    DEF Open, Goto, ReqInv, RequestsTypeOK, Counted, LastToken, SessionToken, Called
  <1> QED BY <1>3, <1>4 DEF ReqInv

LEMMA SubscribeReqInv == ASSUME ReqInv, NEW c \in Clients, Subscribe(c) PROVE ReqInv'
  <1>1. token[c] + 1 \in 2..LastToken
    BY DEF Subscribe, ReqInv, Counted, LastToken, SessionToken
  <1>2. token' = [token EXCEPT ![c] = token[c] + 1] BY DEF Subscribe
  <1>3. RequestsTypeOK'
    BY <1>1, <1>2 DEF Subscribe, Goto, ReqInv, RequestsTypeOK, LastToken
  <1>4. Counted'
    BY <1>1, <1>2 DEF Subscribe, Goto, ReqInv, RequestsTypeOK, Counted, LastToken, SessionToken,
                      Called
  <1> QED BY <1>3, <1>4 DEF ReqInv

LEMMA CallReqInv == ASSUME ReqInv, NEW c \in Clients, Call(c) PROVE ReqInv'
  <1> DEFINE req == [client |-> c, era |-> era[c], token |-> token[c]]
             path == IF InUse(token[c]) THEN 0 ELSE token[c]
  <1>1. at[c] = "subscribed" /\ pending' = pending \cup {[req |-> req, path |-> path]}
        /\ at' = [at EXCEPT ![c] = "calling"] /\ UNCHANGED <<era, token, session, got>>
    BY DEF Call, Goto
  <1>2. token[c] \in 2..LastToken /\ era[c] \in 1..MaxOpens
    BY <1>1 DEF ReqInv, Counted, Called
  <1>3. req \in Request BY <1>2 DEF Request
  <1>4. path \in 0..LastToken BY <1>2 DEF LastToken
  <1>5. [req |-> req, path |-> path] \in Pending BY <1>3, <1>4 DEF Pending
  <1>6. pending' \subseteq Pending BY <1>1, <1>5 DEF ReqInv, RequestsTypeOK
  <1> HIDE DEF req, path
  <1>7. RequestsTypeOK' BY <1>1, <1>6 DEF ReqInv, RequestsTypeOK
  <1>8. Counted' BY <1>1, <1>2 DEF ReqInv, RequestsTypeOK, Counted, Called
  <1> QED BY <1>7, <1>8 DEF ReqInv

\* A step that leaves the request and its place in the sequence as they are.
LEMMA RestReqInv ==
    ASSUME ReqInv, NEW c \in Clients,
           Returned(c) \/ Take(c) \/ TimeOut(c) \/ CloseSession(c)
    PROVE  ReqInv'
  <1>1. UNCHANGED <<era, token, got, pending>>
    BY DEF Returned, Take, TimeOut, CloseSession
  <1>2. session' \in [Clients -> {0, SessionToken}]
    BY DEF Returned, Take, TimeOut, CloseSession, ReqInv, RequestsTypeOK
  <1>3. PICK to \in {"idle", "next", "waiting", "open"} :
             /\ at' = [at EXCEPT ![c] = to]
             /\ to = "next" => at[c] \in Called /\ token[c] # LastToken
             /\ to = "waiting" => at[c] \in Called
             /\ to = "open" => at[c] \in Called
    BY DEF Returned, Take, TimeOut, CloseSession, Goto, AfterResponse, Called
  <1>4. RequestsTypeOK' BY <1>1, <1>2, <1>3 DEF ReqInv, RequestsTypeOK
  <1>5. Counted'
    BY <1>1, <1>3 DEF ReqInv, RequestsTypeOK, Counted, Called, LastToken, SessionToken
  <1> QED BY <1>4, <1>5 DEF ReqInv

LEMMA RespondReqInv == ASSUME ReqInv, NEW p \in pending, Respond(p) PROVE ReqInv'
  <1>1. p.req \in Request BY DEF ReqInv, RequestsTypeOK, Pending
  <1>2. got' \in [Clients -> Request \cup {NoRequest}]
    BY <1>1 DEF Respond, ReqInv, RequestsTypeOK
  <1>3. pending' \subseteq Pending /\ UNCHANGED <<at, era, token, session>>
    BY DEF Respond, ReqInv, RequestsTypeOK
  <1> QED BY <1>2, <1>3 DEF ReqInv, RequestsTypeOK, Counted

LEMMA NextReqInv == ReqInv /\ [RequestsNext]_requestVars => ReqInv'
  <1> SUFFICES ASSUME ReqInv, [RequestsNext]_requestVars PROVE ReqInv'
    OBVIOUS
  <1>1. CASE UNCHANGED requestVars BY <1>1 DEF requestVars, ReqInv, RequestsTypeOK, Counted
  <1>2. ASSUME NEW c \in Clients,
               Open(c) \/ Subscribe(c) \/ Call(c) \/ Returned(c) \/ Take(c) \/ TimeOut(c)
               \/ CloseSession(c)
        PROVE  ReqInv'
    BY <1>2, OpenReqInv, SubscribeReqInv, CallReqInv, RestReqInv
  <1>3. ASSUME NEW p \in pending, Respond(p) PROVE ReqInv'
    BY <1>3, RespondReqInv
  <1> QED BY <1>1, <1>2, <1>3 DEF RequestsNext

LEMMA SpecReqInv == RequestsSpec => []ReqInv
  BY InitReqInv, NextReqInv, PTL DEF RequestsSpec

\* Types: a request is a client's, made by one of its PortalSessions with one
\* of the tokens after the session's.
THEOREM RequestTypes == RequestsSpec => []RequestsTypeOK
  BY SpecReqInv, PTL DEF ReqInv

\* A response on the path a call waits for reaches the call, whoever else
\* calls meanwhile and whatever timed out before.
THEOREM ResponsesArrive == RequestsSpec => NoResponseLost
  <1> DEFINE Arrives == \A p \in pending \ pending' : \A c \in Clients :
                           InCall(c) /\ token[c] = p.path => got'[c] = p.req
  <1>1. ReqInv /\ [RequestsNext]_requestVars => [Arrives]_requestVars
    <2> SUFFICES ASSUME RequestsNext PROVE Arrives
      OBVIOUS
    <2>1. CASE pending \subseteq pending' BY <2>1
    <2>2. ASSUME NEW q \in pending, Respond(q) PROVE Arrives
      <3> SUFFICES ASSUME NEW c \in Clients, InCall(c), token[c] = q.path
                   PROVE  got'[c] = q.req
        BY <2>2 DEF Respond
      <3>1. Subscribed(c) BY DEF Subscribed, InCall
      <3> QED BY <2>2, <3>1 DEF Respond
    <2>3. ASSUME NEW c \in Clients,
                 Open(c) \/ Subscribe(c) \/ Call(c) \/ Returned(c) \/ Take(c) \/ TimeOut(c)
                 \/ CloseSession(c)
          PROVE  pending \subseteq pending'
      BY <2>3 DEF Open, Subscribe, Call, Returned, Take, TimeOut, CloseSession
    <2> QED BY <2>1, <2>2, <2>3 DEF RequestsNext
  <1> QED BY <1>1, SpecReqInv, PTL DEF RequestsSpec, NoResponseLost

-----------------------------------------------------------------------------
(* Doctor.                                                                 *)

\* A report and a stream are always those of the machine.
DoctorInv ==
    /\ machine \in AllMachines
    /\ report \in {NotYet, ReportOf(machine)}
    /\ stream \in {NotYet} \cup {StreamOf(machine, mode) : mode \in Modes}

LEMMA SpecDoctorInv == DoctorSpec => []DoctorInv
  <1>1. DoctorInit => DoctorInv
    BY MachinesAssumption DEF DoctorInit, DoctorInv
  <1>2. DoctorInv /\ [DoctorNext]_doctorVars => DoctorInv'
    <2> SUFFICES ASSUME DoctorInv, [DoctorNext]_doctorVars PROVE DoctorInv'
      OBVIOUS
    <2>1. CASE RunDoctor BY <2>1 DEF DoctorInv, RunDoctor
    <2>2. ASSUME NEW mode \in Modes, StartStream(mode) PROVE DoctorInv'
      BY <2>2 DEF DoctorInv, StartStream
    <2>3. CASE UNCHANGED doctorVars BY <2>3 DEF DoctorInv, doctorVars
    <2> QED BY <2>1, <2>2, <2>3 DEF DoctorNext
  <1> QED BY <1>1, <1>2, PTL DEF DoctorSpec

\* The automatic order finds an encoder exactly where there is one.
LEMMA FindsAnEncoder ==
    ASSUME NEW m \in AllMachines
    PROVE  FirstEncoder(m, "auto") # "none" <=> m.elements \cap Encoders # {}
  <1> DEFINE order == <<"vah264enc", "vaapih264enc", "nvh264enc", "x264enc">>
             usable == {i \in 1..4 : order[i] \in m.elements}
             first == CHOOSE i \in usable : \A j \in usable : i <= j
  <1>1. /\ Order("auto") = order
        /\ DOMAIN order = 1..4
    BY DEF Order
  <1>2. \A i \in 1..4 : order[i] \in Encoders
    BY DEF Encoders
  <1>3. \A e \in Encoders : \E i \in 1..4 : order[i] = e
    BY DEF Encoders
  <1>4. usable # {} <=> m.elements \cap Encoders # {}
    BY <1>2, <1>3
  <1>5. usable # {} => first \in usable
    <2> SUFFICES ASSUME usable # {} PROVE \E i \in usable : \A j \in usable : i <= j
      OBVIOUS
    <2> QED BY DEF usable
  <1>6. \A e \in Encoders : e # "none" BY DEF Encoders
  <1>7. FirstEncoder(m, "auto") = IF usable = {} THEN "none" ELSE order[first]
    BY <1>1 DEF FirstEncoder
  <1> QED BY <1>2, <1>4, <1>5, <1>6, <1>7

\* The report's encoder check passes exactly when the stream's search finds an
\* encoder, on every machine with GStreamer's bindings.
THEOREM EncodersAgree == DoctorSpec => []EncoderAgrees
  <1>1. ASSUME NEW m \in AllMachines, GstAvailable(m)
        PROVE  ReportOf(m).encoder = "PASS" <=> FirstEncoder(m, "auto") # "none"
    BY <1>1, FindsAnEncoder DEF ReportOf, ReportWayland, ReportX11, ReportNone, EncoderCheck
  <1>2. DoctorInv => EncoderAgrees
    BY <1>1 DEF DoctorInv, EncoderAgrees
  <1> QED BY <1>2, SpecDoctorInv, PTL

\* On Wayland: the report's matrix beside the portal's start().
LEMMA WaylandIsRight ==
    ASSUME NEW m \in AllMachines, m.session = "wayland", NEW mode \in Modes
    PROVE  /\ ReportOf(m).mirror = "NO" => StreamOf(m, mode).outcome # "live"
           /\ mode = "extend" /\ ReportOf(m).extend = "NO" =>
                StreamOf(m, mode).outcome # "live"
           /\ m.remote /\ {"pipewiresrc", "convert"} \subseteq m.elements =>
                /\ mode = "mirror" =>
                      (ReportOf(m).mirror = "YES" <=> StreamOf(m, mode).outcome = "live")
                /\ mode = "extend" /\ ReportOf(m).extend = "YES" =>
                      StreamOf(m, mode).outcome = "live"
                /\ mode = "extend" /\ ReportOf(m).extend = "NO" /\ m.gst =>
                      StreamOf(m, mode).outcome = "no_virtual_monitor"
  <1>1. ReportOf(m) = ReportWayland(m)
    BY DEF ReportOf, DoctorSession
  <1>2. StreamOf(m, mode).outcome = PortalStart(m, mode)
    BY DEF StreamOf, Backend
  <1>3. Pipeline(m, "pipewiresrc") = "live" <=>
            m.elements \cap Encoders # {} /\ {"pipewiresrc", "convert"} \subseteq m.elements
    BY FindsAnEncoder DEF Pipeline
  <1>4. MirrorWayland(m) = "YES" <=>
            GstAvailable(m) /\ m.portal /\ m.elements \cap Encoders # {}
    BY DEF MirrorWayland, PortalCheck, EncoderCheck, GstAvailable
  <1>5. MirrorWayland(m) \in {"YES", "NO"} BY DEF MirrorWayland
  <1>6. PortalStart(m, mode) = "live" <=>
            /\ GstAvailable(m) /\ m.portal /\ m.remote
            /\ mode = "extend" => OffersVirtual(m)
            /\ Pipeline(m, "pipewiresrc") = "live"
    BY DEF PortalStart
  <1>7. ReportWayland(m).mirror = MirrorWayland(m) BY DEF ReportWayland
  <1>8. /\ ReportWayland(m).extend = "YES" =>
              OffersVirtual(m) /\ MirrorWayland(m) = "YES"
        /\ ReportWayland(m).extend = "NO" => PortalCheck(m) /\ ~OffersVirtual(m)
    BY DEF ReportWayland, VirtualMonitor, OffersVirtual
  <1>9. PortalCheck(m) /\ ~OffersVirtual(m) /\ m.gst /\ m.remote /\ mode = "extend" =>
            PortalStart(m, mode) = "no_virtual_monitor"
    BY DEF PortalStart, PortalCheck, GstAvailable
  <1>10. mode \in {"mirror", "extend"} BY DEF Modes
  <1> QED BY <1>1, <1>2, <1>3, <1>4, <1>5, <1>6, <1>7, <1>8, <1>9, <1>10

\* On X11: the report's matrix and input beside the ladder of x11.py's start().
LEMMA X11IsRight ==
    ASSUME NEW m \in AllMachines, m.session = "x11", NEW mode \in Modes
    PROVE  /\ ReportOf(m).mirror = "NO" => StreamOf(m, mode).outcome # "live"
           /\ m.display /\ m.xrandr = "works" /\ "convert" \in m.elements =>
                /\ mode = "mirror" =>
                      (ReportOf(m).mirror = "YES" <=> StreamOf(m, mode).outcome = "live")
                /\ mode = "extend" /\ ReportOf(m).extend = "YES" =>
                      StreamOf(m, mode).outcome = "live" \/ ~Ladder(m)
  <1>1. ReportOf(m) = ReportX11(m)
    BY DEF ReportOf, DoctorSession
  <1>2. StreamOf(m, mode).outcome = X11Start(m, mode)
    BY DEF StreamOf, Backend
  <1>3. Pipeline(m, "ximagesrc") = "live" <=>
            m.elements \cap Encoders # {} /\ {"ximagesrc", "convert"} \subseteq m.elements
    BY FindsAnEncoder DEF Pipeline
  <1>4. MirrorX11(m) = "YES" <=>
            GstAvailable(m) /\ "ximagesrc" \in m.elements /\ m.elements \cap Encoders # {}
    BY DEF MirrorX11, EncoderCheck
  <1>5. MirrorX11(m) \in {"YES", "NO"} BY DEF MirrorX11
  <1>6. X11Start(m, mode) = "live" <=>
            /\ m.display /\ GstAvailable(m) /\ m.xrandr = "works"
            /\ mode = "extend" => Ladder(m)
            /\ Pipeline(m, "ximagesrc") = "live"
    BY DEF X11Start
  <1>7. /\ ReportX11(m).mirror = MirrorX11(m)
        /\ ReportX11(m).extend = "YES" => MirrorX11(m) # "NO"
    BY DEF ReportX11
  <1>8. mode \in {"mirror", "extend"} BY DEF Modes
  <1> QED BY <1>1, <1>2, <1>3, <1>4, <1>5, <1>6, <1>7, <1>8

\* In a graphical session the matrix is never wrong to say "NO" to mirror, on
\* Wayland nor to extend, and "YES" and "NO" are right where the parts it does
\* not look at are in order.
THEOREM MatrixAlwaysRight == DoctorSpec => []MatrixIsRight
  <1>1. DoctorInv => MatrixIsRight
    <2> SUFFICES ASSUME DoctorInv, Both, Graphical PROVE MatrixIsRight
      BY DEF MatrixIsRight
    <2>1. machine \in AllMachines /\ report = ReportOf(machine)
      BY DEF DoctorInv, Both
    <2>2. PICK mode \in Modes : stream = StreamOf(machine, mode)
      BY DEF DoctorInv, Both
    <2>3. stream.mode = mode BY <2>2 DEF StreamOf
    <2>4. CASE machine.session = "wayland"
      BY <2>1, <2>2, <2>3, <2>4, WaylandIsRight DEF MatrixIsRight, Live, Unseen
    <2>5. CASE machine.session = "x11"
      <3>1. machine.evdev => report.input = stream.input
        BY <2>1, <2>2, <2>5 DEF ReportOf, DoctorSession, ReportX11, StreamOf, Backend, X11Input
      <3> QED
        BY <2>1, <2>2, <2>3, <2>5, <3>1, X11IsRight DEF MatrixIsRight, Live, Unseen
    <2> QED BY <2>4, <2>5 DEF Graphical
  <1> QED BY <1>1, SpecDoctorInv, PTL

=============================================================================
