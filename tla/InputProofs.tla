----------------------------- MODULE InputProofs -----------------------------
(***************************************************************************)
(* What holds of Input for any number of fingers, slots, messages under    *)
(* way and mishaps: its types, that every message fits what the desktop    *)
(* holds when it is handled, that the PC holds what the fingers hold once  *)
(* all is handled, and that after the stream nothing is held.              *)
(***************************************************************************)
EXTENDS Input, FiniteSetTheorems, TLAPS

\* Closing the portal's session lets go of all, if it closes, and afterwards the
\* portal takes no more; the uinput device keeps its buttons until it is closed.
LetGo ==
    /\ phase \in {"streaming", "stopping", "sourceless", "stopped"}
    /\ backend \in {"portal", "uinput"}
    /\ backend = "uinput" => fingers = {}
    /\ left => backend = "portal"
    /\ phase = "sourceless" /\ backend = "portal" /\ ~left => fingers = {} /\ buttons = {}
    /\ phase = "stopped" /\ ~left => fingers = {} /\ buttons = {}

LEMMA InitLetGo == Init => LetGo
  BY DEF Init, LetGo

LEMMA OnInputLetGo == LetGo /\ OnInput /\ backend' = backend => LetGo'
  <1> SUFFICES ASSUME LetGo, OnInput, backend' = backend PROVE LetGo'
    OBVIOUS
  <1>1. phase' = phase /\ phase # "stopped" /\ left' = left BY DEF OnInput
  <1> DEFINE kind == Head(wire)[1]
             what == Head(wire)[2]
  <1>2. OnTouch(kind, what) \/ OnMouse(kind, what) BY DEF OnInput
  <1> HIDE DEF kind, what
  <1>3. CASE OnTouch(kind, what)
    <2>1. CASE backend = "portal"
      <3>1. PortalTouch(kind, what) BY <1>3, <2>1 DEF OnTouch
      <3>2. phase = "sourceless" => fingers' = fingers /\ buttons' = buttons
        BY <3>1 DEF PortalTouch
      <3> QED BY <1>1, <2>1, <3>2 DEF LetGo
    <2>2. CASE backend = "uinput"
      <3>1. fingers' = fingers BY <1>3, <2>2 DEF OnTouch, UinputTouch
      <3> QED BY <1>1, <2>2, <3>1 DEF LetGo
    <2> QED BY <2>1, <2>2 DEF LetGo
  <1>4. CASE OnMouse(kind, what)
    <2>1. fingers' = fingers BY <1>4 DEF OnMouse
    <2>2. phase = "sourceless" /\ backend = "portal" => buttons' = buttons
      BY <1>4 DEF OnMouse
    <2> QED BY <1>1, <2>1, <2>2 DEF LetGo
  <1> QED BY <1>2, <1>3, <1>4

LEMMA NextLetGo == LetGo /\ [Next]_vars => LetGo'
  <1> SUFFICES ASSUME LetGo, [Next]_vars PROVE LetGo'
    OBVIOUS
  \* The tablet, a lost connection and the call of stop() touch nothing.
  <1>1. CASE UNCHANGED <<conn, phase, desktop, backend>>
    BY <1>1 DEF desktop, LetGo
  <1>2. CASE ConnectionLost BY <1>2 DEF ConnectionLost, desktop, LetGo
  <1>3. CASE Server /\ backend' = backend
    <2>1. CASE OnInput BY <1>3, <2>1, OnInputLetGo
    <2>2. CASE StopStream BY <1>3, <2>2 DEF StopStream, desktop, LetGo
    <2>3. CASE SourceStopped BY <1>3, <2>3 DEF SourceStopped, LetGo
    <2>4. CASE InputClosed BY <1>3, <2>4 DEF InputClosed, LetGo
    <2> QED BY <1>3, <2>1, <2>2, <2>3, <2>4 DEF Server
  <1>4. CASE UNCHANGED vars BY <1>4 DEF vars, desktop, LetGo
  <1> QED BY <1>1, <1>2, <1>3, <1>4 DEF Next

\* When a stream has stopped nothing is held down on the PC, whatever the
\* tablet sent, lost or sent too late, unless the portal would not close the
\* session that holds it.
THEOREM StopLetsGo == Spec => []NothingHeldAfterStop
  <1>1. LetGo => NothingHeldAfterStop BY DEF LetGo, NothingHeldAfterStop
  <1> QED BY <1>1, InitLetGo, NextLetGo, PTL DEF Spec

-----------------------------------------------------------------------------
(* Types.                                                                  *)

\* The channel takes at least what fits, and all of it when nothing is dropped.
LEMMA SendKeeps ==
    ASSUME wire \in Seq(Messages), Len(wire) <= Capacity, NEW msgs \in Seq(Messages),
           mishaps \in Nat, Send(msgs)
    PROVE  /\ wire' \in Seq(Messages) /\ Len(wire') <= Capacity
           /\ mishaps' \in Nat
           /\ mishaps' = 0 => mishaps = 0 /\ wire' = wire \o msgs
  <1> DEFINE all == wire \o msgs
             n == Min({Capacity, Len(all)})
  <1>1. all \in Seq(Messages) /\ Len(all) \in Nat OBVIOUS
  <1>2. Capacity \in Nat BY InputAssumption
  <1>3. n = IF Capacity <= Len(all) THEN Capacity ELSE Len(all)
    <2> HIDE DEF all
    <2> QED BY <1>1, <1>2 DEF Min
  <1>4. wire' = SubSeq(all, 1, n)
        /\ mishaps' = mishaps + IF Len(all) > Capacity THEN 1 ELSE 0
    BY DEF Send
  <1> HIDE DEF n, all
  <1>5. n \in Nat /\ n <= Len(all) /\ n <= Capacity BY <1>1, <1>2, <1>3
  <1>6. SubSeq(all, 1, n) \in Seq(Messages) /\ Len(SubSeq(all, 1, n)) = n
    BY <1>1, <1>5
  <1>7. Len(all) <= Capacity => SubSeq(all, 1, n) = all
    <2> SUFFICES ASSUME Len(all) <= Capacity PROVE SubSeq(all, 1, n) = all
      OBVIOUS
    <2>1. n = Len(all) BY <1>1, <1>2, <1>3
    <2> QED BY <1>1, <2>1
  <1>8. mishaps' = 0 => mishaps = 0 /\ Len(all) <= Capacity BY <1>1, <1>2, <1>4
  <1>9. mishaps' \in Nat BY <1>4
  <1> QED BY <1>4, <1>5, <1>6, <1>7, <1>8, <1>9 DEF all

LEMMA PointersFinite == IsFiniteSet(Pointers) /\ Pointers \subseteq Nat
  BY FS_Interval, InputAssumption DEF Pointers

\* SetToSeq of the fingers names each once.
LEMMA FingersInOrder ==
    ASSUME NEW ids \in SUBSET Pointers
    PROVE  /\ Cardinality(ids) \in Nat
           /\ SetToSeq(ids) \in [1..Cardinality(ids) -> ids]
           /\ \A i, j \in 1..Cardinality(ids) : SetToSeq(ids)[i] = SetToSeq(ids)[j] => i = j
           /\ \A p \in ids : \E i \in 1..Cardinality(ids) : SetToSeq(ids)[i] = p
  <1>1. IsFiniteSet(ids) BY PointersFinite, FS_Subset
  <1> DEFINE n == Cardinality(ids)
  <1>2. n \in Nat /\ ExistsBijection(1..n, ids) BY <1>1, FS_CardinalityType
  <1>3. PICK f \in [1..n -> ids] : IsInjective(f)
    BY <1>2 DEF ExistsBijection, Bijection, Injection, IsInjective
  <1>4. SetToSeq(ids) \in [1..n -> ids] /\ IsInjective(SetToSeq(ids))
    BY <1>3 DEF SetToSeq
  <1> DEFINE s == SetToSeq(ids)
  <1> HIDE DEF s
  <1>5. s \in [1..n -> ids] /\ (\A i, j \in 1..n : s[i] = s[j] => i = j)
    BY <1>4 DEF IsInjective, s
  <1>6. {s[i] : i \in 1..n} = ids
    <2> DEFINE R == {s[i] : i \in 1..n}
    <2>1. R \in SUBSET ids BY <1>5
    <2>2. s \in Bijection(1..n, R)
      BY <1>5 DEF Bijection, Injection, Surjection, IsInjective
    <2>3. ExistsBijection(1..n, R) BY <2>2 DEF ExistsBijection
    <2>4. Cardinality(R) = n BY <1>2, <2>3, FS_CountingElements
    <2> QED BY <1>1, <2>1, <2>4, FS_Subset
  <1> QED BY <1>2, <1>5, <1>6 DEF s

LEMMA EachType ==
    ASSUME NEW kind \in {"move", "cancel"}, NEW ids \in SUBSET Pointers
    PROVE  /\ Each(kind, ids) \in Seq(Messages)
           /\ Len(Each(kind, ids)) = Cardinality(ids)
           /\ \A i \in 1..Cardinality(ids) : Each(kind, ids)[i] = <<kind, SetToSeq(ids)[i]>>
  <1> DEFINE s == SetToSeq(ids)
             n == Cardinality(ids)
  <1>1. n \in Nat /\ s \in [1..n -> ids] BY FingersInOrder
  <1>2. Each(kind, ids) = [i \in 1..n |-> <<kind, s[i]>>] BY DEF Each
  <1> HIDE DEF s, n
  <1>3. \A i \in 1..n : <<kind, s[i]>> \in Messages BY <1>1 DEF Messages
  <1> QED BY <1>1, <1>2, <1>3 DEF n, s

\* One message from Head of the wire on.
LEMMA HeadAndTail ==
    ASSUME NEW S, NEW w \in Seq(S), w # <<>>
    PROVE  Head(w) \in S /\ Tail(w) \in Seq(S) /\ Len(Tail(w)) = Len(w) - 1
  OBVIOUS

\* The backend's touches are touches of the session too.
Types == TypeOK /\ LetGo

LEMMA EmptyWire ==
    <<>> \in Seq(Messages) /\ Len(<<>>) = 0 /\ Len(<<>>) <= Capacity /\ 0 \in 0..MaxMishaps
  BY InputAssumption

LEMMA InitTypes == Init => Types
  <1>1. Init => TypeOK
    BY EmptyWire DEF Init, TypeOK
  <1> QED BY <1>1, InitLetGo DEF Types

\* The tablet's steps.
LEMMA TabletTypes ==
    Types /\ conn /\ Tablet /\ mishaps' <= MaxMishaps
      /\ UNCHANGED <<conn, phase, desktop, backend>> => TypeOK'
  <1> SUFFICES ASSUME Types, Tablet, mishaps' <= MaxMishaps,
                      UNCHANGED <<conn, phase, desktop, backend>>
               PROVE  TypeOK'
    OBVIOUS
  <1> USE DEF Types
  <1>1. /\ wire \in Seq(Messages) /\ Len(wire) <= Capacity
        /\ mishaps \in Nat
    BY InputAssumption DEF TypeOK
  <1> DEFINE Goal == /\ down' \subseteq Pointers /\ tracked' \subseteq Pointers
                     /\ touchMode' \in BOOLEAN /\ mouseDown' \in BOOLEAN
                     /\ pair' \in {"no", "still", "moved"}
             Sent == wire' \in Seq(Messages) /\ Len(wire') <= Capacity /\ mishaps' \in Nat
  <1>2. Goal /\ Sent => TypeOK'
    BY InputAssumption DEF TypeOK, desktop
  <1>3. UNCHANGED <<wire, mishaps>> => Sent BY <1>1
  <1>4. ASSUME NEW msgs \in Seq(Messages), Send(msgs) PROVE Sent
    BY <1>1, <1>4, SendKeeps
  <1>5. \A p \in Pointers : <<<<"down", p>>>> \in Seq(Messages) /\ <<<<"up", p>>>> \in Seq(Messages)
    BY DEF Messages
  <1>6. /\ <<>> \in Seq(Messages) /\ LeftUp \in Seq(Messages)
        /\ <<<<"press", "left">>>> \in Seq(Messages)
        /\ <<<<"motion", 0>>>> \in Seq(Messages)
        /\ Click("right") \in Seq(Messages)
    BY DEF Messages, Buttons, LeftUp, Click
  <1> HIDE DEF Sent
  <1>7. ASSUME NEW p \in Pointers,
               TouchDown(p) \/ TouchUp(p) \/ MouseDown(p) \/ MousePointerDown(p)
               \/ MousePointerUp(p)
        PROVE  TypeOK'
    <2>1. CASE TouchDown(p)
      <3>1. Goal BY <2>1 DEF TypeOK, TouchDown, Lands
      <3>2. Sent BY <2>1, <1>3, <1>4, <1>5 DEF TouchDown
      <3> QED BY <1>2, <3>1, <3>2
    <2>2. CASE TouchUp(p)
      <3>1. Goal BY <2>2 DEF TypeOK, TouchUp, Lifts
      <3>2. Sent BY <2>2, <1>4, <1>5, <1>6 DEF TouchUp
      <3> QED BY <1>2, <3>1, <3>2
    <2>3. CASE MouseDown(p)
      <3>1. Goal BY <2>3 DEF TypeOK, MouseDown, Lands
      <3>2. Sent BY <2>3, <1>3, <1>4, <1>6 DEF MouseDown
      <3> QED BY <1>2, <3>1, <3>2
    <2>4. CASE MousePointerDown(p)
      <3>1. Goal BY <2>4 DEF TypeOK, MousePointerDown, Lands
      <3>2. Sent BY <2>4, <1>3, <1>4, <1>6 DEF MousePointerDown
      <3> QED BY <1>2, <3>1, <3>2
    <2>5. CASE MousePointerUp(p)
      <3>1. Goal BY <2>5 DEF TypeOK, MousePointerUp, Lifts
      <3>2. Sent BY <2>5, <1>4, <1>6 DEF MousePointerUp
      <3> QED BY <1>2, <3>1, <3>2
    <2> QED BY <1>7, <2>1, <2>2, <2>3, <2>4, <2>5
  <1>8. CASE TouchMove
    <2>1. PICK ids \in SUBSET (tracked \cap down) : Send(Each("move", ids))
      BY <1>8 DEF TouchMove
    <2>2. ids \in SUBSET Pointers BY <2>1 DEF TypeOK
    <2>3. Sent BY <1>4, <2>1, <2>2, EachType
    <2>4. Goal BY <1>8 DEF TypeOK, TouchMove, forwarder
    <2> QED BY <1>2, <2>3, <2>4
  <1>9. CASE TouchCancel
    <2>1. Send(Each("cancel", tracked)) /\ tracked \in SUBSET Pointers
      BY <1>9 DEF TouchCancel, TypeOK
    <2>2. Sent BY <1>4, <2>1, EachType
    <2>3. Goal BY <1>9 DEF TypeOK, TouchCancel
    <2> QED BY <1>2, <2>2, <2>3
  <1>10. CASE MouseMove
    <2>1. Goal BY <1>10 DEF TypeOK, MouseMove
    <2>2. Sent BY <1>10, <1>4, <1>6 DEF MouseMove
    <2> QED BY <1>2, <2>1, <2>2
  <1>11. CASE MouseEnd
    <2>1. Goal BY <1>11 DEF TypeOK, MouseEnd
    <2>2. Sent BY <1>11, <1>4, <1>6 DEF MouseEnd
    <2> QED BY <1>2, <2>1, <2>2
  <1>12. CASE ToggleMode
    <2>1. Goal BY <1>12 DEF TypeOK, ToggleMode
    <2>2. Sent BY <1>12, <1>1 DEF ToggleMode, Sent
    <2> QED BY <1>2, <2>1, <2>2
  <1> QED BY <1>7, <1>8, <1>9, <1>10, <1>11, <1>12 DEF Tablet

LEMMA OnInputTypes ==
    Types /\ OnInput /\ UNCHANGED <<down, forwarder, backend>> => TypeOK'
  <1> SUFFICES ASSUME Types, OnInput, UNCHANGED <<down, forwarder, backend>> PROVE TypeOK'
    OBVIOUS
  <1> USE DEF Types
  <1> DEFINE kind == Head(wire)[1]
             what == Head(wire)[2]
  <1>1. wire # <<>> /\ wire' = Tail(wire) /\ UNCHANGED <<conn, phase, left, mishaps>>
    BY DEF OnInput
  <1>2. Head(wire) \in Messages /\ wire' \in Seq(Messages) /\ Len(wire') = Len(wire) - 1
    BY <1>1, HeadAndTail DEF TypeOK
  <1>3. \/ kind \in {"down", "move", "up", "cancel"} /\ what < Slots /\ OnTouch(kind, what)
        \/ kind \in {"press", "release", "motion"} /\ OnMouse(kind, what)
    BY DEF OnInput
  <1>4. kind \in {"down", "move", "up", "cancel"} => what \in Pointers
    BY <1>2 DEF Messages
  <1>5. kind \in {"press", "release"} => what \in Buttons
    BY <1>2 DEF Messages
  <1> HIDE DEF kind, what
  <1> DEFINE Goal == /\ slots' \subseteq Pointers /\ \A s \in slots' : s < Slots
                     /\ fingers' \subseteq Pointers /\ (fingers' \subseteq slots' \/ left)
                     /\ buttons' \subseteq Buttons /\ active' \in BOOLEAN
  <1>6. ASSUME kind \in {"down", "move", "up", "cancel"}, what < Slots, OnTouch(kind, what)
        PROVE  Goal
    <2>1. slots' = Touched(kind, slots, what) BY <1>6 DEF OnTouch
    <2>2. slots' \subseteq Pointers /\ (\A s \in slots' : s < Slots)
      BY <1>4, <1>6, <2>1 DEF Touched, TypeOK
    <2>3. CASE backend = "portal"
      <3>1. PortalTouch(kind, what) BY <1>6, <2>3 DEF OnTouch
      <3>2. fingers' \subseteq Pointers /\ (fingers' \subseteq slots' \/ left)
        BY <1>4, <1>6, <2>1, <2>3, <3>1 DEF PortalTouch, Touched, TypeOK, LetGo
      <3> QED BY <2>2, <3>1, <3>2 DEF PortalTouch, TypeOK
    <2>4. CASE backend = "uinput"
      <3>1. fingers' = {} BY <1>6, <2>4 DEF OnTouch, UinputTouch, LetGo
      <3>2. buttons' \subseteq Buttons /\ active' \in BOOLEAN
        BY <1>6, <2>4 DEF OnTouch, UinputTouch, TypeOK, Buttons
      <3> QED BY <2>2, <3>1, <3>2
    <2> QED BY <2>3, <2>4 DEF TypeOK
  <1>7. ASSUME kind \in {"press", "release", "motion"}, OnMouse(kind, what)
        PROVE  Goal
    BY <1>5, <1>7 DEF OnMouse, TypeOK
  <1>8. Goal BY <1>3, <1>6, <1>7
  <1> HIDE DEF Goal
  <1>9. wire' \in Seq(Messages) /\ Len(wire') <= Capacity
    BY <1>1, <1>2, InputAssumption DEF TypeOK
  <1>10. UNCHANGED <<down, tracked, touchMode, mouseDown, pair, backend, left, conn, phase,
                   mishaps>>
    BY <1>1 DEF forwarder
  <1> QED BY <1>8, <1>9, <1>10 DEF Goal, TypeOK

LEMMA NextTypes == Types /\ [Next]_vars => Types'
  <1> SUFFICES ASSUME Types, [Next]_vars PROVE TypeOK'
    BY NextLetGo DEF Types
  <1>1. CASE /\ conn /\ Tablet /\ mishaps' <= MaxMishaps
             /\ UNCHANGED <<conn, phase, desktop, backend>>
    BY <1>1, TabletTypes
  <1>2. CASE ConnectionLost
    BY <1>2, EmptyWire DEF ConnectionLost, desktop, Types, TypeOK
  <1>3. CASE Server /\ UNCHANGED <<down, forwarder, backend>>
    <2>1. CASE OnInput BY <1>3, <2>1, OnInputTypes
    <2>2. CASE StopStream
      BY <1>3, <2>2 DEF StopStream, forwarder, desktop, Types, TypeOK
    <2>3. CASE SourceStopped
      BY <1>3, <2>3 DEF SourceStopped, forwarder, Types, TypeOK
    <2>4. CASE InputClosed
      <3>1. fingers = {} \/ left BY <2>4 DEF InputClosed, Types, LetGo
      <3> QED BY <1>3, <2>4, <3>1, EmptyWire DEF InputClosed, forwarder, Types, TypeOK
    <2> QED BY <1>3, <2>1, <2>2, <2>3, <2>4 DEF Server
  <1>4. CASE UNCHANGED vars
    BY <1>4 DEF vars, forwarder, desktop, Types, TypeOK
  <1> QED BY <1>1, <1>2, <1>3, <1>4 DEF Next

\* Every message, finger and button is one there is, the channel never holds
\* more than its capacity, and the desktop holds no touch that the session,
\* which must release it in the end, does not know of.
THEOREM InputTypeCorrect == Spec => []TypeOK
  <1>1. Types => TypeOK BY DEF Types
  <1> QED BY <1>1, InitTypes, NextTypes, PTL DEF Spec


-----------------------------------------------------------------------------
(* What is on its way.  The messages between the tablet and the PC lead    *)
(* from what the desktop holds to what the gesture holds, and each fits    *)
(* what is held when it is handled.                                        *)

Touches == {"down", "move", "up", "cancel"}
Lifting == {"up", "cancel"}

Holds == [slots : SUBSET Pointers, fingers : SUBSET Pointers,
          buttons : SUBSET Buttons, active : BOOLEAN]

\* What is held after message m, with backend b.
After(b, m, a) ==
    IF m[1] \in Touches
    THEN [slots   |-> Touched(m[1], a.slots, m[2]),
          fingers |-> IF b = "portal" THEN Touched(m[1], a.fingers, m[2]) ELSE a.fingers,
          buttons |-> IF b = "portal" \/ m[2] # 0 THEN a.buttons
                      ELSE IF m[1] = "down" THEN a.buttons \cup {"left"}
                      ELSE IF m[1] \in Lifting /\ a.active THEN a.buttons \ {"left"}
                      ELSE a.buttons,
          active  |-> IF b = "portal" \/ m[2] # 0 THEN a.active
                      ELSE m[1] = "down" \/ (m[1] = "move" /\ a.active)]
    ELSE [a EXCEPT !.buttons = IF m[1] = "press" THEN @ \cup {m[2]}
                               ELSE IF m[1] = "release" THEN @ \ {m[2]} ELSE @]

\* MessagesFit, of one message.
Fits(m, a) ==
    /\ m[1] = "down" => m[2] \notin a.slots
    /\ m[1] \in {"move", "up", "cancel"} => m[2] \in a.slots
    /\ m[1] = "press" => a.buttons = {}
    /\ m[1] = "release" => m[2] \in a.buttons

\* The messages of w lead from a to b, over h[1], h[2], ...
Leads(bk, w, h) ==
    \A i \in 1..Len(w) : Fits(w[i], h[i - 1]) /\ h[i] = After(bk, w[i], h[i - 1])
Path(bk, w, a, b) ==
    \E h \in [0..Len(w) -> Holds] : h[0] = a /\ h[Len(w)] = b /\ Leads(bk, w, h)

\* What is held for the touches T and the mouse buttons M.
Hold(bk, T, M) ==
    [slots   |-> T,
     fingers |-> IF bk = "portal" THEN T ELSE {},
     buttons |-> M \cup IF bk = "uinput" /\ 0 \in T THEN {"left"} ELSE {},
     active  |-> bk = "uinput" /\ 0 \in T]

Held == [slots |-> slots, fingers |-> fingers, buttons |-> buttons, active |-> active]

\* What the forwarder's gesture holds.
Mouse == IF mouseDown THEN {"left"} ELSE {}
Target == Hold(backend, tracked, Mouse)

\* The forwarder between two events.
Gesture ==
    /\ tracked \subseteq down
    /\ touchMode => ~mouseDown /\ pair = "no"
    /\ ~touchMode => tracked = {}
    /\ down = {} => pair = "no"
    /\ mouseDown => pair = "no" /\ Cardinality(down) = 1

InFlight ==
    mishaps = 0 /\ phase = "streaming" =>
      /\ Gesture
      /\ IF conn THEN Path(backend, wire, Held, Target)
         ELSE wire = <<>>

LEMMA AfterType ==
    ASSUME NEW bk, NEW m \in Messages, NEW a \in Holds
    PROVE  After(bk, m, a) \in Holds
  <1>1. m[1] \in Touches => m[2] \in Pointers BY DEF Messages, Touches
  <1>2. m[1] \in {"press", "release"} => m[2] \in Buttons BY DEF Messages
  <1>3. CASE m[1] \in Touches
    <2>1. After(bk, m, a).slots \in SUBSET Pointers
      BY <1>1, <1>3 DEF After, Touched, Holds
    <2>2. After(bk, m, a).fingers \in SUBSET Pointers
      BY <1>1, <1>3 DEF After, Touched, Holds
    <2>3. After(bk, m, a).buttons \in SUBSET Buttons
      BY <1>3 DEF After, Buttons, Holds
    <2>4. After(bk, m, a).active \in BOOLEAN
      BY <1>3 DEF After, Holds
    <2> QED BY <1>3, <2>1, <2>2, <2>3, <2>4 DEF After, Holds
  <1>4. CASE m[1] \notin Touches
    BY <1>2, <1>4 DEF After, Holds
  <1> QED BY <1>3, <1>4

LEMMA HoldType ==
    ASSUME NEW bk, NEW T \in SUBSET Pointers, NEW M \in SUBSET {"left"}
    PROVE  Hold(bk, T, M) \in Holds
  BY DEF Hold, Holds, Buttons

\* No message: nothing changes.
LEMMA PathEmpty ==
    ASSUME NEW bk, NEW a \in Holds, NEW b
    PROVE  Path(bk, <<>>, a, b) <=> a = b
  <1>1. ASSUME Path(bk, <<>>, a, b) PROVE a = b BY <1>1 DEF Path
  <1>2. ASSUME a = b PROVE Path(bk, <<>>, a, b)
    <2> DEFINE h == [i \in 0..0 |-> a]
    <2>1. Len(<<>>) = 0 /\ h \in [0..Len(<<>>) -> Holds] OBVIOUS
    <2>2. h[0] = a /\ h[Len(<<>>)] = b BY <1>2, <2>1
    <2>3. Leads(bk, <<>>, h) BY <2>1 DEF Leads
    <2> QED BY <2>1, <2>2, <2>3 DEF Path
  <1> QED BY <1>1, <1>2

LEMMA PathOne ==
    ASSUME NEW bk, NEW m \in Messages, NEW a \in Holds, Fits(m, a)
    PROVE  Path(bk, <<m>>, a, After(bk, m, a))
  <1> DEFINE b == After(bk, m, a)
             h == [i \in 0..1 |-> IF i = 0 THEN a ELSE b]
  <1>1. b \in Holds BY AfterType
  <1>2. Len(<<m>>) = 1 /\ <<m>>[1] = m OBVIOUS
  <1>3. h \in [0..Len(<<m>>) -> Holds] BY <1>1, <1>2
  <1>4. h[0] = a /\ h[1] = b OBVIOUS
  <1> HIDE DEF h
  <1>5. Leads(bk, <<m>>, h)
    <2> SUFFICES ASSUME NEW i \in 1..1
                 PROVE  Fits(<<m>>[i], h[i - 1]) /\ h[i] = After(bk, <<m>>[i], h[i - 1])
      BY <1>2 DEF Leads
    <2>1. i = 1 /\ i - 1 = 0 OBVIOUS
    <2> QED BY <1>2, <1>4, <2>1
  <1> QED BY <1>2, <1>3, <1>4, <1>5 DEF Path

LEMMA PathJoin ==
    ASSUME NEW bk, NEW v \in Seq(Messages), NEW w \in Seq(Messages), NEW a, NEW b, NEW c,
           Path(bk, v, a, b), Path(bk, w, b, c)
    PROVE  Path(bk, v \o w, a, c)
  <1> DEFINE m == Len(v)
             n == Len(w)
  <1>1. PICK f \in [0..m -> Holds] : f[0] = a /\ f[m] = b /\ Leads(bk, v, f)
    BY DEF Path
  <1>2. PICK g \in [0..n -> Holds] : g[0] = b /\ g[n] = c /\ Leads(bk, w, g)
    BY DEF Path
  <1>3. m \in Nat /\ n \in Nat /\ Len(v \o w) = m + n OBVIOUS
  <1>4. \A i \in 1..(m + n) : (v \o w)[i] = IF i <= m THEN v[i] ELSE w[i - m]
    OBVIOUS
  <1> DEFINE h == [i \in 0..(m + n) |-> IF i <= m THEN f[i] ELSE g[i - m]]
  <1>5. (\A i \in 1..m : Fits(v[i], f[i - 1]) /\ f[i] = After(bk, v[i], f[i - 1]))
        /\ (\A i \in 1..n : Fits(w[i], g[i - 1]) /\ g[i] = After(bk, w[i], g[i - 1]))
    BY <1>1, <1>2 DEF Leads
  <1> HIDE DEF m, n
  <1>6. h \in [0..(m + n) -> Holds] BY <1>3
  <1>7. h[0] = a /\ h[m + n] = c BY <1>1, <1>2, <1>3
  <1>8. ASSUME NEW i \in 1..(m + n)
        PROVE  /\ Fits((v \o w)[i], h[i - 1])
               /\ h[i] = After(bk, (v \o w)[i], h[i - 1])
    <2>1. CASE i <= m
      <3>0. i \in 1..m /\ i \in 0..(m + n) /\ i - 1 \in 0..(m + n) /\ i - 1 <= m
        BY <1>3, <2>1
      <3>1. (v \o w)[i] = v[i] BY <1>4, <2>1
      <3>2. h[i] = f[i] /\ h[i - 1] = f[i - 1] BY <2>1, <3>0
      <3> QED BY <1>5, <3>0, <3>1, <3>2
    <2>2. CASE i > m
      <3> DEFINE j == i - m
      <3>0. j \in 1..n /\ i \in 0..(m + n) /\ ~(i <= m) BY <1>3, <2>2
      <3>1. j \in 1..n /\ (v \o w)[i] = w[j] /\ h[i] = g[j]
        BY <1>4, <3>0
      <3>2. h[i - 1] = g[j - 1]
        <4>1. CASE i = m + 1
          BY <1>1, <1>2, <1>3, <4>1
        <4>2. CASE i > m + 1
          <5>1. i - 1 \in 0..(m + n) /\ ~(i - 1 <= m) /\ (i - 1) - m = j - 1
            BY <1>3, <4>2
          <5> QED BY <5>1
        <4> QED BY <1>3, <2>2, <4>1, <4>2
      <3> QED BY <1>5, <3>1, <3>2
    <2> QED BY <1>3, <2>1, <2>2
  <1> HIDE DEF h
  <1>9. Leads(bk, v \o w, h) BY <1>3, <1>8 DEF Leads
  <1> QED BY <1>3, <1>6, <1>7, <1>9 DEF Path

\* The first message fits, and the rest lead on from what it leaves.
LEMMA PathStep ==
    ASSUME NEW bk, NEW w \in Seq(Messages), w # <<>>, NEW a, NEW b, Path(bk, w, a, b)
    PROVE  Fits(Head(w), a) /\ Path(bk, Tail(w), After(bk, Head(w), a), b)
  <1> DEFINE n == Len(w)
  <1>1. n \in Nat /\ n > 0 /\ Len(Tail(w)) = n - 1 /\ Head(w) = w[1]
    OBVIOUS
  <1>2. \A i \in 1..(n - 1) : Tail(w)[i] = w[i + 1] OBVIOUS
  <1>3. PICK f \in [0..n -> Holds] : f[0] = a /\ f[n] = b /\ Leads(bk, w, f)
    BY DEF Path
  <1>4. \A i \in 1..n : Fits(w[i], f[i - 1]) /\ f[i] = After(bk, w[i], f[i - 1])
    BY <1>3 DEF Leads
  <1> HIDE DEF n
  <1> DEFINE h == [i \in 0..(n - 1) |-> f[i + 1]]
  <1>5. Fits(Head(w), a) /\ f[1] = After(bk, Head(w), a)
    <2>1. 1 \in 1..n /\ 1 - 1 = 0 BY <1>1
    <2>2. Fits(w[1], f[1 - 1]) /\ f[1] = After(bk, w[1], f[1 - 1]) BY <1>4, <2>1
    <2> QED BY <1>1, <1>3, <2>1, <2>2
  <1>6. h \in [0..(n - 1) -> Holds] /\ h[0] = f[1] /\ h[n - 1] = b BY <1>1, <1>3
  <1>7. ASSUME NEW i \in 1..(n - 1)
        PROVE  Fits(Tail(w)[i], h[i - 1]) /\ h[i] = After(bk, Tail(w)[i], h[i - 1])
    <2>1. i + 1 \in 1..n /\ (i + 1) - 1 = i BY <1>1
    <2>2. Fits(w[i + 1], f[i]) /\ f[i + 1] = After(bk, w[i + 1], f[i])
      BY <1>4, <2>1
    <2>3. h[i - 1] = f[i] /\ h[i] = f[i + 1] BY <1>1
    <2> QED BY <1>2, <2>2, <2>3
  <1> HIDE DEF h
  <1>8. Leads(bk, Tail(w), h) BY <1>1, <1>7 DEF Leads
  <1> QED BY <1>1, <1>5, <1>6, <1>8 DEF Path


\* What each message does to what a gesture holds.
LEMMA HoldDown ==
    ASSUME NEW bk \in {"portal", "uinput"}, NEW T, NEW p, p \notin T,
           NEW U, U = T \cup {p}
    PROVE  /\ Fits(<<"down", p>>, Hold(bk, T, {}))
           /\ After(bk, <<"down", p>>, Hold(bk, T, {})) = Hold(bk, U, {})
  <1> DEFINE a == Hold(bk, T, {})
             m == <<"down", p>>
             c == After(bk, m, a)
  <1>1. m[1] = "down" /\ m[2] = p /\ "down" \in Touches BY DEF Touches
  <1>2. a.slots = T /\ a.fingers = (IF bk = "portal" THEN T ELSE {})
        /\ a.buttons = (IF bk = "uinput" /\ 0 \in T THEN {"left"} ELSE {})
        /\ a.active = (bk = "uinput" /\ 0 \in T)
    BY DEF Hold
  <1> HIDE DEF a
  <1>3. Fits(m, a) BY <1>1, <1>2 DEF Fits
  <1>4. \A held : Touched("down", held, p) = held \cup {p} BY DEF Touched
  <1>5. c = [slots |-> T \cup {p},
             fingers |-> IF bk = "portal" THEN a.fingers \cup {p} ELSE a.fingers,
             buttons |-> IF bk = "portal" \/ p # 0 THEN a.buttons ELSE a.buttons \cup {"left"},
             active  |-> IF bk = "portal" \/ p # 0 THEN a.active ELSE TRUE]
    BY <1>1, <1>2, <1>4 DEF After
  <1> HIDE DEF c, m
  <1>6. c.fingers = IF bk = "portal" THEN T \cup {p} ELSE {} BY <1>2, <1>5
  <1>7. c.buttons = IF bk = "uinput" /\ 0 \in T \cup {p} THEN {"left"} ELSE {}
    BY <1>2, <1>5
  <1>8. c.active = (bk = "uinput" /\ 0 \in T \cup {p}) BY <1>2, <1>5
  <1>9. c = [slots |-> T \cup {p}, fingers |-> c.fingers, buttons |-> c.buttons,
             active |-> c.active]
    BY <1>5
  <1>10. c = Hold(bk, U, {}) BY <1>6, <1>7, <1>8, <1>9 DEF Hold
  <1> QED BY <1>3, <1>10 DEF a, c, m

LEMMA HoldUp ==
    ASSUME NEW bk, NEW T, NEW p \in T, NEW kind \in Lifting,
           NEW U, U = T \ {p}
    PROVE  /\ Fits(<<kind, p>>, Hold(bk, T, {}))
           /\ After(bk, <<kind, p>>, Hold(bk, T, {})) = Hold(bk, U, {})
  <1> DEFINE a == Hold(bk, T, {})
             m == <<kind, p>>
             c == After(bk, m, a)
  <1>1. m[1] = kind /\ m[2] = p /\ kind \in Touches /\ kind # "down" /\ kind # "move"
        /\ kind # "press" /\ kind # "release"
    BY DEF Lifting, Touches
  <1>2. a.slots = T /\ a.fingers = (IF bk = "portal" THEN T ELSE {})
        /\ a.buttons = (IF bk = "uinput" /\ 0 \in T THEN {"left"} ELSE {})
        /\ a.active = (bk = "uinput" /\ 0 \in T)
    BY DEF Hold
  <1> HIDE DEF a
  <1>3. Fits(m, a) BY <1>1, <1>2 DEF Fits
  <1>4. \A held : Touched(kind, held, p) = held \ {p} BY <1>1 DEF Touched, Lifting
  <1>5. c = [slots |-> T \ {p},
             fingers |-> IF bk = "portal" THEN a.fingers \ {p} ELSE a.fingers,
             buttons |-> IF bk = "portal" \/ p # 0 THEN a.buttons
                         ELSE IF a.active THEN a.buttons \ {"left"} ELSE a.buttons,
             active  |-> IF bk = "portal" \/ p # 0 THEN a.active ELSE FALSE]
    BY <1>1, <1>2, <1>4 DEF After
  <1> HIDE DEF c, m
  <1>6. c.fingers = IF bk = "portal" THEN T \ {p} ELSE {} BY <1>2, <1>4, <1>5
  <1> QED BY <1>2, <1>3, <1>4, <1>5, <1>6 DEF Hold, a, c, m

LEMMA HoldMove ==
    ASSUME NEW bk, NEW T, NEW p \in T
    PROVE  /\ Fits(<<"move", p>>, Hold(bk, T, {}))
           /\ After(bk, <<"move", p>>, Hold(bk, T, {})) = Hold(bk, T, {})
  BY DEF Fits, After, Hold, Touches, Lifting, Touched

LEMMA HoldMouse ==
    ASSUME NEW bk
    PROVE  /\ Fits(<<"press", "left">>, Hold(bk, {}, {}))
           /\ After(bk, <<"press", "left">>, Hold(bk, {}, {})) = Hold(bk, {}, {"left"})
           /\ Fits(<<"release", "left">>, Hold(bk, {}, {"left"}))
           /\ After(bk, <<"release", "left">>, Hold(bk, {}, {"left"})) = Hold(bk, {}, {})
           /\ \A M :
                /\ Fits(<<"motion", 0>>, Hold(bk, {}, M))
                /\ After(bk, <<"motion", 0>>, Hold(bk, {}, M)) = Hold(bk, {}, M)
  BY DEF Fits, After, Hold, Touches

\* A right click presses and releases.
LEMMA HoldClick ==
    ASSUME NEW bk
    PROVE  Path(bk, Click("right"), Hold(bk, {}, {}), Hold(bk, {}, {}))
  <1> DEFINE a == Hold(bk, {}, {})
             c == [a EXCEPT !.buttons = {"right"}]
             press == <<"press", "right">>
             release == <<"release", "right">>
  <1>1. press \in Messages /\ release \in Messages BY DEF Messages, Buttons
  <1>2. a \in Holds BY HoldType
  <1>3. c \in Holds BY <1>2 DEF Holds, Buttons
  <1>4. Fits(press, a) /\ After(bk, press, a) = c
    BY DEF Fits, After, Hold, Touches
  <1>5. Fits(release, c) /\ After(bk, release, c) = a
    BY DEF Fits, After, Hold, Touches
  <1> HIDE DEF a, c, press, release
  <1>6. Path(bk, <<press>>, a, c)
    BY <1>1, <1>2, <1>4, PathOne
  <1>7. Path(bk, <<release>>, c, a)
    BY <1>1, <1>3, <1>5, PathOne
  <1>8. <<press>> \in Seq(Messages) /\ <<release>> \in Seq(Messages)
        /\ Click("right") = <<press>> \o <<release>>
    BY <1>1 DEF Click, press, release
  <1>9. Path(bk, Click("right"), a, a) BY <1>6, <1>7, <1>8, PathJoin
  <1> QED BY <1>9 DEF a

\* Moved touches stay, cancelled ones go one by one.
LEMMA PathMoves ==
    ASSUME NEW bk, NEW T \in SUBSET Pointers, NEW ids \in SUBSET T
    PROVE  Path(bk, Each("move", ids), Hold(bk, T, {}), Hold(bk, T, {}))
  <1> DEFINE w == Each("move", ids)
             n == Cardinality(ids)
             s == SetToSeq(ids)
             a == Hold(bk, T, {})
             h == [i \in 0..n |-> a]
  <1>1. ids \in SUBSET Pointers OBVIOUS
  <1>2. n \in Nat /\ s \in [1..n -> ids] BY <1>1, FingersInOrder
  <1>3. Len(w) = n /\ \A i \in 1..n : w[i] = <<"move", s[i]>> BY <1>1, EachType
  <1>4. a \in Holds BY HoldType
  <1>5. \A p \in T : Fits(<<"move", p>>, a) /\ After(bk, <<"move", p>>, a) = a
    BY HoldMove
  <1> HIDE DEF w, n, s, a
  <1>6. ASSUME NEW i \in 1..n PROVE Fits(w[i], h[i - 1]) /\ h[i] = After(bk, w[i], h[i - 1])
    <2>1. s[i] \in T /\ w[i] = <<"move", s[i]>> BY <1>2, <1>3
    <2>2. Fits(w[i], a) /\ After(bk, w[i], a) = a BY <1>5, <2>1
    <2>3. h[i - 1] = a /\ h[i] = a BY <1>2
    <2> QED BY <2>2, <2>3
  <1>7. h \in [0..n -> Holds] /\ h[0] = a /\ h[n] = a BY <1>2, <1>4
  <1> HIDE DEF h
  <1>8. Leads(bk, w, h) BY <1>3, <1>6 DEF Leads
  <1> QED BY <1>3, <1>7, <1>8 DEF Path, a, w

LEMMA PathCancels ==
    ASSUME NEW bk, NEW T \in SUBSET Pointers
    PROVE  Path(bk, Each("cancel", T), Hold(bk, T, {}), Hold(bk, {}, {}))
  <1> DEFINE w == Each("cancel", T)
             n == Cardinality(T)
             s == SetToSeq(T)
             Left(i) == {p \in T : \A j \in 1..i : s[j] # p}
             h == [i \in 0..n |-> Hold(bk, Left(i), {})]
  <1>1. /\ n \in Nat /\ s \in [1..n -> T]
        /\ \A i, j \in 1..n : s[i] = s[j] => i = j
        /\ \A p \in T : \E i \in 1..n : s[i] = p
    BY FingersInOrder
  <1>2. Len(w) = n /\ \A i \in 1..n : w[i] = <<"cancel", s[i]>> BY EachType
  <1> HIDE DEF w, n, s
  <1>3. Left(0) = T /\ Left(n) = {} BY <1>1
  <1>4. \A i \in 0..n : Left(i) \in SUBSET Pointers OBVIOUS
  <1>5. \A i \in 1..n : s[i] \in Left(i - 1) /\ Left(i) = Left(i - 1) \ {s[i]}
    <2> SUFFICES ASSUME NEW i \in 1..n
                 PROVE  s[i] \in Left(i - 1) /\ Left(i) = Left(i - 1) \ {s[i]}
      OBVIOUS
    <2>1. s[i] \in T BY <1>1
    <2>2. \A j \in 1..(i - 1) : j \in 1..n /\ j # i BY <1>1
    <2>3. s[i] \in Left(i - 1) BY <1>1, <2>1, <2>2
    <2>4. \A j : j \in 1..i <=> j \in 1..(i - 1) \/ j = i BY <1>1
    <2> QED BY <2>3, <2>4
  <1> HIDE DEF Left
  <1>6. ASSUME NEW i \in 1..n PROVE Fits(w[i], h[i - 1]) /\ h[i] = After(bk, w[i], h[i - 1])
    <2>1. i - 1 \in 0..n /\ i \in 0..n BY <1>1
    <2>2. /\ Fits(w[i], Hold(bk, Left(i - 1), {}))
          /\ After(bk, w[i], Hold(bk, Left(i - 1), {})) = Hold(bk, Left(i), {})
      <3>1. s[i] \in Left(i - 1) /\ Left(i) = Left(i - 1) \ {s[i]} BY <1>5
      <3>2. w[i] = <<"cancel", s[i]>> /\ "cancel" \in Lifting BY <1>2 DEF Lifting
      <3> QED BY <3>1, <3>2, HoldUp
    <2>3. h[i - 1] = Hold(bk, Left(i - 1), {}) /\ h[i] = Hold(bk, Left(i), {})
      BY <2>1
    <2> QED BY <1>5, <2>2, <2>3
  <1>7. h \in [0..n -> Holds] BY <1>4, HoldType
  <1>8. h[0] = Hold(bk, T, {}) /\ h[n] = Hold(bk, {}, {})
    <2>1. 0 \in 0..n /\ n \in 0..n BY <1>1
    <2>2. h[0] = Hold(bk, Left(0), {}) /\ h[n] = Hold(bk, Left(n), {}) BY <2>1
    <2> QED BY <1>3, <2>2
  <1> HIDE DEF h
  <1>9. Leads(bk, w, h) BY <1>2, <1>6 DEF Leads
  <1> QED BY <1>2, <1>7, <1>8, <1>9 DEF Path, w


\* What is sent without loss is added to what is on its way.
LEMMA SendLeads ==
    ASSUME Types, InFlight, phase = "streaming", conn,
           NEW msgs \in Seq(Messages), Send(msgs), mishaps' = 0,
           UNCHANGED <<conn, phase, desktop, backend>>,
           Path(backend, msgs, Target, Target'), Gesture'
    PROVE  InFlight'
  <1>1. wire \in Seq(Messages) /\ mishaps \in Nat /\ Len(wire) <= Capacity
    BY DEF Types, TypeOK
  <1>2. mishaps = 0 /\ wire' = wire \o msgs BY <1>1, SendKeeps
  <1>3. Path(backend, wire, Held, Target) BY <1>2 DEF InFlight
  <1>4. Path(backend, wire \o msgs, Held, Target') BY <1>1, <1>3, PathJoin
  <1>5. Held' = Held /\ backend' = backend BY DEF Held, desktop
  <1> QED BY <1>2, <1>4, <1>5 DEF InFlight

\* Nothing is sent, and what is held stays the same.
LEMMA QuietLeads ==
    ASSUME InFlight, mishaps = 0, UNCHANGED <<wire, conn, phase, desktop, backend>>,
           phase = "streaming", conn, Target' = Target, Gesture'
    PROVE  InFlight'
  <1>1. Held' = Held BY DEF Held, desktop
  <1> QED BY <1>1 DEF InFlight

\* The sizes the forwarder asks for.
LEMMA FingersDown ==
    ASSUME TypeOK
    PROVE  /\ Cardinality(down) \in Nat /\ (Cardinality(down) = 0 <=> down = {})
           /\ \A p \in Pointers \ down : Cardinality(down \cup {p}) = Cardinality(down) + 1
           /\ \A p \in down : Cardinality(down \ {p}) = Cardinality(down) - 1
  <1>1. IsFiniteSet(down) BY PointersFinite, FS_Subset DEF TypeOK
  <1> QED BY <1>1, FS_CardinalityType, FS_EmptySet, FS_AddElement, FS_RemoveElement

LEMMA TouchInFlight ==
    ASSUME Types, InFlight, phase = "streaming", conn, mishaps' = 0, mishaps = 0,
           UNCHANGED <<conn, phase, desktop, backend>>,
           TouchMove \/ TouchCancel \/ \E p \in Pointers : TouchDown(p) \/ TouchUp(p)
    PROVE  InFlight'
  <1>1. /\ Gesture /\ touchMode /\ ~mouseDown /\ pair = "no" /\ tracked \subseteq down
        /\ backend \in {"portal", "uinput"} /\ tracked \in SUBSET Pointers
    BY DEF InFlight, Gesture, TouchMove, TouchCancel, TouchDown, TouchUp, Types, TypeOK
  <1>2. Target = Hold(backend, tracked, {}) BY <1>1 DEF Target, Mouse
  <1>3. Target \in Holds BY <1>1, <1>2, HoldType
  <1>4. UNCHANGED <<touchMode, mouseDown, pair>>
    BY DEF TouchMove, TouchCancel, TouchDown, TouchUp, forwarder
  <1>5. Target' = Hold(backend, tracked', {}) BY <1>1, <1>4 DEF Target, Mouse
  <1>6. tracked' \subseteq down' => Gesture' BY <1>1, <1>4 DEF Gesture
  <1>7. ASSUME NEW p \in Pointers, TouchDown(p) PROVE InFlight'
    <2>1. p \notin down /\ down' = down \cup {p} BY <1>7 DEF TouchDown, Lands
    <2>2. CASE tracked' = tracked \cup {p} /\ Send(<<<<"down", p>>>>)
      <3>1. Gesture' BY <1>1, <1>6, <2>1, <2>2
      <3>2. Fits(<<"down", p>>, Target) /\ After(backend, <<"down", p>>, Target) = Target'
        BY <1>1, <1>2, <1>5, <2>1, <2>2, HoldDown
      <3>3. <<"down", p>> \in Messages /\ <<<<"down", p>>>> \in Seq(Messages) BY DEF Messages
      <3>4. Path(backend, <<<<"down", p>>>>, Target, Target')
        BY <1>3, <3>2, <3>3, PathOne
      <3> QED BY <2>2, <3>1, <3>3, <3>4, SendLeads
    <2>3. CASE UNCHANGED <<tracked, wire, mishaps>>
      <3>1. Gesture' BY <1>1, <1>6, <2>1, <2>3
      <3>2. Target' = Target BY <1>2, <1>5, <2>3
      <3> QED BY <2>3, <3>1, <3>2, QuietLeads
    <2> QED BY <1>7, <2>2, <2>3 DEF TouchDown
  <1>8. ASSUME NEW p \in Pointers, TouchUp(p) PROVE InFlight'
    <2>1. tracked' = tracked \ {p} /\ down' = down \ {p} BY <1>8 DEF TouchUp, Lifts
    <2>2. Gesture' BY <1>1, <1>6, <2>1
    <2>3. CASE p \in tracked
      <3>1. Send(<<<<"up", p>>>>) BY <1>8, <2>3 DEF TouchUp
      <3>2. "up" \in Lifting BY DEF Lifting
      <3>3. Fits(<<"up", p>>, Target) /\ After(backend, <<"up", p>>, Target) = Target'
        BY <1>2, <1>5, <2>1, <2>3, <3>2, HoldUp
      <3>4. <<"up", p>> \in Messages /\ <<<<"up", p>>>> \in Seq(Messages) BY DEF Messages
      <3>5. Path(backend, <<<<"up", p>>>>, Target, Target')
        BY <1>3, <3>3, <3>4, PathOne
      <3> QED BY <2>2, <3>1, <3>4, <3>5, SendLeads
    <2>4. CASE p \notin tracked
      <3>1. Send(<<>>) /\ tracked' = tracked BY <1>8, <2>1, <2>4 DEF TouchUp
      <3>2. Path(backend, <<>>, Target, Target') BY <1>2, <1>3, <1>5, <3>1, PathEmpty
      <3> QED BY <2>2, <3>1, <3>2, SendLeads, EmptyWire
    <2> QED BY <2>3, <2>4
  <1>9. CASE TouchMove
    <2>1. PICK ids \in SUBSET (tracked \cap down) : Send(Each("move", ids))
      BY <1>9 DEF TouchMove
    <2>2. down' = down /\ tracked' = tracked BY <1>9 DEF TouchMove, forwarder
    <2>3. ids \in SUBSET tracked /\ ids \in SUBSET Pointers BY <1>1, <2>1
    <2>4. Path(backend, Each("move", ids), Target, Target')
      BY <1>1, <1>2, <1>5, <2>2, <2>3, PathMoves
    <2>5. Each("move", ids) \in Seq(Messages) BY <2>3, EachType
    <2>6. Gesture' BY <1>1, <1>6, <2>2
    <2> QED BY <2>1, <2>4, <2>5, <2>6, SendLeads
  <1>10. CASE TouchCancel
    <2>1. tracked' = {} /\ Send(Each("cancel", tracked)) BY <1>10 DEF TouchCancel
    <2>2. Path(backend, Each("cancel", tracked), Target, Target')
      BY <1>1, <1>2, <1>5, <2>1, PathCancels
    <2>3. Each("cancel", tracked) \in Seq(Messages) BY <1>1, EachType
    <2>4. Gesture' BY <1>6, <2>1
    <2> QED BY <2>1, <2>2, <2>3, <2>4, SendLeads
  <1> QED BY <1>7, <1>8, <1>9, <1>10

\* The left button, pressed or not, is let go.
LEMMA LeftUpLeads ==
    ASSUME NEW bk
    PROVE  Path(bk, LeftUp, Hold(bk, {}, Mouse), Hold(bk, {}, {})) /\ LeftUp \in Seq(Messages)
  <1>1. <<"release", "left">> \in Messages BY DEF Messages, Buttons
  <1>2. CASE mouseDown
    <2>1. LeftUp = <<<<"release", "left">>>> /\ Mouse = {"left"} BY <1>2 DEF LeftUp, Mouse
    <2>2. Hold(bk, {}, {"left"}) \in Holds BY HoldType
    <2> QED BY <1>1, <2>1, <2>2, HoldMouse, PathOne
  <1>3. CASE ~mouseDown
    <2>1. LeftUp = <<>> /\ Mouse = {} BY <1>3 DEF LeftUp, Mouse
    <2>2. Hold(bk, {}, {}) \in Holds BY HoldType
    <2> QED BY <2>1, <2>2, PathEmpty, EmptyWire
  <1> QED BY <1>2, <1>3


LEMMA MouseInFlight ==
    ASSUME Types, InFlight, phase = "streaming", conn, mishaps' = 0, mishaps = 0,
           UNCHANGED <<conn, phase, desktop, backend>>,
           MouseMove \/ MouseEnd
           \/ \E p \in Pointers : MouseDown(p) \/ MousePointerDown(p) \/ MousePointerUp(p)
    PROVE  InFlight'
  <1>1. /\ Gesture /\ ~touchMode /\ tracked = {}
        /\ backend \in {"portal", "uinput"} /\ mouseDown \in BOOLEAN
        /\ (down = {} => pair = "no") /\ (mouseDown => pair = "no" /\ Cardinality(down) = 1)
    BY DEF InFlight, Gesture, MouseMove, MouseEnd, MouseDown, MousePointerDown, MousePointerUp,
           Types, TypeOK
  <1>2. Target = Hold(backend, {}, Mouse) /\ Mouse \in SUBSET {"left"}
    BY <1>1 DEF Target, Mouse
  <1>3. Target \in Holds /\ Hold(backend, {}, {}) \in Holds BY <1>2, HoldType
  <1>4. UNCHANGED <<touchMode, tracked>>
    BY DEF MouseMove, MouseEnd, MouseDown, MousePointerDown, MousePointerUp, forwarder
  <1>5. Target' = Hold(backend, {}, Mouse') BY <1>1, <1>4 DEF Target
  <1>6. /\ Cardinality(down) \in Nat /\ (Cardinality(down) = 0 <=> down = {})
        /\ \A p \in Pointers \ down : Cardinality(down \cup {p}) = Cardinality(down) + 1
        /\ \A p \in down : Cardinality(down \ {p}) = Cardinality(down) - 1
    BY FingersDown DEF Types
  <1>7. ASSUME down' = {} => pair' = "no",
               mouseDown' => pair' = "no" /\ Cardinality(down') = 1
        PROVE  Gesture'
    BY <1>1, <1>4, <1>7 DEF Gesture
  <1>8. ~mouseDown => Mouse = {} BY DEF Mouse
  <1>9. ASSUME Send(LeftUp), mouseDown' = FALSE, Gesture' PROVE InFlight'
    <2>1. Target' = Hold(backend, {}, {}) BY <1>5, <1>9 DEF Mouse
    <2>2. Path(backend, LeftUp, Target, Target') /\ LeftUp \in Seq(Messages)
      BY <1>2, <2>1, LeftUpLeads
    <2> QED BY <1>9, <2>2, SendLeads
  <1>10. ASSUME Send(<<>>), mouseDown' = mouseDown, Gesture' PROVE InFlight'
    <2>1. Target' = Target BY <1>2, <1>5, <1>10 DEF Mouse
    <2>2. Path(backend, <<>>, Target, Target') BY <1>3, <2>1, PathEmpty
    <2> QED BY <1>10, <2>2, SendLeads, EmptyWire
  <1>11. ASSUME UNCHANGED <<wire, mishaps, mouseDown>>, Gesture' PROVE InFlight'
    <2>1. Target' = Target BY <1>2, <1>5, <1>11 DEF Mouse
    <2> QED BY <1>11, <2>1, QuietLeads
  <1>12. ASSUME NEW p \in Pointers, MouseDown(p) PROVE InFlight'
    <2>1. down = {} /\ down' = down \cup {p} /\ p \in Pointers \ down
      BY <1>12 DEF MouseDown, Lands
    <2>2. ~mouseDown /\ pair = "no" /\ Cardinality(down') = 1 /\ down' # {}
      BY <1>1, <1>6, <2>1
    <2>3. CASE mouseDown' = TRUE /\ pair' = "no" /\ Send(<<<<"press", "left">>>>)
      <3>1. Gesture' BY <1>7, <2>2, <2>3
      <3>2. Target = Hold(backend, {}, {}) /\ Target' = Hold(backend, {}, {"left"})
        BY <1>2, <1>5, <1>8, <2>2, <2>3 DEF Mouse
      <3>3. <<"press", "left">> \in Messages /\ <<<<"press", "left">>>> \in Seq(Messages)
        BY DEF Messages, Buttons
      <3>4. Path(backend, <<<<"press", "left">>>>, Target, Target')
        BY <1>3, <3>2, <3>3, HoldMouse, PathOne
      <3> QED BY <2>3, <3>1, <3>3, <3>4, SendLeads
    <2>4. CASE UNCHANGED <<mouseDown, pair, wire, mishaps>>
      <3>1. Gesture' BY <1>7, <2>2, <2>4
      <3> QED BY <1>11, <2>4, <3>1
    <2> QED BY <1>12, <2>3, <2>4 DEF MouseDown
  <1>13. ASSUME NEW p \in Pointers, MousePointerDown(p) PROVE InFlight'
    <2>1. down # {} /\ down' = down \cup {p} /\ p \in Pointers \ down
      BY <1>13 DEF MousePointerDown, Lands
    <2>2. Cardinality(down') = Cardinality(down) + 1 /\ down' # {} BY <1>6, <2>1
    <2>3. CASE Cardinality(down') = 2
      <3>1. Send(LeftUp) /\ mouseDown' = FALSE BY <1>13, <2>3 DEF MousePointerDown
      <3> QED BY <1>7, <1>9, <2>2, <3>1
    <2>4. CASE Cardinality(down') # 2
      <3>1. UNCHANGED <<wire, mishaps, mouseDown, pair>> BY <1>13, <2>4 DEF MousePointerDown
      <3>2. ~mouseDown BY <1>1, <2>2, <2>4
      <3> QED BY <1>7, <1>11, <2>2, <3>1, <3>2
    <2> QED BY <2>3, <2>4
  <1>14. ASSUME NEW p \in Pointers, MousePointerUp(p) PROVE InFlight'
    <2>1. Cardinality(down) > 1 /\ p \in down /\ down' = down \ {p} /\ mouseDown' = mouseDown
      BY <1>14 DEF MousePointerUp, Lifts
    <2>2. ~mouseDown BY <1>1, <1>6, <2>1
    <2>3. down' # {} BY <1>6, <2>1, FS_EmptySet
    <2>4. Gesture' BY <1>7, <2>1, <2>2, <2>3
    <2>5. CASE pair = "still" /\ Cardinality(down) = 2
      <3>1. Send(Click("right")) BY <1>14, <2>5 DEF MousePointerUp
      <3>2. Target = Hold(backend, {}, {}) /\ Target' = Hold(backend, {}, {})
        BY <1>2, <1>5, <2>1, <2>2 DEF Mouse
      <3>3. Path(backend, Click("right"), Target, Target') BY <3>2, HoldClick
      <3>4. Click("right") \in Seq(Messages) BY DEF Click, Messages, Buttons
      <3> QED BY <2>4, <3>1, <3>3, <3>4, SendLeads
    <2>6. CASE ~(pair = "still" /\ Cardinality(down) = 2)
      <3>1. Send(<<>>) BY <1>14, <2>6 DEF MousePointerUp
      <3> QED BY <1>10, <2>1, <2>4, <3>1
    <2> QED BY <2>5, <2>6
  <1>15. CASE MouseMove
    <2>1. down' = down /\ mouseDown' = mouseDown /\ Send(<<<<"motion", 0>>>>) /\ down # {}
      BY <1>15 DEF MouseMove
    <2>2. mouseDown => pair' = pair BY <1>1, <1>15 DEF MouseMove
    <2>3. Gesture' BY <1>1, <1>7, <2>1, <2>2
    <2>4. Target' = Target BY <1>2, <1>5, <2>1 DEF Mouse
    <2>5. <<"motion", 0>> \in Messages /\ <<<<"motion", 0>>>> \in Seq(Messages) BY DEF Messages
    <2>6. Path(backend, <<<<"motion", 0>>>>, Target, Target')
      <3>1. Fits(<<"motion", 0>>, Target) /\ After(backend, <<"motion", 0>>, Target) = Target
        BY <1>2, HoldMouse
      <3> QED BY <1>3, <2>4, <2>5, <3>1, PathOne
    <2> QED BY <2>1, <2>3, <2>5, <2>6, SendLeads
  <1>16. CASE MouseEnd
    <2>1. down' = {} /\ Send(LeftUp) /\ mouseDown' = FALSE /\ pair' = "no"
      BY <1>16 DEF MouseEnd
    <2> QED BY <1>7, <1>9, <2>1
  <1> QED BY <1>12, <1>13, <1>14, <1>15, <1>16

LEMMA ToggleInFlight ==
    ASSUME Types, InFlight, phase = "streaming", conn, mishaps' = 0, mishaps = 0,
           UNCHANGED <<conn, phase, desktop, backend>>, ToggleMode
    PROVE  InFlight'
  <1>1. down = {} /\ UNCHANGED <<down, tracked, mouseDown, pair, wire>> BY DEF ToggleMode
  <1>2. tracked = {} /\ ~mouseDown /\ pair = "no"
    BY <1>1, FingersDown DEF InFlight, Gesture, Types
  <1>3. Gesture' BY <1>1, <1>2 DEF Gesture
  <1>4. Target' = Target BY <1>1 DEF Target, Mouse
  <1> QED BY <1>1, <1>3, <1>4, QuietLeads

\* The desktop follows one message.
LEMMA OnInputFollows ==
    ASSUME Types, OnInput, phase = "streaming", backend' = backend
    PROVE  Held' = After(backend, Head(wire), Held)
  <1> DEFINE m == Head(wire)
             kind == Head(wire)[1]
             what == Head(wire)[2]
  <1>1. m \in Messages BY HeadAndTail DEF OnInput, Types, TypeOK
  <1>2. backend \in {"portal", "uinput"} /\ active \in BOOLEAN BY DEF Types, TypeOK
  <1>3. \/ kind \in {"down", "move", "up", "cancel"} /\ OnTouch(kind, what)
        \/ kind \in {"press", "release", "motion"} /\ OnMouse(kind, what)
    BY DEF OnInput
  <1>4. m[1] = kind /\ m[2] = what OBVIOUS
  <1> HIDE DEF m, kind, what
  <1>5. CASE kind \in {"down", "move", "up", "cancel"} /\ OnTouch(kind, what)
    <2>1. kind \in Touches BY <1>5 DEF Touches
    <2>2. After(backend, m, Held) =
            [slots   |-> Touched(kind, slots, what),
             fingers |-> IF backend = "portal" THEN Touched(kind, fingers, what) ELSE fingers,
             buttons |-> IF backend = "portal" \/ what # 0 THEN buttons
                         ELSE IF kind = "down" THEN buttons \cup {"left"}
                         ELSE IF kind \in Lifting /\ active THEN buttons \ {"left"}
                         ELSE buttons,
             active  |-> IF backend = "portal" \/ what # 0 THEN active
                         ELSE kind = "down" \/ (kind = "move" /\ active)]
      BY <1>4, <2>1 DEF After, Held
    <2>3. slots' = Touched(kind, slots, what) BY <1>5 DEF OnTouch
    <2>4. fingers' = IF backend = "portal" THEN Touched(kind, fingers, what) ELSE fingers
      BY <1>2, <1>5 DEF OnTouch, PortalTouch, UinputTouch
    <2>5. buttons' = IF backend = "portal" \/ what # 0 THEN buttons
                     ELSE IF kind = "down" THEN buttons \cup {"left"}
                     ELSE IF kind \in Lifting /\ active THEN buttons \ {"left"}
                     ELSE buttons
      BY <1>2, <1>5 DEF OnTouch, PortalTouch, UinputTouch, Lifting
    <2>6. active' = IF backend = "portal" \/ what # 0 THEN active
                    ELSE kind = "down" \/ (kind = "move" /\ active)
      BY <1>2, <1>5 DEF OnTouch, PortalTouch, UinputTouch
    <2> QED BY <2>2, <2>3, <2>4, <2>5, <2>6 DEF Held, m
  <1>6. CASE kind \in {"press", "release", "motion"} /\ OnMouse(kind, what)
    <2>1. kind \notin Touches BY <1>6 DEF Touches
    <2>2. After(backend, m, Held) =
            [Held EXCEPT !.buttons = IF kind = "press" THEN buttons \cup {what}
                                     ELSE IF kind = "release" THEN buttons \ {what}
                                     ELSE buttons]
      BY <1>4, <2>1 DEF After, Held
    <2>3. UNCHANGED <<slots, active, fingers>> BY <1>6 DEF OnMouse
    <2>4. buttons' = IF kind = "press" THEN buttons \cup {what}
                     ELSE IF kind = "release" THEN buttons \ {what}
                     ELSE buttons
      BY <1>6 DEF OnMouse
    <2> QED BY <2>2, <2>3, <2>4 DEF Held, m
  <1> QED BY <1>3, <1>5, <1>6

LEMMA OnInputInFlight ==
    ASSUME Types, InFlight, OnInput, UNCHANGED <<down, forwarder, backend>>
    PROVE  InFlight'
  <1> SUFFICES ASSUME mishaps = 0, phase = "streaming", UNCHANGED <<conn, phase, mishaps>>
               PROVE  InFlight'
    BY DEF OnInput, InFlight
  <1>1. wire # <<>> /\ wire' = Tail(wire) /\ wire \in Seq(Messages)
    BY DEF OnInput, Types, TypeOK
  <1>2. conn /\ Path(backend, wire, Held, Target) /\ Gesture BY <1>1 DEF InFlight
  <1>3. Path(backend, Tail(wire), After(backend, Head(wire), Held), Target)
    BY <1>1, <1>2, PathStep
  <1>4. Path(backend, wire', Held', Target) BY <1>1, <1>3, OnInputFollows
  <1>5. Target' = Target /\ Gesture' BY <1>2 DEF Target, Mouse, Gesture, forwarder
  <1> QED BY <1>2, <1>4, <1>5 DEF InFlight

LEMMA InitInFlight == Init => InFlight
  <1> SUFFICES ASSUME Init PROVE InFlight
    OBVIOUS
  <1>1. Cardinality(down) = 0 BY FS_EmptySet DEF Init
  <1>2. Gesture BY <1>1 DEF Init, Gesture
  <1>3. Target = Hold(backend, {}, {}) /\ Held = Target
    BY DEF Init, Target, Mouse, Hold, Held
  <1>4. Hold(backend, {}, {}) \in Holds BY HoldType
  <1>5. Path(backend, <<>>, Held, Target) BY <1>3, <1>4, PathEmpty
  <1> QED BY <1>2, <1>5 DEF Init, InFlight

LEMMA NextInFlight == Types /\ InFlight /\ [Next]_vars => InFlight'
  <1> SUFFICES ASSUME Types, InFlight, [Next]_vars PROVE InFlight'
    OBVIOUS
  <1>1. mishaps \in Nat BY DEF Types, TypeOK
  <1>2. CASE /\ conn /\ Tablet /\ UNCHANGED <<conn, phase, desktop, backend>>
    <2> SUFFICES ASSUME mishaps' = 0, phase = "streaming" PROVE InFlight'
      BY <1>2 DEF InFlight
    <2>1. mishaps = 0
      <3>1. wire \in Seq(Messages) /\ Len(wire) <= Capacity BY DEF Types, TypeOK
      <3>2. \A m \in Nat, n \in {0, 1} : m + n = 0 => m = 0 OBVIOUS
      <3>3. mishaps' = mishaps \/ \E n \in {0, 1} : mishaps' = mishaps + n
        BY <1>2 DEF Tablet, TouchDown, TouchUp, TouchMove, TouchCancel, MouseDown,
           MousePointerDown, MousePointerUp, MouseMove, MouseEnd, ToggleMode, Send
      <3> QED BY <1>1, <3>2, <3>3
    <2>2. CASE ToggleMode BY <1>2, <2>1, <2>2, ToggleInFlight
    <2>3. CASE TouchMove \/ TouchCancel \/ \E p \in Pointers : TouchDown(p) \/ TouchUp(p)
      BY <1>2, <2>1, <2>3, TouchInFlight
    <2>4. CASE MouseMove \/ MouseEnd
               \/ \E p \in Pointers : MouseDown(p) \/ MousePointerDown(p) \/ MousePointerUp(p)
      BY <1>2, <2>1, <2>4, MouseInFlight
    <2> QED BY <1>2, <2>2, <2>3, <2>4 DEF Tablet
  <1>3. CASE ConnectionLost
    <2>1. Cardinality(down') = 0 BY <1>3, FS_EmptySet DEF ConnectionLost
    <2>2. Gesture' BY <1>3, <2>1 DEF ConnectionLost, Gesture
    <2> QED BY <1>3, <2>2 DEF ConnectionLost, InFlight
  <1>4. CASE Server /\ UNCHANGED <<down, forwarder, backend>>
    <2>1. CASE OnInput BY <1>4, <2>1, OnInputInFlight
    <2>2. CASE StopStream \/ SourceStopped \/ InputClosed
      BY <2>2 DEF StopStream, SourceStopped, InputClosed, InFlight
    <2> QED BY <1>4, <2>1, <2>2 DEF Server
  <1>5. CASE UNCHANGED vars
    BY <1>5 DEF vars, forwarder, desktop, InFlight, Gesture, Target, Mouse, Held
  <1> QED BY <1>2, <1>3, <1>4, <1>5 DEF Next

LEMMA AlwaysInFlight == Spec => [](Types /\ InFlight)
  BY InitTypes, InitInFlight, NextTypes, NextInFlight, PTL DEF Spec

\* Nothing lost and no mode changed under a gesture: no finger is put down
\* twice, moved or lifted without being down, and no button released that is
\* not pressed, however far the PC lags behind the tablet.
THEOREM EveryMessageFits == Spec => []MessagesFit
  <1>1. Types /\ InFlight => MessagesFit
    <2> SUFFICES ASSUME Types, InFlight, mishaps = 0, phase = "streaming", wire # <<>>
                 PROVE  MessagesFit
      BY DEF MessagesFit
    <2>1. wire \in Seq(Messages) BY DEF Types, TypeOK
    <2>2. Path(backend, wire, Held, Target) BY DEF InFlight
    <2>3. Fits(Head(wire), Held) BY <2>1, <2>2, PathStep
    <2>4. Held.slots = slots /\ Held.buttons = buttons BY DEF Held
    <2> QED BY <2>3, <2>4 DEF Fits, MessagesFit
  <1> QED BY <1>1, AlwaysInFlight, PTL

\* Once all that was sent is handled, the PC holds what the fingers hold, for
\* both backends, any number of fingers and any gestures.
THEOREM WhatIsHeldAgrees == Spec => []HeldAgrees
  <1>1. Types /\ InFlight => HeldAgrees
    <2> SUFFICES ASSUME Types, InFlight, Settled PROVE HeldAgrees
      BY DEF HeldAgrees
    <2>1. backend \in {"portal", "uinput"} /\ tracked \in SUBSET Pointers
      BY DEF Types, TypeOK
    <2>2. Path(backend, <<>>, Held, Target) BY DEF InFlight, Settled
    <2>3. Held = Target
      <3>1. Held \in Holds BY DEF Types, TypeOK, Held, Holds
      <3> QED BY <2>2, <3>1, PathEmpty
    <2>4. /\ slots = tracked /\ fingers = (IF backend = "portal" THEN tracked ELSE {})
          /\ buttons = Mouse \cup IF backend = "uinput" /\ 0 \in tracked THEN {"left"} ELSE {}
      <3>1. Held.slots = Target.slots /\ Held.fingers = Target.fingers
            /\ Held.buttons = Target.buttons
        BY <2>3
      <3> QED BY <3>1 DEF Held, Target, Hold
    <2>5. down = {} => tracked = {} /\ ~mouseDown
      BY FingersDown DEF Types, InFlight, Settled, Gesture
    <2>6. buttons = IF mouseDown \/ (backend = "uinput" /\ 0 \in tracked) THEN {"left"} ELSE {}
      BY <2>4 DEF Mouse
    <2> QED BY <2>4, <2>5, <2>6 DEF HeldAgrees
  <1> QED BY <1>1, AlwaysInFlight, PTL

==============================================================================
