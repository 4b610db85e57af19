---------------------------- MODULE X11ExtendProofs ----------------------------
(***************************************************************************)
(* What holds of X11Extend for any number of sources, connectors and       *)
(* sizes.                                                                  *)
(*                                                                         *)
(* The types need nothing else.  The rest is about a driver that may       *)
(* refuse to create but not to remove what is no longer in use.  Three     *)
(* invariants carry it: Shown, what is seen on the X server at each place  *)
(* of a source without another one, whatever an earlier run left behind;   *)
(* Rungs, what exactly such a source has made of the X server as long as   *)
(* nothing was lost; and Covered, that what several sources have made is   *)
(* on the list, or will be on the list, of one of them.                    *)
(***************************************************************************)
EXTENDS X11Extend, WellFoundedInduction, TLAPS

LEMMA LeastOf ==
    ASSUME NEW S, S \subseteq Nat, S # {}
    PROVE  \E m \in S : \A y \in S : m <= y
  <1>1. PICK m \in S : \A y \in S : ~(<<y, m>> \in OpToRel(<, Nat))
    BY NatLessThanWellFounded, WFMin, Zenon
  <1>2. ASSUME NEW y \in S PROVE ~(y < m)
    <2>1. y \in Nat /\ m \in Nat OBVIOUS
    <2> QED BY <1>1, <2>1, Zenon DEF OpToRel
  <1>3. \A y \in S : m <= y BY <1>2
  <1> QED BY <1>3

LEMMA MinOf ==
    ASSUME NEW S, S \subseteq Nat, S # {}
    PROVE  Min(S) \in S
  BY LeastOf, Zenon DEF Min

LEMMA MaxOf ==
    ASSUME NEW n \in Nat, NEW S, S \subseteq 0..n, S # {}
    PROVE  Max(S) \in S /\ \A y \in S : Max(S) >= y
  <1> DEFINE T == {n - v : v \in S}
  <1>1. T \subseteq Nat OBVIOUS
  <1>2. PICK u \in S : TRUE OBVIOUS
  <1>3. n - u \in T OBVIOUS
  <1>4. PICK m \in T : \A y \in T : m <= y
    <2> HIDE DEF T
    <2> QED BY <1>1, <1>3, LeastOf
  <1>5. PICK v \in S : m = n - v OBVIOUS
  <1>6. ASSUME NEW y \in S PROVE v >= y
    <2>1. n - y \in T OBVIOUS
    <2>2. n - v <= n - y BY <1>4, <1>5, <2>1
    <2>3. v \in 0..n /\ y \in 0..n OBVIOUS
    <2> HIDE DEF T
    <2> QED BY <2>2, <2>3
  <1>7. \E w \in S : \A y \in S : w >= y BY <1>6
  <1> QED BY <1>7, Zenon DEF Max

-----------------------------------------------------------------------------
(* Types, for any number of sources.                                       *)

\* What a list may hold, and what a source that works was asked for.
Removals == {"delmonitor", "fb", "off", "delmode", "rmmode"}
Asked ==
    \A s \in Sources :
      /\ \A c \in src[s].todo : c.verb \in Removals
      /\ src[s].pc \notin Quiet => src[s].w \in Sizes

Types == TypeOK /\ Asked

LEMMA PristineType == ASSUME NEW taken, taken \subseteq Outputs PROVE Pristine(taken) \in Screens
  <1>1. 0 \in 0..MaxSize BY ExtendAssumption
  <1> QED BY <1>1 DEF Pristine, Screens, None

LEMMA NewSourceType == NewSource \in Objects /\ NewSource.todo = {} /\ NewSource.pc = "idle"
  <1>1. 0 \in 0..MaxSize BY ExtendAssumption
  <1> QED BY <1>1 DEF NewSource, Objects, Pcs, Quiet, None

LEMMA InitTypes == Init => Types
  BY PristineType, NewSourceType DEF Init, Types, TypeOK, Asked, Listing, Quiet

LEMMA BoxType ==
    ASSUME NEW a \in [Outputs -> Sizes \cup {None}]
    PROVE  Box(a) \in 0..MaxSize
  <1> DEFINE S == {a[o] : o \in Outputs} \cup {0}
  <1>1. MaxSize \in Nat BY ExtendAssumption
  <1>2. S \subseteq 0..MaxSize BY <1>1 DEF Sizes, None
  <1>3. S # {} OBVIOUS
  <1>4. Max(S) \in S
    <2> HIDE DEF S
    <2> QED BY <1>1, <1>2, <1>3, MaxOf
  <1>5. Box(a) = Max(S) BY DEF Box
  <1> QED
    <2> HIDE DEF S
    <2> QED BY <1>2, <1>4, <1>5

LEMMA ExceptType ==
    ASSUME NEW D, NEW R, NEW f \in [D -> R], NEW d, NEW r, d \in D => r \in R
    PROVE  [f EXCEPT ![d] = r] \in [D -> R]
  OBVIOUS

\* A command of any kind.
IsCmd(c) ==
    /\ c \in Cmds
    /\ c.verb \in {"newmode", "addmode", "enable", "setmonitor"} => c.w \in Sizes
    /\ c.w \in 0..MaxSize

LEMMA OutcomeType ==
    ASSUME x \in Screens, NEW c, IsCmd(c)
    PROVE  Outcome(c) \in Screens
  <1>0. /\ x.modes \subseteq Sizes /\ x.attached \in [Outputs -> SUBSET Sizes]
        /\ x.active \in [Outputs -> Sizes \cup {None}]
        /\ c.w \in Sizes \cup {None} /\ c.verb \in Verbs
    BY DEF Screens, IsCmd, Cmds
  <1>1. CASE c.verb = "newmode"
    BY <1>0, <1>1 DEF Outcome, Screens, IsCmd
  <1>2. CASE c.verb = "addmode"
    <2>1. [x.attached EXCEPT ![c.out] = x.attached[c.out] \cup {c.w}]
            \in [Outputs -> SUBSET Sizes]
      <3>1. c.w \in Sizes BY <1>2 DEF IsCmd
      <3> DEFINE modes == x.attached[c.out] \cup {c.w}
      <3>2. c.out \in Outputs => modes \in SUBSET Sizes
        BY <1>0, <3>1
      <3> HIDE DEF modes
      <3>3. [x.attached EXCEPT ![c.out] = modes] \in [Outputs -> SUBSET Sizes]
        BY <1>0, <3>2, ExceptType
      <3> QED BY <3>3 DEF modes
    <2>2. Outcome(c) = [x EXCEPT !.attached =
                          [x.attached EXCEPT ![c.out] = x.attached[c.out] \cup {c.w}]]
      <3>1. Outcome(c) = [x EXCEPT !.attached[c.out] = @ \cup {c.w}]
        BY <1>2 DEF Outcome
      <3> QED BY <3>1
    <2> QED BY <2>1, <2>2 DEF Screens
  <1>3. ASSUME NEW w \in Sizes \cup {None}, Outcome(c) = SetActive(c.out, w)
        PROVE  Outcome(c) \in Screens
    <2> DEFINE a == [x.active EXCEPT ![c.out] = w]
    <2>1. a \in [Outputs -> Sizes \cup {None}] BY <1>0, ExceptType
    <2>2. Box(a) \in 0..MaxSize BY <2>1, BoxType
    <2>3. Outcome(c) = [x EXCEPT !.active = a, !.fb = Box(a)] BY <1>3 DEF SetActive
    <2> HIDE DEF a
    <2> QED BY <2>1, <2>2, <2>3 DEF Screens
  <1>4. CASE c.verb = "enable"
    BY <1>0, <1>3, <1>4 DEF Outcome
  <1>5. CASE c.verb = "off"
    BY <1>0, <1>3, <1>5 DEF Outcome
  <1>6. CASE c.verb = "delmode"
    <2>1. [x.attached EXCEPT ![c.out] = x.attached[c.out] \ {c.w}]
            \in [Outputs -> SUBSET Sizes]
      BY <1>0, ExceptType
    <2>2. Outcome(c) = [x EXCEPT !.attached =
                          [x.attached EXCEPT ![c.out] = x.attached[c.out] \ {c.w}]]
      <3>1. Outcome(c) = [x EXCEPT !.attached[c.out] = @ \ {c.w}]
        BY <1>6 DEF Outcome
      <3> QED BY <3>1
    <2> QED BY <2>1, <2>2 DEF Screens
  <1>7. CASE c.verb = "rmmode" BY <1>0, <1>7 DEF Outcome, Screens
  <1>8. CASE c.verb \in {"fb", "setmonitor", "delmonitor", "query"}
    BY <1>0, <1>8 DEF Outcome, Screens, IsCmd, None
  <1> QED BY <1>0, <1>1, <1>2, <1>4, <1>5, <1>6, <1>7, <1>8 DEF Verbs

LEMMA RunsType ==
    ASSUME x \in Screens, NEW c, IsCmd(c), Works(c) \/ Fails(c)
    PROVE  x' \in Screens
  BY OutcomeType DEF Works, Fails

LEMMA WorkTypes ==
    ASSUME Types, NEW s \in Sources, NEW pc \in Listing, NEW list \in SUBSET Cmds,
           \A c \in list : c.verb \in Removals, src[s].w \in Sizes,
           x' \in Screens, lost' \in BOOLEAN, Work(s, src[s], pc, list)
    PROVE  Types'
  <1> DEFINE to == IF list = {} THEN After(pc) ELSE pc
             o == [src[s] EXCEPT !.pc = to, !.todo = list]
  <1>1. to \in Pcs /\ (to \in Listing => list # {})
    BY DEF After, Pcs, Listing, Quiet
  <1>2. src[s] \in Objects BY DEF Types, TypeOK
  <1>3. o \in Objects /\ o.pc = to /\ o.todo = list /\ o.w = src[s].w
    <2> HIDE DEF to
    <2> QED BY <1>1, <1>2 DEF Objects
  <1>4. src' = [src EXCEPT ![s] = o] BY DEF Work
  <1> HIDE DEF o, to
  <1> QED BY <1>1, <1>3, <1>4 DEF Types, TypeOK, Asked

\* A step that only moves on, or sets what is not of the list.
LEMMA MoveTypes ==
    ASSUME Types, NEW s \in Sources, NEW o \in Objects,
           src' = [src EXCEPT ![s] = o], o.todo = src[s].todo,
           o.pc \notin Listing, o.pc \notin Quiet => o.w \in Sizes,
           x' \in Screens, lost' \in BOOLEAN
    PROVE  Types'
  BY DEF Types, TypeOK, Asked

LEMMA GotoTypes ==
    ASSUME Types, NEW s \in Sources, NEW pc \in Pcs \ Listing, Goto(s, pc),
           src[s].w \in Sizes, x' \in Screens, lost' \in BOOLEAN
    PROVE  Types'
  <1> DEFINE o == [src[s] EXCEPT !.pc = pc]
  <1>1. src[s] \in Objects BY DEF Types, TypeOK
  <1>2. o \in Objects /\ o.pc = pc /\ o.todo = src[s].todo /\ o.w = src[s].w
    BY <1>1 DEF Objects
  <1>3. src' = [src EXCEPT ![s] = o] BY DEF Goto
  <1> HIDE DEF o
  <1> QED BY <1>2, <1>3, MoveTypes

LEMMA CmdType ==
    ASSUME NEW verb \in Verbs, NEW out \in Outputs \cup {None},
           NEW w \in Sizes \cup {None},
           verb \in {"newmode", "addmode", "enable", "setmonitor"} => w \in Sizes
    PROVE  IsCmd(Cmd(verb, out, w))
  <1>1. w \in 0..MaxSize BY ExtendAssumption DEF Sizes, None
  <1> QED BY <1>1 DEF IsCmd, Cmd, Cmds

LEMMA CmdFields ==
    ASSUME NEW verb, NEW out, NEW w
    PROVE  LET c == Cmd(verb, out, w) IN c.verb = verb /\ c.out = out /\ c.w = w
  BY DEF Cmd

\* What a source that is at work is made of.
LEMMA SourceFields ==
    ASSUME Types, NEW s \in Sources
    PROVE  /\ src[s] \in Objects /\ src[s].todo \subseteq Cmds
           /\ src[s].pc \in Pcs /\ src[s].out \in Outputs \cup {None}
           /\ src[s].origFb \in 0..MaxSize
           /\ src[s].origFb \in Sizes \cup {None}
           /\ src[s].pc \notin Quiet => src[s].w \in Sizes
           /\ x \in Screens /\ x.fb \in 0..MaxSize /\ x.attached \in [Outputs -> SUBSET Sizes]
  <1>1. src[s] \in Objects /\ x \in Screens BY DEF Types, TypeOK
  <1>2. src[s].origFb \in 0..MaxSize BY <1>1 DEF Objects
  <1>3. src[s].origFb \in Sizes \cup {None}
    BY <1>2, ExtendAssumption DEF Sizes, None
  <1> QED BY <1>1, <1>2, <1>3 DEF Types, Asked, Objects, Screens

LEMMA QueryTypes ==
    ASSUME NEW s, Types, Queries(s) \/ Fails(Cmd("query", None, None))
    PROVE  x' \in Screens
  <1>1. IsCmd(Cmd("query", None, None)) BY CmdType DEF Verbs
  <1> QED BY <1>1, RunsType DEF Queries, Types, TypeOK

LEMMA BeginTypes ==
    ASSUME Types, NEW s \in Sources, NEW w \in Sizes, Begin(s, w), lost' \in BOOLEAN
    PROVE  Types'
  <1>1. PICK pc \in {"begin", "idle"} :
             src' = [src EXCEPT ![s] = [NewSource EXCEPT !.pc = pc, !.w = w]]
    BY DEF Begin
  <1> DEFINE o == [NewSource EXCEPT !.pc = pc, !.w = w]
  <1>2. o \in Objects /\ o.pc = pc /\ o.todo = {} /\ o.w = w
    BY NewSourceType DEF Objects, Pcs, Quiet
  <1>3. src' = [src EXCEPT ![s] = o] BY <1>1
  <1>4. x' \in Screens BY DEF Begin, Types, TypeOK
  <1> HIDE DEF o
  <1> QED BY <1>2, <1>3, <1>4 DEF Types, TypeOK, Asked, Listing

LEMMA StaleType == ASSUME Types PROVE StaleCommands \subseteq Cmds
  <1>1. \A o \in Outputs : x.attached[o] \subseteq Sizes BY DEF Types, TypeOK, Screens
  <1>2. \A o \in Outputs : StaleOn(o) \subseteq Cmds
    BY <1>1 DEF StaleOn, DeleteStale, Cmd, Cmds, Verbs
  <1>3. Cmd("delmonitor", None, None) \in Cmds BY DEF Cmd, Cmds, Verbs
  <1> QED BY <1>2, <1>3 DEF StaleCommands

LEMMA StaleRemoves == \A c \in StaleCommands : c.verb \in Removals
  <1>1. \A o \in Outputs : \A c \in StaleOn(o) : c.verb \in Removals
    BY DEF StaleOn, DeleteStale, Cmd, Removals
  <1> QED BY <1>1 DEF StaleCommands, Cmd, Removals

LEMMA CleanStaleTypes ==
    ASSUME Types, NEW s \in Sources, CleanStale(s), lost' \in BOOLEAN
    PROVE  Types'
  <1>1. src[s].w \in Sizes BY SourceFields DEF CleanStale, Quiet
  <1>2. CASE QueryFails(s)
    BY <1>1, <1>2, QueryTypes, GotoTypes DEF QueryFails, Pcs, Quiet, Listing
  <1>3. CASE Queries(s) /\ Work(s, src[s], "stale", StaleCommands)
    BY <1>1, <1>3, QueryTypes, WorkTypes, StaleType, StaleRemoves DEF Listing
  <1> QED BY <1>2, <1>3 DEF CleanStale

LEMMA RunListedTypes ==
    ASSUME Types, NEW s \in Sources, RunListed(s), lost' \in BOOLEAN
    PROVE  Types'
  <1>1. PICK c \in src[s].todo : /\ Works(c) \/ Fails(c)
                                 /\ Work(s, src[s], src[s].pc, src[s].todo \ {c})
    BY DEF RunListed
  <1>2. src[s].pc \in Listing BY DEF RunListed
  <1>3. c \in Cmds /\ src[s].w \in Sizes BY <1>2, SourceFields DEF Listing, Quiet
  <1>4. IsCmd(c)
    BY <1>3, ExtendAssumption DEF IsCmd, Cmds, Types, Asked, Removals, Sizes, None
  <1>5. x' \in Screens BY <1>1, <1>4, RunsType DEF Types, TypeOK
  <1>6. src[s].todo \ {c} \subseteq Cmds BY SourceFields
  <1>7. \A d \in src[s].todo \ {c} : d.verb \in Removals BY DEF Types, Asked
  <1> QED BY <1>1, <1>2, <1>3, <1>5, <1>6, <1>7, WorkTypes

LEMMA FreeType == Free # {} => Min(Free) \in Outputs /\ Min(Free) \in Free
  <1>1. Free \subseteq Nat BY DEF Free, Outputs
  <1>2. Free \subseteq Outputs BY DEF Free
  <1> QED BY <1>1, <1>2, MinOf

LEMMA EnlargedType ==
    ASSUME Types, NEW s \in Sources, src[s].w \in Sizes
    PROVE  Enlarged(s) \in 0..MaxSize /\ Enlarged(s) \in {x.fb, src[s].w}
  <1>1. MaxSize \in Nat /\ src[s].w \in 0..MaxSize BY ExtendAssumption DEF Sizes
  <1>2. {x.fb, src[s].w} \subseteq 0..MaxSize BY <1>1, SourceFields
  <1> QED BY <1>1, <1>2, MaxOf DEF Enlarged

LEMMA EnlargedAbove ==
    ASSUME Types, NEW s \in Sources, src[s].w \in Sizes
    PROVE  Enlarged(s) >= src[s].w /\ Enlarged(s) >= x.fb
  <1>1. x.fb \in Nat /\ src[s].w \in Nat BY SourceFields DEF Sizes
  <1>2. \E m \in {x.fb, src[s].w} : \A y \in {x.fb, src[s].w} : m >= y
    <2>1. CASE x.fb >= src[s].w BY <1>1, <2>1
    <2>2. CASE src[s].w >= x.fb BY <1>1, <2>2
    <2> QED BY <1>1, <2>1, <2>2
  <1> QED BY <1>2 DEF Enlarged, Max

LEMMA CreateTypes ==
    ASSUME Types, NEW s \in Sources, Create(s), lost' \in BOOLEAN
    PROVE  Types'
  <1>1. src[s].pc = "create" /\ src[s].w \in Sizes BY SourceFields DEF Create, Quiet
  <1>2. CASE QueryFails(s)
    BY <1>1, <1>2, QueryTypes, GotoTypes DEF QueryFails, Pcs, Quiet, Listing
  <1>3. CASE Free # {} /\ NewMode(s, Min(Free))
    <2> DEFINE c == Cmd("newmode", None, src[s].w)
    <2>1. PICK pc \in {"addmode", "failed"} :
               src' = [src EXCEPT ![s].pc = pc, ![s].out = Min(Free)]
      BY <1>3 DEF NewMode
    <2>2. x' \in Screens
      <3>1. IsCmd(c) BY <1>1, CmdType DEF Verbs
      <3>2. Works(c) \/ Fails(c) BY <1>3 DEF NewMode
      <3> QED BY <3>1, <3>2, RunsType DEF Types, TypeOK
    <2> DEFINE o == [src[s] EXCEPT !.pc = pc, !.out = Min(Free)]
    <2>3. o \in Objects /\ o.pc = pc /\ o.todo = src[s].todo /\ o.w = src[s].w
      BY <1>3, FreeType, SourceFields DEF Objects, Pcs, Quiet
    <2>4. src' = [src EXCEPT ![s] = o] BY <2>1
    <2> HIDE DEF o
    <2> QED BY <1>1, <2>2, <2>3, <2>4, MoveTypes DEF Listing
  <1>4. CASE Free = {} /\ Enlarge(s)
    <2> DEFINE c == Cmd("fb", None, Enlarged(s))
    <2>1. IsCmd(c)
      <3>1. Enlarged(s) \in Sizes \cup {None}
        BY <1>1, EnlargedType, ExtendAssumption DEF Sizes, None
      <3> QED BY <3>1, CmdType DEF Verbs
    <2>2. Works(c) \/ Fails(c) BY <1>4 DEF Enlarge
    <2>3. x' \in Screens BY <2>1, <2>2, RunsType DEF Types, TypeOK
    <2>4. CASE Goto(s, "failed")
      BY <1>1, <2>3, <2>4, GotoTypes DEF Pcs, Quiet, Listing
    <2>5. CASE src' = [src EXCEPT ![s].pc = "setmonitor", ![s].origFb = x.fb]
      <3> DEFINE o == [src[s] EXCEPT !.pc = "setmonitor", !.origFb = x.fb]
      <3>1. o \in Objects /\ o.pc = "setmonitor" /\ o.todo = src[s].todo /\ o.w = src[s].w
        BY SourceFields DEF Objects, Pcs
      <3>2. src' = [src EXCEPT ![s] = o] BY <2>5
      <3> HIDE DEF o
      <3> QED BY <1>1, <2>3, <3>1, <3>2, MoveTypes DEF Listing
    <2> QED BY <1>4, <2>4, <2>5 DEF Enlarge
  <1> QED BY <1>2, <1>3, <1>4 DEF Create

LEMMA AddModeTypes ==
    ASSUME Types, NEW s \in Sources, AddMode(s), lost' \in BOOLEAN
    PROVE  Types'
  <1> DEFINE c == Cmd("addmode", src[s].out, src[s].w)
             list == {Cmd("rmmode", src[s].out, src[s].w)}
  <1>1. src[s].w \in Sizes /\ src[s].out \in Outputs \cup {None}
    BY SourceFields DEF AddMode, Quiet
  <1>2. IsCmd(c) BY <1>1, CmdType DEF Verbs
  <1>3. Works(c) \/ Fails(c) BY DEF AddMode
  <1>4. x' \in Screens BY <1>2, <1>3, RunsType DEF Types, TypeOK
  <1>5. CASE Goto(s, "enable") BY <1>1, <1>4, <1>5, GotoTypes DEF Pcs, Listing
  <1>6. CASE Work(s, src[s], "undo", list)
    <2>1. list \subseteq Cmds /\ \A d \in list : d.verb \in Removals
      BY <1>1 DEF Cmd, Cmds, Verbs, Removals
    <2> HIDE DEF list
    <2> QED BY <1>1, <1>4, <1>6, <2>1, WorkTypes DEF Listing
  <1> QED BY <1>5, <1>6 DEF AddMode

LEMMA EnableTypes ==
    ASSUME Types, NEW s \in Sources, Enable(s), lost' \in BOOLEAN
    PROVE  Types'
  <1> DEFINE c == Cmd("enable", src[s].out, src[s].w)
             list == UndoMode(src[s].out, src[s].w)
  <1>1. src[s].w \in Sizes /\ src[s].out \in Outputs \cup {None}
    BY SourceFields DEF Enable, Quiet
  <1>2. IsCmd(c) BY <1>1, CmdType DEF Verbs
  <1>3. Works(c) \/ Fails(c) BY DEF Enable
  <1>4. x' \in Screens BY <1>2, <1>3, RunsType DEF Types, TypeOK
  <1>5. CASE src' = [src EXCEPT ![s].pc = "after", ![s].method = "output"]
    <2> DEFINE o == [src[s] EXCEPT !.pc = "after", !.method = "output"]
    <2>1. o \in Objects /\ o.pc = "after" /\ o.todo = src[s].todo /\ o.w = src[s].w
      BY SourceFields DEF Objects, Pcs
    <2>2. src' = [src EXCEPT ![s] = o] BY <1>5
    <2> HIDE DEF o
    <2> QED BY <1>1, <1>4, <2>1, <2>2, MoveTypes DEF Listing
  <1>6. CASE Work(s, src[s], "undo", list)
    <2>1. list \subseteq Cmds /\ \A d \in list : d.verb \in Removals
      BY <1>1 DEF UndoMode, Cmd, Cmds, Verbs, Removals
    <2> HIDE DEF list
    <2> QED BY <1>1, <1>4, <1>6, <2>1, WorkTypes DEF Listing
  <1> QED BY <1>5, <1>6 DEF Enable

LEMMA SetMonitorTypes ==
    ASSUME Types, NEW s \in Sources, SetMonitor(s), lost' \in BOOLEAN
    PROVE  Types'
  <1> DEFINE c == Cmd("setmonitor", None, src[s].w)
             list == {Cmd("fb", None, src[s].origFb)}
  <1>1. src[s].w \in Sizes /\ src[s].origFb \in Sizes \cup {None}
    BY SourceFields DEF SetMonitor, Quiet
  <1>2. IsCmd(c) BY <1>1, CmdType DEF Verbs
  <1>3. Works(c) \/ Fails(c) BY DEF SetMonitor
  <1>4. x' \in Screens BY <1>2, <1>3, RunsType DEF Types, TypeOK
  <1>5. CASE src' = [src EXCEPT ![s].pc = "created", ![s].method = "setmonitor"]
    <2> DEFINE o == [src[s] EXCEPT !.pc = "created", !.method = "setmonitor"]
    <2>1. o \in Objects /\ o.pc = "created" /\ o.todo = src[s].todo /\ o.w = src[s].w
      BY SourceFields DEF Objects, Pcs
    <2>2. src' = [src EXCEPT ![s] = o] BY <1>5
    <2> HIDE DEF o
    <2> QED BY <1>1, <1>4, <2>1, <2>2, MoveTypes DEF Listing
  <1>6. CASE Work(s, src[s], "undo", list)
    <2>1. list \subseteq Cmds /\ \A d \in list : d.verb \in Removals
      BY <1>1 DEF Cmd, Cmds, Verbs, Removals
    <2> HIDE DEF list
    <2> QED BY <1>1, <1>4, <1>6, <2>1, WorkTypes DEF Listing
  <1> QED BY <1>5, <1>6 DEF SetMonitor

LEMMA ReadBackTypes ==
    ASSUME Types, NEW s \in Sources, ReadBack(s)
    PROVE  Types'
  <1>1. src[s].w \in Sizes BY SourceFields DEF ReadBack, Quiet
  <1>2. x' \in Screens BY QueryTypes DEF ReadBack, QueryFails
  <1>3. lost' \in BOOLEAN BY DEF ReadBack, Types, TypeOK
  <1>4. Goto(s, "failed") \/ Goto(s, "created") BY DEF ReadBack, QueryFails
  <1> QED BY <1>1, <1>2, <1>3, <1>4, GotoTypes DEF Pcs, Listing, Quiet

LEMMA CleanupTypes ==
    ASSUME Types, NEW s \in Sources, Cleanup(s), src[s].w \in Sizes, lost' \in BOOLEAN
    PROVE  Types'
  <1>1. src[s].out \in Outputs \cup {None} /\ src[s].origFb \in Sizes \cup {None}
    BY SourceFields
  <1> DEFINE list == CleanupCommands(src[s])
  <1>2. list \subseteq Cmds /\ \A d \in list : d.verb \in Removals
    BY <1>1 DEF CleanupCommands, Cmd, Cmds, Verbs, Removals
  <1>3. x' \in Screens BY DEF Cleanup, Types, TypeOK
  <1> HIDE DEF list
  <1>4. Work(s, src[s], "cleanup", list) BY DEF Cleanup, list
  <1> QED BY <1>2, <1>3, <1>4, WorkTypes DEF Listing

LEMMA StopTypes ==
    ASSUME Types, NEW s \in Sources, BuildPipeline(s) \/ Stop(s), lost' \in BOOLEAN
    PROVE  Types'
  <1>1. src[s].w \in Sizes BY SourceFields DEF BuildPipeline, Stop, Quiet
  <1>2. CASE Cleanup(s) BY <1>1, <1>2, CleanupTypes
  <1>3. CASE Goto(s, "live") /\ UNCHANGED x
    BY <1>1, <1>3, GotoTypes DEF Pcs, Listing, Types, TypeOK
  <1> QED BY <1>2, <1>3 DEF BuildPipeline, Stop

LEMMA CrashTypes == ASSUME Types, Crash PROVE Types'
  BY NewSourceType DEF Crash, Types, TypeOK, Asked, Listing, Quiet

LEMMA NextTypes == Types /\ [Next]_vars => Types'
  <1> SUFFICES ASSUME Types, [Next]_vars PROVE Types'
    OBVIOUS
  <1>1. CASE UNCHANGED vars BY <1>1 DEF vars, Types, TypeOK, Asked
  <1>2. ASSUME NEW s \in Sources, Step(s), lost' = lost PROVE Types'
    <2>1. lost' \in BOOLEAN BY <1>2 DEF Types, TypeOK
    <2> QED BY <1>2, <2>1, BeginTypes, CleanStaleTypes, RunListedTypes, CreateTypes,
               AddModeTypes, EnableTypes, SetMonitorTypes, StopTypes DEF Step
  <1> QED BY <1>1, <1>2, ReadBackTypes, CrashTypes DEF Next

LEMMA SpecTypes == Spec => []Types
  BY InitTypes, NextTypes, PTL DEF Spec

\* For any number of sources, connectors and sizes, whatever the driver
\* refuses and however the commands of the sources meet: the X server holds
\* only modes that were asked for, and the framebuffer no more than the room
\* for one of them (_create_setmonitor).
THEOREM ScreenTypes == Spec => []TypeOK
  BY SpecTypes, PTL DEF Types

-----------------------------------------------------------------------------
(* A driver that always takes back what it did, and a source that is       *)
(* alone.                                                                  *)

\* Hypothesis of the theorems below, about CONSTANTS only.
Reliable == Refusable \cap {"delmonitor", "off", "delmode", "rmmode"} = {}

\* What a source that is alone finds and shows, whatever was lost.  A mode in use is
\* attached, so clean_stale finds it; it then keeps the command that removes
\* what is there on its list until it was run.
Attached == \A o \in Outputs : x.active[o] # None => x.active[o] \in x.attached[o]
Doomed(S) ==
    /\ \A o \in Outputs : x.active[o] # None => Cmd("off", o, None) \in S.todo
    /\ x.region # None => Cmd("delmonitor", None, None) \in S.todo
Dark == (\A o \in Outputs : x.active[o] = None) /\ x.region = None
Lit(S) ==
    /\ S.out \in Outputs /\ x.active[S.out] = S.w /\ x.region = None
    /\ \A o \in Outputs \ {S.out} : x.active[o] = None
Marked(S) == (\A o \in Outputs : x.active[o] = None) /\ x.region = S.w /\ x.fb >= S.w
ShownBy(S) ==
    /\ S.pc = "stale" => Doomed(S)
    /\ S.pc \in {"create", "addmode", "enable", "setmonitor"} => Dark
    /\ S.pc \in {"addmode", "enable"} => S.out \in Outputs
    /\ S.pc = "setmonitor" => x.fb >= S.w
    /\ S.pc = "after" => S.method = "output"
    /\ S.pc \in {"after", "created", "live"} =>
         IF S.method = "output" THEN Lit(S) ELSE Marked(S)
ShownFor(s) == Attached /\ ShownBy(src[s])
Shown == Attached /\ \A s \in Sources : Alone(s) => ShownBy(src[s])

LEMMA PossibleIs ==
    ASSUME NEW c
    PROVE  /\ c.verb = "newmode" => (Possible(c) <=> c.w \notin x.modes)
           /\ c.verb = "addmode" => (Possible(c) <=> c.w \in x.modes)
           /\ c.verb = "enable" => (Possible(c) <=> c.w \in x.attached[c.out])
           /\ c.verb = "delmode" =>
                (Possible(c) <=> c.w \in x.attached[c.out] /\ x.active[c.out] # c.w)
           /\ c.verb = "rmmode" =>
                (Possible(c) <=> c.w \in x.modes /\ \A o \in Outputs : c.w \notin x.attached[o])
           /\ c.verb = "delmonitor" => (Possible(c) <=> x.region # None)
           /\ c.verb \in {"query", "off", "fb", "setmonitor"} => Possible(c)
  BY DEF Possible

\* What a command changes, and what it leaves.
LEMMA Effects ==
    ASSUME x \in Screens, NEW c, c.verb \in Verbs, x' = Outcome(c)
    PROVE  /\ x'.taken = x.taken
           /\ c.verb \notin {"newmode", "rmmode"} => x'.modes = x.modes
           /\ c.verb = "newmode" => x'.modes = x.modes \cup {c.w}
           /\ c.verb = "rmmode" => x'.modes = x.modes \ {c.w}
           /\ c.verb \notin {"addmode", "delmode"} => x'.attached = x.attached
           /\ c.verb = "addmode" =>
                x'.attached = [x.attached EXCEPT ![c.out] = x.attached[c.out] \cup {c.w}]
           /\ c.verb = "delmode" =>
                x'.attached = [x.attached EXCEPT ![c.out] = x.attached[c.out] \ {c.w}]
           /\ c.verb \notin {"enable", "off"} => x'.active = x.active
           /\ c.verb = "enable" => x'.active = [x.active EXCEPT ![c.out] = c.w]
           /\ c.verb = "off" => x'.active = [x.active EXCEPT ![c.out] = None]
           /\ c.verb \notin {"setmonitor", "delmonitor"} => x'.region = x.region
           /\ c.verb = "setmonitor" => x'.region = c.w
           /\ c.verb = "delmonitor" => x'.region = None
           /\ c.verb \notin {"enable", "off", "fb"} => x'.fb = x.fb
           /\ c.verb \in {"enable", "off"} => x'.fb = Box(x'.active)
           /\ c.verb = "fb" => x'.fb = c.w
  <1>1. CASE c.verb = "newmode" BY <1>1 DEF Outcome, Screens
  <1>2. CASE c.verb = "addmode" BY <1>2 DEF Outcome, Screens
  <1>3. CASE c.verb = "enable"
    <2> DEFINE a == [x.active EXCEPT ![c.out] = c.w]
    <2>1. x' = [x EXCEPT !.active = a, !.fb = Box(a)] BY <1>3 DEF Outcome, SetActive
    <2>2. x'.active = a /\ x'.fb = Box(a) BY <2>1 DEF Screens
    <2> HIDE DEF a
    <2>3. x'.fb = Box(x'.active) BY <2>2
    <2> QED BY <1>3, <2>1, <2>2, <2>3 DEF Screens, a
  <1>4. CASE c.verb = "off"
    <2> DEFINE a == [x.active EXCEPT ![c.out] = None]
    <2>1. x' = [x EXCEPT !.active = a, !.fb = Box(a)] BY <1>4 DEF Outcome, SetActive
    <2>2. x'.active = a /\ x'.fb = Box(a) BY <2>1 DEF Screens
    <2> HIDE DEF a
    <2>3. x'.fb = Box(x'.active) BY <2>2
    <2> QED BY <1>4, <2>1, <2>2, <2>3 DEF Screens, a
  <1>5. CASE c.verb = "delmode" BY <1>5 DEF Outcome, Screens
  <1>6. CASE c.verb = "rmmode" BY <1>6 DEF Outcome, Screens
  <1>7. CASE c.verb \in {"fb", "setmonitor", "delmonitor", "query"}
    BY <1>7 DEF Outcome, Screens
  <1> QED BY <1>1, <1>2, <1>3, <1>4, <1>5, <1>6, <1>7 DEF Verbs

LEMMA AttachedStep ==
    ASSUME x \in Screens, Attached, NEW c, c.verb \in Verbs, Works(c) \/ Fails(c)
    PROVE  Attached'
  <1>0. x.active \in [Outputs -> Sizes \cup {None}] /\ x.attached \in [Outputs -> SUBSET Sizes]
    BY DEF Screens
  <1>1. CASE x' = x BY <1>1 DEF Attached
  <1>2. CASE Possible(c) /\ x' = Outcome(c)
    <2>1. CASE c.verb = "addmode"
      <3>1. /\ x'.active = x.active
            /\ x'.attached = [x.attached EXCEPT ![c.out] = x.attached[c.out] \cup {c.w}]
        BY <1>2, <2>1, Effects
      <3>2. \A o \in Outputs : x.attached[o] \subseteq x'.attached[o] BY <1>0, <3>1
      <3> QED BY <3>1, <3>2 DEF Attached
    <2>2. CASE c.verb = "enable"
      <3>1. /\ x'.attached = x.attached /\ c.w \in x.attached[c.out]
            /\ x'.active = [x.active EXCEPT ![c.out] = c.w]
        BY <1>2, <2>2, Effects, PossibleIs
      <3>2. \A o \in Outputs : x'.active[o] = IF o = c.out THEN c.w ELSE x.active[o]
        BY <1>0, <3>1
      <3> QED BY <3>1, <3>2 DEF Attached
    <2>3. CASE c.verb = "off"
      <3>1. /\ x'.attached = x.attached
            /\ x'.active = [x.active EXCEPT ![c.out] = None]
        BY <1>2, <2>3, Effects
      <3>2. \A o \in Outputs : x'.active[o] \in {None, x.active[o]} BY <1>0, <3>1
      <3> QED BY <3>1, <3>2 DEF Attached
    <2>4. CASE c.verb = "delmode"
      <3>1. /\ x'.active = x.active /\ x.active[c.out] # c.w
            /\ x'.attached = [x.attached EXCEPT ![c.out] = x.attached[c.out] \ {c.w}]
        BY <1>2, <2>4, Effects, PossibleIs
      <3>2. \A o \in Outputs :
               x'.attached[o] = IF o = c.out THEN x.attached[o] \ {c.w} ELSE x.attached[o]
        BY <1>0, <3>1
      <3> QED BY <3>1, <3>2 DEF Attached
    <2>5. CASE c.verb \notin {"addmode", "enable", "off", "delmode"}
      BY <1>2, <2>5, Effects DEF Attached
    <2> QED BY <2>1, <2>2, <2>3, <2>4, <2>5
  <1> QED BY <1>1, <1>2 DEF Works, Fails

LEMMA WorkFields ==
    ASSUME Types, NEW s \in Sources, NEW pc, NEW list, Work(s, src[s], pc, list)
    PROVE  /\ src'[s].pc = IF list = {} THEN After(pc) ELSE pc
           /\ src'[s].todo = list /\ src'[s].method = src[s].method
           /\ src'[s].out = src[s].out /\ src'[s].w = src[s].w
           /\ src'[s].origFb = src[s].origFb
  <1>1. src[s] \in Objects /\ src \in [Sources -> Objects] BY DEF Types, TypeOK
  <1> DEFINE o == [src[s] EXCEPT !.pc = IF list = {} THEN After(pc) ELSE pc, !.todo = list]
  <1>2. src'[s] = o BY <1>1 DEF Work
  <1> QED BY <1>1, <1>2 DEF Objects

LEMMA GotoFields ==
    ASSUME Types, NEW s \in Sources, NEW pc, Goto(s, pc)
    PROVE  /\ src'[s].pc = pc /\ src'[s].method = src[s].method
           /\ src'[s].out = src[s].out /\ src'[s].w = src[s].w
           /\ src'[s].origFb = src[s].origFb /\ src'[s].todo = src[s].todo
  <1>1. src[s] \in Objects /\ src \in [Sources -> Objects] BY DEF Types, TypeOK
  <1> QED BY <1>1 DEF Goto, Objects

LEMMA QueryKeeps ==
    ASSUME NEW s, Queries(s) \/ QueryFails(s)
    PROVE  x' = x
  BY DEF Queries, QueryFails, Works, Fails, Outcome, Cmd

\* A step is one source's: it leaves the others alone, and is no longer new.
LEMMA StepFrame ==
    ASSUME Types, NEW s \in Sources, Step(s) \/ ReadBack(s)
    PROVE  /\ \A t \in Sources \ {s} : src'[t] = src[t]
           /\ src'[s].w \in Sizes
  <1>0. src[s] \in Objects /\ src \in [Sources -> Objects] BY DEF Types, TypeOK
  <1>1. ASSUME NEW w \in Sizes, Begin(s, w)
        PROVE  (\A t \in Sources \ {s} : src'[t] = src[t]) /\ src'[s].w \in Sizes
    <2>1. PICK pc \in {"begin", "idle"} :
               src' = [src EXCEPT ![s] = [NewSource EXCEPT !.pc = pc, !.w = w]]
      BY <1>1 DEF Begin
    <2> QED BY <1>0, <2>1 DEF NewSource
  <1>2. ASSUME src[s].pc \notin Quiet, NEW pc, Goto(s, pc)
        PROVE  (\A t \in Sources \ {s} : src'[t] = src[t]) /\ src'[s].w \in Sizes
    <2>1. src'[s].w = src[s].w /\ src[s].w \in Sizes BY <1>2, GotoFields, SourceFields
    <2> QED BY <1>0, <1>2, <2>1 DEF Goto
  <1>3. ASSUME src[s].pc \notin Quiet, NEW pc, NEW list, Work(s, src[s], pc, list)
        PROVE  (\A t \in Sources \ {s} : src'[t] = src[t]) /\ src'[s].w \in Sizes
    <2>1. src'[s].w = src[s].w /\ src[s].w \in Sizes BY <1>3, WorkFields, SourceFields
    <2> QED BY <1>0, <1>3, <2>1 DEF Work
  <1>4. CASE CleanStale(s)
    <2>1. src[s].pc \notin Quiet BY <1>4 DEF CleanStale, Quiet
    <2> QED BY <1>2, <1>3, <1>4, <2>1 DEF CleanStale, QueryFails
  <1>5. CASE RunListed(s)
    <2>1. src[s].pc \notin Quiet BY <1>5 DEF RunListed, Listing, Quiet
    <2> QED BY <1>3, <1>5, <2>1 DEF RunListed
  <1>6. CASE Create(s)
    <2>1. src[s].pc \notin Quiet /\ src[s].w \in Sizes
      BY <1>6, SourceFields DEF Create, Quiet
    <2>2. CASE NewMode(s, Min(Free))
      <3>1. PICK pc : src' = [src EXCEPT ![s].pc = pc, ![s].out = Min(Free)]
        BY <2>2 DEF NewMode
      <3> QED BY <1>0, <2>1, <3>1 DEF Objects
    <2>3. CASE src' = [src EXCEPT ![s].pc = "setmonitor", ![s].origFb = x.fb]
      BY <1>0, <2>1, <2>3 DEF Objects
    <2> QED BY <1>2, <1>6, <2>1, <2>2, <2>3 DEF Create, QueryFails, Enlarge
  <1>7. CASE AddMode(s)
    <2>1. src[s].pc \notin Quiet BY <1>7 DEF AddMode, Quiet
    <2> QED BY <1>2, <1>3, <1>7, <2>1 DEF AddMode
  <1>8. CASE Enable(s)
    <2>1. src[s].pc \notin Quiet /\ src[s].w \in Sizes
      BY <1>8, SourceFields DEF Enable, Quiet
    <2>2. CASE src' = [src EXCEPT ![s].pc = "after", ![s].method = "output"]
      BY <1>0, <2>1, <2>2 DEF Objects
    <2> QED BY <1>3, <1>8, <2>1, <2>2 DEF Enable
  <1>9. CASE SetMonitor(s)
    <2>1. src[s].pc \notin Quiet /\ src[s].w \in Sizes
      BY <1>9, SourceFields DEF SetMonitor, Quiet
    <2>2. CASE src' = [src EXCEPT ![s].pc = "created", ![s].method = "setmonitor"]
      BY <1>0, <2>1, <2>2 DEF Objects
    <2> QED BY <1>3, <1>9, <2>1, <2>2 DEF SetMonitor
  <1>10. CASE BuildPipeline(s) \/ Stop(s)
    <2>1. src[s].pc \notin Quiet BY <1>10 DEF BuildPipeline, Stop, Quiet
    <2> QED BY <1>2, <1>3, <1>10, <2>1 DEF BuildPipeline, Stop, Cleanup
  <1>11. CASE ReadBack(s)
    <2>1. src[s].pc \notin Quiet BY <1>11 DEF ReadBack, Quiet
    <2> QED BY <1>2, <1>11, <2>1 DEF ReadBack, QueryFails
  <1> QED BY <1>1, <1>4, <1>5, <1>6, <1>7, <1>8, <1>9, <1>10, <1>11 DEF Step

\* So a source is alone after a step only if the step was its own, and it was
\* alone before.
LEMMA AloneFrame ==
    ASSUME Types, NEW s \in Sources, Step(s) \/ ReadBack(s),
           NEW t \in Sources, Alone(t)'
    PROVE  t = s /\ Alone(t)
  <1>1. NewSource' = NewSource /\ NewSource.w \notin Sizes BY DEF NewSource, None, Sizes
  <1>2. \A u \in Sources \ {t} : src'[u] = NewSource BY <1>1 DEF Alone
  <1>3. t = s BY <1>1, <1>2, StepFrame
  <1>4. \A u \in Sources \ {t} : src[u] = NewSource BY <1>2, <1>3, StepFrame
  <1> QED BY <1>3, <1>4 DEF Alone

\* A step runs one command of xrandr at most.
LEMMA StepCommand ==
    ASSUME NEW s \in Sources, Types, Step(s) \/ ReadBack(s)
    PROVE  x' = x \/ \E c : c.verb \in Verbs /\ (Works(c) \/ Fails(c))
  <1>1. ASSUME NEW verb \in Verbs, NEW out, NEW w,
               Works(Cmd(verb, out, w)) \/ Fails(Cmd(verb, out, w))
        PROVE  \E c : c.verb \in Verbs /\ (Works(c) \/ Fails(c))
    BY <1>1, CmdFields
  <1>2. ASSUME NEW w, Begin(s, w) PROVE x' = x BY <1>2 DEF Begin
  <1>3. CASE CleanStale(s) \/ ReadBack(s)
    BY <1>3, QueryKeeps DEF CleanStale, ReadBack
  <1>4. CASE RunListed(s)
    <2>1. PICK c \in src[s].todo : Works(c) \/ Fails(c) BY <1>4 DEF RunListed
    <2>2. c.verb \in Verbs BY <2>1, SourceFields DEF Cmds
    <2> QED BY <2>1, <2>2
  <1>5. CASE Create(s)
    <2>1. QueryFails(s) => x' = x BY QueryKeeps
    <2>2. "newmode" \in Verbs /\ "fb" \in Verbs BY DEF Verbs
    <2> QED BY <1>1, <1>5, <2>1, <2>2 DEF Create, NewMode, Enlarge
  <1>6. CASE AddMode(s)
    <2>1. "addmode" \in Verbs BY DEF Verbs
    <2> QED BY <1>1, <1>6, <2>1 DEF AddMode
  <1>7. CASE Enable(s)
    <2>1. "enable" \in Verbs BY DEF Verbs
    <2> QED BY <1>1, <1>7, <2>1 DEF Enable
  <1>8. CASE SetMonitor(s)
    <2>1. "setmonitor" \in Verbs BY DEF Verbs
    <2> QED BY <1>1, <1>8, <2>1 DEF SetMonitor
  <1>9. CASE BuildPipeline(s) \/ Stop(s) BY <1>9 DEF BuildPipeline, Stop, Cleanup
  <1> QED BY <1>2, <1>3, <1>4, <1>5, <1>6, <1>7, <1>8, <1>9 DEF Step

\* A reliable command that is possible works.
LEMMA ReliableWorks ==
    ASSUME Reliable, NEW c, c.verb \in {"delmonitor", "off", "delmode", "rmmode"}, Fails(c)
    PROVE  ~Possible(c) /\ x' = x
  BY DEF Reliable, Fails, Shrinks

LEMMA DoomedStep ==
    ASSUME Types, Reliable, NEW s \in Sources, Doomed(src[s]),
           NEW c \in src[s].todo, Works(c) \/ Fails(c), src'[s].todo = src[s].todo \ {c}
    PROVE  Doomed(src[s])'
  <1>0. /\ c \in Cmds /\ c.verb \in Removals /\ c.verb \in Verbs
        /\ x \in Screens /\ x.active \in [Outputs -> Sizes \cup {None}]
    BY SourceFields DEF Types, TypeOK, Asked, Screens, Cmds
  <1>1. CASE c.verb = "off"
    <2>1. Works(c) BY <1>1, ReliableWorks, PossibleIs
    <2>2. x'.active = [x.active EXCEPT ![c.out] = None] /\ x'.region = x.region
      BY <1>0, <1>1, <2>1, Effects DEF Works
    <2>3. ASSUME NEW o \in Outputs, x'.active[o] # None
          PROVE  Cmd("off", o, None) \in src'[s].todo
      <3>1. o # c.out /\ x.active[o] # None BY <1>0, <2>2, <2>3
      <3>2. Cmd("off", o, None) # c BY <3>1, CmdFields
      <3> QED BY <3>1, <3>2 DEF Doomed
    <2>4. Cmd("delmonitor", None, None) # c BY <1>1, CmdFields
    <2> QED BY <2>2, <2>3, <2>4 DEF Doomed
  <1>2. CASE c.verb = "delmonitor"
    <2>1. x'.region = None /\ x'.active = x.active
      <3>1. CASE Works(c) BY <1>0, <1>2, <3>1, Effects DEF Works
      <3>2. CASE Fails(c) BY <1>2, <3>2, ReliableWorks, PossibleIs
      <3> QED BY <3>1, <3>2
    <2>2. \A o \in Outputs : Cmd("off", o, None) # c BY <1>2, CmdFields
    <2> QED BY <2>1, <2>2 DEF Doomed
  <1>3. CASE c.verb \in {"fb", "delmode", "rmmode"}
    <2>1. x'.active = x.active /\ x'.region = x.region
      BY <1>0, <1>3, Effects DEF Works, Fails
    <2>2. /\ \A o \in Outputs : Cmd("off", o, None) # c
          /\ Cmd("delmonitor", None, None) # c
      BY <1>3, CmdFields
    <2> QED BY <2>1, <2>2 DEF Doomed
  <1> QED BY <1>0, <1>1, <1>2, <1>3 DEF Removals

LEMMA StaleDooms ==
    ASSUME Types, Attached, NEW s \in Sources, Queries(s), src'[s].todo = StaleCommands
    PROVE  Doomed(src[s])'
  <1>1. x' = x BY QueryKeeps
  <1>2. ASSUME NEW o \in Outputs, x.active[o] # None
        PROVE  Cmd("off", o, None) \in StaleCommands
    <2>1. x.attached[o] # {} BY <1>2 DEF Attached
    <2>2. Cmd("off", o, None) \in StaleOn(o) BY <1>2, <2>1 DEF StaleOn
    <2> QED BY <2>2 DEF StaleCommands
  <1>3. Cmd("delmonitor", None, None) \in StaleCommands BY DEF StaleCommands
  <1> QED BY <1>1, <1>2, <1>3 DEF Doomed

LEMMA RunListedShown ==
    ASSUME Types, Reliable, NEW s \in Sources, ShownFor(s), RunListed(s)
    PROVE  ShownFor(s)'
  <1>0. s \in Sources OBVIOUS
  <1>1. PICK c \in src[s].todo : /\ Works(c) \/ Fails(c)
                                 /\ Work(s, src[s], src[s].pc, src[s].todo \ {c})
    BY DEF RunListed
  <1>2. c.verb \in Verbs /\ x \in Screens BY <1>0, SourceFields DEF Cmds
  <1>3. Attached' BY <1>1, <1>2, AttachedStep DEF ShownFor
  <1>4. /\ src'[s].todo = src[s].todo \ {c}
        /\ src'[s].pc = IF src[s].todo \ {c} = {} THEN After(src[s].pc) ELSE src[s].pc
    BY <1>0, <1>1, WorkFields
  <1>5. CASE src[s].pc = "stale"
    <2>1. Doomed(src[s]) BY <1>0, <1>5 DEF ShownFor, ShownBy
    <2>2. Doomed(src[s])' BY <1>0, <1>1, <1>4, <2>1, DoomedStep
    <2>3. CASE src[s].todo \ {c} = {}
      <3>1. src'[s].pc = "create" BY <1>4, <1>5, <2>3 DEF After
      <3>2. src'[s].todo = {} BY <1>4, <2>3
      <3>3. Dark' BY <2>2, <3>2 DEF Doomed, Dark
      <3>4. ShownBy(src[s])' BY <3>1, <3>3 DEF ShownBy
      <3> QED BY <1>3, <3>4 DEF ShownFor
    <2>4. CASE src[s].todo \ {c} # {}
      <3>1. src'[s].pc = "stale" BY <1>4, <1>5, <2>4
      <3>2. ShownBy(src[s])' BY <2>2, <3>1 DEF ShownBy
      <3> QED BY <1>3, <3>2 DEF ShownFor
    <2> QED BY <2>3, <2>4
  <1>6. CASE src[s].pc \in {"undo", "cleanup"}
    <2>1. src'[s].pc \in {"undo", "cleanup", "failed", "stopped"} BY <1>4, <1>6 DEF After
    <2>2. ShownBy(src[s])' BY <2>1 DEF ShownBy
    <2> QED BY <1>3, <2>2 DEF ShownFor
  <1> QED BY <1>5, <1>6 DEF RunListed, Listing

\* A step to a place where nothing of the output is known.
LEMMA LeaveShown ==
    ASSUME NEW s \in Sources, ShownFor(s), Attached',
           src'[s].pc \in Quiet \cup {"begin", "undo", "cleanup"}
    PROVE  ShownFor(s)'
  <1>1. ShownBy(src[s])' BY DEF ShownBy, Quiet
  <1> QED BY <1>1 DEF ShownFor

LEMMA BeginGoes ==
    ASSUME Types, NEW s \in Sources, NEW w, Begin(s, w)
    PROVE  src'[s].pc \in {"begin", "idle"}
  <1>1. PICK pc \in {"begin", "idle"} :
             src' = [src EXCEPT ![s] = [NewSource EXCEPT !.pc = pc, !.w = w]]
    BY DEF Begin
  <1>2. src \in [Sources -> Objects] BY DEF Types, TypeOK
  <1> QED BY <1>1, <1>2 DEF NewSource

LEMMA BeginShown ==
    ASSUME Types, NEW s \in Sources, ShownFor(s), NEW w, Begin(s, w)
    PROVE  ShownFor(s)'
  <1>1. Attached' BY DEF Begin, ShownFor, Attached
  <1>2. src'[s].pc \in {"begin", "idle"} BY BeginGoes
  <1> QED BY <1>1, <1>2, LeaveShown DEF Quiet

LEMMA CleanStaleShown ==
    ASSUME Types, NEW s \in Sources, ShownFor(s), CleanStale(s)
    PROVE  ShownFor(s)'
  <1>0. s \in Sources OBVIOUS
  <1>1. x' = x BY QueryKeeps DEF CleanStale
  <1>2. Attached' BY <1>1 DEF ShownFor, Attached
  <1>3. CASE QueryFails(s)
    BY <1>0, <1>2, <1>3, GotoFields, LeaveShown DEF QueryFails, Quiet
  <1>4. CASE Queries(s) /\ Work(s, src[s], "stale", StaleCommands)
    <2>1. StaleCommands # {} BY DEF StaleCommands
    <2>2. src'[s].pc = "stale" /\ src'[s].todo = StaleCommands
      BY <1>0, <1>4, <2>1, WorkFields
    <2>3. Doomed(src[s])' BY <1>0, <1>4, <2>2, StaleDooms DEF ShownFor
    <2>4. ShownBy(src[s])' BY <2>2, <2>3 DEF ShownBy
    <2> QED BY <1>2, <2>4 DEF ShownFor
  <1> QED BY <1>3, <1>4 DEF CleanStale

\* The commands of the ladder before the output is enabled show nothing.
LEMMA DarkStep ==
    ASSUME x \in Screens, Dark, NEW c, c.verb \in {"newmode", "addmode", "fb"},
           Works(c) \/ Fails(c)
    PROVE  Dark'
  <1>1. c.verb \in Verbs BY DEF Verbs
  <1>2. x'.active = x.active /\ x'.region = x.region
    BY <1>1, Effects DEF Works, Fails
  <1> QED BY <1>2 DEF Dark

LEMMA DarkAttached == Dark => Attached
  BY DEF Dark, Attached

LEMMA CreateShown ==
    ASSUME Types, NEW s \in Sources, ShownFor(s), Create(s)
    PROVE  ShownFor(s)'
  <1>0. s \in Sources /\ x \in Screens /\ Dark /\ src[s].w \in Sizes /\ src[s].pc = "create"
    BY SourceFields DEF ShownFor, ShownBy, Create, Quiet
  <1>1. CASE QueryFails(s)
    <2>1. x' = x BY <1>1, QueryKeeps
    <2>2. Attached' BY <2>1 DEF ShownFor, Attached
    <2> QED BY <1>0, <1>1, <2>2, GotoFields, LeaveShown DEF QueryFails, Quiet
  <1>2. CASE Free # {} /\ NewMode(s, Min(Free))
    <2> DEFINE c == Cmd("newmode", None, src[s].w)
    <2>1. Dark'
      <3>1. c.verb = "newmode" BY CmdFields
      <3>2. Works(c) \/ Fails(c) BY <1>2 DEF NewMode
      <3> HIDE DEF c
      <3> QED BY <1>0, <3>1, <3>2, DarkStep
    <2>2. src'[s].pc \in {"addmode", "failed"} /\ src'[s].out \in Outputs
      <3>1. src[s] \in Objects /\ src \in [Sources -> Objects] BY DEF Types, TypeOK
      <3>2. Min(Free) \in Outputs BY <1>2, FreeType
      <3>3. PICK pc \in {"addmode", "failed"} :
                 src' = [src EXCEPT ![s].pc = pc, ![s].out = Min(Free)]
        BY <1>2 DEF NewMode
      <3> QED BY <1>0, <3>1, <3>2, <3>3 DEF Objects
    <2>3. ShownBy(src[s])' BY <2>1, <2>2 DEF ShownBy
    <2> QED BY <2>1, <2>3, DarkAttached DEF ShownFor, Dark, Attached
  <1>3. CASE Free = {} /\ Enlarge(s)
    <2> DEFINE c == Cmd("fb", None, Enlarged(s))
    <2>1. c.verb = "fb" /\ c.w = Enlarged(s) BY CmdFields
    <2>2. Works(c) \/ Fails(c) BY <1>3 DEF Enlarge
    <2>3. Dark'
      <3> HIDE DEF c
      <3> QED BY <1>0, <2>1, <2>2, DarkStep
    <2>4. Attached' BY <2>3 DEF Dark, Attached
    <2>5. CASE Goto(s, "failed")
      BY <1>0, <2>4, <2>5, GotoFields, LeaveShown DEF Quiet
    <2>6. CASE Works(c) /\ src' = [src EXCEPT ![s].pc = "setmonitor", ![s].origFb = x.fb]
      <3>1. src[s] \in Objects /\ src \in [Sources -> Objects] BY DEF Types, TypeOK
      <3>2. src'[s].pc = "setmonitor" /\ src'[s].w = src[s].w
        BY <1>0, <2>6, <3>1 DEF Objects
      <3>3. x'.fb = Enlarged(s)
        <4> HIDE DEF c
        <4>1. c.verb \in Verbs BY <2>1 DEF Verbs
        <4> QED BY <1>0, <2>1, <2>6, <4>1, Effects DEF Works
      <3>4. Enlarged(s) >= src[s].w BY <1>0, EnlargedAbove
      <3>5. ShownBy(src[s])' BY <2>3, <3>2, <3>3, <3>4 DEF ShownBy
      <3> QED BY <2>4, <3>5 DEF ShownFor
    <2> QED BY <1>3, <2>5, <2>6 DEF Enlarge
  <1> QED BY <1>1, <1>2, <1>3 DEF Create

LEMMA AddModeShown ==
    ASSUME Types, NEW s \in Sources, ShownFor(s), AddMode(s)
    PROVE  ShownFor(s)'
  <1> DEFINE c == Cmd("addmode", src[s].out, src[s].w)
             list == {Cmd("rmmode", src[s].out, src[s].w)}
  <1>0. /\ s \in Sources /\ x \in Screens /\ Dark /\ src[s].out \in Outputs
        /\ c.verb = "addmode"
    BY SourceFields, CmdFields DEF ShownFor, ShownBy, AddMode
  <1>1. Works(c) \/ Fails(c) BY DEF AddMode
  <1>2. Dark'
    <2> HIDE DEF c
    <2> QED BY <1>0, <1>1, DarkStep
  <1>3. Attached' BY <1>2 DEF Dark, Attached
  <1>4. CASE Goto(s, "enable")
    <2>1. src'[s].pc = "enable" /\ src'[s].out = src[s].out BY <1>0, <1>4, GotoFields
    <2>2. ShownBy(src[s])' BY <1>0, <1>2, <2>1 DEF ShownBy
    <2> QED BY <1>3, <2>2 DEF ShownFor
  <1>5. CASE Work(s, src[s], "undo", list)
    <2>1. src'[s].pc = "undo" BY <1>0, <1>5, WorkFields
    <2> QED BY <1>3, <2>1, LeaveShown
  <1> QED BY <1>4, <1>5 DEF AddMode

LEMMA EnableShown ==
    ASSUME Types, NEW s \in Sources, ShownFor(s), Enable(s)
    PROVE  ShownFor(s)'
  <1> DEFINE c == Cmd("enable", src[s].out, src[s].w)
             list == UndoMode(src[s].out, src[s].w)
  <1>0. /\ s \in Sources /\ x \in Screens /\ Dark /\ src[s].out \in Outputs
        /\ c.verb = "enable" /\ c.out = src[s].out /\ c.w = src[s].w
        /\ c.verb \in Verbs /\ x.active \in [Outputs -> Sizes \cup {None}]
    BY SourceFields, CmdFields DEF ShownFor, ShownBy, Enable, Verbs, Screens
  <1>1. Works(c) \/ Fails(c) BY DEF Enable
  <1>2. Attached'
    <2> HIDE DEF c
    <2> QED BY <1>0, <1>1, AttachedStep DEF ShownFor
  <1>3. CASE Works(c) /\ src' = [src EXCEPT ![s].pc = "after", ![s].method = "output"]
    <2>1. src[s] \in Objects /\ src \in [Sources -> Objects] BY DEF Types, TypeOK
    <2>2. /\ src'[s].pc = "after" /\ src'[s].method = "output"
          /\ src'[s].out = src[s].out /\ src'[s].w = src[s].w
      BY <1>0, <1>3, <2>1 DEF Objects
    <2>3. x'.active = [x.active EXCEPT ![src[s].out] = src[s].w] /\ x'.region = x.region
      <3> HIDE DEF c
      <3>1. x' = Outcome(c) BY <1>3 DEF Works
      <3>2. x'.active = [x.active EXCEPT ![c.out] = c.w] /\ x'.region = x.region
        BY <1>0, <3>1, Effects
      <3> QED BY <1>0, <3>2
    <2>4. Lit(src[s])' BY <1>0, <2>2, <2>3 DEF Lit, Dark
    <2>5. ShownBy(src[s])' BY <2>2, <2>4 DEF ShownBy
    <2> QED BY <1>2, <2>5 DEF ShownFor
  <1>4. CASE Work(s, src[s], "undo", list)
    <2>1. list # {} BY DEF UndoMode
    <2> HIDE DEF list
    <2>2. src'[s].pc = "undo" BY <1>0, <1>4, <2>1, WorkFields
    <2> QED BY <1>2, <2>2, LeaveShown
  <1> QED BY <1>3, <1>4 DEF Enable

LEMMA SetMonitorShown ==
    ASSUME Types, NEW s \in Sources, ShownFor(s), SetMonitor(s)
    PROVE  ShownFor(s)'
  <1> DEFINE c == Cmd("setmonitor", None, src[s].w)
             list == {Cmd("fb", None, src[s].origFb)}
  <1>0. /\ s \in Sources /\ x \in Screens /\ Dark /\ x.fb >= src[s].w
        /\ c.verb = "setmonitor" /\ c.w = src[s].w /\ c.verb \in Verbs
    BY SourceFields, CmdFields DEF ShownFor, ShownBy, SetMonitor, Verbs
  <1>1. Works(c) \/ Fails(c) BY DEF SetMonitor
  <1>2. Attached'
    <2> HIDE DEF c
    <2> QED BY <1>0, <1>1, AttachedStep DEF ShownFor
  <1>3. CASE Works(c) /\ src' = [src EXCEPT ![s].pc = "created", ![s].method = "setmonitor"]
    <2>1. src[s] \in Objects /\ src \in [Sources -> Objects] BY DEF Types, TypeOK
    <2>2. /\ src'[s].pc = "created" /\ src'[s].method = "setmonitor"
          /\ src'[s].w = src[s].w
      BY <1>0, <1>3, <2>1 DEF Objects
    <2>3. x'.active = x.active /\ x'.region = src[s].w /\ x'.fb = x.fb
      <3> HIDE DEF c
      <3>1. x' = Outcome(c) BY <1>3 DEF Works
      <3>2. x'.active = x.active /\ x'.region = c.w /\ x'.fb = x.fb
        BY <1>0, <3>1, Effects
      <3> QED BY <1>0, <3>2
    <2>4. Marked(src[s])' BY <1>0, <2>2, <2>3 DEF Marked, Dark
    <2>5. ShownBy(src[s])' BY <2>2, <2>4 DEF ShownBy
    <2> QED BY <1>2, <2>5 DEF ShownFor
  <1>4. CASE Work(s, src[s], "undo", list)
    <2>1. list # {} OBVIOUS
    <2> HIDE DEF list
    <2>2. src'[s].pc = "undo" BY <1>0, <1>4, <2>1, WorkFields
    <2> QED BY <1>2, <2>2, LeaveShown
  <1> QED BY <1>3, <1>4 DEF SetMonitor

LEMMA OnwardShown ==
    ASSUME Types, NEW s \in Sources, ShownFor(s), x' = x, NEW pc, Goto(s, pc),
           \/ src[s].pc = "after" /\ pc = "created"
           \/ src[s].pc = "created" /\ pc = "live"
    PROVE  ShownFor(s)'
  <1>0. s \in Sources OBVIOUS
  <1>1. /\ src'[s].pc = pc /\ src'[s].method = src[s].method
        /\ src'[s].out = src[s].out /\ src'[s].w = src[s].w
    BY <1>0, GotoFields
  <1>2. Lit(src[s])' <=> Lit(src[s]) BY <1>1 DEF Lit
  <1>3. Marked(src[s])' <=> Marked(src[s]) BY <1>1 DEF Marked
  <1>4. ShownBy(src[s]) BY <1>0 DEF ShownFor
  <1>5. ShownBy(src[s])' BY <1>1, <1>2, <1>3, <1>4 DEF ShownBy
  <1> QED BY <1>5 DEF ShownFor, Attached

LEMMA ReadBackShown ==
    ASSUME Types, NEW s \in Sources, ShownFor(s), ReadBack(s)
    PROVE  ShownFor(s)'
  <1>0. s \in Sources OBVIOUS
  <1>1. x' = x BY QueryKeeps DEF ReadBack
  <1>2. Attached' BY <1>1 DEF ShownFor, Attached
  <1>3. CASE QueryFails(s)
    BY <1>0, <1>2, <1>3, GotoFields, LeaveShown DEF QueryFails, Quiet
  <1>4. CASE Goto(s, "created")
    BY <1>1, <1>4, OnwardShown DEF ReadBack
  <1> QED BY <1>3, <1>4 DEF ReadBack

LEMMA StopShown ==
    ASSUME Types, NEW s \in Sources, ShownFor(s), BuildPipeline(s) \/ Stop(s)
    PROVE  ShownFor(s)'
  <1>0. s \in Sources OBVIOUS
  <1>1. x' = x BY DEF BuildPipeline, Stop, Cleanup
  <1>2. Attached' BY <1>1 DEF ShownFor, Attached
  <1>3. CASE Cleanup(s)
    <2>1. CleanupCommands(src[s]) # {} BY DEF CleanupCommands
    <2>2. src'[s].pc = "cleanup" BY <1>0, <1>3, <2>1, WorkFields DEF Cleanup
    <2> QED BY <1>2, <2>2, LeaveShown
  <1>4. CASE src[s].pc = "created" /\ Goto(s, "live")
    BY <1>1, <1>4, OnwardShown
  <1> QED BY <1>3, <1>4 DEF BuildPipeline, Stop

LEMMA InitShown == Init => Shown
  <1> SUFFICES ASSUME Init PROVE Shown
    OBVIOUS
  <1>1. Attached BY DEF Init, Pristine, Attached
  <1>2. \A s \in Sources : src[s].pc = "idle" BY NewSourceType DEF Init
  <1> QED BY <1>1, <1>2 DEF Shown, ShownBy

LEMMA StepShown ==
    ASSUME Types, Reliable, NEW s \in Sources, ShownFor(s), Step(s) \/ ReadBack(s)
    PROVE  ShownFor(s)'
  BY BeginShown, CleanStaleShown, RunListedShown, CreateShown, AddModeShown,
     EnableShown, SetMonitorShown, StopShown, ReadBackShown DEF Step

LEMMA NextShown == Reliable /\ Types /\ Shown /\ [Next]_vars => Shown'
  <1> SUFFICES ASSUME Reliable, Types, Shown, [Next]_vars PROVE Shown'
    OBVIOUS
  <1>1. CASE UNCHANGED vars
    <2>1. x' = x /\ src' = src BY <1>1 DEF vars
    <2>2. NewSource' = NewSource BY DEF NewSource, None
    <2> QED BY <2>1, <2>2 DEF Shown, Alone, ShownBy, Attached, Doomed, Dark, Lit, Marked
  <1>2. ASSUME NEW s \in Sources, Step(s) \/ ReadBack(s) PROVE Shown'
    <2>1. Attached'
      <3>1. CASE x' = x BY <3>1 DEF Shown, Attached
      <3>2. ASSUME NEW c, c.verb \in Verbs, Works(c) \/ Fails(c) PROVE Attached'
        BY <3>2, AttachedStep DEF Shown, Types, TypeOK
      <3> QED BY <1>2, <3>1, <3>2, StepCommand
    <2>2. ASSUME NEW t \in Sources, Alone(t)' PROVE ShownBy(src[t])'
      <3>1. t = s /\ Alone(t) BY <1>2, <2>2, AloneFrame
      <3>2. ShownFor(s) BY <3>1 DEF Shown, ShownFor
      <3>3. ShownFor(s)' BY <1>2, <3>2, StepShown
      <3> QED BY <3>1, <3>3 DEF ShownFor
    <2> QED BY <2>1, <2>2 DEF Shown
  <1>3. CASE Crash
    <2>1. Attached' BY <1>3 DEF Crash, Shown, Attached
    <2>2. \A t \in Sources : src'[t].pc = "idle" BY <1>3, NewSourceType DEF Crash
    <2>3. ASSUME NEW t \in Sources PROVE ShownBy(src[t])' BY <2>2 DEF ShownBy
    <2> QED BY <2>1, <2>3 DEF Shown
  <1> QED BY <1>1, <1>2, <1>3 DEF Next

\* For every number of sources, connectors and sizes: a source that starts
\* after a crash at any moment, or after a start that lost its output, has
\* removed what was left when it goes live (clean_stale), and stays the only
\* one until another is begun.
THEOREM OwnIsShown ==
    ASSUME Reliable
    PROVE  Spec => []OnlyOwnShown
  <1>1. Shown => OnlyOwnShown
    BY DEF Shown, ShownBy, Lit, Marked, OnlyOwnShown, Has
  <1> QED BY <1>1, InitShown, NextShown, SpecTypes, PTL DEF Spec

-----------------------------------------------------------------------------
(* What a source that is alone has made of the X server, rung by rung, as  *)
(* long as nothing was lost; undoing goes down the same rungs.             *)

NoModes == [o \in Outputs |-> {}]
AllOff == [o \in Outputs |-> None]
OnlyAt(o, v, none) == [p \in Outputs |-> IF p = o THEN v ELSE none]
Looks(modes, attached, active, region, fb) ==
    /\ x.modes = modes /\ x.attached = attached /\ x.active = active
    /\ x.region = region /\ x.fb = fb
Clean == Looks({}, NoModes, AllOff, None, 0)
Made(S) == Looks({S.w}, NoModes, AllOff, None, 0)
Added(S) == Looks({S.w}, OnlyAt(S.out, {S.w}, {}), AllOff, None, 0)
Enabled(S) == Looks({S.w}, OnlyAt(S.out, {S.w}, {}), OnlyAt(S.out, S.w, None), None, S.w)
Wide(S) == Looks({}, NoModes, AllOff, None, S.w)
Region(S) == Looks({}, NoModes, AllOff, S.w, S.w)

OnOutput(S) == S.out \in Outputs /\ S.w \in Sizes
ToRemove(S) == Cmd("rmmode", S.out, S.w)
ToDelete(S) == Cmd("delmode", S.out, S.w)
ToSwitchOff(S) == Cmd("off", S.out, None)
ToShrink == Cmd("fb", None, 0)
ToUnmark == Cmd("delmonitor", None, None)
Undone(S) ==
    \/ OnOutput(S) /\ Made(S) /\ S.todo = {ToRemove(S)}
    \/ OnOutput(S) /\ Added(S) /\ S.todo = {ToDelete(S), ToRemove(S)}
    \/ OnOutput(S) /\ Enabled(S) /\ S.todo = {ToSwitchOff(S), ToDelete(S), ToRemove(S)}
    \/ S.w \in Sizes /\ Wide(S) /\ S.todo = {ToShrink}
    \/ S.w \in Sizes /\ Region(S) /\ S.todo = {ToUnmark, ToShrink}
OnRung(S) ==
    /\ S.pc \in Quiet \cup {"begin", "create"} => Clean
    /\ S.pc = "stale" => Clean /\ S.todo = {ToUnmark}
    /\ S.pc = "addmode" => OnOutput(S) /\ Made(S)
    /\ S.pc = "enable" => OnOutput(S) /\ Added(S)
    /\ S.pc = "setmonitor" => S.w \in Sizes /\ Wide(S) /\ S.origFb = 0
    /\ S.pc = "after" => S.method = "output"
    /\ S.pc \in {"after", "created", "live"} =>
         \/ S.method = "output" /\ OnOutput(S) /\ Enabled(S)
         \/ S.method = "setmonitor" /\ S.w \in Sizes /\ Region(S) /\ S.origFb = 0
    /\ S.pc \in {"undo", "cleanup"} => Undone(S)
Rungs == ~lost => \A s \in Sources : Alone(s) => OnRung(src[s])

LEMMA CleanIs ==
    ASSUME x \in Screens
    PROVE  Clean <=> x = Pristine(x.taken)
  BY DEF Clean, Looks, NoModes, AllOff, Pristine, Screens

LEMMA NotClean ==
    ASSUME NEW S, S.w \in Sizes,
           Made(S) \/ Added(S) \/ Enabled(S) \/ Wide(S) \/ Region(S)
    PROVE  ~Clean
  <1>1. S.w # 0 BY DEF Sizes
  <1> QED BY <1>1 DEF Made, Added, Enabled, Wide, Region, Clean, Looks

LEMMA BoxOff == Box(AllOff) = 0
  <1> DEFINE S == {AllOff[o] : o \in Outputs} \cup {0}
  <1>1. S = {0} BY DEF AllOff, None
  <1>2. Max({0}) \in {0} BY MaxOf
  <1> QED BY <1>1, <1>2 DEF Box

LEMMA BoxOn ==
    ASSUME NEW o \in Outputs, NEW w \in Sizes
    PROVE  Box(OnlyAt(o, w, None)) = w
  <1> DEFINE a == OnlyAt(o, w, None)
             S == {a[p] : p \in Outputs} \cup {0}
  <1>1. \A p \in Outputs : a[p] = IF p = o THEN w ELSE 0 BY DEF OnlyAt, None
  <1> HIDE DEF a
  <1>2. MaxSize \in Nat /\ w \in 1..MaxSize BY ExtendAssumption DEF Sizes
  <1>3. S \subseteq {0, w} /\ w \in S BY <1>1
  <1>4. Box(a) = Max(S) BY DEF Box
  <1> HIDE DEF S
  <1>5. S \subseteq 0..MaxSize /\ S # {} BY <1>2, <1>3
  <1>6. Max(S) \in S /\ \A y \in S : Max(S) >= y BY <1>2, <1>5, MaxOf
  <1>7. Max(S) \in {0, w} /\ Max(S) >= w BY <1>3, <1>6
  <1> QED BY <1>2, <1>4, <1>7 DEF a

LEMMA Switched ==
    ASSUME NEW o \in Outputs, NEW w
    PROVE  /\ [AllOff EXCEPT ![o] = w] = OnlyAt(o, w, None)
           /\ [OnlyAt(o, w, None) EXCEPT ![o] = None] = AllOff
           /\ [NoModes EXCEPT ![o] = NoModes[o] \cup {w}] = OnlyAt(o, {w}, {})
           /\ [OnlyAt(o, {w}, {}) EXCEPT ![o] = OnlyAt(o, {w}, {})[o] \ {w}] = NoModes
  BY DEF AllOff, OnlyAt, NoModes

\* A reliable command of a list works when it is possible.
LEMMA Removes ==
    ASSUME Reliable, NEW c, c.verb \in {"delmonitor", "off", "delmode", "rmmode"},
           Possible(c), Works(c) \/ Fails(c)
    PROVE  x' = Outcome(c)
  BY ReliableWorks DEF Works

\* One step down.  The commands of an output go in the order off, delmode,
\* rmmode, so each is possible when it is run.
LEMMA UndoneStep ==
    ASSUME Types, Reliable, NEW s \in Sources, Undone(src[s]),
           NEW c \in src[s].todo, \A d \in src[s].todo : ~Before(d, c),
           Works(c) \/ Fails(c), src'[s].todo = src[s].todo \ {c},
           src'[s].out = src[s].out, src'[s].w = src[s].w
    PROVE  /\ src'[s].todo = {} => Clean'
           /\ src'[s].todo # {} => Undone(src[s])'
  <1> DEFINE o == src[s].out  w == src[s].w
  <1>0. x \in Screens /\ c.verb \in Verbs BY SourceFields DEF Cmds
  <1>1. CASE OnOutput(src[s]) /\ Made(src[s]) /\ src[s].todo = {ToRemove(src[s])}
    <2>1. c.verb = "rmmode" /\ c.w = w /\ src[s].todo \ {c} = {}
      BY <1>1, CmdFields DEF ToRemove
    <2>2. x.modes = {w} /\ x.attached = NoModes BY <1>1 DEF Made, Looks
    <2>3. Possible(c) BY <2>1, <2>2, PossibleIs DEF NoModes
    <2>4. x' = Outcome(c) BY <2>1, <2>3, Removes
    <2>5. /\ x'.modes = x.modes \ {w} /\ x'.attached = x.attached
          /\ x'.active = x.active /\ x'.region = x.region /\ x'.fb = x.fb
      <3>1. /\ x'.modes = x.modes \ {c.w} /\ x'.attached = x.attached
            /\ x'.active = x.active /\ x'.region = x.region /\ x'.fb = x.fb
        BY <1>0, <2>1, <2>4, Effects
      <3> QED BY <2>1, <3>1
    <2>6. Clean' BY <1>1, <2>5 DEF Made, Clean, Looks, NoModes, AllOff
    <2> QED BY <2>1, <2>6
  <1>2. CASE /\ OnOutput(src[s]) /\ Added(src[s])
             /\ src[s].todo = {ToDelete(src[s]), ToRemove(src[s])}
    <2>1. Before(ToDelete(src[s]), ToRemove(src[s]))
      BY CmdFields DEF Before, Sooner, ToDelete, ToRemove
    <2>2. c = ToDelete(src[s]) BY <1>2, <2>1
    <2>3. c.verb = "delmode" /\ c.w = w /\ c.out = o /\ c # ToRemove(src[s])
      BY <2>2, CmdFields DEF ToDelete, ToRemove
    <2>4. x.attached = OnlyAt(o, {w}, {}) /\ x.active = AllOff /\ o \in Outputs /\ w \in Sizes
      BY <1>2 DEF Added, Looks, OnOutput
    <2>5. w \in x.attached[o] /\ x.active[o] # w
      BY <2>4 DEF OnlyAt, AllOff, Sizes, None
    <2>6. Possible(c) BY <2>3, <2>5, PossibleIs
    <2>7. x' = Outcome(c) BY <2>3, <2>6, Removes
    <2>8. /\ x'.attached = [x.attached EXCEPT ![o] = x.attached[o] \ {w}]
          /\ x'.modes = x.modes /\ x'.active = x.active
          /\ x'.region = x.region /\ x'.fb = x.fb
      <3>1. /\ x'.attached = [x.attached EXCEPT ![c.out] = x.attached[c.out] \ {c.w}]
            /\ x'.modes = x.modes /\ x'.active = x.active
            /\ x'.region = x.region /\ x'.fb = x.fb
        BY <1>0, <2>3, <2>7, Effects
      <3> HIDE DEF o, w
      <3> QED BY <2>3, <3>1
    <2>9. x'.attached = NoModes
      <3>1. x'.attached = [OnlyAt(o, {w}, {}) EXCEPT ![o] = OnlyAt(o, {w}, {})[o] \ {w}]
        BY <2>4, <2>8
      <3> HIDE DEF o, w
      <3> QED BY <2>4, <3>1, Switched
    <2>10. Made(src[s])'
      <3>1. AllOff' = AllOff /\ NoModes' = NoModes BY DEF AllOff, NoModes
      <3> QED BY <1>2, <2>8, <2>9, <3>1 DEF Added, Made, Looks
    <2>11. src'[s].todo = {ToRemove(src[s])} BY <1>2, <2>2, <2>3
    <2>12. OnOutput(src[s])' /\ ToRemove(src[s])' = ToRemove(src[s])
      BY <1>2 DEF OnOutput, ToRemove
    <2>13. Undone(src[s])' BY <2>10, <2>11, <2>12 DEF Undone
    <2> QED BY <2>11, <2>13
  <1>3. CASE /\ OnOutput(src[s]) /\ Enabled(src[s])
             /\ src[s].todo = {ToSwitchOff(src[s]), ToDelete(src[s]), ToRemove(src[s])}
    <2>1. /\ Before(ToSwitchOff(src[s]), ToDelete(src[s]))
          /\ Before(ToSwitchOff(src[s]), ToRemove(src[s]))
      BY CmdFields DEF Before, Sooner, ToSwitchOff, ToDelete, ToRemove
    <2>2. c = ToSwitchOff(src[s]) BY <1>3, <2>1
    <2>3. c.verb = "off" /\ c.out = o /\ c # ToRemove(src[s]) /\ c # ToDelete(src[s])
      BY <2>2, CmdFields DEF ToSwitchOff, ToDelete, ToRemove
    <2>4. x.active = OnlyAt(o, w, None) /\ o \in Outputs
      BY <1>3 DEF Enabled, Looks, OnOutput
    <2>5. Possible(c) BY <2>3, PossibleIs
    <2>6. x' = Outcome(c) BY <2>3, <2>5, Removes
    <2>7. /\ x'.active = [x.active EXCEPT ![o] = None] /\ x'.fb = Box(x'.active)
          /\ x'.modes = x.modes /\ x'.attached = x.attached /\ x'.region = x.region
      <3>1. /\ x'.active = [x.active EXCEPT ![c.out] = None] /\ x'.fb = Box(x'.active)
            /\ x'.modes = x.modes /\ x'.attached = x.attached /\ x'.region = x.region
        BY <1>0, <2>3, <2>6, Effects
      <3> HIDE DEF o
      <3> QED BY <2>3, <3>1
    <2>8. x'.active = AllOff
      <3>1. x'.active = [OnlyAt(o, w, None) EXCEPT ![o] = None] BY <2>4, <2>7
      <3> HIDE DEF o, w
      <3> QED BY <2>4, <3>1, Switched
    <2>9. x'.fb = 0 BY <2>7, <2>8, BoxOff
    <2>10. Added(src[s])'
      <3>1. /\ AllOff' = AllOff
            /\ OnlyAt(src'[s].out, {src'[s].w}, {}) = OnlyAt(src[s].out, {src[s].w}, {})
        BY DEF AllOff
      <3> QED BY <1>3, <2>7, <2>8, <2>9, <3>1 DEF Added, Enabled, Looks
    <2>11. src'[s].todo = {ToDelete(src[s]), ToRemove(src[s])} BY <1>3, <2>2, <2>3
    <2>12. /\ OnOutput(src[s])' /\ ToRemove(src[s])' = ToRemove(src[s])
           /\ ToDelete(src[s])' = ToDelete(src[s])
      BY <1>3 DEF OnOutput, ToRemove, ToDelete
    <2>13. Undone(src[s])' BY <2>10, <2>11, <2>12 DEF Undone
    <2> QED BY <2>11, <2>13
  <1>4. CASE src[s].w \in Sizes /\ Wide(src[s]) /\ src[s].todo = {ToShrink}
    <2>1. c.verb = "fb" /\ c.w = 0 /\ src[s].todo \ {c} = {}
      BY <1>4, CmdFields DEF ToShrink
    <2>2. Shrinks(c) BY <1>0, <2>1, SourceFields DEF Shrinks
    <2>3. Possible(c) BY <2>1, PossibleIs
    <2>4. x' = Outcome(c) BY <2>2, <2>3 DEF Works, Fails
    <2>5. /\ x'.fb = 0 /\ x'.modes = x.modes /\ x'.attached = x.attached
          /\ x'.active = x.active /\ x'.region = x.region
      BY <1>0, <2>1, <2>4, Effects
    <2>6. Clean' BY <1>4, <2>5 DEF Wide, Clean, Looks, NoModes, AllOff
    <2> QED BY <2>1, <2>6
  <1>5. CASE src[s].w \in Sizes /\ Region(src[s]) /\ src[s].todo = {ToUnmark, ToShrink}
    <2>1. Before(ToUnmark, ToShrink) BY CmdFields DEF Before, Sooner, ToUnmark, ToShrink
    <2>2. c = ToUnmark BY <1>5, <2>1
    <2>3. c.verb = "delmonitor" /\ c # ToShrink BY <2>2, CmdFields DEF ToUnmark, ToShrink
    <2>4. x.region # None BY <1>5 DEF Region, Looks, Sizes, None
    <2>5. Possible(c) BY <2>3, <2>4, PossibleIs
    <2>6. x' = Outcome(c) BY <2>3, <2>5, Removes
    <2>7. /\ x'.region = None /\ x'.modes = x.modes /\ x'.attached = x.attached
          /\ x'.active = x.active /\ x'.fb = x.fb
      BY <1>0, <2>3, <2>6, Effects
    <2>8. Wide(src[s])' BY <1>5, <2>7 DEF Wide, Region, Looks, NoModes, AllOff
    <2>9. src'[s].todo = {ToShrink} BY <1>5, <2>2, <2>3
    <2>10. ToShrink' = ToShrink BY DEF ToShrink, Cmd, None
    <2>11. Undone(src[s])' BY <1>5, <2>8, <2>9, <2>10 DEF Undone
    <2> QED BY <2>9, <2>11
  <1> QED BY <1>1, <1>2, <1>3, <1>4, <1>5 DEF Undone

LEMMA CleanKept == ASSUME Clean, x' = x PROVE Clean'
  BY DEF Clean, Looks, NoModes, AllOff

LEMMA BeginRungs ==
    ASSUME Types, NEW s \in Sources, OnRung(src[s]), NEW w, Begin(s, w)
    PROVE  OnRung(src[s])'
  <1>1. Clean BY DEF Begin, OnRung
  <1>2. Clean' BY <1>1, CleanKept DEF Begin
  <1>3. src'[s].pc \in {"begin", "idle"} BY BeginGoes
  <1> QED BY <1>2, <1>3 DEF OnRung, Quiet

LEMMA CleanStaleRungs ==
    ASSUME Types, NEW s \in Sources, OnRung(src[s]), CleanStale(s)
    PROVE  OnRung(src[s])'
  <1>1. Clean BY DEF CleanStale, OnRung
  <1>2. Clean' BY <1>1, QueryKeeps, CleanKept DEF CleanStale
  <1>3. CASE QueryFails(s)
    <2>1. src'[s].pc = "failed" BY <1>3, GotoFields DEF QueryFails
    <2> QED BY <1>2, <2>1 DEF OnRung, Quiet
  <1>4. CASE Work(s, src[s], "stale", StaleCommands)
    <2>1. \A o \in Outputs : StaleOn(o) = {}
      BY <1>1 DEF Clean, Looks, NoModes, AllOff, StaleOn, DeleteStale
    <2>2. StaleCommands = {ToUnmark} BY <2>1 DEF StaleCommands, ToUnmark
    <2>3. src'[s].pc = "stale" /\ src'[s].todo = {ToUnmark}
      BY <1>4, <2>2, WorkFields
    <2>4. ToUnmark' = ToUnmark BY DEF ToUnmark, Cmd, None
    <2> QED BY <1>2, <2>3, <2>4 DEF OnRung, Quiet
  <1> QED BY <1>3, <1>4 DEF CleanStale

LEMMA RunListedRungs ==
    ASSUME Types, Reliable, NEW s \in Sources, OnRung(src[s]), RunListed(s)
    PROVE  OnRung(src[s])'
  <1>1. PICK c \in src[s].todo : /\ \A d \in src[s].todo : ~Before(d, c)
                                 /\ Works(c) \/ Fails(c)
                                 /\ Work(s, src[s], src[s].pc, src[s].todo \ {c})
    BY DEF RunListed
  <1>2. /\ src'[s].pc = IF src[s].todo \ {c} = {} THEN After(src[s].pc) ELSE src[s].pc
        /\ src'[s].todo = src[s].todo \ {c}
        /\ src'[s].out = src[s].out /\ src'[s].w = src[s].w
    BY <1>1, WorkFields
  <1>3. CASE src[s].pc = "stale"
    <2>1. Clean /\ src[s].todo = {ToUnmark} BY <1>3 DEF OnRung
    <2>2. c.verb = "delmonitor" /\ src[s].todo \ {c} = {}
      BY <1>1, <2>1, CmdFields DEF ToUnmark
    <2>3. x.region = None BY <2>1 DEF Clean, Looks
    <2>4. ~Possible(c) BY <2>2, <2>3, PossibleIs
    <2>5. x' = x BY <1>1, <2>4 DEF Works, Fails
    <2>6. Clean' BY <2>1, <2>5, CleanKept
    <2>7. src'[s].pc = "create" BY <1>2, <1>3, <2>2 DEF After
    <2> QED BY <2>6, <2>7 DEF OnRung, Quiet
  <1>4. CASE src[s].pc \in {"undo", "cleanup"}
    <2>1. Undone(src[s]) BY <1>4 DEF OnRung
    <2>2. /\ src'[s].todo = {} => Clean'
          /\ src'[s].todo # {} => Undone(src[s])'
      BY <1>1, <1>2, <2>1, UndoneStep
    <2>3. CASE src'[s].todo = {}
      <3>1. src'[s].pc \in Quiet BY <1>2, <1>4, <2>3 DEF After, Quiet
      <3> QED BY <2>2, <2>3, <3>1 DEF OnRung, Quiet
    <2>4. CASE src'[s].todo # {}
      <3>1. src'[s].pc = src[s].pc BY <1>2, <2>4
      <3> QED BY <1>4, <2>2, <2>4, <3>1 DEF OnRung, Quiet
    <2> QED BY <2>3, <2>4
  <1> QED BY <1>3, <1>4 DEF RunListed, Listing

LEMMA CreateRungs ==
    ASSUME Types, NEW s \in Sources, OnRung(src[s]), Create(s)
    PROVE  OnRung(src[s])'
  <1>0. /\ src[s].pc = "create" /\ src[s].w \in Sizes /\ x \in Screens /\ Clean
        /\ src[s] \in Objects /\ src \in [Sources -> Objects]
    BY SourceFields DEF Create, Quiet, OnRung, Types, TypeOK
  <1>1. CASE QueryFails(s)
    <2>1. src'[s].pc = "failed" BY <1>1, GotoFields DEF QueryFails
    <2>2. Clean' BY <1>0, <1>1, QueryKeeps, CleanKept
    <2> QED BY <2>1, <2>2 DEF OnRung, Quiet
  <1>2. CASE Free # {} /\ NewMode(s, Min(Free))
    <2> DEFINE c == Cmd("newmode", None, src[s].w)
    <2>0. c.verb = "newmode" /\ c.w = src[s].w /\ c.verb \in Verbs BY CmdFields DEF Verbs
    <2>1. x.modes = {} /\ Possible(c)
      <3> HIDE DEF c
      <3>1. x.modes = {} BY <1>0 DEF Clean, Looks
      <3> QED BY <2>0, <3>1, PossibleIs
    <2>2. CASE Works(c) /\ src' = [src EXCEPT ![s].pc = "addmode", ![s].out = Min(Free)]
      <3>1. src'[s].pc = "addmode" /\ src'[s].out = Min(Free) /\ src'[s].w = src[s].w
        BY <1>0, <2>2 DEF Objects
      <3>2. Min(Free) \in Outputs BY <1>2, FreeType
      <3>3. /\ x'.modes = x.modes \cup {c.w} /\ x'.attached = x.attached
            /\ x'.active = x.active /\ x'.region = x.region /\ x'.fb = x.fb
        <4> HIDE DEF c
        <4> QED BY <1>0, <2>0, <2>2, Effects DEF Works
      <3>4. x'.modes = {src[s].w} BY <2>0, <2>1, <3>3
      <3>5. Made(src[s])' BY <1>0, <3>1, <3>3, <3>4 DEF Made, Clean, Looks, NoModes, AllOff
      <3>6. OnOutput(src[s])' BY <1>0, <3>1, <3>2 DEF OnOutput, Outputs, Sizes
      <3> QED BY <3>1, <3>5, <3>6 DEF OnRung, Quiet
    <2>3. CASE /\ Fails(c)
               /\ src' = [src EXCEPT ![s].pc = IF src[s].w \in x.modes THEN "addmode"
                                                                       ELSE "failed",
                                     ![s].out = Min(Free)]
      <3>1. src'[s].pc = "failed" BY <1>0, <2>1, <2>3 DEF Objects
      <3>2. x' = x BY <2>3 DEF Fails
      <3>3. Clean' BY <1>0, <3>2, CleanKept
      <3> QED BY <3>1, <3>3 DEF OnRung, Quiet
    <2> QED BY <1>2, <2>2, <2>3 DEF NewMode
  <1>3. CASE Free = {} /\ Enlarge(s)
    <2> DEFINE c == Cmd("fb", None, Enlarged(s))
    <2>0. c.verb = "fb" /\ c.w = Enlarged(s) /\ c.verb \in Verbs BY CmdFields DEF Verbs
    <2>1. CASE Fails(c) /\ Goto(s, "failed")
      <3>1. src'[s].pc = "failed" BY <2>1, GotoFields
      <3>2. Clean' BY <1>0, <2>1, CleanKept DEF Fails
      <3> QED BY <3>1, <3>2 DEF OnRung, Quiet
    <2>2. CASE Works(c) /\ src' = [src EXCEPT ![s].pc = "setmonitor", ![s].origFb = x.fb]
      <3>1. src'[s].pc = "setmonitor" /\ src'[s].origFb = x.fb /\ src'[s].w = src[s].w
        BY <1>0, <2>2 DEF Objects
      <3>2. x.fb = 0 BY <1>0 DEF Clean, Looks
      <3>3. Enlarged(s) = src[s].w
        <4>1. Enlarged(s) \in {x.fb, src[s].w} BY <1>0, EnlargedType
        <4>2. Enlarged(s) >= src[s].w BY <1>0, EnlargedAbove
        <4> QED BY <1>0, <3>2, <4>1, <4>2 DEF Sizes
      <3>4. /\ x'.fb = c.w /\ x'.modes = x.modes /\ x'.attached = x.attached
            /\ x'.active = x.active /\ x'.region = x.region
        <4> HIDE DEF c
        <4> QED BY <1>0, <2>0, <2>2, Effects DEF Works
      <3>5. x'.fb = src[s].w BY <2>0, <3>3, <3>4
      <3>6. Wide(src[s])' BY <1>0, <3>1, <3>4, <3>5 DEF Wide, Clean, Looks, NoModes, AllOff
      <3>7. src'[s].w \in Sizes' BY <1>0, <3>1 DEF Sizes
      <3> QED BY <3>1, <3>2, <3>6, <3>7 DEF OnRung, Quiet
    <2> QED BY <1>3, <2>1, <2>2 DEF Enlarge
  <1> QED BY <1>1, <1>2, <1>3 DEF Create

LEMMA AddModeRungs ==
    ASSUME Types, NEW s \in Sources, OnRung(src[s]), AddMode(s)
    PROVE  OnRung(src[s])'
  <1> DEFINE c == Cmd("addmode", src[s].out, src[s].w)
             o == src[s].out  w == src[s].w
             list == {Cmd("rmmode", o, w)}
  <1>0. /\ src[s].pc = "addmode" /\ x \in Screens /\ OnOutput(src[s]) /\ Made(src[s])
        /\ c.verb = "addmode" /\ c.out = o /\ c.w = w /\ c.verb \in Verbs
    BY SourceFields, CmdFields DEF AddMode, OnRung, Verbs
  <1>1. CASE Works(c) /\ Goto(s, "enable")
    <2>1. src'[s].pc = "enable" /\ src'[s].out = o /\ src'[s].w = w BY <1>1, GotoFields
    <2>2. /\ x'.attached = [x.attached EXCEPT ![o] = x.attached[o] \cup {w}]
          /\ x'.modes = x.modes /\ x'.active = x.active
          /\ x'.region = x.region /\ x'.fb = x.fb
      <3> HIDE DEF c, o, w
      <3>1. /\ x'.attached = [x.attached EXCEPT ![c.out] = x.attached[c.out] \cup {c.w}]
            /\ x'.modes = x.modes /\ x'.active = x.active
            /\ x'.region = x.region /\ x'.fb = x.fb
        BY <1>0, <1>1, Effects DEF Works
      <3> QED BY <1>0, <3>1
    <2>3. x.attached = NoModes /\ o \in Outputs BY <1>0 DEF Made, Looks, OnOutput
    <2>4. x'.attached = OnlyAt(o, {w}, {})
      <3> HIDE DEF o, w
      <3> QED BY <2>2, <2>3, Switched
    <2>5. Added(src[s])' BY <1>0, <2>1, <2>2, <2>4 DEF Added, Made, Looks, AllOff, OnlyAt
    <2>6. OnOutput(src[s])' BY <1>0, <2>1 DEF OnOutput
    <2> QED BY <2>1, <2>5, <2>6 DEF OnRung, Quiet
  <1>2. CASE Fails(c) /\ Work(s, src[s], "undo", list)
    <2>0. list # {} OBVIOUS
    <2>1. /\ src'[s].pc = "undo" /\ src'[s].todo = list
          /\ src'[s].out = o /\ src'[s].w = w
      <3> HIDE DEF list
      <3> QED BY <1>2, <2>0, WorkFields
    <2>2. x' = x BY <1>2 DEF Fails
    <2>3. Made(src[s])' /\ OnOutput(src[s])'
      BY <1>0, <2>1, <2>2 DEF Made, Looks, OnOutput, NoModes, AllOff
    <2>4. src'[s].todo = {ToRemove(src[s])'} BY <2>1 DEF ToRemove, Cmd
    <2>5. Undone(src[s])' BY <2>3, <2>4 DEF Undone
    <2> QED BY <2>1, <2>5 DEF OnRung, Quiet
  <1> QED BY <1>1, <1>2 DEF AddMode

LEMMA EnableRungs ==
    ASSUME Types, NEW s \in Sources, OnRung(src[s]), Enable(s)
    PROVE  OnRung(src[s])'
  <1> DEFINE c == Cmd("enable", src[s].out, src[s].w)
             o == src[s].out  w == src[s].w
             list == UndoMode(o, w)
  <1>0. /\ src[s].pc = "enable" /\ x \in Screens /\ OnOutput(src[s]) /\ Added(src[s])
        /\ c.verb = "enable" /\ c.out = o /\ c.w = w /\ c.verb \in Verbs
        /\ src[s] \in Objects /\ src \in [Sources -> Objects]
    BY SourceFields, CmdFields DEF Enable, OnRung, Verbs, Types, TypeOK
  <1>1. CASE Works(c) /\ src' = [src EXCEPT ![s].pc = "after", ![s].method = "output"]
    <2>1. /\ src'[s].pc = "after" /\ src'[s].method = "output"
          /\ src'[s].out = o /\ src'[s].w = w
      BY <1>0, <1>1 DEF Objects
    <2>2. /\ x'.active = [x.active EXCEPT ![o] = w] /\ x'.fb = Box(x'.active)
          /\ x'.modes = x.modes /\ x'.attached = x.attached /\ x'.region = x.region
      <3> HIDE DEF c, o, w
      <3>1. /\ x'.active = [x.active EXCEPT ![c.out] = c.w] /\ x'.fb = Box(x'.active)
            /\ x'.modes = x.modes /\ x'.attached = x.attached /\ x'.region = x.region
        BY <1>0, <1>1, Effects DEF Works
      <3> QED BY <1>0, <3>1
    <2>3. x.active = AllOff /\ o \in Outputs /\ w \in Sizes
      BY <1>0 DEF Added, Looks, OnOutput
    <2>4. x'.active = OnlyAt(o, w, None)
      <3> HIDE DEF o, w
      <3> QED BY <2>2, <2>3, Switched
    <2>5. x'.fb = w
      <3> HIDE DEF o, w
      <3> QED BY <2>2, <2>3, <2>4, BoxOn
    <2>6. Enabled(src[s])' BY <1>0, <2>1, <2>2, <2>4, <2>5 DEF Enabled, Added, Looks, OnlyAt
    <2>7. OnOutput(src[s])' BY <1>0, <2>1 DEF OnOutput
    <2> QED BY <2>1, <2>6, <2>7 DEF OnRung, Quiet
  <1>2. CASE Fails(c) /\ Work(s, src[s], "undo", list)
    <2>0. list # {} BY DEF UndoMode
    <2>1. /\ src'[s].pc = "undo" /\ src'[s].todo = list
          /\ src'[s].out = o /\ src'[s].w = w
      BY <1>2, <2>0, WorkFields
    <2>2. x' = x BY <1>2 DEF Fails
    <2>3. Added(src[s])' /\ OnOutput(src[s])'
      BY <1>0, <2>1, <2>2 DEF Added, Looks, OnOutput, OnlyAt, AllOff
    <2>4. src'[s].todo = {ToDelete(src[s])', ToRemove(src[s])'}
      BY <2>1 DEF UndoMode, ToDelete, ToRemove, Cmd
    <2>5. Undone(src[s])' BY <2>3, <2>4 DEF Undone
    <2> QED BY <2>1, <2>5 DEF OnRung, Quiet
  <1> QED BY <1>1, <1>2 DEF Enable

LEMMA SetMonitorRungs ==
    ASSUME Types, NEW s \in Sources, OnRung(src[s]), SetMonitor(s)
    PROVE  OnRung(src[s])'
  <1> DEFINE c == Cmd("setmonitor", None, src[s].w)
             list == {Cmd("fb", None, src[s].origFb)}
  <1>0. /\ src[s].pc = "setmonitor" /\ x \in Screens /\ src[s].w \in Sizes
        /\ Wide(src[s]) /\ src[s].origFb = 0
        /\ c.verb = "setmonitor" /\ c.w = src[s].w /\ c.verb \in Verbs
        /\ src[s] \in Objects /\ src \in [Sources -> Objects]
    BY SourceFields, CmdFields DEF SetMonitor, OnRung, Verbs, Types, TypeOK
  <1>1. CASE Works(c) /\ src' = [src EXCEPT ![s].pc = "created", ![s].method = "setmonitor"]
    <2>1. /\ src'[s].pc = "created" /\ src'[s].method = "setmonitor"
          /\ src'[s].w = src[s].w /\ src'[s].origFb = src[s].origFb
      BY <1>0, <1>1 DEF Objects
    <2>2. /\ x'.region = c.w /\ x'.modes = x.modes /\ x'.attached = x.attached
          /\ x'.active = x.active /\ x'.fb = x.fb
      <3> HIDE DEF c
      <3> QED BY <1>0, <1>1, Effects DEF Works
    <2>3. Region(src[s])'
      BY <1>0, <2>1, <2>2 DEF Region, Wide, Looks, NoModes, AllOff
    <2> QED BY <1>0, <2>1, <2>3 DEF OnRung, Quiet
  <1>2. CASE Fails(c) /\ Work(s, src[s], "undo", list)
    <2>1. src'[s].pc = "undo" /\ src'[s].todo = list /\ src'[s].w = src[s].w
      BY <1>2, WorkFields
    <2>2. x' = x BY <1>2 DEF Fails
    <2>3. Wide(src[s])' BY <1>0, <2>1, <2>2 DEF Wide, Looks, NoModes, AllOff
    <2>4. src'[s].todo = {ToShrink'} BY <1>0, <2>1 DEF ToShrink, Cmd, None
    <2>5. Undone(src[s])' BY <1>0, <2>1, <2>3, <2>4 DEF Undone
    <2> QED BY <2>1, <2>5 DEF OnRung, Quiet
  <1> QED BY <1>1, <1>2 DEF SetMonitor

\* What is there stays while a source moves on, or turns to its cleanup.
Here(S) == \/ S.method = "output" /\ OnOutput(S) /\ Enabled(S)
           \/ S.method = "setmonitor" /\ S.w \in Sizes /\ Region(S) /\ S.origFb = 0

LEMMA HereKept ==
    ASSUME NEW s, Here(src[s]), x' = x, src'[s].method = src[s].method,
           src'[s].out = src[s].out, src'[s].w = src[s].w, src'[s].origFb = src[s].origFb
    PROVE  Here(src[s])'
  BY DEF Here, OnOutput, Enabled, Region, Looks, NoModes, AllOff, OnlyAt

LEMMA OnwardRungs ==
    ASSUME Types, NEW s \in Sources, OnRung(src[s]), x' = x, NEW pc, Goto(s, pc),
           \/ src[s].pc = "after" /\ pc = "created"
           \/ src[s].pc = "created" /\ pc = "live"
    PROVE  OnRung(src[s])'
  <1>1. Here(src[s]) BY DEF OnRung, Here
  <1>2. src'[s].pc = pc /\ Here(src[s])' BY <1>1, GotoFields, HereKept
  <1> QED BY <1>2 DEF OnRung, Here, Quiet

LEMMA CleanupRungs ==
    ASSUME Types, NEW s \in Sources, OnRung(src[s]), Cleanup(s),
           src[s].pc \in {"created", "live"}
    PROVE  OnRung(src[s])'
  <1> DEFINE list == CleanupCommands(src[s])
  <1>1. Here(src[s]) BY DEF OnRung, Here
  <1>2. list # {} BY DEF CleanupCommands
  <1>3. /\ src'[s].pc = "cleanup" /\ src'[s].todo = list
        /\ src'[s].method = src[s].method /\ src'[s].out = src[s].out
        /\ src'[s].w = src[s].w /\ src'[s].origFb = src[s].origFb /\ x' = x
    BY <1>2, WorkFields DEF Cleanup
  <1>4. Here(src[s])' BY <1>1, <1>3, HereKept
  <1>5. CASE src[s].method = "output"
    <2>1. OnOutput(src[s])' /\ Enabled(src[s])' BY <1>3, <1>4, <1>5 DEF Here
    <2>2. src'[s].todo = {ToSwitchOff(src[s])', ToDelete(src[s])', ToRemove(src[s])'}
      BY <1>3, <1>5 DEF CleanupCommands, ToSwitchOff, ToDelete, ToRemove, Cmd, None
    <2>3. Undone(src[s])' BY <2>1, <2>2 DEF Undone
    <2> QED BY <1>3, <2>3 DEF OnRung, Quiet
  <1>6. CASE src[s].method # "output"
    <2>1. src[s].origFb = 0 BY <1>1, <1>6 DEF Here
    <2>2. (src[s].w \in Sizes)' /\ Region(src[s])' BY <1>3, <1>4, <1>6 DEF Here
    <2>3. src'[s].todo = {ToUnmark', ToShrink'}
      BY <1>3, <1>6, <2>1 DEF CleanupCommands, ToUnmark, ToShrink, Cmd, None
    <2>4. Undone(src[s])' BY <2>2, <2>3 DEF Undone
    <2> QED BY <1>3, <2>4 DEF OnRung, Quiet
  <1> QED BY <1>5, <1>6

LEMMA StepRungs ==
    ASSUME Types, Reliable, NEW s \in Sources, OnRung(src[s]), Step(s)
    PROVE  OnRung(src[s])'
  <1>1. CASE Cleanup(s) /\ src[s].pc \in {"created", "live"} BY <1>1, CleanupRungs
  <1>2. CASE src[s].pc = "created" /\ Goto(s, "live") /\ x' = x BY <1>2, OnwardRungs
  <1>3. BuildPipeline(s) \/ Stop(s) => OnRung(src[s])'
    BY <1>1, <1>2 DEF BuildPipeline, Stop
  <1> QED BY <1>3, BeginRungs, CleanStaleRungs, RunListedRungs, CreateRungs, AddModeRungs,
             EnableRungs, SetMonitorRungs DEF Step

LEMMA ReadBackRungs ==
    ASSUME Types, NEW s \in Sources, OnRung(src[s]), ReadBack(s), ~lost'
    PROVE  OnRung(src[s])' /\ src'[s].pc = "created" /\ src[s].pc = "after"
  <1>1. src[s].pc = "after" /\ Goto(s, "created") /\ x' = x
    BY QueryKeeps DEF ReadBack
  <1> QED BY <1>1, OnwardRungs, GotoFields

LEMMA InitRungs == Init => Rungs
  <1> SUFFICES ASSUME Init, NEW s \in Sources PROVE OnRung(src[s])
    BY DEF Rungs
  <1>1. Clean BY DEF Init, Pristine, Clean, Looks, NoModes, AllOff
  <1>2. src[s].pc = "idle" BY NewSourceType DEF Init
  <1> QED BY <1>1, <1>2 DEF OnRung, Quiet

LEMMA NextRungs == Reliable /\ Types /\ Rungs /\ [Next]_vars => Rungs'
  <1> SUFFICES ASSUME Reliable, Types, Rungs, [Next]_vars, ~lost',
                      NEW t \in Sources, Alone(t)'
               PROVE  OnRung(src[t])'
    BY DEF Rungs
  <1>1. CASE UNCHANGED vars
    <2>1. lost' = lost /\ src' = src /\ x' = x BY <1>1 DEF vars
    <2>2. NewSource' = NewSource BY DEF NewSource, None
    <2>3. OnRung(src[t]) BY <2>1, <2>2 DEF Rungs, Alone
    <2> QED BY <2>1, <2>3 DEF OnRung, Clean, Made, Added, Enabled, Wide, Region, Looks,
               Undone, OnOutput, ToRemove, ToDelete, ToSwitchOff, ToShrink, ToUnmark, Cmd,
               NoModes, AllOff, OnlyAt, Sizes, Outputs, None, Quiet
  <1>2. ASSUME NEW s \in Sources, Step(s), lost' = lost PROVE OnRung(src[t])'
    <2>1. t = s /\ Alone(t) BY <1>2, AloneFrame
    <2>2. OnRung(src[s]) BY <1>2, <2>1 DEF Rungs
    <2>3. OnRung(src[s])' BY <1>2, <2>2, StepRungs
    <2> QED BY <2>1, <2>3
  <1>3. ASSUME NEW s \in Sources, ReadBack(s) PROVE OnRung(src[t])'
    <2>1. t = s /\ Alone(t) BY <1>3, AloneFrame
    <2>2. ~lost BY <1>3 DEF ReadBack
    <2>3. OnRung(src[s]) BY <2>1, <2>2 DEF Rungs
    <2>4. OnRung(src[s])' BY <1>3, <2>3, ReadBackRungs
    <2> QED BY <2>1, <2>4
  <1> QED BY <1>1, <1>2, <1>3 DEF Next, Crash

-----------------------------------------------------------------------------
(* Several sources.  What one of them has made another may use, switch     *)
(* off or remove, so no rung tells what is there; but whatever is there is *)
(* owed: a source has its removal on its list, or will have it.            *)

\* The removals a source has still to run.
Debt(S) == CASE S.pc \in Listing -> S.todo
             [] S.pc = "addmode" -> {Cmd("rmmode", S.out, S.w)}
             [] S.pc = "enable" -> UndoMode(S.out, S.w)
             [] S.pc = "setmonitor" -> {Cmd("fb", None, S.origFb)}
             [] S.pc \in {"after", "created", "live"} -> CleanupCommands(S)
             [] OTHER -> {}
Owed(cmds) == \E s \in Sources : cmds \subseteq Debt(src[s])

\* The three removals of an enabled output are owed by one source, the two of
\* an attached mode too: in the order of a list no one of them comes too soon.
ModesOwed == \A w \in x.modes : \E o \in Outputs : Owed({Cmd("rmmode", o, w)})
AttachedOwed == \A o \in Outputs : \A w \in x.attached[o] : Owed(UndoMode(o, w))
ActiveOwed ==
    \A o \in Outputs : x.active[o] # None =>
        Owed({Cmd("off", o, None)} \cup UndoMode(o, x.active[o]))
RegionOwed == x.region # None => Owed({Cmd("delmonitor", None, None)})
AllOwed == ModesOwed /\ AttachedOwed /\ ActiveOwed /\ RegionOwed
Covered == ~lost => AllOwed

LEMMA DebtIs ==
    ASSUME NEW S
    PROVE  /\ S.pc \in Listing => Debt(S) = S.todo
           /\ S.pc = "addmode" => Debt(S) = {Cmd("rmmode", S.out, S.w)}
           /\ S.pc = "enable" => Debt(S) = UndoMode(S.out, S.w)
           /\ S.pc = "setmonitor" => Debt(S) = {Cmd("fb", None, S.origFb)}
           /\ S.pc \in {"after", "created", "live"} => Debt(S) = CleanupCommands(S)
           /\ S.pc \in Quiet \cup {"begin", "create"} => Debt(S) = {}
  BY DEF Debt, Listing, Quiet

LEMMA DebtPrime == ASSUME NEW s PROVE Debt(src[s])' = Debt(src'[s])
  BY DEF Debt, Listing, CleanupCommands, UndoMode, Cmd, None

\* What is owed after a step.
NextOwed(cmds) == \E s \in Sources : cmds \subseteq Debt(src'[s])

LEMMA AllOwedNext ==
    ASSUME \A w \in x'.modes : \E o \in Outputs : NextOwed({Cmd("rmmode", o, w)}),
           \A o \in Outputs : \A w \in x'.attached[o] : NextOwed(UndoMode(o, w)),
           \A o \in Outputs : x'.active[o] # None =>
              NextOwed({Cmd("off", o, None)} \cup UndoMode(o, x'.active[o])),
           x'.region # None => NextOwed({Cmd("delmonitor", None, None)})
    PROVE  AllOwed'
  <1>1. ASSUME NEW cmds, NextOwed(cmds)
        PROVE  \E s \in Sources : cmds \subseteq Debt(src[s])'
    <2>1. PICK s \in Sources : cmds \subseteq Debt(src'[s]) BY <1>1 DEF NextOwed
    <2>2. Debt(src[s])' = Debt(src'[s]) BY DebtPrime
    <2> QED BY <2>1, <2>2
  <1>2. ModesOwed'
    <2>1. ASSUME NEW w \in x'.modes
          PROVE  \E o \in Outputs : \E s \in Sources :
                    {Cmd("rmmode", o, w)} \subseteq Debt(src[s])'
      <3>1. PICK o \in Outputs : NextOwed({Cmd("rmmode", o, w)}) OBVIOUS
      <3> QED BY <1>1, <3>1
    <2> QED BY <2>1 DEF ModesOwed, Owed, Cmd
  <1>3. AttachedOwed' BY <1>1 DEF AttachedOwed, Owed, UndoMode, Cmd
  <1>4. ActiveOwed' BY <1>1 DEF ActiveOwed, Owed, UndoMode, Cmd, None
  <1>5. RegionOwed' BY <1>1 DEF RegionOwed, Owed, Cmd, None
  <1> QED BY <1>2, <1>3, <1>4, <1>5 DEF AllOwed

\* After Work, a source's debt is its list, also when that is empty.
LEMMA WorkDebt ==
    ASSUME Types, NEW s \in Sources, NEW pc \in Listing, NEW list,
           Work(s, src[s], pc, list)
    PROVE  Debt(src'[s]) = list
  <1>1. /\ src'[s].pc = IF list = {} THEN After(pc) ELSE pc
        /\ src'[s].todo = list
    BY WorkFields
  <1>2. CASE list = {}
    <2>1. src'[s].pc \in Quiet \cup {"begin", "create"}
      BY <1>1, <1>2 DEF After, Listing, Quiet
    <2> QED BY <1>2, <2>1, DebtIs
  <1>3. CASE list # {}
    <2>1. src'[s].pc \in Listing BY <1>1, <1>3
    <2> QED BY <1>1, <2>1, DebtIs
  <1> QED BY <1>2, <1>3

\* A step of s that takes nothing off a list, and makes nothing that s does
\* not owe afterwards.
LEMMA OwesMore ==
    ASSUME Types, AllOwed, NEW s \in Sources,
           \A t \in Sources \ {s} : src'[t] = src[t],
           Debt(src[s]) \subseteq Debt(src'[s]),
           \A w \in x'.modes :
              w \in x.modes \/ \E o \in Outputs : Cmd("rmmode", o, w) \in Debt(src'[s]),
           \A o \in Outputs : \A w \in x'.attached[o] :
              w \in x.attached[o] \/ UndoMode(o, w) \subseteq Debt(src'[s]),
           \A o \in Outputs : x'.active[o] # None =>
              \/ x'.active[o] = x.active[o]
              \/ {Cmd("off", o, None)} \cup UndoMode(o, x'.active[o]) \subseteq Debt(src'[s]),
           x'.region # None =>
              x'.region = x.region \/ Cmd("delmonitor", None, None) \in Debt(src'[s])
    PROVE  AllOwed'
  <1>1. ASSUME NEW cmds, Owed(cmds) PROVE NextOwed(cmds)
    <2>1. PICK t \in Sources : cmds \subseteq Debt(src[t]) BY <1>1 DEF Owed
    <2>2. Debt(src[t]) \subseteq Debt(src'[t]) OBVIOUS
    <2> QED BY <2>1, <2>2 DEF NextOwed
  <1>2. ASSUME NEW cmds, cmds \subseteq Debt(src'[s]) PROVE NextOwed(cmds)
    BY <1>2 DEF NextOwed
  <1>3. ASSUME NEW w \in x'.modes
        PROVE  \E o \in Outputs : NextOwed({Cmd("rmmode", o, w)})
    <2>1. CASE w \in x.modes BY <1>1, <2>1 DEF AllOwed, ModesOwed
    <2>2. ASSUME NEW o \in Outputs, Cmd("rmmode", o, w) \in Debt(src'[s])
          PROVE  NextOwed({Cmd("rmmode", o, w)})
      <3>1. {Cmd("rmmode", o, w)} \subseteq Debt(src'[s]) BY <2>2
      <3> QED BY <1>2, <3>1
    <2> QED BY <2>1, <2>2
  <1>4. ASSUME NEW o \in Outputs, NEW w \in x'.attached[o] PROVE NextOwed(UndoMode(o, w))
    BY <1>1, <1>2 DEF AllOwed, AttachedOwed
  <1>5. ASSUME NEW o \in Outputs, x'.active[o] # None
        PROVE  NextOwed({Cmd("off", o, None)} \cup UndoMode(o, x'.active[o]))
    <2>1. CASE x'.active[o] = x.active[o]
      BY <1>1, <1>5, <2>1 DEF AllOwed, ActiveOwed
    <2> QED BY <1>2, <1>5, <2>1
  <1>6. ASSUME x'.region # None PROVE NextOwed({Cmd("delmonitor", None, None)})
    <2>1. CASE x'.region = x.region BY <1>1, <1>6, <2>1 DEF AllOwed, RegionOwed
    <2>2. CASE Cmd("delmonitor", None, None) \in Debt(src'[s])
      <3>1. {Cmd("delmonitor", None, None)} \subseteq Debt(src'[s]) BY <2>2
      <3> QED BY <1>2, <3>1
    <2> QED BY <1>6, <2>1, <2>2
  <1> QED BY <1>3, <1>4, <1>5, <1>6, AllOwedNext

\* The same when the X server does not change.
LEMMA OwesStill ==
    ASSUME Types, AllOwed, NEW s \in Sources, Step(s) \/ ReadBack(s), x' = x,
           Debt(src[s]) \subseteq Debt(src'[s])
    PROVE  AllOwed'
  <1>1. \A t \in Sources \ {s} : src'[t] = src[t] BY StepFrame
  <1> QED BY <1>1, OwesMore

LEMMA BeginOwed ==
    ASSUME Types, AllOwed, NEW s \in Sources, NEW w \in Sizes, Begin(s, w)
    PROVE  AllOwed'
  <1>1. Step(s) /\ x' = x /\ src[s].pc \in Quiet BY DEF Step, Begin
  <1>2. Debt(src[s]) = {} BY <1>1, DebtIs
  <1> QED BY <1>1, <1>2, OwesStill

LEMMA CleanStaleOwed ==
    ASSUME Types, AllOwed, NEW s \in Sources, CleanStale(s)
    PROVE  AllOwed'
  <1>1. Step(s) /\ src[s].pc = "begin" BY DEF Step, CleanStale
  <1>2. x' = x BY QueryKeeps DEF CleanStale
  <1>3. Debt(src[s]) = {} BY <1>1, DebtIs
  <1> QED BY <1>1, <1>2, <1>3, OwesStill

LEMMA CreateOwed ==
    ASSUME Types, AllOwed, NEW s \in Sources, Create(s)
    PROVE  AllOwed'
  <1>0. /\ Step(s) /\ src[s].pc = "create" /\ x \in Screens
        /\ src[s] \in Objects /\ src \in [Sources -> Objects]
    BY DEF Step, Create, Types, TypeOK
  <1>1. Debt(src[s]) = {} BY <1>0, DebtIs
  <1>2. \A t \in Sources \ {s} : src'[t] = src[t] BY <1>0, StepFrame
  <1>3. CASE QueryFails(s) BY <1>0, <1>1, <1>3, QueryKeeps, OwesStill
  <1>4. CASE Free # {} /\ NewMode(s, Min(Free))
    <2> DEFINE c == Cmd("newmode", None, src[s].w)
    <2>1. CASE Fails(c) BY <1>0, <1>1, <2>1, OwesStill DEF Fails
    <2>2. CASE Works(c) /\ src' = [src EXCEPT ![s].pc = "addmode", ![s].out = Min(Free)]
      <3>1. src'[s].pc = "addmode" /\ src'[s].out = Min(Free) /\ src'[s].w = src[s].w
        BY <1>0, <2>2 DEF Objects
      <3>2. Min(Free) \in Outputs BY <1>4, FreeType
      <3>3. c.verb = "newmode" /\ c.w = src[s].w /\ c.verb \in Verbs BY CmdFields DEF Verbs
      <3>4. /\ x'.modes = x.modes \cup {c.w} /\ x'.attached = x.attached
            /\ x'.active = x.active /\ x'.region = x.region
        <4> HIDE DEF c
        <4> QED BY <1>0, <2>2, <3>3, Effects DEF Works
      <3>5. Debt(src'[s]) = {Cmd("rmmode", Min(Free), src[s].w)} BY <3>1, DebtIs
      <3>6. \A w \in x'.modes :
              w \in x.modes \/ \E o \in Outputs : Cmd("rmmode", o, w) \in Debt(src'[s])
        BY <3>2, <3>3, <3>4, <3>5
      <3> HIDE DEF c
      <3> QED BY <1>1, <1>2, <3>4, <3>6, OwesMore
    <2> QED BY <1>4, <2>1, <2>2 DEF NewMode
  <1>5. CASE Free = {} /\ Enlarge(s)
    <2> DEFINE c == Cmd("fb", None, Enlarged(s))
    <2>1. c.verb = "fb" /\ c.verb \in Verbs BY CmdFields DEF Verbs
    <2>2. Works(c) \/ Fails(c) BY <1>5 DEF Enlarge
    <2>3. /\ x'.modes = x.modes /\ x'.attached = x.attached
          /\ x'.active = x.active /\ x'.region = x.region
      <3> HIDE DEF c
      <3> QED BY <1>0, <2>1, <2>2, Effects DEF Works, Fails
    <2> QED BY <1>1, <1>2, <2>3, OwesMore
  <1> QED BY <1>3, <1>4, <1>5 DEF Create

LEMMA AddModeOwed ==
    ASSUME Types, AllOwed, NEW s \in Sources, AddMode(s)
    PROVE  AllOwed'
  <1> DEFINE c == Cmd("addmode", src[s].out, src[s].w)
             o == src[s].out  w == src[s].w
             list == {Cmd("rmmode", o, w)}
  <1>0. /\ Step(s) /\ src[s].pc = "addmode" /\ x \in Screens
        /\ x.attached \in [Outputs -> SUBSET Sizes]
        /\ c.verb = "addmode" /\ c.out = o /\ c.w = w /\ c.verb \in Verbs
    BY SourceFields, CmdFields DEF Step, AddMode, Verbs
  <1>1. Debt(src[s]) = list BY <1>0, DebtIs
  <1>2. \A t \in Sources \ {s} : src'[t] = src[t] BY <1>0, StepFrame
  <1>3. CASE Works(c) /\ Goto(s, "enable")
    <2>1. src'[s].pc = "enable" /\ src'[s].out = o /\ src'[s].w = w BY <1>3, GotoFields
    <2>2. Debt(src'[s]) = UndoMode(o, w) BY <2>1, DebtIs
    <2>3. /\ x'.attached = [x.attached EXCEPT ![o] = x.attached[o] \cup {w}]
          /\ x'.modes = x.modes /\ x'.active = x.active /\ x'.region = x.region
      <3> HIDE DEF c, o, w
      <3>1. /\ x'.attached = [x.attached EXCEPT ![c.out] = x.attached[c.out] \cup {c.w}]
            /\ x'.modes = x.modes /\ x'.active = x.active /\ x'.region = x.region
        BY <1>0, <1>3, Effects DEF Works
      <3> QED BY <1>0, <3>1
    <2>4. Debt(src[s]) \subseteq Debt(src'[s]) BY <1>1, <2>2 DEF UndoMode
    <2>5. \A p \in Outputs : \A v \in x'.attached[p] :
             v \in x.attached[p] \/ UndoMode(p, v) \subseteq Debt(src'[s])
      <3> HIDE DEF o, w
      <3> QED BY <1>0, <2>2, <2>3
    <2> HIDE DEF o, w, list
    <2> QED BY <1>2, <2>3, <2>4, <2>5, OwesMore
  <1>4. CASE Fails(c) /\ Work(s, src[s], "undo", list)
    <2>1. "undo" \in Listing BY DEF Listing
    <2> HIDE DEF list
    <2>2. Debt(src'[s]) = list BY <1>4, <2>1, WorkDebt
    <2> QED BY <1>0, <1>1, <1>4, <2>2, OwesStill DEF Fails
  <1> QED BY <1>3, <1>4 DEF AddMode

LEMMA EnableOwed ==
    ASSUME Types, AllOwed, NEW s \in Sources, Enable(s)
    PROVE  AllOwed'
  <1> DEFINE c == Cmd("enable", src[s].out, src[s].w)
             o == src[s].out  w == src[s].w
             list == UndoMode(o, w)
  <1>0. /\ Step(s) /\ src[s].pc = "enable" /\ x \in Screens
        /\ x.active \in [Outputs -> Sizes \cup {None}]
        /\ src[s] \in Objects /\ src \in [Sources -> Objects]
        /\ c.verb = "enable" /\ c.out = o /\ c.w = w /\ c.verb \in Verbs
    BY SourceFields, CmdFields DEF Step, Enable, Verbs, Types, TypeOK, Screens
  <1>1. Debt(src[s]) = list BY <1>0, DebtIs
  <1>2. \A t \in Sources \ {s} : src'[t] = src[t] BY <1>0, StepFrame
  <1>3. CASE Works(c) /\ src' = [src EXCEPT ![s].pc = "after", ![s].method = "output"]
    <2>1. /\ src'[s].pc = "after" /\ src'[s].method = "output"
          /\ src'[s].out = o /\ src'[s].w = w
      BY <1>0, <1>3 DEF Objects
    <2>2. Debt(src'[s]) = {Cmd("off", o, None)} \cup UndoMode(o, w)
      <3>1. Debt(src'[s]) = CleanupCommands(src'[s]) BY <2>1, DebtIs
      <3> QED BY <2>1, <3>1 DEF CleanupCommands, UndoMode
    <2>3. /\ x'.active = [x.active EXCEPT ![o] = w]
          /\ x'.modes = x.modes /\ x'.attached = x.attached /\ x'.region = x.region
      <3> HIDE DEF c, o, w
      <3>1. /\ x'.active = [x.active EXCEPT ![c.out] = c.w]
            /\ x'.modes = x.modes /\ x'.attached = x.attached /\ x'.region = x.region
        BY <1>0, <1>3, Effects DEF Works
      <3> QED BY <1>0, <3>1
    <2>4. \A p \in Outputs : x'.active[p] # None =>
             \/ x'.active[p] = x.active[p]
             \/ {Cmd("off", p, None)} \cup UndoMode(p, x'.active[p]) \subseteq Debt(src'[s])
      <3> HIDE DEF o, w
      <3>1. \A p \in Outputs : x'.active[p] = IF p = o THEN w ELSE x.active[p]
        BY <1>0, <2>3
      <3> QED BY <2>2, <3>1
    <2>5. Debt(src[s]) \subseteq Debt(src'[s]) BY <1>1, <2>2
    <2> HIDE DEF o, w, list
    <2> QED BY <1>2, <2>3, <2>4, <2>5, OwesMore
  <1>4. CASE Fails(c) /\ Work(s, src[s], "undo", list)
    <2>1. "undo" \in Listing BY DEF Listing
    <2> HIDE DEF list
    <2>2. Debt(src'[s]) = list BY <1>4, <2>1, WorkDebt
    <2> QED BY <1>0, <1>1, <1>4, <2>2, OwesStill DEF Fails
  <1> QED BY <1>3, <1>4 DEF Enable

LEMMA SetMonitorOwed ==
    ASSUME Types, AllOwed, NEW s \in Sources, SetMonitor(s)
    PROVE  AllOwed'
  <1> DEFINE c == Cmd("setmonitor", None, src[s].w)
             list == {Cmd("fb", None, src[s].origFb)}
  <1>0. /\ Step(s) /\ src[s].pc = "setmonitor" /\ x \in Screens
        /\ src[s] \in Objects /\ src \in [Sources -> Objects]
        /\ c.verb = "setmonitor" /\ c.w = src[s].w /\ c.verb \in Verbs
    BY SourceFields, CmdFields DEF Step, SetMonitor, Verbs, Types, TypeOK
  <1>1. Debt(src[s]) = list BY <1>0, DebtIs
  <1>2. \A t \in Sources \ {s} : src'[t] = src[t] BY <1>0, StepFrame
  <1>3. CASE Works(c) /\ src' = [src EXCEPT ![s].pc = "created", ![s].method = "setmonitor"]
    <2>1. /\ src'[s].pc = "created" /\ src'[s].method = "setmonitor"
          /\ src'[s].origFb = src[s].origFb
      BY <1>0, <1>3 DEF Objects
    <2>2. Debt(src'[s]) = {Cmd("delmonitor", None, None)} \cup list
      <3>1. Debt(src'[s]) = CleanupCommands(src'[s]) BY <2>1, DebtIs
      <3> QED BY <2>1, <3>1 DEF CleanupCommands
    <2>3. x'.modes = x.modes /\ x'.attached = x.attached /\ x'.active = x.active
      <3> HIDE DEF c
      <3> QED BY <1>0, <1>3, Effects DEF Works
    <2>4. Cmd("delmonitor", None, None) \in Debt(src'[s]) BY <2>2
    <2>5. Debt(src[s]) \subseteq Debt(src'[s]) BY <1>1, <2>2
    <2> HIDE DEF list, c
    <2> QED BY <1>2, <2>3, <2>4, <2>5, OwesMore
  <1>4. CASE Fails(c) /\ Work(s, src[s], "undo", list)
    <2>1. "undo" \in Listing BY DEF Listing
    <2> HIDE DEF list
    <2>2. Debt(src'[s]) = list BY <1>4, <2>1, WorkDebt
    <2> QED BY <1>0, <1>1, <1>4, <2>2, OwesStill DEF Fails
  <1> QED BY <1>3, <1>4 DEF SetMonitor

\* From the read-back to the pipeline, and to the cleanup, the debt stays.
LEMMA OnwardOwed ==
    ASSUME Types, AllOwed, NEW s \in Sources, Step(s) \/ ReadBack(s), x' = x,
           src[s].pc \in {"after", "created", "live"},
           NEW pc \in {"created", "live"}, Goto(s, pc)
    PROVE  AllOwed'
  <1>1. /\ src'[s].pc = pc /\ src'[s].method = src[s].method /\ src'[s].out = src[s].out
        /\ src'[s].w = src[s].w /\ src'[s].origFb = src[s].origFb
    BY GotoFields
  <1>2. Debt(src[s]) = CleanupCommands(src[s]) BY DebtIs
  <1>3. Debt(src'[s]) = CleanupCommands(src'[s]) BY <1>1, DebtIs
  <1>4. Debt(src[s]) = Debt(src'[s]) BY <1>1, <1>2, <1>3 DEF CleanupCommands
  <1> QED BY <1>4, OwesStill

LEMMA ReadBackOwed ==
    ASSUME Types, AllOwed, NEW s \in Sources, ReadBack(s), ~lost'
    PROVE  AllOwed'
  <1>1. src[s].pc = "after" /\ Goto(s, "created") /\ x' = x
    BY QueryKeeps DEF ReadBack
  <1> QED BY <1>1, OnwardOwed

LEMMA StopOwed ==
    ASSUME Types, AllOwed, NEW s \in Sources, BuildPipeline(s) \/ Stop(s)
    PROVE  AllOwed'
  <1>0. Step(s) /\ src[s].pc \in {"created", "live"} /\ x' = x
    BY DEF Step, BuildPipeline, Stop, Cleanup
  <1>1. CASE Goto(s, "live") BY <1>0, <1>1, OnwardOwed
  <1>2. CASE Cleanup(s)
    <2>1. Debt(src[s]) = CleanupCommands(src[s]) BY <1>0, DebtIs
    <2>2. "cleanup" \in Listing BY DEF Listing
    <2>3. Debt(src'[s]) = CleanupCommands(src[s]) BY <1>2, <2>2, WorkDebt DEF Cleanup
    <2> QED BY <1>0, <2>1, <2>3, OwesStill
  <1> QED BY <1>1, <1>2 DEF BuildPipeline, Stop

\* A command of a list is run: what it takes off the list is done, or was owed
\* by another source, or is not the removal that something there still needs.
LEMMA RunListedOwed ==
    ASSUME Types, Reliable, AllOwed, NEW s \in Sources, RunListed(s)
    PROVE  AllOwed'
  <1>1. PICK c \in src[s].todo : /\ \A d \in src[s].todo : ~Before(d, c)
                                 /\ Works(c) \/ Fails(c)
                                 /\ Work(s, src[s], src[s].pc, src[s].todo \ {c})
    BY DEF RunListed
  <1>0. /\ Step(s) /\ src[s].pc \in Listing /\ x \in Screens
        /\ c \in Cmds /\ c.verb \in Removals /\ c.verb \in Verbs
        /\ x.active \in [Outputs -> Sizes \cup {None}]
        /\ x.attached \in [Outputs -> SUBSET Sizes]
    BY SourceFields DEF Step, RunListed, Types, TypeOK, Asked, Screens, Cmds
  <1>2. Debt(src[s]) = src[s].todo BY <1>0, DebtIs
  <1>3. Debt(src'[s]) = src[s].todo \ {c} BY <1>0, <1>1, WorkDebt
  <1>4. \A t \in Sources \ {s} : src'[t] = src[t] BY <1>0, StepFrame
  <1>5. ASSUME NEW cmds, Owed(cmds), c \notin cmds PROVE NextOwed(cmds)
    <2>1. PICK t \in Sources : cmds \subseteq Debt(src[t]) BY <1>5 DEF Owed
    <2>2. CASE t = s
      <3>1. cmds \subseteq Debt(src'[s]) BY <1>2, <1>3, <1>5, <2>1, <2>2
      <3> QED BY <3>1 DEF NextOwed
    <2>3. CASE t # s
      <3>1. cmds \subseteq Debt(src'[t]) BY <1>4, <2>1, <2>3
      <3> QED BY <3>1 DEF NextOwed
    <2> QED BY <2>2, <2>3
  \* What holds a command that must come before c is not owed by s.
  <1>6. ASSUME NEW cmds, Owed(cmds), NEW d \in cmds, Before(d, c) PROVE NextOwed(cmds)
    <2>1. PICK t \in Sources : cmds \subseteq Debt(src[t]) BY <1>6 DEF Owed
    <2>2. t # s BY <1>1, <1>2, <1>6, <2>1
    <2>3. cmds \subseteq Debt(src'[t]) BY <1>4, <2>1, <2>2
    <2> QED BY <2>3 DEF NextOwed
  <1>7. ASSUME c.verb # "rmmode", x'.modes = x.modes, NEW w \in x'.modes
        PROVE  \E o \in Outputs : NextOwed({Cmd("rmmode", o, w)})
    <2>1. PICK o \in Outputs : Owed({Cmd("rmmode", o, w)})
      BY <1>7 DEF AllOwed, ModesOwed
    <2>2. c \notin {Cmd("rmmode", o, w)} BY <1>7, CmdFields
    <2> QED BY <1>5, <2>1, <2>2
  <1>8. ASSUME c.verb \notin {"rmmode", "delmode"}, x'.attached = x.attached,
               NEW o \in Outputs, NEW w \in x'.attached[o]
        PROVE  NextOwed(UndoMode(o, w))
    <2>1. Owed(UndoMode(o, w)) BY <1>8 DEF AllOwed, AttachedOwed
    <2>2. c \notin UndoMode(o, w) BY <1>8, CmdFields DEF UndoMode
    <2> QED BY <1>5, <2>1, <2>2
  <1>9. ASSUME c.verb \in {"fb", "delmonitor"}, x'.active = x.active,
               NEW o \in Outputs, x'.active[o] # None
        PROVE  NextOwed({Cmd("off", o, None)} \cup UndoMode(o, x'.active[o]))
    <2> DEFINE cmds == {Cmd("off", o, None)} \cup UndoMode(o, x'.active[o])
    <2>1. Owed(cmds) BY <1>9 DEF AllOwed, ActiveOwed
    <2>2. c \notin cmds BY <1>9, CmdFields DEF UndoMode
    <2> HIDE DEF cmds
    <2>3. NextOwed(cmds) BY <1>5, <2>1, <2>2
    <2> QED BY <2>3 DEF cmds
  <1>10. ASSUME c.verb # "delmonitor", x'.region = x.region, x'.region # None
         PROVE  NextOwed({Cmd("delmonitor", None, None)})
    <2>1. Owed({Cmd("delmonitor", None, None)}) BY <1>10 DEF AllOwed, RegionOwed
    <2>2. c \notin {Cmd("delmonitor", None, None)} BY <1>10, CmdFields
    <2> QED BY <1>5, <2>1, <2>2
  <1>11. CASE c.verb = "fb"
    <2>1. /\ x'.modes = x.modes /\ x'.attached = x.attached
          /\ x'.active = x.active /\ x'.region = x.region
      BY <1>0, <1>1, <1>11, Effects DEF Works, Fails
    <2> QED BY <1>7, <1>8, <1>9, <1>10, <1>11, <2>1, AllOwedNext
  <1>12. CASE c.verb = "delmonitor"
    <2>1. /\ x'.modes = x.modes /\ x'.attached = x.attached
          /\ x'.active = x.active /\ x'.region = None
      <3>1. CASE Works(c) BY <1>0, <1>12, <3>1, Effects DEF Works
      <3>2. CASE Fails(c) BY <1>12, <3>2, ReliableWorks, PossibleIs
      <3> QED BY <1>1, <3>1, <3>2
    <2> QED BY <1>7, <1>8, <1>9, <1>12, <2>1, AllOwedNext
  <1>13. CASE c.verb = "off"
    <2>1. /\ x'.modes = x.modes /\ x'.attached = x.attached /\ x'.region = x.region
          /\ x'.active = [x.active EXCEPT ![c.out] = None]
      <3>1. Works(c) BY <1>1, <1>13, ReliableWorks, PossibleIs
      <3> QED BY <1>0, <1>13, <3>1, Effects DEF Works
    <2>2. ASSUME NEW o \in Outputs, x'.active[o] # None
          PROVE  NextOwed({Cmd("off", o, None)} \cup UndoMode(o, x'.active[o]))
      <3> DEFINE cmds == {Cmd("off", o, None)} \cup UndoMode(o, x'.active[o])
      <3>1. o # c.out /\ x'.active[o] = x.active[o] BY <1>0, <2>1, <2>2
      <3>2. Owed(cmds) BY <2>2, <3>1 DEF AllOwed, ActiveOwed
      <3>3. c \notin cmds BY <1>13, <3>1, CmdFields DEF UndoMode
      <3> HIDE DEF cmds
      <3>4. NextOwed(cmds) BY <1>5, <3>2, <3>3
      <3> QED BY <3>4 DEF cmds
    <2> QED BY <1>7, <1>8, <1>10, <1>13, <2>1, <2>2, AllOwedNext
  <1>14. CASE c.verb = "delmode"
    <2>1. x'.modes = x.modes /\ x'.active = x.active /\ x'.region = x.region
      BY <1>0, <1>1, <1>14, Effects DEF Works, Fails
    \* Either the mode is off the output, or in use there: by another source.
    <2>2. \A o \in Outputs : x'.attached[o] \subseteq x.attached[o]
      <3>1. CASE x' = x BY <3>1
      <3>2. CASE x' = Outcome(c)
        <4>1. x'.attached = [x.attached EXCEPT ![c.out] = x.attached[c.out] \ {c.w}]
          BY <1>0, <1>14, <3>2, Effects
        <4> QED BY <1>0, <4>1
      <3> QED BY <1>1, <3>1, <3>2 DEF Works, Fails
    <2>3. ASSUME c.out \in Outputs, c.w \in x'.attached[c.out] PROVE x.active[c.out] = c.w
      <3>1. CASE Possible(c)
        <4>1. x' = Outcome(c) BY <1>1, <1>14, <3>1, Removes
        <4>2. x'.attached = [x.attached EXCEPT ![c.out] = x.attached[c.out] \ {c.w}]
          BY <1>0, <1>14, <4>1, Effects
        <4> QED BY <1>0, <2>3, <4>2
      <3>2. CASE ~Possible(c) BY <1>14, <2>2, <2>3, <3>2, PossibleIs
      <3> QED BY <3>1, <3>2
    <2>4. ASSUME NEW o \in Outputs, x'.active[o] # None
          PROVE  NextOwed({Cmd("off", o, None)} \cup UndoMode(o, x'.active[o]))
      <3> DEFINE off == Cmd("off", o, None)
                 cmds == {off} \cup UndoMode(o, x'.active[o])
      <3>1. Owed(cmds) BY <2>1, <2>4 DEF AllOwed, ActiveOwed
      <3>2. CASE c \notin cmds
        <4> HIDE DEF cmds
        <4> QED BY <1>5, <3>1, <3>2 DEF cmds
      <3>3. CASE c \in cmds
        <4>1. c.out = o BY <3>3, CmdFields DEF UndoMode
        <4>2. Before(off, c) BY <1>14, <4>1, CmdFields DEF Before, Sooner
        <4>3. off \in cmds OBVIOUS
        <4> HIDE DEF cmds, off
        <4>4. NextOwed(cmds) BY <1>6, <3>1, <4>2, <4>3
        <4> QED BY <4>4 DEF cmds, off
      <3> QED BY <3>2, <3>3
    <2>5. ASSUME NEW o \in Outputs, NEW w \in x'.attached[o] PROVE NextOwed(UndoMode(o, w))
      <3>1. Owed(UndoMode(o, w)) BY <2>2, <2>5 DEF AllOwed, AttachedOwed
      <3>2. CASE c \notin UndoMode(o, w) BY <1>5, <3>1, <3>2
      <3>3. CASE c \in UndoMode(o, w)
        <4>1. c.out = o /\ c.w = w BY <3>3, CmdFields DEF UndoMode
        <4>2. x.active[o] = w /\ w \in Sizes BY <1>0, <2>2, <2>3, <2>5, <4>1
        <4>3. x'.active[o] # None BY <2>1, <4>2 DEF Sizes, None
        <4>4. NextOwed({Cmd("off", o, None)} \cup UndoMode(o, w)) BY <2>1, <2>4, <4>2, <4>3
        <4> QED BY <4>4 DEF NextOwed
      <3> QED BY <3>2, <3>3
    <2> QED BY <1>7, <1>10, <1>14, <2>1, <2>4, <2>5, AllOwedNext
  <1>15. CASE c.verb = "rmmode"
    <2>1. /\ x'.attached = x.attached /\ x'.active = x.active /\ x'.region = x.region
          /\ x'.modes \subseteq x.modes
      <3>1. CASE x' = x BY <3>1
      <3>2. CASE x' = Outcome(c)
        <4>1. x'.modes = x.modes \ {c.w} BY <1>0, <1>15, <3>2, Effects
        <4> QED BY <1>0, <1>15, <3>2, <4>1, Effects
      <3> QED BY <1>1, <3>1, <3>2 DEF Works, Fails
    \* Who owes a deletion with c would have it before c.
    <2>2. ASSUME NEW cmds, NEW o, NEW w, UndoMode(o, w) \subseteq cmds, Owed(cmds),
                 c \in cmds => c = Cmd("rmmode", o, w)
          PROVE  NextOwed(cmds)
      <3>1. CASE c \notin cmds BY <1>5, <2>2, <3>1
      <3>2. CASE c \in cmds
        <4>1. c.out = o BY <2>2, <3>2, CmdFields
        <4>2. Before(Cmd("delmode", o, w), c)
          BY <1>15, <4>1, CmdFields DEF Before, Sooner
        <4>3. Cmd("delmode", o, w) \in cmds BY <2>2 DEF UndoMode
        <4> QED BY <1>6, <2>2, <4>2, <4>3
      <3> QED BY <3>1, <3>2
    <2>3. ASSUME NEW o \in Outputs, NEW w \in x'.attached[o] PROVE NextOwed(UndoMode(o, w))
      <3>1. Owed(UndoMode(o, w)) BY <2>1, <2>3 DEF AllOwed, AttachedOwed
      <3>2. c \in UndoMode(o, w) => c = Cmd("rmmode", o, w)
        BY <1>15, CmdFields DEF UndoMode
      <3> QED BY <2>2, <3>1, <3>2
    <2>4. ASSUME NEW o \in Outputs, x'.active[o] # None
          PROVE  NextOwed({Cmd("off", o, None)} \cup UndoMode(o, x'.active[o]))
      <3> DEFINE cmds == {Cmd("off", o, None)} \cup UndoMode(o, x'.active[o])
      <3>1. Owed(cmds) BY <2>1, <2>4 DEF AllOwed, ActiveOwed
      <3>2. c \in cmds => c = Cmd("rmmode", o, x'.active[o])
        BY <1>15, CmdFields DEF UndoMode
      <3>3. UndoMode(o, x'.active[o]) \subseteq cmds OBVIOUS
      <3> HIDE DEF cmds
      <3>4. NextOwed(cmds) BY <2>2, <3>1, <3>2, <3>3
      <3> QED BY <3>4 DEF cmds
    <2>5. ASSUME NEW w \in x'.modes PROVE \E o \in Outputs : NextOwed({Cmd("rmmode", o, w)})
      <3>1. CASE c.w # w
        <4>1. PICK o \in Outputs : Owed({Cmd("rmmode", o, w)})
          BY <2>1, <2>5 DEF AllOwed, ModesOwed
        <4>2. c \notin {Cmd("rmmode", o, w)} BY <3>1, CmdFields
        <4> QED BY <1>5, <4>1, <4>2
      <3>2. CASE c.w = w
        <4>1. ~Possible(c)
          <5>1. SUFFICES ASSUME Possible(c) PROVE FALSE
            OBVIOUS
          <5>2. x' = Outcome(c) BY <1>1, <1>15, <5>1, Removes
          <5>3. x'.modes = x.modes \ {c.w} BY <1>0, <1>15, <5>2, Effects
          <5> QED BY <2>5, <3>2, <5>3
        <4>2. PICK o \in Outputs : w \in x.attached[o]
          BY <1>15, <2>1, <2>5, <3>2, <4>1, PossibleIs
        <4>3. NextOwed(UndoMode(o, w)) BY <2>1, <2>3, <4>2
        <4>4. NextOwed({Cmd("rmmode", o, w)}) BY <4>3 DEF NextOwed, UndoMode
        <4> QED BY <4>4
      <3> QED BY <3>1, <3>2
    <2> QED BY <1>10, <1>15, <2>1, <2>3, <2>4, <2>5, AllOwedNext
  <1> QED BY <1>0, <1>11, <1>12, <1>13, <1>14, <1>15 DEF Removals

LEMMA InitCovered == Init => Covered
  <1> SUFFICES ASSUME Init PROVE AllOwed
    BY DEF Covered
  <1>1. /\ x.modes = {} /\ x.region = None
        /\ \A o \in Outputs : x.attached[o] = {} /\ x.active[o] = None
    BY DEF Init, Pristine
  <1> QED BY <1>1 DEF AllOwed, ModesOwed, AttachedOwed, ActiveOwed, RegionOwed

LEMMA NextCovered == Reliable /\ Types /\ Covered /\ [Next]_vars => Covered'
  <1> SUFFICES ASSUME Reliable, Types, Covered, [Next]_vars, ~lost' PROVE AllOwed'
    BY DEF Covered
  <1>1. CASE UNCHANGED vars
    <2>1. lost' = lost /\ src' = src /\ x' = x BY <1>1 DEF vars
    <2>2. AllOwed BY <2>1 DEF Covered
    <2>3. \A cmds : Owed(cmds) => NextOwed(cmds) BY <2>1 DEF Owed, NextOwed
    <2> QED BY <2>1, <2>2, <2>3, AllOwedNext
            DEF AllOwed, ModesOwed, AttachedOwed, ActiveOwed, RegionOwed
  <1>2. ASSUME NEW s \in Sources, Step(s), lost' = lost PROVE AllOwed'
    <2>1. AllOwed BY <1>2 DEF Covered
    <2> QED BY <1>2, <2>1, BeginOwed, CleanStaleOwed, RunListedOwed, CreateOwed,
               AddModeOwed, EnableOwed, SetMonitorOwed, StopOwed DEF Step
  <1>3. ASSUME NEW s \in Sources, ReadBack(s) PROVE AllOwed'
    <2>1. AllOwed BY <1>3 DEF Covered, ReadBack
    <2> QED BY <1>3, <2>1, ReadBackOwed
  <1> QED BY <1>1, <1>2, <1>3 DEF Next, Crash

LEMMA QuietRestored ==
    ASSUME Types, AllOwed, AllQuiet
    PROVE  x = [Pristine(x.taken) EXCEPT !.fb = x.fb]
  <1>1. \A s \in Sources : Debt(src[s]) = {} BY DebtIs DEF AllQuiet
  <1>2. ASSUME NEW cmds, NEW c \in cmds PROVE ~Owed(cmds) BY <1>1, <1>2 DEF Owed
  <1>3. x.modes = {} BY <1>2 DEF AllOwed, ModesOwed
  <1>4. \A o \in Outputs : x.attached[o] = {}
    BY <1>2 DEF AllOwed, AttachedOwed, UndoMode
  <1>5. \A o \in Outputs : x.active[o] = None BY <1>2 DEF AllOwed, ActiveOwed
  <1>6. x.region = None BY <1>2 DEF AllOwed, RegionOwed
  <1>7. x \in Screens BY DEF Types, TypeOK
  <1>8. x.attached = [o \in Outputs |-> {}] /\ x.active = [o \in Outputs |-> None]
    BY <1>4, <1>5, <1>7 DEF Screens
  <1>9. [Pristine(x.taken) EXCEPT !.fb = x.fb] =
          [modes |-> {}, attached |-> [o \in Outputs |-> {}],
           active |-> [o \in Outputs |-> None], taken |-> x.taken,
           region |-> None, fb |-> x.fb]
    <2> DEFINE attached == [o \in Outputs |-> {}]
               active == [o \in Outputs |-> None]
    <2>1. Pristine(x.taken) = [modes |-> {}, attached |-> attached, active |-> active,
                               taken |-> x.taken, region |-> None, fb |-> 0]
      BY DEF Pristine
    <2> HIDE DEF attached, active
    <2>2. [[modes |-> {}, attached |-> attached, active |-> active, taken |-> x.taken,
            region |-> None, fb |-> 0] EXCEPT !.fb = x.fb] =
            [modes |-> {}, attached |-> attached, active |-> active,
             taken |-> x.taken, region |-> None, fb |-> x.fb]
      OBVIOUS
    <2>3. [Pristine(x.taken) EXCEPT !.fb = x.fb] =
            [modes |-> {}, attached |-> attached, active |-> active,
             taken |-> x.taken, region |-> None, fb |-> x.fb]
      BY <2>1, <2>2, Zenon
    <2> QED BY <2>3, Zenon DEF attached, active
  <1>10. x = [modes |-> x.modes, attached |-> x.attached, active |-> x.active,
              taken |-> x.taken, region |-> x.region, fb |-> x.fb]
    BY <1>7 DEF Screens
  <1> QED BY <1>3, <1>6, <1>8, <1>9, <1>10

\* For every number of sources, connectors and sizes, whichever query or
\* creation the driver refuses and however the commands of the sources meet: as
\* long as nothing was lost, when all were stopped or failed to start the X
\* server is as the first one found it, but for a framebuffer that several
\* sources may leave enlarged.
THEOREM RestoresAfterUse ==
    ASSUME Reliable
    PROVE  Spec => []RestoredAfterUse
  <1>1. Types /\ Rungs /\ Covered => RestoredAfterUse
    <2> SUFFICES ASSUME Types, Rungs, Covered, AllQuiet, ~lost
                 PROVE  /\ x = [Pristine(x.taken) EXCEPT !.fb = x.fb]
                        /\ (\E s \in Sources : Alone(s)) => x.fb = 0
      BY DEF RestoredAfterUse
    <2>1. x = [Pristine(x.taken) EXCEPT !.fb = x.fb] BY QuietRestored DEF Covered
    <2>2. ASSUME NEW s \in Sources, Alone(s) PROVE x.fb = 0
      <3>1. Clean BY <2>2 DEF Rungs, OnRung, AllQuiet
      <3> QED BY <3>1 DEF Clean, Looks
    <2> QED BY <2>1, <2>2
  <1> QED BY <1>1, InitRungs, NextRungs, InitCovered, NextCovered, SpecTypes, PTL DEF Spec

-----------------------------------------------------------------------------
(* A source that is alone is a VideoSource.  Its place tells its phase and        *)
(* whether it holds something, so a step is known by where it leads.       *)

Early == {"begin", "stale", "create"}
Built == {"addmode", "enable", "after", "setmonitor", "created"}
Ending == {"undo", "cleanup"}

\* From where to where a source goes.
Goes(from, to) ==
    \/ from \in Quiet /\ to \in {"begin", "idle"}
    \/ from \in Early /\ to \in Early \cup Built \cup Quiet
    \/ from \in Built /\ to \in Built \cup {"undo"}
    \/ from = "created" /\ to \in {"live", "cleanup"}
    \/ from = "live" /\ to = "cleanup"
    \/ from \in Ending /\ to \in Ending \cup Quiet

LEMMA StepGoes ==
    ASSUME Types, NEW s \in Sources, Step(s)
    PROVE  Goes(src[s].pc, src'[s].pc)
  <1>0. src[s] \in Objects /\ src \in [Sources -> Objects] BY DEF Types, TypeOK
  <1>1. ASSUME NEW w \in Sizes, Begin(s, w) PROVE Goes(src[s].pc, src'[s].pc)
    <2>1. PICK pc \in {"begin", "idle"} :
               src' = [src EXCEPT ![s] = [NewSource EXCEPT !.pc = pc, !.w = w]]
      BY <1>1 DEF Begin
    <2>2. src'[s].pc = pc BY <1>0, <2>1 DEF NewSource
    <2>3. src[s].pc \in Quiet BY <1>1 DEF Begin
    <2> QED BY <2>2, <2>3 DEF Goes
  <1>2. CASE CleanStale(s)
    <2>1. src[s].pc = "begin" BY <1>2 DEF CleanStale
    <2>2. src'[s].pc \in {"failed", "stale", "create"}
      BY <1>2, GotoFields, WorkFields DEF CleanStale, QueryFails, After
    <2> QED BY <2>1, <2>2 DEF Goes, Early, Quiet
  <1>3. CASE RunListed(s)
    <2>1. src[s].pc \in Listing BY <1>3 DEF RunListed
    <2>2. PICK list : Work(s, src[s], src[s].pc, list) BY <1>3 DEF RunListed
    <2>3. src'[s].pc = src[s].pc \/ src'[s].pc = After(src[s].pc)
      BY <2>2, WorkFields
    <2> QED BY <2>1, <2>3 DEF Listing, After, Goes, Early, Ending, Quiet
  <1>4. CASE Create(s)
    <2>1. src[s].pc = "create" BY <1>4 DEF Create
    <2>2. src'[s].pc \in {"failed", "addmode", "setmonitor"}
      <3>1. CASE QueryFails(s) BY <3>1, GotoFields DEF QueryFails
      <3>2. CASE NewMode(s, Min(Free))
        <4>1. PICK pc \in {"addmode", "failed"} :
                   src' = [src EXCEPT ![s].pc = pc, ![s].out = Min(Free)]
          BY <3>2 DEF NewMode
        <4> QED BY <1>0, <4>1 DEF Objects
      <3>3. CASE Enlarge(s)
        <4>1. CASE Goto(s, "failed") BY <4>1, GotoFields
        <4>2. CASE src' = [src EXCEPT ![s].pc = "setmonitor", ![s].origFb = x.fb]
          BY <1>0, <4>2 DEF Objects
        <4> QED BY <3>3, <4>1, <4>2 DEF Enlarge
      <3> QED BY <1>4, <3>1, <3>2, <3>3 DEF Create
    <2> QED BY <2>1, <2>2 DEF Goes, Early, Built, Quiet
  <1>5. CASE AddMode(s)
    <2> DEFINE list == {Cmd("rmmode", src[s].out, src[s].w)}
    <2>1. list # {} OBVIOUS
    <2>2. src[s].pc = "addmode" /\ (Goto(s, "enable") \/ Work(s, src[s], "undo", list))
      BY <1>5 DEF AddMode
    <2> HIDE DEF list
    <2>3. src'[s].pc \in {"enable", "undo"} BY <2>1, <2>2, GotoFields, WorkFields
    <2> QED BY <2>2, <2>3 DEF Goes, Built
  <1>6. CASE Enable(s)
    <2> DEFINE list == UndoMode(src[s].out, src[s].w)
    <2>1. list # {} BY DEF UndoMode
    <2>2. src[s].pc = "enable" BY <1>6 DEF Enable
    <2>3. CASE Work(s, src[s], "undo", list)
      <3> HIDE DEF list
      <3>1. src'[s].pc = "undo" BY <2>1, <2>3, WorkFields
      <3> QED BY <2>2, <3>1 DEF Goes, Built
    <2>4. CASE src' = [src EXCEPT ![s].pc = "after", ![s].method = "output"]
      <3>1. src'[s].pc = "after" BY <1>0, <2>4 DEF Objects
      <3> QED BY <2>2, <3>1 DEF Goes, Built
    <2> QED BY <1>6, <2>3, <2>4 DEF Enable
  <1>7. CASE SetMonitor(s)
    <2> DEFINE list == {Cmd("fb", None, src[s].origFb)}
    <2>1. list # {} OBVIOUS
    <2>2. src[s].pc = "setmonitor" BY <1>7 DEF SetMonitor
    <2>3. CASE Work(s, src[s], "undo", list)
      <3> HIDE DEF list
      <3>1. src'[s].pc = "undo" BY <2>1, <2>3, WorkFields
      <3> QED BY <2>2, <3>1 DEF Goes, Built
    <2>4. CASE src' = [src EXCEPT ![s].pc = "created", ![s].method = "setmonitor"]
      <3>1. src'[s].pc = "created" BY <1>0, <2>4 DEF Objects
      <3> QED BY <2>2, <3>1 DEF Goes, Built
    <2> QED BY <1>7, <2>3, <2>4 DEF SetMonitor
  <1>8. CASE BuildPipeline(s) \/ Stop(s)
    <2>1. CleanupCommands(src[s]) # {} BY DEF CleanupCommands
    <2>2. CASE Cleanup(s)
      <3>1. src'[s].pc = "cleanup" BY <2>1, <2>2, WorkFields DEF Cleanup
      <3> QED BY <1>8, <3>1 DEF BuildPipeline, Stop, Goes
    <2>3. CASE src[s].pc = "created" /\ Goto(s, "live") BY <2>3, GotoFields DEF Goes
    <2> QED BY <1>8, <2>2, <2>3 DEF BuildPipeline, Stop
  <1> QED BY <1>1, <1>2, <1>3, <1>4, <1>5, <1>6, <1>7, <1>8 DEF Step

\* What a source's place tells of its phase, and of what is held.
Staged ==
    \A s \in Sources : Alone(s) =>
      /\ src[s].pc \in Quiet => Phase(s) = "idle" /\ x = Pristine(x.taken)
      /\ src[s].pc \in Early => Phase(s) = "starting" /\ x = Pristine(x.taken)
      /\ src[s].pc \in Built => Phase(s) = "starting" /\ x # Pristine(x.taken)
      /\ src[s].pc = "live" => Phase(s) = "live" /\ x # Pristine(x.taken)
      /\ src[s].pc \in Ending => Phase(s) = "ending" /\ x # Pristine(x.taken)

LEMMA Stages == Types /\ Rungs /\ ~lost => Staged
  <1> SUFFICES ASSUME Types, Rungs, ~lost, NEW s \in Sources, Alone(s)
      PROVE  /\ src[s].pc \in Quiet => Phase(s) = "idle" /\ x = Pristine(x.taken)
             /\ src[s].pc \in Early => Phase(s) = "starting" /\ x = Pristine(x.taken)
             /\ src[s].pc \in Built => Phase(s) = "starting" /\ x # Pristine(x.taken)
             /\ src[s].pc = "live" => Phase(s) = "live" /\ x # Pristine(x.taken)
             /\ src[s].pc \in Ending => Phase(s) = "ending" /\ x # Pristine(x.taken)
    BY DEF Staged
  <1>1. OnRung(src[s]) BY DEF Rungs
  <1>2. Clean <=> x = Pristine(x.taken) BY CleanIs DEF Types, TypeOK
  <1>3. ASSUME src[s].pc \in Quiet \cup Early PROVE Clean BY <1>1, <1>3 DEF OnRung, Early
  <1>4. ASSUME src[s].pc \in Built \cup {"live"} \cup Ending PROVE ~Clean
    <2>1. src[s].w \in Sizes /\ (\/ Made(src[s]) \/ Added(src[s]) \/ Enabled(src[s])
                                 \/ Wide(src[s]) \/ Region(src[s]))
      <3>1. CASE src[s].pc \in Ending BY <1>1, <3>1 DEF OnRung, Ending, Undone, OnOutput
      <3>2. CASE src[s].pc \in Built \cup {"live"}
        BY <1>1, <3>2 DEF OnRung, Built, OnOutput
      <3> QED BY <1>4, <3>1, <3>2
    <2> QED BY <2>1, NotClean
  <1>5. /\ src[s].pc \in Quiet => Phase(s) = "idle"
        /\ src[s].pc \in Early \cup Built => Phase(s) = "starting"
        /\ src[s].pc = "live" => Phase(s) = "live"
        /\ src[s].pc \in Ending => Phase(s) = "ending"
    BY DEF Phase, Quiet, Early, Built, Ending
  <1> QED BY <1>2, <1>3, <1>4, <1>5

LEMMA StagesNext == Types' /\ Rungs' /\ ~lost' => Staged'
  BY Stages, PTL

\* Each way to go on is an action of VideoSource.
LEMMA GoesRefines ==
    ASSUME NEW s \in Sources, Some = s, Alone(s), Alone(s)',
           Staged, Staged', Goes(src[s].pc, src'[s].pc)
    PROVE  [Source!Next]_(Source!vars)
  <1> DEFINE holds == x # Pristine(x.taken)
             flows == src[Some].pc = "live"
  <1>0. Some = s OBVIOUS
  <1>1. CASE src[s].pc \in Quiet /\ src'[s].pc \in {"begin", "idle"}
    <2>1. Phase(s) = "idle" /\ Phase(s)' \in {"starting", "idle"}
      BY <1>1 DEF Staged, Early, Quiet
    <2>2. holds' = holds /\ flows' = flows BY <1>0, <1>1 DEF Staged, Early, Quiet
    <2> QED BY <1>0, <2>1, <2>2 DEF Source!Next, Source!BeginStart, Source!vars
  <1>2. CASE src[s].pc \in Early /\ src'[s].pc \in Early \cup Built \cup Quiet
    <2>1. Phase(s) = "starting" /\ holds = FALSE BY <1>2 DEF Staged
    <2>2. flows = FALSE /\ flows' = FALSE
      BY <1>0, <1>2 DEF Early, Built, Quiet
    <2>3. CASE src'[s].pc \in Early
      <3>1. Phase(s)' = "starting" /\ holds' = FALSE BY <2>3 DEF Staged
      <3> QED BY <1>0, <2>1, <2>2, <3>1 DEF Source!vars
    <2>4. CASE src'[s].pc \in Built
      <3>1. Phase(s)' = "starting" /\ holds' = TRUE BY <2>4 DEF Staged
      <3> QED BY <1>0, <2>1, <2>2, <3>1 DEF Source!Next, Source!Acquire
    <2>5. CASE src'[s].pc \in Quiet
      <3>1. Phase(s)' = "idle" /\ holds' = FALSE BY <2>5 DEF Staged
      <3> QED BY <1>0, <2>1, <2>2, <3>1 DEF Source!Next, Source!Refuse
    <2> QED BY <1>2, <2>3, <2>4, <2>5
  <1>3. CASE src[s].pc \in Built /\ src'[s].pc \in Built
    <2>1. /\ Phase(s) = "starting" /\ Phase(s)' = "starting"
          /\ holds = TRUE /\ holds' = TRUE
      BY <1>3 DEF Staged
    <2>2. flows = FALSE /\ flows' = FALSE BY <1>0, <1>3 DEF Built
    <2> QED BY <1>0, <2>1, <2>2 DEF Source!vars
  <1>4. CASE src[s].pc = "created" /\ src'[s].pc = "live"
    <2>1. /\ Phase(s) = "starting" /\ Phase(s)' = "live"
          /\ holds = TRUE /\ holds' = TRUE
      BY <1>4 DEF Staged, Built
    <2>2. flows' = TRUE BY <1>0, <1>4
    <2> QED BY <1>0, <2>1, <2>2 DEF Source!Next, Source!Ready
  <1>5. CASE src[s].pc \in Built \cup {"live"} /\ src'[s].pc \in Ending
    <2>1. /\ Phase(s) \in {"starting", "live"} /\ Phase(s)' = "ending"
          /\ holds = TRUE /\ holds' = TRUE
      BY <1>5 DEF Staged
    <2>2. flows' = FALSE BY <1>0, <1>5 DEF Ending
    <2> QED BY <1>0, <2>1, <2>2 DEF Source!Next, Source!BeginEnd
  <1>6. CASE src[s].pc \in Ending /\ src'[s].pc \in Ending \cup Quiet
    <2>1. Phase(s) = "ending" /\ holds = TRUE BY <1>6 DEF Staged
    <2>2. flows = FALSE /\ flows' = FALSE BY <1>0, <1>6 DEF Ending, Quiet
    <2>3. CASE src'[s].pc \in Ending
      <3>1. Phase(s)' = "ending" /\ holds' = TRUE BY <2>3 DEF Staged
      <3> QED BY <1>0, <2>1, <2>2, <3>1 DEF Source!vars
    <2>4. CASE src'[s].pc \in Quiet
      <3>1. Phase(s)' = "idle" /\ holds' = FALSE BY <2>4 DEF Staged
      <3> QED BY <1>0, <2>1, <2>2, <3>1 DEF Source!Next, Source!Release
    <2> QED BY <1>6, <2>3, <2>4
  <1>7. src[s].pc = "created" => src[s].pc \in Built BY DEF Built
  <1>8. "undo" \in Ending /\ "cleanup" \in Ending BY DEF Ending
  <1> HIDE DEF holds, flows
  <1> QED BY <1>1, <1>2, <1>3, <1>4, <1>5, <1>6, <1>7, <1>8 DEF Goes

LEMMA NextIsSource ==
    /\ Sources # {} /\ Reliable /\ Types /\ Rungs /\ [Next]_vars
    /\ Types' /\ Rungs'
    => [Source!Next \/ lost' \/ ~Alone(Some)']_(Source!vars)
  <1> SUFFICES ASSUME Sources # {}, Reliable, Types, Rungs, [Next]_vars, Types', Rungs',
                      ~lost', Alone(Some)'
               PROVE  [Source!Next]_(Source!vars)
    OBVIOUS
  <1> DEFINE s == Some
  <1>0. s \in Sources BY DEF Some
  <1>1. CASE UNCHANGED vars
    BY <1>1 DEF vars, Source!vars, Phase
  <1>2. ASSUME ~lost, Alone(s), Goes(src[s].pc, src'[s].pc)
        PROVE  [Source!Next]_(Source!vars)
    <2>1. Staged /\ Staged' BY <1>2, Stages, StagesNext
    <2> QED BY <1>0, <1>2, <2>1, GoesRefines
  <1>3. ASSUME NEW t \in Sources, Step(t), lost' = lost PROVE [Source!Next]_(Source!vars)
    <2>1. s = t /\ Alone(s) BY <1>0, <1>3, AloneFrame
    <2>2. Goes(src[s].pc, src'[s].pc) BY <1>3, <2>1, StepGoes
    <2> QED BY <1>2, <1>3, <2>1, <2>2
  <1>4. ASSUME NEW t \in Sources, ReadBack(t) PROVE [Source!Next]_(Source!vars)
    <2>1. s = t /\ Alone(s) BY <1>0, <1>4, AloneFrame
    <2>2. ~lost BY <1>4 DEF ReadBack
    <2>3. OnRung(src[s]) BY <1>0, <2>1, <2>2 DEF Rungs
    <2>4. src[s].pc = "after" /\ src'[s].pc = "created"
      BY <1>4, <2>1, <2>3, ReadBackRungs
    <2>5. Goes(src[s].pc, src'[s].pc) BY <2>4 DEF Goes, Built
    <2> QED BY <1>2, <2>1, <2>2, <2>5
  <1> QED BY <1>1, <1>3, <1>4 DEF Next, Crash

\* The X11 backend keeps the contract of capture/base.py until another source
\* is begun or an extension is forgotten: a start that fails gives back what it
\* had made before it ends, and frames come only from what is there.
THEOREM X11IsAVideoSource ==
    ASSUME Sources # {}, Reliable
    PROVE  Spec => ImplementsVideoSource
  <1>1. Init => Source!Init
    <2> SUFFICES ASSUME Init PROVE Source!Init
      OBVIOUS
    <2>1. Types /\ Rungs /\ ~lost BY InitTypes, InitRungs DEF Init
    <2>2. Some \in Sources BY DEF Some
    <2>3. src[Some].pc = "idle" /\ Alone(Some) BY <2>2, NewSourceType DEF Init, Alone
    <2>4. Phase(Some) = "idle" /\ x = Pristine(x.taken)
      BY <2>1, <2>2, <2>3, Stages DEF Staged, Quiet
    <2> QED BY <2>3, <2>4 DEF Source!Init
  <1>2. /\ Types /\ Rungs /\ [Next]_vars /\ Types' /\ Rungs'
        => [Source!Next \/ lost' \/ ~Alone(Some)']_(Source!vars)
    BY NextIsSource
  <1>3. Types /\ Rungs /\ [Next]_vars => Rungs' BY NextRungs
  <1> QED BY <1>1, <1>2, <1>3, InitRungs, SpecTypes, PTL DEF Spec, ImplementsVideoSource
=============================================================================
