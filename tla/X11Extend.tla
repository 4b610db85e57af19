------------------------------ MODULE X11Extend ------------------------------
(***************************************************************************)
(* The X11 "extend" backend (server/ubudesk_server/capture/x11.py): the    *)
(* ladder of xrandr commands that creates a virtual output or, without a   *)
(* free connector, a monitor region in an enlarged framebuffer; its        *)
(* cleanup; and the removal of what a crashed run left.                    *)
(*                                                                         *)
(* Every client has an X11Source of its own, started and stopped in an     *)
(* executor thread, so the commands of two sources interleave one by one.  *)
(* The X server outlives the process: a crash loses src and keeps x.       *)
(*                                                                         *)
(* A requested size w stands for width, height and rate at once: it names  *)
(* the mode ("ubudesk_<w>"), and is the room wanted right of the primary.  *)
(* Outputs are the connectors beside the primary one, in the order in      *)
(* which pick_extend_output prefers them.                                  *)
(***************************************************************************)
EXTENDS Naturals, FiniteSetsExt

CONSTANTS
    Sources,    \* the sources that may exist at one time, one per client
    Spare,      \* number of connectors beside the primary one
    MaxSize,    \* bound: sizes a client may ask for are 1..MaxSize
    Refusable,  \* the xrandr verbs that may fail
    MayCrash    \* whether the server process can be killed

ASSUME ExtendAssumption ==
    /\ Spare \in Nat /\ MaxSize \in Nat \ {0}
    /\ MayCrash \in BOOLEAN

Sizes == 1..MaxSize
Outputs == 1..Spare
None == 0

Verbs == {"query", "newmode", "addmode", "enable", "off", "delmode", "rmmode",
          "fb", "setmonitor", "delmonitor"}
Cmd(verb, out, w) == [verb |-> verb, out |-> out, w |-> w]
Cmds == [verb : Verbs, out : Outputs \cup {None}, w : Sizes \cup {None}]

\* The order of the commands of a list: output by output, each switched off
\* before its modes are deleted, a mode's deletion before its removal.  A
\* removal is listed with the output for which the mode was made.
Sooner == {<<"delmonitor", "fb">>, <<"off", "delmode">>, <<"off", "rmmode">>,
           <<"delmode", "rmmode">>}
Before(c, d) == c.out < d.out \/ (c.out = d.out /\ <<c.verb, d.verb>> \in Sooner)

\* Where a source is.  In Listing states it runs the commands that are
\* left of a list, `todo`.
Listing == {"stale", "undo", "cleanup"}
Quiet == {"idle", "failed", "stopped"}
Pcs == Listing \cup Quiet \cup
       {"begin", "create", "addmode", "enable", "after", "setmonitor",
        "created", "live"}

VARIABLES
    x,    \* the X server: modes, per output attached and active, ...
    src,  \* [s]: a source: pc, todo, XrandrExtend's method, out, w, origFb
    lost  \* history: an extension was forgotten: a crash, a failed read-back

vars == <<x, src, lost>>

Screens == [modes : SUBSET Sizes, attached : [Outputs -> SUBSET Sizes],
            active : [Outputs -> Sizes \cup {None}], taken : SUBSET Outputs,
            region : Sizes \cup {None}, fb : 0..MaxSize]
Objects == [pc : Pcs, todo : SUBSET Cmds, method : {"", "output", "setmonitor"},
            out : Outputs \cup {None}, w : Sizes \cup {None}, origFb : 0..MaxSize]

TypeOK ==
    /\ x \in Screens
    /\ src \in [Sources -> Objects]
    /\ \A s \in Sources : src[s].pc \in Listing => src[s].todo # {}
    /\ lost \in BOOLEAN

\* The X server without a trace of UbuDesk; displays of the user's on `taken`.
Pristine(taken) ==
    [modes |-> {}, attached |-> [o \in Outputs |-> {}],
     active |-> [o \in Outputs |-> None], taken |-> taken, region |-> None, fb |-> 0]

\* A new XrandrExtend.
NewSource == [pc |-> "idle", todo |-> {}, method |-> "", out |-> None,
              w |-> None, origFb |-> 0]

Init == /\ x \in {Pristine(taken) : taken \in SUBSET Outputs}
        /\ src = [s \in Sources |-> NewSource]
        /\ lost = FALSE

-----------------------------------------------------------------------------
(* The X server and the xrandr program.                                    *)

\* What xrandr makes of the screen size when it changes an output.
Box(active) == Max({active[o] : o \in Outputs} \cup {0})

\* Whether the server can carry out c: a mode in use is not deleted.
Possible(c) ==
    CASE c.verb = "newmode" -> c.w \notin x.modes
      [] c.verb = "addmode" -> c.w \in x.modes
      [] c.verb = "enable"  -> c.w \in x.attached[c.out]
      [] c.verb = "delmode" -> c.w \in x.attached[c.out] /\ x.active[c.out] # c.w
      [] c.verb = "rmmode"  -> c.w \in x.modes /\ \A o \in Outputs : c.w \notin x.attached[o]
      [] c.verb = "delmonitor" -> x.region # None
      [] OTHER -> TRUE

SetActive(o, w) == LET a == [x.active EXCEPT ![o] = w]
                   IN  [x EXCEPT !.active = a, !.fb = Box(a)]

Outcome(c) ==
    CASE c.verb = "newmode" -> [x EXCEPT !.modes = @ \cup {c.w}]
      [] c.verb = "addmode" -> [x EXCEPT !.attached[c.out] = @ \cup {c.w}]
      [] c.verb = "enable"  -> SetActive(c.out, c.w)
      [] c.verb = "off"     -> SetActive(c.out, None)
      [] c.verb = "delmode" -> [x EXCEPT !.attached[c.out] = @ \ {c.w}]
      [] c.verb = "rmmode"  -> [x EXCEPT !.modes = @ \ {c.w}]
      [] c.verb = "fb"      -> [x EXCEPT !.fb = c.w]
      [] c.verb = "setmonitor" -> [x EXCEPT !.region = c.w]
      [] c.verb = "delmonitor" -> [x EXCEPT !.region = None]
      [] OTHER -> x

\* real_runner never raises: a command works or returns an error.  What was
\* enlarged can be made smaller again.
Shrinks(c) == c.verb = "fb" /\ c.w <= x.fb
Works(c) == Possible(c) /\ x' = Outcome(c)
Fails(c) == (~Possible(c) \/ (c.verb \in Refusable /\ ~Shrinks(c))) /\ x' = x

-----------------------------------------------------------------------------
Goto(s, pc) == src' = [src EXCEPT ![s].pc = pc]

\* Continue with the commands of list, then at `next`.
After(next) == CASE next = "stale" -> "create"
                 [] next = "undo" -> "failed"
                 [] next = "cleanup" -> "stopped"
Work(s, o, pc, list) ==
    src' = [src EXCEPT ![s] = [o EXCEPT !.pc = IF list = {} THEN After(pc) ELSE pc,
                                        !.todo = list]]

\* The next command of the list; its result is not looked at.
RunListed(s) ==
    /\ src[s].pc \in Listing
    /\ \E c \in src[s].todo :
         /\ \A d \in src[s].todo : ~Before(d, c)
         /\ Works(c) \/ Fails(c)
         /\ Work(s, src[s], src[s].pc, src[s].todo \ {c})

\* X11Source.start, up to the ladder: without DISPLAY or GStreamer it raises.
Begin(s, w) ==
    /\ src[s].pc \in Quiet
    /\ \E pc \in {"begin", "idle"} :
         src' = [src EXCEPT ![s] = [NewSource EXCEPT !.pc = pc, !.w = w]]
    /\ UNCHANGED x

\* clean_stale: from one query, what to remove.
DeleteStale(o) == {Cmd("delmode", o, w) : w \in x.attached[o]}
\* Variant: the output is not switched off first.
StaleOnNoOff(o) == DeleteStale(o)
StaleOn(o) ==
    DeleteStale(o) \cup
    (IF x.active[o] # None /\ x.attached[o] # {} THEN {Cmd("off", o, None)} ELSE {})
StaleCommands == {Cmd("delmonitor", None, None)} \cup UNION {StaleOn(o) : o \in Outputs}

\* A query that fails raises CaptureError; nothing is held on to.
Queries(s) == Works(Cmd("query", None, None))
QueryFails(s) == Fails(Cmd("query", None, None)) /\ Goto(s, "failed")

CleanStale(s) ==
    /\ src[s].pc = "begin"
    /\ \/ QueryFails(s)
       \/ Queries(s) /\ Work(s, src[s], "stale", StaleCommands)

\* create(): ladder steps 1 and 2 pick an inactive output and make the mode,
\* step 3 enlarges the framebuffer when no output is free.
Free == {o \in Outputs \ x.taken : x.active[o] = None}
NewMode(s, o) ==
    LET c == Cmd("newmode", None, src[s].w)
    IN  \/ Works(c) /\ src' = [src EXCEPT ![s].pc = "addmode", ![s].out = o]
        \/ /\ Fails(c)
           /\ src' = [src EXCEPT ![s].pc = IF src[s].w \in x.modes THEN "addmode"
                                                                   ELSE "failed",
                                 ![s].out = o]
\* Variant: the new region is added to a framebuffer that has one.
EnlargedBy(s) == x.fb + src[s].w
Enlarged(s) == Max({x.fb, src[s].w})
Enlarge(s) ==
    LET c == Cmd("fb", None, Enlarged(s))
    IN  \/ Works(c) /\ src' = [src EXCEPT ![s].pc = "setmonitor", ![s].origFb = x.fb]
        \/ Fails(c) /\ Goto(s, "failed")

Create(s) ==
    /\ src[s].pc = "create"
    /\ \/ QueryFails(s)
       \/ Free # {} /\ NewMode(s, Min(Free))
       \/ Free = {} /\ Enlarge(s)

AddMode(s) ==
    /\ src[s].pc = "addmode"
    /\ LET o == src[s].out  w == src[s].w
       IN  \/ Works(Cmd("addmode", o, w)) /\ Goto(s, "enable")
           \/ Fails(Cmd("addmode", o, w)) /\ Work(s, src[s], "undo", {Cmd("rmmode", o, w)})

\* Variant: the mode is deleted while it is attached to the output.
UndoModeOnly(o, w) == {Cmd("rmmode", o, w)}
UndoMode(o, w) == {Cmd("delmode", o, w), Cmd("rmmode", o, w)}
Enable(s) ==
    /\ src[s].pc = "enable"
    /\ LET o == src[s].out  w == src[s].w
       IN  \/ Works(Cmd("enable", o, w)) /\ src' = [src EXCEPT ![s].pc = "after",
                                                               ![s].method = "output"]
           \/ Fails(Cmd("enable", o, w)) /\ Work(s, src[s], "undo", UndoMode(o, w))

\* The geometry is read back; only then atexit knows the cleanup, so a query
\* that fails here leaves the output enabled for good.
ReadBack(s) ==
    /\ src[s].pc = "after"
    /\ \/ QueryFails(s) /\ lost' = TRUE
       \/ Queries(s) /\ Goto(s, "created") /\ lost' = lost

SetMonitor(s) ==
    /\ src[s].pc = "setmonitor"
    /\ LET c == Cmd("setmonitor", None, src[s].w)
       IN  \/ Works(c) /\ src' = [src EXCEPT ![s].pc = "created", ![s].method = "setmonitor"]
           \/ Fails(c) /\ Work(s, src[s], "undo", {Cmd("fb", None, src[s].origFb)})

\* cleanup(): at stop(), after a failed pipeline, or from atexit.
\* Variant: the mode stays on the output, the framebuffer enlarged.
CleanupCommandsOff(o) ==
    IF o.method = "output" THEN {Cmd("off", o.out, None)}
                           ELSE {Cmd("delmonitor", None, None)}
CleanupCommands(o) ==
    IF o.method = "output"
    THEN {Cmd("off", o.out, None), Cmd("delmode", o.out, o.w), Cmd("rmmode", o.out, o.w)}
    ELSE {Cmd("delmonitor", None, None), Cmd("fb", None, o.origFb)}
Cleanup(s) == UNCHANGED x /\ Work(s, src[s], "cleanup", CleanupCommands(src[s]))

\* The encoder and the pipeline: they run, or the extension is torn down.
BuildPipeline(s) ==
    /\ src[s].pc = "created"
    /\ Cleanup(s) \/ (Goto(s, "live") /\ UNCHANGED x)

Stop(s) == src[s].pc = "live" /\ Cleanup(s)

\* kill -9 and a new server: the X server keeps its state.
Crash ==
    /\ MayCrash
    /\ src' = [s \in Sources |-> NewSource]
    /\ lost' = TRUE
    /\ UNCHANGED x

Step(s) == \/ \E w \in Sizes : Begin(s, w)
           \/ CleanStale(s) \/ RunListed(s) \/ Create(s) \/ AddMode(s)
           \/ Enable(s) \/ SetMonitor(s) \/ BuildPipeline(s) \/ Stop(s)

Next ==
    \/ \E s \in Sources : ReadBack(s) \/ (Step(s) /\ lost' = lost)
    \/ Crash

Spec == Init /\ [][Next]_vars

-----------------------------------------------------------------------------
(* Properties.                                                             *)

AllQuiet == \A s \in Sources : src[s].pc \in Quiet
Has(s) == IF src[s].method = "output" THEN x.active[src[s].out] = src[s].w
                                      ELSE x.region = src[s].w /\ x.fb >= src[s].w

\* No other source was begun since the server is up.
Alone(s) == \A t \in Sources \ {s} : src[t] = NewSource

\* As long as no extension was forgotten: when every source was stopped or
\* failed to start, whichever of its commands the driver refused and however
\* the commands of several sources met, the X server is as the first one found
\* it (the rollbacks of _create_on_output and _create_setmonitor, cleanup).
\* Only the framebuffer may stay enlarged, when there was more than one.
RestoredAfterUse ==
    AllQuiet /\ ~lost =>
        /\ x = [Pristine(x.taken) EXCEPT !.fb = x.fb]
        /\ (\E s \in Sources : Alone(s)) => x.fb = 0

\* A source as a VideoSource, until another one is begun or an extension is
\* forgotten: the contract of capture/base.py.  A start that fails gives
\* everything back before it returns, frames come only from an output that is
\* there, and end before it is removed.
Phase(s) == CASE src[s].pc \in Quiet -> "idle"
              [] src[s].pc = "live" -> "live"
              [] src[s].pc \in {"undo", "cleanup"} -> "ending"
              [] OTHER -> "starting"
Some == CHOOSE s \in Sources : TRUE
Source == INSTANCE VideoSource WITH phase <- Phase(Some),
                                    holding <- x # Pristine(x.taken),
                                    flowing <- src[Some].pc = "live"
ImplementsVideoSource ==
    Source!Init /\ [][Source!Next \/ lost' \/ ~Alone(Some)']_(Source!vars)

\* A source that starts after a crash at any moment has removed what the
\* crashed ones showed: until another one is begun, its own output or region is
\* the only one (clean_stale).
OnlyOwnShown ==
    \A s \in Sources : src[s].pc = "live" /\ Alone(s) =>
        /\ Has(s)
        /\ \A o \in Outputs \ {src[s].out} : x.active[o] = None
        /\ src[s].method = "output" => x.region = None
=============================================================================
