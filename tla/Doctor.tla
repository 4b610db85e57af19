------------------------------- MODULE Doctor -------------------------------
(***************************************************************************)
(* What `ubudesk doctor` says of a machine (server/ubudesk_server/         *)
(* doctor.py) beside what a stream on it comes to: the choice of a backend *)
(* (net/server.py, _default_factory), of an encoder (capture/encoders.py), *)
(* and the checks of the two backends' start() (capture/pipeline.py,       *)
(* portal_session.py, x11.py).                                             *)
(*                                                                         *)
(* A behaviour is a machine, one report and one stream.  The user accepts  *)
(* every dialog and nothing fails that is not a property of the machine.   *)
(***************************************************************************)
EXTENDS Naturals, Sequences

CONSTANT Machines  \* the machines considered

Encoders == {"vah264enc", "vaapih264enc", "nvh264enc", "x264enc"}
\* "convert" stands for videoconvert, videoscale, videorate and h264parse.
Elements == Encoders \cup {"pipewiresrc", "ximagesrc", "convert"}

\* XDG_SESSION_TYPE and DISPLAY; PyGObject and GStreamer's typelib for it; the
\* ScreenCast portal, whether it answers for its source types, whether VIRTUAL
\* is one, and the RemoteDesktop portal; GStreamer's elements; xrandr and, as
\* pick_extend_output finds them, a free connector and whether its driver takes
\* forced modes; the region of the last rung; the evdi module; /dev/uinput and
\* python-evdev.
AllMachines ==
    [session : {"wayland", "x11", "tty", ""}, display : BOOLEAN,
     gi : BOOLEAN, gst : BOOLEAN,
     portal : BOOLEAN, sources : BOOLEAN, virtual : BOOLEAN, remote : BOOLEAN,
     elements : SUBSET Elements,
     xrandr : {"missing", "failing", "no_active", "works"}, connector : BOOLEAN,
     forced : BOOLEAN, region : BOOLEAN, evdi : BOOLEAN,
     uinput : BOOLEAN, evdev : BOOLEAN]

ASSUME MachinesAssumption == Machines \subseteq AllMachines

VARIABLES machine,  \* the machine
          report,   \* the support matrix of the report, if one was made
          stream    \* mode, outcome and input of the stream, if one was asked for

doctorVars == <<machine, report, stream>>

NotYet == [is |-> "not yet"]
Modes == {"mirror", "extend"}

DoctorInit == machine \in Machines /\ report = NotYet /\ stream = NotYet

-----------------------------------------------------------------------------
(* Encoders.                                                               *)

\* Variant: NVENC is left out of the automatic order.
OrderNoNvenc(preference) == <<"vah264enc", "vaapih264enc", "x264enc">>
Order(preference) ==
    CASE preference = "auto" -> <<"vah264enc", "vaapih264enc", "nvh264enc", "x264enc">>
      [] preference = "va" -> <<"vah264enc", "vaapih264enc">>
      [] OTHER -> <<preference>>

FirstEncoder(m, preference) ==
    LET order == Order(preference)
        usable == {i \in DOMAIN order : order[i] \in m.elements}
    IN  IF usable = {} THEN "none"
        ELSE order[CHOOSE i \in usable : \A j \in usable : i <= j]

-----------------------------------------------------------------------------
(* The report.                                                             *)

DoctorSession(m) == IF m.session = "" /\ m.display THEN "x11" ELSE m.session

\* encoders.gst_available, and the same test of doctor.py.
GstAvailable(m) == m.gi /\ m.gst

EncoderCheck(m) == IF ~GstAvailable(m) THEN ""
                   ELSE IF m.elements \cap Encoders # {} THEN "PASS" ELSE "FAIL"
PortalCheck(m) == m.gi /\ m.portal

\* AvailableSourceTypes: doctor.py says nothing of sources it cannot read,
\* portal_session.py takes them for none.
VirtualMonitor(m) == IF ~PortalCheck(m) \/ ~m.sources THEN "UNKNOWN"
                     ELSE IF m.virtual THEN "SUPPORTED" ELSE "NOT SUPPORTED"
OffersVirtual(m) == m.sources /\ m.virtual

\* _check_x11, for X11 sessions only.
X11Extend(m) == IF m.xrandr \in {"works", "no_active"} /\ (m.connector \/ m.evdi)
                THEN "YES" ELSE "NO"

MirrorWayland(m) == IF PortalCheck(m) /\ EncoderCheck(m) = "PASS" THEN "YES" ELSE "NO"
MirrorX11(m) == IF GstAvailable(m) /\ "ximagesrc" \in m.elements /\ EncoderCheck(m) = "PASS"
                THEN "YES" ELSE "NO"

ReportWayland(m) ==
    [encoder |-> EncoderCheck(m), mirror |-> MirrorWayland(m),
     extend |-> CASE VirtualMonitor(m) = "SUPPORTED" /\ MirrorWayland(m) = "YES" -> "YES"
                  [] VirtualMonitor(m) = "NOT SUPPORTED" -> "NO"
                  [] OTHER -> "UNKNOWN",
     input |-> IF PortalCheck(m) /\ m.remote THEN "portal"
               ELSE IF m.uinput THEN "uinput" ELSE "view-only"]

ReportX11(m) ==
    [encoder |-> EncoderCheck(m), mirror |-> MirrorX11(m),
     extend |-> IF MirrorX11(m) = "NO" THEN "NO" ELSE X11Extend(m),
     input |-> IF m.uinput THEN "uinput" ELSE "view-only"]

ReportNone(m) == [encoder |-> EncoderCheck(m), mirror |-> "NO", extend |-> "NO",
                  input |-> "UNKNOWN"]

ReportOf(m) == CASE DoctorSession(m) = "wayland" -> ReportWayland(m)
                 [] DoctorSession(m) = "x11" -> ReportX11(m)
                 [] OTHER -> ReportNone(m)

RunDoctor == report' = ReportOf(machine) /\ UNCHANGED <<machine, stream>>

-----------------------------------------------------------------------------
(* The stream.                                                             *)

\* _default_factory with source = "auto".
Backend(m) == IF m.session \in {"x11", "wayland"} THEN m.session
              ELSE IF m.display THEN "x11" ELSE "wayland"

\* find_encoder, then parse_launch of the whole pipeline.
Pipeline(m, source) ==
    IF FirstEncoder(m, "auto") # "none" /\ {source, "convert"} \subseteq m.elements
    THEN "live" ELSE "capture_failed"

\* CreateSession on a portal that is not there is an error of the bus.
\* Variant: without VIRTUAL sources extend falls back to mirror.
PortalStartAny(m, mode) ==
    IF ~GstAvailable(m) THEN "capture_failed"
    ELSE IF ~m.portal \/ ~m.remote THEN "raised"
    ELSE Pipeline(m, "pipewiresrc")

PortalStart(m, mode) ==
    IF ~GstAvailable(m) THEN "capture_failed"
    ELSE IF ~m.portal \/ ~m.remote THEN "raised"
    ELSE IF mode = "extend" /\ ~OffersVirtual(m) THEN "no_virtual_monitor"
    ELSE Pipeline(m, "pipewiresrc")

\* The connector is tried if there is one, the region only if there is none.
Ladder(m) == IF m.connector THEN m.forced ELSE m.region

X11Start(m, mode) ==
    IF ~m.display \/ ~GstAvailable(m) \/ m.xrandr # "works" THEN "capture_failed"
    ELSE IF mode = "extend" /\ ~Ladder(m) THEN "no_virtual_monitor"
    ELSE Pipeline(m, "ximagesrc")

\* _make_uinput_or_view_only; on Wayland the input is the portal's.
X11Input(m) == IF m.evdev /\ m.uinput THEN "uinput" ELSE "view-only"

StreamOf(m, mode) ==
    IF Backend(m) = "x11"
    THEN [mode |-> mode, outcome |-> X11Start(m, mode), input |-> X11Input(m)]
    ELSE [mode |-> mode, outcome |-> PortalStart(m, mode), input |-> "portal"]

StartStream(mode) ==
    /\ stream = NotYet /\ stream' = StreamOf(machine, mode)
    /\ UNCHANGED <<machine, report>>

DoctorNext == RunDoctor \/ \E mode \in Modes : StartStream(mode)

DoctorSpec == DoctorInit /\ [][DoctorNext]_doctorVars

-----------------------------------------------------------------------------
(* Properties.                                                             *)

Both == report # NotYet /\ stream # NotYet
Live == stream.outcome = "live"
Graphical == machine.session \in {"wayland", "x11"}

\* The report's encoder check passes exactly when find_encoder("auto") finds
\* an encoder: GST_ELEMENTS of doctor.py names what encoders.py looks for.
EncoderAgrees ==
    report # NotYet /\ GstAvailable(machine) =>
        (report.encoder = "PASS" <=> FirstEncoder(machine, "auto") # "none")

\* What doctor.py does not look at for its matrix: the elements of the
\* pipeline beside the encoder, RemoteDesktop on Wayland, xrandr on X11.
\* Nor does it look for python-evdev, which matters to the input alone.
Unseen == IF machine.session = "wayland"
          THEN machine.remote /\ {"pipewiresrc", "convert"} \subseteq machine.elements
          ELSE machine.display /\ machine.xrandr = "works" /\ "convert" \in machine.elements

\* In a graphical session a "NO" for mirror is never wrong, on Wayland nor is
\* one for extend, and on X11 with python-evdev the input is the reported one.
\* Where the rest is in order too the matrix is right: mirror as reported,
\* extend "YES" works unless a driver refuses forced modes or evdi has no
\* output.  A "NO" for extend on Wayland is told to the client as
\* no_virtual_monitor where GStreamer's typelib is there as well: the report
\* reads the portal's sources without it, a stream ends on it before it asks.
\* Of an "UNKNOWN" nothing is claimed.
MatrixIsRight ==
    Both /\ Graphical =>
        /\ report.mirror = "NO" => ~Live
        /\ machine.session = "wayland" /\ stream.mode = "extend" =>
              (report.extend = "NO" => ~Live)
        /\ machine.session = "x11" /\ machine.evdev => report.input = stream.input
        /\ Unseen =>
             /\ stream.mode = "mirror" => (report.mirror = "YES" <=> Live)
             /\ stream.mode = "extend" /\ report.extend = "YES" =>
                   Live \/ (machine.session = "x11" /\ ~Ladder(machine))
             /\ /\ stream.mode = "extend" /\ report.extend = "NO"
                /\ machine.session = "wayland" /\ machine.gst
                => stream.outcome = "no_virtual_monitor"
=============================================================================
