------------------------------ MODULE MCDoctor ------------------------------
(* Doctor on the machines that differ in what the report looks at.         *)
EXTENDS Doctor

\* Two hardware encoders, any of the other packages missing; drivers that
\* refuse forced modes; no evdi, and a region that always works.  A typelib
\* without PyGObject, or VIRTUAL among sources that cannot be read, is the same
\* machine to every check.
MCMachines ==
    {m \in [session : {"wayland", "x11", "tty", ""}, display : BOOLEAN,
            gi : BOOLEAN, gst : BOOLEAN,
            portal : BOOLEAN, sources : BOOLEAN, virtual : BOOLEAN, remote : BOOLEAN,
            elements : SUBSET {"vah264enc", "nvh264enc", "pipewiresrc", "ximagesrc",
                               "convert"},
            xrandr : {"missing", "no_active", "works"}, connector : BOOLEAN,
            forced : BOOLEAN, region : {TRUE}, evdi : {FALSE},
            uinput : BOOLEAN, evdev : BOOLEAN] :
        /\ m.gst => m.gi
        /\ m.virtual => m.sources
        /\ m.session = "x11" => m.portal /\ m.virtual /\ m.remote
        /\ m.session # "x11" => m.forced /\ m.connector /\ m.evdev}
=============================================================================
