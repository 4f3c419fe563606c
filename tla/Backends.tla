------------------------------ MODULE Backends ------------------------------
(***************************************************************************)
(* The choice of the input backend (internal/input/backend_probe.go) and   *)
(* the backend that then runs: X11Backend or EvdevBackend.  The portal     *)
(* backend is a stub whose operations fail, and without a backend the      *)
(* program only serves the network.                                        *)
(***************************************************************************)
EXTENDS X11Backend, Integers, FiniteSets

CONSTANTS Sessions,     \* environments: forced, session, display, portal
          Devs, Frames, Spots, MaxFrames, MaxInjects   \* of EvdevBackend

\* A kernel event of the axis modelled, and what a node queues at once: the events
\* of a frame, of which only the last is the SYN_REPORT.
Event == [code : STRING, value : Int]

ASSUME DevsAssumption == IsFiniteSet(Devs)
ASSUME SpotsAssumption == Spots \subseteq Int
ASSUME FramesAssumption ==
    /\ Frames \subseteq Seq(Event)
    /\ \A f \in Frames : f # <<>> /\ \A i \in 1..Len(f) : f[i].code = "syn" <=> i = Len(f)

VARIABLES session,      \* the environment the program was started in
          kind,         \* the backend Probe chose
          file, grabbed, kernel, sums, reader, capture, done, fresh, caller,
          pos, pointer, exact, crash, made, injects

E == INSTANCE EvdevBackend WITH Callers <- Stoppers

evdev == <<file, grabbed, kernel, sums, reader, capture, done, fresh, caller,
           pos, pointer, exact, crash, made, injects>>

\* The forced one, X11 by session or by display outside Wayland, else the portal
\* where there is one.
Probe(s) ==
    IF s.forced # "no" THEN s.forced
    ELSE IF s.session = "x11" \/ (s.display /\ s.session # "wayland") THEN "x11"
    ELSE IF s.session # "wayland" THEN "unknown"
    ELSE IF s.portal THEN "portal" ELSE "evdev"

BInit == /\ session \in Sessions
         /\ kind = Probe(session)
         /\ XInit /\ E!EInit

BNext == /\ \/ kind = "x11" /\ XNext /\ UNCHANGED evdev
            \/ kind = "evdev" /\ E!ENext /\ UNCHANGED xvars
         /\ UNCHANGED <<session, kind>>

bvars == <<xvars, evdev, session, kind>>

BSpec == BInit /\ [][BNext]_bvars /\ (kind = "x11" => XFairness)

-----------------------------------------------------------------------------
\* Once anchored at the cursor, the evdev tracker and the motion on its way to it
\* give the cursor's place (backend_linux.go:383-410).
TrackerKnowsCursor == E!TrackerKnowsCursor

\* An evdev report is one frame of one node (backend_linux.go:147-160).
ReportsOneFrame == E!ReportsOneFrame

\* After a StopCapture of the evdev backend every reader has ended and every node
\* is released (backend_linux.go:527-551).
ReadersGone == E!ReadersGone
=============================================================================
