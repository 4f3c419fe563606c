----------------------------- MODULE MCBackends -----------------------------
(* An X11 session, and Wayland ones without and with the portal; a gesture   *)
(* moves the mouse and turns its wheel in one frame.                         *)
EXTENDS Backends

Env(s, portal) == [forced |-> "no", session |-> s, display |-> TRUE, portal |-> portal]
MCSessions == {Env("x11", FALSE), Env("wayland", FALSE), Env("wayland", TRUE)}

Ev(c, v) == [code |-> c, value |-> v]
MCFrames == { <<Ev("x", 1), Ev("wheel", 1), Ev("syn", 0)>> }
=============================================================================
