----------------------------- MODULE X11Backend -----------------------------
(***************************************************************************)
(* The X11 capture backend (internal/input/backend_x11.go): the event loop *)
(* on the grab connection with its echo slot, the poll loop, the hide      *)
(* counter, StopCapture and Close.                                         *)
(*                                                                         *)
(* The X server is external.  While the passive grabs stand every key or   *)
(* button transition goes to the grab connection, an injected one too      *)
(* (xvfb_smoke_test.go reads its own injections back that way); otherwise  *)
(* it goes to the focused application.  Keys stands for keys and buttons.  *)
(***************************************************************************)
EXTENDS Naturals, Sequences

CONSTANTS Keys, Stoppers,   \* callers of StopCapture; "main" also closes
          MaxTyped,         \* bound on the user's transitions
          MaxHides,         \* bound on nested hides
          Nobody            \* no event

Events == [key : Keys, down : BOOLEAN]

ASSUME NobodyAssumption == Nobody \notin Events

VARIABLES conn,       \* the request connection is open
          grab,       \* the grab connection is open and its grabs stand
          queue,      \* events on their way to WaitForEvent
          echo,       \* the transition whose echo is to be dropped, or Nobody
          loop, ev,   \* place of the event loop and the event it handles
          poll,       \* place of the poll loop
          away,       \* forwarding
          stopped,    \* stopCh is closed
          stopper,    \* caller -> place in StopCapture and Close
          hidden,     \* the hide counter
          hides,      \* hides the server counts for this client
          held,       \* keys the user holds down
          typed,      \* the user's transitions while captured (history)
          reported,   \* transitions given to the callback (history)
          arrived,    \* the user's transitions that reached an application (history)
          calm,       \* each transition came after the one before was done with (history)
          home        \* forwarding has never been on (history)

input == <<typed, reported, arrived, calm, home>>
cursor == <<hidden, hides>>
xvars == <<conn, grab, queue, echo, loop, ev, poll, away, stopped, stopper,
           cursor, held, input>>

XInit == /\ conn = TRUE /\ grab = FALSE
         /\ queue = <<>> /\ echo = Nobody
         /\ loop = "none" /\ ev = Nobody /\ poll = "none"
         /\ away = FALSE /\ stopped = FALSE
         /\ stopper = [p \in Stoppers |-> "idle"]
         /\ hidden = 0 /\ hides = 0
         /\ held = {}
         /\ typed = <<>> /\ reported = <<>> /\ arrived = <<>>
         /\ calm = TRUE /\ home = TRUE

Quiet == queue = <<>> /\ loop \in {"top", "wait"}

\* The server routes a transition.
Route(e) == IF grab THEN /\ queue' = Append(queue, e)
                         /\ UNCHANGED arrived
                    ELSE /\ arrived' = IF calm THEN Append(arrived, e) ELSE arrived
                         /\ UNCHANGED queue

\* The user presses or releases a key while the capture runs.
Type(k) == LET e == [key |-> k, down |-> k \notin held]
           IN  /\ grab
               /\ Len(typed) < MaxTyped
               /\ held' = IF e.down THEN held \cup {k} ELSE held \ {k}
               /\ typed' = Append(typed, e)
               /\ calm' = (calm /\ Quiet)
               /\ Route(e)
               /\ UNCHANGED <<conn, grab, echo, loop, ev, poll, away, stopped, stopper,
                              cursor, reported, home>>

StartCapture ==
    /\ conn
    /\ loop = "none"
    /\ grab' = TRUE
    /\ loop' = "top" /\ poll' = "sleep"
    /\ UNCHANGED <<conn, queue, echo, ev, away, stopped, stopper, cursor, held, input>>

SetForwarding(f) ==
    /\ away # f
    /\ away' = f
    /\ home' = (home /\ ~f)
    /\ UNCHANGED <<conn, grab, queue, echo, loop, ev, poll, stopped, stopper, cursor,
                   held, typed, reported, arrived, calm>>

-----------------------------------------------------------------------------
(* eventLoop and handleGrabbed. *)

ev0 == <<conn, grab, poll, away, stopped, stopper, cursor, held, typed, calm, home>>

LoopTop == /\ loop = "top"
           /\ loop' = IF stopped THEN "ended" ELSE "wait"
           /\ UNCHANGED <<ev0, queue, echo, ev, reported, arrived>>

\* WaitForEvent: an event, or nothing more once the connection is closed.
WaitForEvent ==
    /\ loop = "wait"
    /\ \/ /\ queue # <<>>
          /\ ev' = Head(queue)
          /\ queue' = Tail(queue)
          /\ loop' = "echo"
       \/ /\ ~grab
          /\ loop' = "ended"
          /\ UNCHANGED <<ev, queue>>
    /\ UNCHANGED <<ev0, echo, reported, arrived>>

\* Mutant of TakeEcho: the slot stays armed.
TakeEchoAgain ==
    /\ loop = "echo"
    /\ loop' = IF echo = ev THEN "top" ELSE "report"
    /\ UNCHANGED <<ev0, echo, queue, ev, reported, arrived>>

TakeEcho ==
    /\ loop = "echo"
    /\ IF echo = ev THEN echo' = Nobody /\ loop' = "top"
                    ELSE loop' = "report" /\ UNCHANGED echo
    /\ UNCHANGED <<ev0, queue, ev, reported, arrived>>

\* The callback (host.onCapture), which never blocks.
Report ==
    /\ loop = "report"
    /\ reported' = IF calm THEN Append(reported, ev) ELSE reported
    /\ loop' = "local"
    /\ UNCHANGED <<ev0, queue, echo, ev, arrived>>

\* In local mode the transition is injected again, and its echo awaited.
ArmEcho ==
    /\ loop = "local"
    /\ IF away THEN loop' = "top" /\ UNCHANGED echo
               ELSE loop' = "inject" /\ echo' = ev
    /\ UNCHANGED <<ev0, queue, ev, reported, arrived>>

FakeInput ==
    /\ loop = "inject"
    /\ Route(ev)
    /\ loop' = "top"
    /\ UNCHANGED <<ev0, echo, ev, reported>>

-----------------------------------------------------------------------------
(* pollLoop, the cursor, StopCapture and Close. *)

\* Mutant of Poll: it ends with the request connection only.
PollForever == /\ \/ /\ poll = "sleep"
                     /\ poll' = IF conn THEN "query" ELSE "ended"
                  \/ /\ poll = "query"
                     /\ poll' = "sleep"
               /\ UNCHANGED <<conn, grab, queue, echo, loop, ev, away, stopped, stopper,
                              cursor, held, input>>

\* Every tick asks for the pointer, until the stop or the end of the connection.
Poll == /\ \/ /\ poll = "sleep"
              /\ poll' = IF stopped \/ ~conn THEN "ended" ELSE "query"
           \/ /\ poll = "query"
              /\ poll' = "sleep"
        /\ UNCHANGED <<conn, grab, queue, echo, loop, ev, away, stopped, stopper,
                       cursor, held, input>>

HideCursor == /\ conn
              /\ hidden < MaxHides
              /\ hidden' = hidden + 1
              /\ hides' = hides + 1
              /\ UNCHANGED <<conn, grab, queue, echo, loop, ev, poll, away, stopped,
                             stopper, held, input>>

ShowCursor == /\ conn
              /\ hidden > 0
              /\ hidden' = hidden - 1
              /\ hides' = hides - 1
              /\ UNCHANGED <<conn, grab, queue, echo, loop, ev, poll, away, stopped,
                             stopper, held, input>>

At(p, from, to) == stopper[p] = from /\ stopper' = [stopper EXCEPT ![p] = to]

\* StopCapture looks whether there is a capture.
FindCapture(p) ==
    /\ IF grab THEN At(p, "idle", "close") ELSE At(p, "idle", "out")
    /\ UNCHANGED <<conn, grab, queue, echo, loop, ev, poll, away, stopped, cursor, held, input>>

CloseStop(p) ==
    /\ At(p, "close", "ungrab")
    /\ stopped' = TRUE
    /\ UNCHANGED <<conn, grab, queue, echo, loop, ev, poll, away, cursor, held, input>>

\* Mutant of Ungrab: whoever closed stopCh is left to lift the grabs.
LeaveGrab(p) ==
    /\ At(p, "ungrab", "join")
    /\ grab' = (grab /\ \E q \in Stoppers \ {p} : stopper[q] = "ungrab")
    /\ UNCHANGED <<conn, queue, echo, loop, ev, poll, away, stopped, cursor, held, input>>

Ungrab(p) ==
    /\ At(p, "ungrab", "join")
    /\ grab' = FALSE
    /\ UNCHANGED <<conn, queue, echo, loop, ev, poll, away, stopped, cursor, held, input>>

Join(p) ==
    /\ At(p, "join", "out")
    /\ loop = "ended" /\ poll = "ended"
    /\ UNCHANGED <<conn, grab, queue, echo, loop, ev, poll, away, stopped, cursor, held, input>>

\* Mutant of Close: one show for however many hides.
CloseShowOnce ==
    /\ stopper["main"] = "out"
    /\ conn
    /\ conn' = FALSE
    /\ hidden' = 0
    /\ hides' = IF hides > 0 THEN hides - 1 ELSE 0
    /\ UNCHANGED <<grab, queue, echo, loop, ev, poll, away, stopped, stopper, held, input>>

\* Close, after its own StopCapture: the cursor is shown as often as it was hidden.
Close ==
    /\ stopper["main"] = "out"
    /\ conn
    /\ conn' = FALSE
    /\ hidden' = 0
    /\ hides' = hides - hidden
    /\ UNCHANGED <<grab, queue, echo, loop, ev, poll, away, stopped, stopper, held, input>>

-----------------------------------------------------------------------------
EventLoop == LoopTop \/ WaitForEvent \/ TakeEcho \/ Report \/ ArmEcho \/ FakeInput
StopStep(p) == CloseStop(p) \/ Ungrab(p) \/ Join(p)

XNext == \/ \E k \in Keys : Type(k)
         \/ StartCapture \/ EventLoop \/ Poll
         \/ HideCursor \/ ShowCursor \/ Close
         \/ \E f \in BOOLEAN : SetForwarding(f)
         \/ \E p \in Stoppers : FindCapture(p) \/ StopStep(p)

XFairness == /\ WF_xvars(EventLoop) /\ WF_xvars(Poll)
             /\ \A p \in Stoppers : WF_xvars(StopStep(p))
XSpec == XInit /\ [][XNext]_xvars /\ XFairness

-----------------------------------------------------------------------------
IsPrefixOf(s, t) == Len(s) <= Len(t) /\ s = SubSeq(t, 1, Len(s))

\* The callback sees every transition of the user once, in order, although each
\* one is injected again and comes back: when each is done with before the next,
\* which the single echo slot needs (backend_x11.go:108-116, 466-543).
ReportedOnce == calm => /\ IsPrefixOf(reported, typed)
                        /\ Quiet /\ grab => reported = typed

\* Whoever returns from StopCapture finds the keyboard free again, also the second
\* of two callers, which may return before the first one (backend_x11.go:388-413).
GrabLiftedOnStop ==
    [][\A p \in Stoppers : stopper[p] # "out" /\ stopper'[p] = "out" => ~grab']_xvars

\* A closed backend leaves no hide behind, however hides, shows and the stop
\* interleave (backend_x11.go:67-83, 576-589).
CursorRestored == /\ hidden <= hides
                  /\ ~conn => hides = 0

\* StopCapture returns, in the middle of a storm of echoes too: each loop looks at
\* stopCh every time round (backend_x11.go:417-442, 545-574).
StopCompletes == \A p \in Stoppers : stopper[p] # "idle" ~> stopper[p] = "out"

\* What SetForwarding promises of local use: "grabbed keys are re-injected so local
\* apps keep working" (backend_x11.go:151-153).
LocalKeysReachApps == calm /\ home /\ grab /\ Quiet => arrived = typed
=============================================================================
