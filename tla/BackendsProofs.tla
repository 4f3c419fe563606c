---------------------------- MODULE BackendsProofs ----------------------------
(***************************************************************************)
(* What holds of the input backends for any keys, nodes, callers of        *)
(* StopCapture and lengths of use: the X11 backend's echo slot, grabs and  *)
(* hide counter, the end of the evdev backend's capture, its motion        *)
(* tracker and its frames.                                                 *)
(***************************************************************************)
EXTENDS Backends, FiniteSetTheorems, SequenceTheorems, WellFoundedInduction, TLAPS

-----------------------------------------------------------------------------
(* The X11 backend. *)

\* Hides are counted on both sides alike, and given back at the end.
CursorInv == /\ hidden \in Nat /\ hides \in Nat
             /\ hidden = hides
             /\ ~conn => hides = 0

\* Nobody waits for the end of a capture that has not begun, nor with the grabs
\* still standing.
StopInv == /\ stopper \in [Stoppers -> {"idle", "close", "ungrab", "join", "out"}]
           /\ grab \in BOOLEAN
           /\ grab => loop # "none"
           /\ \A p \in Stoppers :
                 /\ stopper[p] \in {"close", "ungrab", "join"} => loop # "none"
                 /\ stopper[p] = "join" => ~grab

\* The event loop as long as the user waits for every transition to be done with:
\* nothing to do, a transition of the user's on its way, or its echo.
AtRest     == queue = <<>> /\ loop \in {"none", "top", "wait", "ended"}
OnItsWay(e) == \/ queue = <<e>> /\ loop \in {"top", "wait", "ended"}
               \/ queue = <<>> /\ loop = "echo" /\ ev = e

NothingDue == /\ AtRest
              /\ reported = typed
              /\ echo # Nobody => ~grab /\ loop # "none"
ReportDue  == \E e \in Events :
                 /\ \/ OnItsWay(e)
                    \/ queue = <<>> /\ loop = "report" /\ ev = e
                 /\ typed = Append(reported, e)
                 /\ echo = Nobody
LocalDue   == /\ queue = <<>> /\ loop = "local" /\ ev \in Events
              /\ reported = typed
              /\ echo = Nobody
EchoDue    == \E e \in Events :
                 /\ \/ OnItsWay(e)
                    \/ queue = <<>> /\ loop = "inject" /\ ev = e
                 /\ reported = typed
                 /\ echo = e

EchoInv == /\ typed \in Seq(Events) /\ reported \in Seq(Events) /\ queue \in Seq(Events)
           /\ calm \in BOOLEAN
           /\ loop \in {"none", "top", "wait", "echo", "report", "local", "inject", "ended"}
           /\ ev \in Events \cup {Nobody}
           /\ loop \in {"echo", "report", "local", "inject"} => ev \in Events
           /\ calm => NothingDue \/ ReportDue \/ LocalDue \/ EchoDue

XInv == CursorInv /\ StopInv /\ EchoInv

-----------------------------------------------------------------------------
LEMMA AppendFacts ==
    ASSUME NEW s \in Seq(Events), NEW e \in Events
    PROVE  /\ Append(s, e) \in Seq(Events)
           /\ Len(Append(s, e)) = Len(s) + 1 /\ Len(s) \in Nat
           /\ \A i \in 1..Len(s) : Append(s, e)[i] = s[i]
  OBVIOUS

LEMMA CursorStep ==
    CursorInv /\ XNext => CursorInv'
<1> SUFFICES ASSUME CursorInv, XNext PROVE CursorInv'
  OBVIOUS
<1> USE DEF CursorInv
<1>1. CASE HideCursor
  BY <1>1 DEF HideCursor
<1>2. CASE ShowCursor
  BY <1>2 DEF ShowCursor
<1>3. CASE Close
  BY <1>3 DEF Close
<1>4. CASE UNCHANGED <<conn, cursor>>
  BY <1>4 DEF cursor
<1>5. CASE (\E k \in Keys : Type(k)) \/ StartCapture \/ \E f \in BOOLEAN : SetForwarding(f)
  BY <1>4, <1>5 DEF Type, StartCapture, SetForwarding, Route, cursor
<1>6. CASE EventLoop \/ Poll
  BY <1>4, <1>6 DEF EventLoop, LoopTop, WaitForEvent, TakeEcho, Report, ArmEcho, FakeInput, ev0,
                    Poll, cursor
<1>7. CASE \E p \in Stoppers : FindCapture(p) \/ StopStep(p)
  BY <1>4, <1>7 DEF FindCapture, StopStep, CloseStop, Ungrab, Join, cursor
<1> QED
  BY <1>1, <1>2, <1>3, <1>5, <1>6, <1>7 DEF XNext

LEMMA StopInvStep ==
    StopInv /\ XNext => StopInv'
<1> SUFFICES ASSUME StopInv, XNext PROVE StopInv'
  OBVIOUS
<1> USE DEF StopInv
<1>1. CASE StartCapture
  BY <1>1 DEF StartCapture
<1>2. ASSUME NEW p \in Stoppers, FindCapture(p) PROVE StopInv'
  BY <1>2 DEF FindCapture, At
<1>3. ASSUME NEW p \in Stoppers, CloseStop(p) PROVE StopInv'
  BY <1>3 DEF CloseStop, At
<1>4. ASSUME NEW p \in Stoppers, Ungrab(p) PROVE StopInv'
  BY <1>4 DEF Ungrab, At
<1>5. ASSUME NEW p \in Stoppers, Join(p) PROVE StopInv'
  BY <1>5 DEF Join, At
<1>6. CASE EventLoop
  <2>1. UNCHANGED <<grab, stopper>> /\ (loop' = "none" => loop = "none")
    BY <1>6 DEF EventLoop, LoopTop, WaitForEvent, TakeEcho, Report, ArmEcho, FakeInput, ev0
  <2>2. loop # "none" => loop' # "none"
    BY <2>1
  <2> QED
    BY <2>1, <2>2
<1>7. CASE UNCHANGED <<grab, loop, stopper>>
  BY <1>7
<1>8. CASE (\E k \in Keys : Type(k)) \/ \E f \in BOOLEAN : SetForwarding(f)
  BY <1>7, <1>8 DEF Type, SetForwarding
<1>9. CASE Poll \/ HideCursor \/ ShowCursor \/ Close
  BY <1>7, <1>9 DEF Poll, HideCursor, ShowCursor, Close
<1> QED
  BY <1>1, <1>2, <1>3, <1>4, <1>5, <1>6, <1>8, <1>9 DEF XNext, StopStep

\* The echo slot: only the event loop arms and reads it.
LEMMA EchoStep ==
    EchoInv /\ StopInv /\ XNext => EchoInv'
<1> SUFFICES ASSUME EchoInv, StopInv, XNext PROVE EchoInv'
  OBVIOUS
<1> USE DEF EchoInv
<1>1. \A e \in Events : e # Nobody /\ <<e>> \in Seq(Events) /\ <<e>> # <<>>
                       /\ Head(<<e>>) = e /\ Tail(<<e>>) = <<>> /\ Append(<<>>, e) = <<e>>
  BY NobodyAssumption
<1>2. CASE /\ UNCHANGED <<typed, reported, queue, calm, loop, ev, echo>>
           /\ grab' => grab
  <2> USE DEF AtRest, OnItsWay
  <2>1. NothingDue => NothingDue'
    BY <1>2 DEF NothingDue, StopInv
  <2>2. (ReportDue => ReportDue') /\ (LocalDue => LocalDue') /\ (EchoDue => EchoDue')
    BY <1>2 DEF ReportDue, LocalDue, EchoDue
  <2> QED
    BY <1>2, <2>1, <2>2
<1>3. CASE StartCapture
  <2>1. /\ loop = "none" /\ loop' = "top" /\ grab' = TRUE
        /\ UNCHANGED <<typed, reported, queue, calm, ev, echo>>
    BY <1>3 DEF StartCapture, input
  <2>2. calm => NothingDue
    BY <2>1 DEF ReportDue, LocalDue, EchoDue, OnItsWay
  <2> QED
    BY <2>1, <2>2 DEF NothingDue, AtRest
<1>4. ASSUME NEW k \in Keys, Type(k) PROVE EchoInv'
  <2> DEFINE e == [key |-> k, down |-> k \notin held]
  <2>1. /\ grab /\ e \in Events /\ typed' = Append(typed, e) /\ queue' = Append(queue, e)
        /\ calm' = (calm /\ Quiet)
        /\ UNCHANGED <<reported, loop, ev, echo>>
    BY <1>4 DEF Type, Route, Events
  <2> HIDE DEF e
  <2>2. typed' \in Seq(Events) /\ queue' \in Seq(Events)
    BY <2>1
  <2>3. ASSUME calm' PROVE ReportDue'
    <3>1. calm /\ queue = <<>> /\ loop \in {"top", "wait"}
      BY <2>1, <2>3 DEF Quiet
    <3>2. NothingDue
      BY <1>1, <3>1 DEF ReportDue, LocalDue, EchoDue, OnItsWay
    <3>3. typed' = Append(reported, e) /\ queue' = <<e>> /\ echo = Nobody
      BY <1>1, <2>1, <3>1, <3>2 DEF NothingDue
    <3> QED
      BY <2>1, <3>1, <3>3 DEF ReportDue, OnItsWay
  <2> QED
    BY <2>1, <2>2, <2>3 DEF Quiet
<1>5. CASE LoopTop
  <2>1. /\ loop = "top" /\ loop' \in {"ended", "wait"}
        /\ UNCHANGED <<typed, reported, queue, calm, ev, echo, grab>>
    BY <1>5 DEF LoopTop, ev0
  <2>2. NothingDue => NothingDue'
    BY <2>1 DEF NothingDue, AtRest
  <2>3. (ReportDue => ReportDue') /\ (LocalDue => LocalDue') /\ (EchoDue => EchoDue')
    BY <2>1 DEF ReportDue, LocalDue, EchoDue, OnItsWay
  <2> QED
    BY <2>1, <2>2, <2>3
<1>6. CASE WaitForEvent
  <2>1. loop = "wait" /\ UNCHANGED <<typed, reported, calm, echo, grab>>
    BY <1>6 DEF WaitForEvent, ev0
  <2>2. CASE ~grab /\ loop' = "ended" /\ UNCHANGED <<ev, queue>>
    <3>1. NothingDue => NothingDue'
      BY <2>1, <2>2 DEF NothingDue, AtRest
    <3>2. (ReportDue => ReportDue') /\ (LocalDue => LocalDue') /\ (EchoDue => EchoDue')
      BY <2>1, <2>2 DEF ReportDue, LocalDue, EchoDue, OnItsWay
    <3> QED
      BY <2>1, <2>2, <3>1, <3>2
  <2>3. CASE queue # <<>> /\ ev' = Head(queue) /\ queue' = Tail(queue) /\ loop' = "echo"
    <3>1. ev' \in Events /\ queue' \in Seq(Events)
      BY <2>3
    <3>2. (ReportDue => ReportDue') /\ (EchoDue => EchoDue')
      BY <1>1, <2>1, <2>3 DEF ReportDue, EchoDue, OnItsWay
    <3>3. ~NothingDue /\ ~LocalDue
      BY <2>1, <2>3 DEF NothingDue, AtRest, LocalDue
    <3> QED
      BY <2>1, <2>3, <3>1, <3>2, <3>3
  <2> QED
    BY <1>6, <2>2, <2>3 DEF WaitForEvent
<1>7. CASE TakeEcho
  <2>1. loop = "echo" /\ UNCHANGED <<typed, reported, calm, grab, queue, ev>>
        /\ IF echo = ev THEN echo' = Nobody /\ loop' = "top" ELSE loop' = "report" /\ echo' = echo
    BY <1>7 DEF TakeEcho, ev0
  <2>2. ~NothingDue /\ ~LocalDue
    BY <2>1 DEF NothingDue, AtRest, LocalDue
  <2>3. EchoDue => NothingDue'
    BY <1>1, <2>1 DEF EchoDue, OnItsWay, NothingDue, AtRest
  <2>4. ReportDue => ReportDue'
    BY <1>1, <2>1 DEF ReportDue, OnItsWay
  <2> QED
    BY <2>1, <2>2, <2>3, <2>4
<1>8. CASE Report
  <2>1. loop = "report" /\ loop' = "local" /\ UNCHANGED <<typed, calm, grab, queue, echo, ev>>
        /\ reported' = IF calm THEN Append(reported, ev) ELSE reported
    BY <1>8 DEF Report, ev0
  <2>2. reported' \in Seq(Events)
    <3>1. ev \in Events /\ reported \in Seq(Events)
      BY <2>1
    <3>2. Append(reported, ev) \in Seq(Events)
      BY <3>1, AppendFacts
    <3> QED
      BY <2>1, <3>1, <3>2
  <2>3. ~NothingDue /\ ~LocalDue /\ ~EchoDue
    BY <2>1 DEF NothingDue, AtRest, LocalDue, EchoDue, OnItsWay
  <2>4. calm /\ ReportDue => LocalDue'
    BY <2>1 DEF ReportDue, OnItsWay, LocalDue
  <2> QED
    BY <2>1, <2>2, <2>3, <2>4
<1>9. CASE ArmEcho
  <2>1. loop = "local" /\ UNCHANGED <<typed, reported, calm, grab, queue, ev>>
        /\ IF away THEN loop' = "top" /\ echo' = echo ELSE loop' = "inject" /\ echo' = ev
    BY <1>9 DEF ArmEcho, ev0
  <2>2. ~NothingDue /\ ~ReportDue /\ ~EchoDue
    BY <2>1 DEF NothingDue, AtRest, ReportDue, EchoDue, OnItsWay
  <2>3. LocalDue /\ away => NothingDue'
    BY <2>1 DEF LocalDue, NothingDue, AtRest
  <2>4. LocalDue /\ ~away => EchoDue'
    BY <2>1 DEF LocalDue, EchoDue
  <2> QED
    BY <2>1, <2>2, <2>3, <2>4
<1>10. CASE FakeInput
  <2>1. /\ loop = "inject" /\ loop' = "top" /\ UNCHANGED <<typed, reported, calm, grab, echo, ev>>
        /\ IF grab THEN queue' = Append(queue, ev) ELSE queue' = queue
    BY <1>10 DEF FakeInput, Route, ev0
  <2>2. queue' \in Seq(Events)
    <3>1. ev \in Events /\ queue \in Seq(Events)
      BY <2>1
    <3>2. Append(queue, ev) \in Seq(Events)
      BY <3>1, AppendFacts
    <3> QED
      BY <2>1, <3>1, <3>2
  <2>3. ~NothingDue /\ ~ReportDue /\ ~LocalDue
    BY <2>1 DEF NothingDue, AtRest, ReportDue, LocalDue, OnItsWay
  <2>4. ASSUME EchoDue, grab PROVE EchoDue'
    <3>1. PICK e \in Events : queue = <<>> /\ ev = e /\ reported = typed /\ echo = e
      BY <2>1, <2>4 DEF EchoDue, OnItsWay
    <3>2. queue' = <<e>>
      BY <1>1, <2>1, <2>4, <3>1
    <3> QED
      BY <2>1, <3>1, <3>2 DEF EchoDue, OnItsWay
  <2>5. EchoDue /\ ~grab => NothingDue'
    BY <2>1 DEF EchoDue, OnItsWay, NothingDue, AtRest
  <2> QED
    BY <2>1, <2>2, <2>3, <2>4, <2>5
<1>11. CASE Poll \/ HideCursor \/ ShowCursor \/ Close \/ \E f \in BOOLEAN : SetForwarding(f)
  BY <1>2, <1>11 DEF Poll, HideCursor, ShowCursor, Close, SetForwarding, input
<1>12. CASE \E p \in Stoppers : FindCapture(p) \/ StopStep(p)
  BY <1>2, <1>12 DEF FindCapture, StopStep, CloseStop, Ungrab, Join, input
<1> QED
  BY <1>3, <1>4, <1>5, <1>6, <1>7, <1>8, <1>9, <1>10, <1>11, <1>12 DEF XNext, EventLoop

LEMMA XInvariance ==
    BSpec => []XInv
<1>1. BInit => XInv
  <2> SUFFICES ASSUME XInit PROVE XInv
    BY DEF BInit
  <2>1. CursorInv
    BY DEF XInit, CursorInv
  <2>2. StopInv
    BY DEF XInit, StopInv
  <2>3. NothingDue
    BY DEF XInit, NothingDue, AtRest
  <2>4. <<>> \in Seq(Events)
    OBVIOUS
  <2>5. EchoInv
    BY <2>3, <2>4 DEF XInit, EchoInv
  <2> QED
    BY <2>1, <2>2, <2>5 DEF XInv
<1>2. XInv /\ [BNext]_bvars => XInv'
  <2> SUFFICES ASSUME XInv, [BNext]_bvars PROVE XInv'
    OBVIOUS
  <2>1. CASE XNext
    BY <2>1, CursorStep, StopInvStep, EchoStep DEF XInv
  <2>2. CASE UNCHANGED xvars
    BY <2>2 DEF xvars, cursor, input, XInv, CursorInv, StopInv, EchoInv, NothingDue, ReportDue,
                LocalDue, EchoDue, AtRest, OnItsWay
  <2> QED
    BY <2>1, <2>2 DEF BNext, bvars
<1> QED
  BY <1>1, <1>2, PTL DEF BSpec

\* A closed X11 backend leaves no hide behind, for any number of hides and shows
\* (backend_x11.go:67-83, 576-589).
THEOREM CursorGivenBack ==
    BSpec => []CursorRestored
<1>1. XInv => CursorRestored
  BY DEF XInv, CursorInv, CursorRestored
<1> QED
  BY <1>1, XInvariance, PTL

\* The callback sees every transition of a user who waits for each to be done
\* with once and in order, for any keys and any number of transitions: the echo of
\* an injected one is never reported, and no one of the user's is taken for an
\* echo (backend_x11.go:108-116, 466-543).
THEOREM EachTransitionOnce ==
    BSpec => []ReportedOnce
<1>1. XInv => ReportedOnce
  <2> SUFFICES ASSUME XInv, calm
               PROVE  IsPrefixOf(reported, typed) /\ (Quiet /\ grab => reported = typed)
    BY DEF ReportedOnce
  <2>1. typed \in Seq(Events) /\ reported \in Seq(Events)
    BY DEF XInv, EchoInv
  <2>2. CASE reported = typed
    BY <2>1, <2>2 DEF IsPrefixOf
  <2>3. CASE ReportDue
    <3>1. PICK e \in Events : /\ typed = Append(reported, e)
                             /\ \/ OnItsWay(e)
                                \/ queue = <<>> /\ loop = "report"
      BY <2>3 DEF ReportDue
    <3>2. IsPrefixOf(reported, typed)
      <4>1. Len(typed) = Len(reported) + 1 /\ Len(reported) \in Nat
            /\ \A i \in 1..Len(reported) : typed[i] = reported[i]
        BY <2>1, <3>1, AppendFacts
      <4>2. SubSeq(typed, 1, Len(reported)) = reported
        BY <2>1, <4>1
      <4> QED
        BY <4>1, <4>2 DEF IsPrefixOf
    <3>3. ~Quiet
      <4>1. <<e>> # <<>>
        OBVIOUS
      <4> QED
        BY <3>1, <4>1 DEF Quiet, OnItsWay
    <3> QED
      BY <3>2, <3>3
  <2> QED
    BY <2>2, <2>3 DEF XInv, EchoInv, NothingDue, LocalDue, EchoDue
<1> QED
  BY <1>1, XInvariance, PTL

\* Whoever returns from StopCapture finds the grabs lifted, whichever of any
\* number of callers it is (backend_x11.go:388-413).
THEOREM StopLiftsGrabs ==
    BSpec => GrabLiftedOnStop
<1>1. XInv /\ [BNext]_bvars =>
        [\A p \in Stoppers : stopper[p] # "out" /\ stopper'[p] = "out" => ~grab']_xvars
  <2> SUFFICES ASSUME XInv, [BNext]_bvars, xvars' # xvars,
                      NEW p \in Stoppers, stopper[p] # "out", stopper'[p] = "out"
               PROVE  ~grab'
    OBVIOUS
  <2>1. XNext /\ StopInv
    BY DEF BNext, bvars, XInv
  <2>2. PICK q \in Stoppers : FindCapture(q) \/ StopStep(q)
    BY <2>1 DEF XNext, Type, StartCapture, EventLoop, LoopTop, WaitForEvent, TakeEcho, Report,
                ArmEcho, FakeInput, ev0, Poll, HideCursor, ShowCursor, Close, SetForwarding
  <2>3. CASE FindCapture(q)
    BY <2>1, <2>3 DEF FindCapture, At, StopInv
  <2>4. CASE CloseStop(q) \/ Ungrab(q)
    BY <2>1, <2>4 DEF CloseStop, Ungrab, At, StopInv
  <2>5. CASE Join(q)
    BY <2>1, <2>5 DEF Join, At, StopInv
  <2> QED
    BY <2>2, <2>3, <2>4, <2>5 DEF StopStep
<1> QED
  BY <1>1, XInvariance, PTL DEF BSpec, GrabLiftedOnStop

-----------------------------------------------------------------------------
(* The evdev backend. *)

\* A closed node whose reader has ended is released, and whoever waits for the
\* readers has closed every node.
EvdevInv ==
    /\ file \in [Devs -> {"open", "closed"}] /\ grabbed \in [Devs -> BOOLEAN]
    /\ reader \in [Devs -> {"none", "top", "inside", "ended"}]
    /\ caller \in [Stoppers -> {"idle", "once", "ungrab", "close", "join", "out"}]
    /\ capture \in {"never", "on", "over"}
    /\ \A d \in Devs : file[d] = "closed" /\ reader[d] = "ended" => ~grabbed[d]
    /\ (\E c \in Stoppers : caller[c] = "join") => \A d \in Devs : file[d] = "closed"
    /\ capture = "over" => \A d \in Devs : reader[d] = "ended" /\ file[d] = "closed"

LEMMA EvdevStep ==
    EvdevInv /\ E!ENext => EvdevInv'
<1> SUFFICES ASSUME EvdevInv, E!ENext PROVE EvdevInv'
  OBVIOUS
<1> USE DEF EvdevInv
<1>1. CASE UNCHANGED <<file, grabbed, reader, caller, capture>>
  BY <1>1
<1>2. CASE E!EStartCapture
  BY <1>2 DEF E!EStartCapture, E!nodes, E!tracking
<1>3. ASSUME NEW d \in Devs, NEW f \in Frames, E!Gesture(d, f) PROVE EvdevInv'
  BY <1>1, <1>3 DEF E!Gesture, E!nodes, E!stopping
<1>4. ASSUME NEW f \in BOOLEAN, E!GrabNodes(f) PROVE EvdevInv'
  BY <1>4 DEF E!GrabNodes, E!stopping
<1>5. ASSUME NEW d \in Devs, E!EnterRead(d) PROVE EvdevInv'
  <2>1. PICK next \in {"ended", "inside"} :
           /\ reader[d] = "top" /\ reader' = [reader EXCEPT ![d] = next]
           /\ grabbed' = [grabbed EXCEPT ![d] = @ /\ ~(next = "ended" /\ file[d] = "closed")]
           /\ UNCHANGED <<file, caller, capture>>
    BY <1>5 DEF E!EnterRead, E!Ends, E!stopping
  <2>2. grabbed' \in [Devs -> BOOLEAN]
    BY <2>1
  <2>3. \A x \in Devs : file'[x] = "closed" /\ reader'[x] = "ended" => ~grabbed'[x]
    BY <2>1
  <2> QED
    BY <2>1, <2>2, <2>3
<1>6. ASSUME NEW d \in Devs, E!KernelEvent(d) PROVE EvdevInv'
  BY <1>6 DEF E!KernelEvent, E!nodes, E!stopping
<1>7. ASSUME E!InjectRel \/ \E x \in Spots : E!InjectAbs(x) \/ E!SetPosition(x)
      PROVE  EvdevInv'
  BY <1>1, <1>7 DEF E!InjectRel, E!InjectAbs, E!SetPosition, E!untouched, E!nodes, E!stopping
<1>8. ASSUME NEW c \in Stoppers, E!Find(c) \/ E!Once(c) PROVE EvdevInv'
  BY <1>8 DEF E!Find, E!Once, E!Step, E!nodes
<1>9. ASSUME NEW c \in Stoppers, E!UngrabNodes(c) PROVE EvdevInv'
  BY <1>9 DEF E!UngrabNodes, E!Step
<1>10. ASSUME NEW c \in Stoppers, E!CloseNodes(c) PROVE EvdevInv'
  BY <1>10 DEF E!CloseNodes, E!Step
<1>11. ASSUME NEW c \in Stoppers, E!Join(c) PROVE EvdevInv'
  BY <1>11 DEF E!Join, E!Joined, E!Step, E!nodes
<1> QED
  BY <1>2, <1>3, <1>4, <1>5, <1>6, <1>7, <1>8, <1>9, <1>10, <1>11
     DEF E!ENext, E!Reader, E!Stopping

\* When a StopCapture of the evdev backend is over every reader has ended and every
\* node is released, for any number of nodes and callers: a SetForwarding between
\* the release of a node and its close grabs it only until its reader lets go
\* (backend_linux.go:527-551).
THEOREM StopReleasesNodes ==
    BSpec => []ReadersGone
<1>1. BInit => EvdevInv
  BY DEF BInit, E!EInit, EvdevInv
<1>2. EvdevInv /\ [BNext]_bvars => EvdevInv'
  <2> SUFFICES ASSUME EvdevInv, [BNext]_bvars PROVE EvdevInv'
    OBVIOUS
  <2>1. CASE E!ENext
    BY <2>1, EvdevStep
  <2>2. CASE UNCHANGED evdev
    BY <2>2 DEF evdev, EvdevInv
  <2> QED
    BY <2>1, <2>2 DEF BNext, bvars
<1>3. EvdevInv => ReadersGone
  BY DEF EvdevInv, ReadersGone, E!ReadersGone
<1> QED
  BY <1>1, <1>2, <1>3, PTL DEF BSpec

-----------------------------------------------------------------------------
(* Sums over a finite set.  The fold of the community modules is a function *)
(* defined by recursion over the subsets; its facts are proved by the       *)
(* least counterexample.                                                    *)

\* The least-number principle, in the place of an induction.
LEMMA LeastNat ==
    ASSUME NEW T, T \subseteq Nat, T # {}
    PROVE  \E n \in T : \A m \in T : n <= m
<1>1. \E x \in T : \A y \in T : ~(<<y, x>> \in OpToRel(<, Nat))
  BY NatLessThanWellFounded, WFMin
<1>2. PICK x \in T : \A y \in T : ~(<<y, x>> \in OpToRel(<, Nat))
  BY <1>1
<1>3. \A y \in T : ~(y < x)
  BY <1>2 DEF OpToRel
<1> QED
  BY <1>3

\* g sums the weights w over the subsets of S that have at most n elements, taking
\* the one of c first.
SumsUpTo(g, n, w, c, S) ==
    \A T \in SUBSET S :
       Cardinality(T) <= n => g[T] = IF T = {} THEN 0 ELSE w[c[T]] + g[T \ {c[T]}]

\* g sums the weights w over every subset of S.
Sums(g, w, c, S) ==
    /\ w \in [S -> Int] /\ g \in [SUBSET S -> Int]
    /\ \A T \in SUBSET S : g[T] = IF T = {} THEN 0 ELSE w[c[T]] + g[T \ {c[T]}]

\* c chooses an element of every subset.
Choice(c, S) == \A T \in SUBSET S : T # {} => c[T] \in T

\* A finite set has the sum of any weights, one element at a time.
LEMMA SumExists ==
    ASSUME NEW S, IsFiniteSet(S), NEW w \in [S -> Int], NEW c, Choice(c, S)
    PROVE  \E g \in [SUBSET S -> Int] : Sums(g, w, c, S)
<1> DEFINE Bad == {n \in Nat : ~\E g \in [SUBSET S -> Int] : SumsUpTo(g, n, w, c, S)}
<1>1. \A T \in SUBSET S : IsFiniteSet(T) /\ Cardinality(T) \in Nat /\ Cardinality(T) <= Cardinality(S)
  BY FS_Subset, FS_CardinalityType
<1>2. \A T \in SUBSET S : T # {} => /\ T \ {c[T]} \in SUBSET S
                                    /\ Cardinality(T \ {c[T]}) = Cardinality(T) - 1
                                    /\ Cardinality(T) # 0 /\ c[T] \in S
  <2> SUFFICES ASSUME NEW T \in SUBSET S, T # {}
               PROVE  /\ Cardinality(T \ {c[T]}) = Cardinality(T) - 1
                      /\ Cardinality(T) # 0 /\ c[T] \in S
    OBVIOUS
  <2>1. c[T] \in T
    BY DEF Choice
  <2>2. IsFiniteSet(T)
    BY <1>1
  <2>3. Cardinality(T \ {c[T]}) = Cardinality(T) - 1
    BY <2>1, <2>2, FS_RemoveElement
  <2>4. Cardinality(T) # 0
    BY <2>2, FS_EmptySet
  <2> QED
    BY <2>1, <2>3, <2>4
<1>3. 0 \notin Bad
  <2> DEFINE z == [T \in SUBSET S |-> 0]
  <2>1. z \in [SUBSET S -> Int]
    OBVIOUS
  <2>2. ASSUME NEW T \in SUBSET S, Cardinality(T) <= 0
        PROVE  T = {} /\ z[T] = 0
    <3>1. Cardinality(T) = 0
      BY <1>1, <2>2
    <3>2. T = {}
      BY <1>2, <3>1
    <3> QED
      BY <3>2
  <2> HIDE DEF z
  <2>3. SumsUpTo(z, 0, w, c, S)
    BY <2>2 DEF SumsUpTo
  <2> QED
    BY <2>1, <2>3
<1>4. ASSUME NEW n \in Nat, n \notin Bad
      PROVE  n + 1 \notin Bad
  <2>1. PICK g \in [SUBSET S -> Int] : SumsUpTo(g, n, w, c, S)
    BY <1>4
  <2> DEFINE h == [T \in SUBSET S |-> IF Cardinality(T) = n + 1 THEN w[c[T]] + g[T \ {c[T]}]
                                      ELSE g[T]]
  <2>2. ASSUME NEW T \in SUBSET S
        PROVE  h[T] \in Int
    <3>1. CASE Cardinality(T) = n + 1
      <4>1. T # {}
        BY <3>1, FS_EmptySet, n + 1 # 0
      <4>2. w[c[T]] \in Int /\ g[T \ {c[T]}] \in Int
        BY <1>2, <4>1
      <4> QED
        BY <3>1, <4>2
    <3>2. CASE Cardinality(T) # n + 1
      BY <3>2
    <3> QED
      BY <3>1, <3>2
  <2>3. h \in [SUBSET S -> Int]
    BY <2>2
  <2>4. ASSUME NEW T \in SUBSET S, Cardinality(T) <= n + 1
        PROVE  h[T] = IF T = {} THEN 0 ELSE w[c[T]] + h[T \ {c[T]}]
    <3>1. CASE T = {}
      <4>1. Cardinality(T) = 0
        BY <3>1, FS_EmptySet
      <4>2. g[T] = 0
        BY <2>1, <3>1, <4>1 DEF SumsUpTo
      <4> QED
        BY <3>1, <4>1, <4>2
    <3>2. CASE T # {}
      <4> DEFINE U == T \ {c[T]}
      <4>1. U \in SUBSET S /\ Cardinality(U) = Cardinality(T) - 1
        BY <1>2, <3>2
      <4>2. Cardinality(T) \in Nat
        BY <1>1
      <4>3. h[U] = g[U]
        BY <2>4, <4>1, <4>2
      <4>4. h[T] = w[c[T]] + g[U]
        <5>1. CASE Cardinality(T) = n + 1
          BY <5>1
        <5>2. CASE Cardinality(T) # n + 1
          <6>1. Cardinality(T) <= n
            BY <2>4, <4>2, <5>2
          <6>2. g[T] = w[c[T]] + g[U]
            BY <2>1, <3>2, <6>1 DEF SumsUpTo
          <6> QED
            BY <5>2, <6>2
        <5> QED
          BY <5>1, <5>2
      <4> HIDE DEF h
      <4> QED
        BY <3>2, <4>3, <4>4
    <3> QED
      BY <3>1, <3>2
  <2> HIDE DEF h
  <2>5. SumsUpTo(h, n + 1, w, c, S)
    BY <2>4 DEF SumsUpTo
  <2> QED
    BY <2>3, <2>5
<1>5. Bad = {}
  <2> SUFFICES ASSUME Bad # {} PROVE FALSE
    OBVIOUS
  <2>1. Bad \subseteq Nat
    OBVIOUS
  <2> HIDE DEF Bad
  <2>2. PICK n \in Bad : \A m \in Bad : n <= m
    BY <2>1, LeastNat
  <2>3. n \in Nat /\ n # 0
    BY <1>3, <2>1, <2>2
  <2>4. n - 1 \in Nat /\ n - 1 \notin Bad
    BY <2>2, <2>3
  <2>5. (n - 1) + 1 = n
    BY <2>3
  <2>6. (n - 1) + 1 \notin Bad
    BY <1>4, <2>4
  <2> QED
    BY <2>2, <2>5, <2>6
<1>6. PICK g \in [SUBSET S -> Int] : SumsUpTo(g, Cardinality(S), w, c, S)
  <2>1. Cardinality(S) \in Nat
    BY FS_CardinalityType
  <2> QED
    BY <1>5, <2>1
<1>7. Sums(g, w, c, S)
  BY <1>1, <1>6 DEF SumsUpTo, Sums
<1> QED
  BY <1>7

\* A subset that has a property, and none of its smaller subsets.
LEMMA LeastSubset ==
    ASSUME NEW S, IsFiniteSet(S), NEW B, B \subseteq SUBSET S, B # {}
    PROVE  \E T \in B : \A x \in T : T \ {x} \notin B
<1> DEFINE N == {Cardinality(T) : T \in B}
<1>1. \A T \in B : IsFiniteSet(T) /\ Cardinality(T) \in Nat
  BY FS_Subset, FS_CardinalityType
<1>2. N \subseteq Nat /\ N # {}
  BY <1>1
<1>3. PICK n \in N : \A m \in N : n <= m
  <2> HIDE DEF N
  <2> QED
    BY <1>2, LeastNat
<1>4. PICK T \in B : n = Cardinality(T)
  BY <1>3
<1>5. ASSUME NEW x \in T, T \ {x} \in B
      PROVE  FALSE
  <2>1. Cardinality(T \ {x}) = Cardinality(T) - 1
    BY <1>1, FS_RemoveElement
  <2>2. n <= Cardinality(T \ {x})
    BY <1>3, <1>5
  <2> QED
    BY <1>1, <1>4, <2>1, <2>2
<1> QED
  BY <1>5

\* The weights differ at d alone.
OnlyAt(d, w, v, S) == \A x \in S \ {d} : v[x] = w[x]

\* The sum of weights changes by what the weight of one element does.
LEMMA SumMoves ==
    ASSUME NEW S, IsFiniteSet(S), NEW c, Choice(c, S),
           NEW w, NEW v, NEW g, NEW h, Sums(g, w, c, S), Sums(h, v, c, S),
           NEW d \in S, OnlyAt(d, w, v, S)
    PROVE  h[S] = g[S] + (v[d] - w[d])
<1>0. w \in [S -> Int] /\ v \in [S -> Int] /\ g \in [SUBSET S -> Int] /\ h \in [SUBSET S -> Int]
  BY DEF Sums
<1> DEFINE Right(T) == h[T] = g[T] + (IF d \in T THEN v[d] - w[d] ELSE 0)
           Bad == {T \in SUBSET S : ~Right(T)}
<1> SUFFICES ASSUME Bad # {} PROVE FALSE
  OBVIOUS
<1>1. PICK T \in Bad : \A x \in T : T \ {x} \notin Bad
  <2>1. Bad \subseteq SUBSET S
    OBVIOUS
  <2> HIDE DEF Bad
  <2> QED
    BY <2>1, LeastSubset
<1>2. T \in SUBSET S /\ ~Right(T)
  OBVIOUS
<1>3. CASE T = {}
  <2>1. g[T] = 0 /\ h[T] = 0
    BY <1>3 DEF Sums
  <2> QED
    BY <1>2, <1>3, <2>1
<1>4. CASE T # {}
  <2> DEFINE x == c[T]
             U == T \ {x}
  <2>1. x \in T /\ x \in S /\ U \in SUBSET S
    BY <1>2, <1>4 DEF Choice
  <2>2. Right(U)
    BY <1>1, <2>1
  <2>3. g[T] = w[x] + g[U] /\ h[T] = v[x] + h[U]
    BY <1>2, <1>4 DEF Sums
  <2>4. d \in U <=> d \in T /\ d # x
    OBVIOUS
  <2>5. g[T] \in Int /\ h[T] \in Int /\ g[U] \in Int /\ h[U] \in Int
    BY <1>0, <1>2, <2>1
  <2>6. w[x] \in Int /\ v[x] \in Int /\ w[d] \in Int /\ v[d] \in Int
    BY <1>0, <2>1
  <2> HIDE DEF x, U
  <2>7. CASE d = x
    BY <1>2, <2>1, <2>2, <2>3, <2>4, <2>5, <2>6, <2>7
  <2>8. CASE d # x
    <3>1. v[x] = w[x]
      BY <2>1, <2>8 DEF OnlyAt
    <3> QED
      BY <1>2, <2>1, <2>2, <2>3, <2>4, <2>5, <2>6, <2>8, <3>1
  <2> QED
    BY <2>7, <2>8
<1> QED
  BY <1>3, <1>4

\* Two functions on the subsets agree on the empty set, and on a set whenever they
\* agree on it without its chosen element.
SameStep(g, h, c, S) ==
    /\ g[{}] = h[{}]
    /\ \A T \in SUBSET S : T # {} /\ g[T \ {c[T]}] = h[T \ {c[T]}] => g[T] = h[T]

LEMMA SumsAgree ==
    ASSUME NEW S, IsFiniteSet(S), NEW c, Choice(c, S), NEW g, NEW h, SameStep(g, h, c, S)
    PROVE  g[S] = h[S]
<1> DEFINE Bad == {T \in SUBSET S : g[T] # h[T]}
<1> SUFFICES ASSUME Bad # {} PROVE FALSE
  OBVIOUS
<1>1. PICK T \in Bad : \A x \in T : T \ {x} \notin Bad
  <2>1. Bad \subseteq SUBSET S
    OBVIOUS
  <2> HIDE DEF Bad
  <2> QED
    BY <2>1, LeastSubset
<1>2. T \in SUBSET S /\ T # {} /\ g[T] # h[T]
  BY DEF SameStep
<1>3. c[T] \in T
  BY <1>2 DEF Choice
<1>4. T \ {c[T]} \in SUBSET S /\ T \ {c[T]} \notin Bad
  BY <1>1, <1>2, <1>3
<1> QED
  BY <1>2, <1>4 DEF SameStep

-----------------------------------------------------------------------------
(* The motion of a sequence of events.                                      *)

\* What an event moves the cursor by.
Moves(e) == IF e.code = "x" THEN e.value ELSE 0

\* FoldLeft takes the last index first.
Latest == [T \in SUBSET Nat |-> E!Max(T)]

LEMMA LatestIs ==
    ASSUME NEW n \in Nat, NEW T \in SUBSET (1..n), T # {}
    PROVE  /\ E!Max(T) \in T /\ \A y \in T : E!Max(T) >= y
           /\ Latest[T] = E!Max(T)
<1> DEFINE U == {n - x : x \in T}
<1>1. U \subseteq Nat /\ U # {}
  <2>1. \A x \in T : n - x \in Nat
    OBVIOUS
  <2> QED
    BY <2>1
<1>2. PICK u \in U : \A m \in U : u <= m
  <2> HIDE DEF U
  <2> QED
    BY <1>1, LeastNat
<1>3. PICK x \in T : u = n - x
  BY <1>2
<1>4. ASSUME NEW y \in T PROVE x >= y
  <2>1. n - y \in U
    OBVIOUS
  <2>2. u <= n - y
    BY <1>2, <2>1
  <2> QED
    BY <1>3, <2>2
<1>5. T \in SUBSET Nat
  OBVIOUS
<1> QED
  BY <1>4, <1>5 DEF E!Max, Latest

\* The moves of a sequence.
Axis(q) == [i \in 1..Len(q) |-> Moves(q[i])]

\* The motion of a sequence is the sum of its events' moves, the last one first.
LEMMA MotionIs ==
    ASSUME NEW q \in Seq(Event)
    PROVE  /\ Axis(q) \in [1..Len(q) -> Int]
           /\ IsFiniteSet(1..Len(q)) /\ Choice(Latest, 1..Len(q))
           /\ \E g \in [SUBSET (1..Len(q)) -> Int] :
                 Sums(g, Axis(q), Latest, 1..Len(q)) /\ E!Motion(q) = g[1..Len(q)]
<1> DEFINE D == 1..Len(q)
           Step(f) == [s \in SUBSET D |->
                         IF s = {} THEN 0
                         ELSE IF q[E!Max(s)].code = "x"
                              THEN f[s \ {E!Max(s)}] + q[E!Max(s)].value
                              ELSE f[s \ {E!Max(s)}]]
<1>1. Len(q) \in Nat /\ DOMAIN q = D /\ \A i \in D : q[i] \in Event
  OBVIOUS
<1>2. Axis(q) \in [D -> Int]
  BY <1>1 DEF Axis, Moves, Event
<1>3. IsFiniteSet(D)
  BY <1>1, FS_Interval
<1>4. Choice(Latest, D)
  BY <1>1, LatestIs DEF Choice
<1>5. E!Motion(q) = (CHOOSE f : f = Step(f))[D]
  BY <1>1 DEF E!Motion, E!FoldLeft, E!MapThenFoldSet
<1> HIDE DEF D
<1>6. PICK g \in [SUBSET D -> Int] : Sums(g, Axis(q), Latest, D)
  BY <1>2, <1>3, <1>4, SumExists
<1>7. ASSUME NEW s \in SUBSET D, s # {}
      PROVE  /\ E!Max(s) \in s /\ Latest[s] = E!Max(s)
             /\ Axis(q)[E!Max(s)] = Moves(q[E!Max(s)])
             /\ q[E!Max(s)] \in Event
  <2>1. E!Max(s) \in s /\ Latest[s] = E!Max(s)
    BY <1>1, <1>7, LatestIs DEF D
  <2> QED
    BY <1>1, <2>1 DEF Axis, D
<1>8. ASSUME NEW s \in SUBSET D
      PROVE  g[s] = Step(g)[s]
  <2>1. CASE s = {}
    BY <1>6, <2>1 DEF Sums
  <2>2. CASE s # {}
    <3>1. g[s] = Moves(q[E!Max(s)]) + g[s \ {E!Max(s)}]
      BY <1>6, <1>7, <2>2 DEF Sums
    <3>2. g[s \ {E!Max(s)}] \in Int
      OBVIOUS
    <3>3. q[E!Max(s)].value \in Int
      BY <1>7, <2>2 DEF Event
    <3> QED
      BY <2>2, <3>1, <3>2, <3>3 DEF Moves
  <2> QED
    BY <2>1, <2>2
<1>9. g = Step(g)
  <2>1. g = [s \in SUBSET D |-> g[s]]
    OBVIOUS
  <2> QED
    BY <1>8, <2>1
<1> DEFINE iter == CHOOSE f : f = Step(f)
<1>10. iter = Step(iter)
  BY <1>9
<1> HIDE DEF iter
<1>11. iter[D] = g[D]
  <2>1. iter[{}] = g[{}]
    BY <1>8, <1>10
  <2>2. ASSUME NEW T \in SUBSET D, T # {}, iter[T \ {Latest[T]}] = g[T \ {Latest[T]}]
        PROVE  iter[T] = g[T]
    <3>1. iter[T] = Step(iter)[T] /\ g[T] = Step(g)[T]
      BY <1>8, <1>10
    <3>2. Latest[T] = E!Max(T)
      BY <1>7, <2>2
    <3> QED
      BY <2>2, <3>1, <3>2
  <2>3. \A T \in SUBSET D : T # {} /\ iter[T \ {Latest[T]}] = g[T \ {Latest[T]}] => iter[T] = g[T]
    BY <2>2
  <2>4. SameStep(iter, g, Latest, D)
    BY <2>1, <2>3 DEF SameStep
  <2> QED
    BY <1>3, <1>4, <2>4, SumsAgree
<1> QED
  BY <1>2, <1>3, <1>4, <1>5, <1>6, <1>11 DEF D, iter

\* One more event adds its move.
LEMMA MotionAppend ==
    ASSUME NEW s \in Seq(Event), NEW e \in Event
    PROVE  /\ E!Motion(s) \in Int
           /\ E!Motion(Append(s, e)) = E!Motion(s) + Moves(e)
<1> DEFINE n == Len(s)
           a == Append(s, e)
<1>1. n \in Nat /\ a \in Seq(Event) /\ Len(a) = n + 1 /\ a[n + 1] = e
      /\ \A i \in 1..n : a[i] = s[i]
  OBVIOUS
<1> HIDE DEF n, a
<1>2. PICK g \in [SUBSET (1..n) -> Int] :
            Sums(g, Axis(s), Latest, 1..n) /\ E!Motion(s) = g[1..n]
  BY MotionIs DEF n
<1>3. PICK h \in [SUBSET (1..n + 1) -> Int] :
            Sums(h, Axis(a), Latest, 1..n + 1) /\ E!Motion(a) = h[1..n + 1]
  BY <1>1, MotionIs
<1>4. IsFiniteSet(1..n) /\ Choice(Latest, 1..n)
  BY MotionIs DEF n
<1>5. SameStep(h, g, Latest, 1..n)
  <2>1. h[{}] = g[{}]
    BY <1>2, <1>3 DEF Sums
  <2>2. ASSUME NEW T \in SUBSET (1..n), T # {}, h[T \ {Latest[T]}] = g[T \ {Latest[T]}]
        PROVE  h[T] = g[T]
    <3>1. Latest[T] \in 1..n
      BY <1>4, <2>2 DEF Choice
    <3>2. Axis(a)[Latest[T]] = Axis(s)[Latest[T]]
      <4>1. Latest[T] \in 1..n + 1
        BY <1>1, <3>1
      <4> QED
        BY <1>1, <3>1, <4>1 DEF Axis, n
    <3>3. T \in SUBSET (1..n + 1)
      BY <1>1
    <3>4. g[T] = Axis(s)[Latest[T]] + g[T \ {Latest[T]}]
      BY <1>2, <2>2 DEF Sums
    <3>5. h[T] = Axis(a)[Latest[T]] + h[T \ {Latest[T]}]
      BY <1>3, <2>2, <3>3 DEF Sums
    <3> QED
      BY <2>2, <3>2, <3>4, <3>5
  <2> QED
    BY <2>1, <2>2 DEF SameStep
<1>6. h[1..n] = g[1..n]
  BY <1>4, <1>5, SumsAgree
<1>7. (1..n + 1) \ {n + 1} = 1..n /\ 1..n + 1 # {} /\ n + 1 \in 1..n + 1
  <2> SUFFICES ASSUME NEW k \in Nat, k = n
               PROVE  (1..k + 1) \ {k + 1} = 1..k /\ k + 1 \in 1..k + 1
    BY <1>1
  <2> QED
    OBVIOUS
<1>8. Latest[1..n + 1] = n + 1
  <2>1. 1..n + 1 # {} /\ n + 1 \in 1..n + 1 /\ n + 1 \in Nat
    BY <1>1, <1>7
  <2>2. Latest[1..n + 1] \in 1..n + 1 /\ Latest[1..n + 1] >= n + 1
    BY <2>1, LatestIs
  <2> QED
    BY <1>1, <2>2
<1>9. h[1..n + 1] = Axis(a)[n + 1] + h[1..n]
  BY <1>3, <1>7, <1>8 DEF Sums
<1>10. Axis(a)[n + 1] = Moves(e)
  BY <1>1, <1>7 DEF Axis
<1>11. Moves(e) \in Int
  BY DEF Moves, Event
<1>12. g[1..n] \in Int
  OBVIOUS
<1> QED
  BY <1>2, <1>3, <1>6, <1>9, <1>10, <1>11, <1>12 DEF a

LEMMA MotionNone == E!Motion(<<>>) = 0
<1>1. <<>> \in Seq(Event) /\ Len(<<>>) = 0 /\ 1..0 = {}
  OBVIOUS
<1>2. PICK g \in [SUBSET (1..0) -> Int] :
            Sums(g, Axis(<<>>), Latest, 1..0) /\ E!Motion(<<>>) = g[1..0]
  BY <1>1, MotionIs
<1> QED
  BY <1>1, <1>2 DEF Sums

\* One event's motion, and the motion of two sequences joined.
LEMMA MotionOne ==
    ASSUME NEW e \in Event
    PROVE  E!Motion(<<e>>) = Moves(e) /\ Moves(e) \in Int
<1>1. <<>> \in Seq(Event) /\ Append(<<>>, e) = <<e>>
  OBVIOUS
<1>2. Moves(e) \in Int
  BY DEF Moves, Event
<1>3. E!Motion(Append(<<>>, e)) = E!Motion(<<>>) + Moves(e)
  BY <1>1, MotionAppend
<1> QED
  BY <1>1, <1>2, <1>3, MotionNone

LEMMA MotionConcat ==
    ASSUME NEW s \in Seq(Event), NEW t \in Seq(Event)
    PROVE  /\ E!Motion(s) \in Int /\ E!Motion(t) \in Int
           /\ E!Motion(s \o t) = E!Motion(s) + E!Motion(t)
<1>0. \A f \in Seq(Event) : E!Motion(f) \in Int
  <2> SUFFICES ASSUME NEW f \in Seq(Event) PROVE E!Motion(f) \in Int
    OBVIOUS
  <2>1. PICK g \in [SUBSET (1..Len(f)) -> Int] : E!Motion(f) = g[1..Len(f)]
    BY MotionIs
  <2> QED
    BY <2>1
<1> DEFINE Joins(f) == E!Motion(s \o f) = E!Motion(s) + E!Motion(f)
           Bad == {n \in Nat : \E f \in Seq(Event) : Len(f) = n /\ ~Joins(f)}
<1> SUFFICES ASSUME Bad # {} PROVE FALSE
  <2>1. Len(t) \in Nat
    OBVIOUS
  <2> QED
    BY <1>0, <2>1
<1>1. PICK n \in Bad : \A m \in Bad : n <= m
  <2>1. Bad \subseteq Nat
    OBVIOUS
  <2> HIDE DEF Bad
  <2> QED
    BY <2>1, LeastNat
<1>2. PICK f \in Seq(Event) : Len(f) = n /\ ~Joins(f)
  OBVIOUS
<1>3. CASE f = <<>>
  <2>1. s \o f = s
    BY <1>3
  <2> QED
    BY <1>0, <1>2, <1>3, <2>1, MotionNone
<1>4. CASE f # <<>>
  <2>1. PICK g \in Seq(Event), e \in Event :
              f = Append(g, e) /\ Len(g) = n - 1 /\ n - 1 \in Nat /\ n \in Nat
    <3>1. Len(f) \in Nat /\ Len(f) # 0
      BY <1>4
    <3>2. n \in Nat /\ n - 1 \in Nat
      BY <1>2, <3>1
    <3> DEFINE g == SubSeq(f, 1, n - 1)
    <3>3. \A i \in 1..n - 1 : f[i] \in Event
      BY <1>2, <3>2
    <3>4. g \in Seq(Event) /\ Len(g) = n - 1 /\ \A i \in 1..n - 1 : g[i] = f[i]
      <4>1. 1 \in Int /\ n - 1 \in Int
        BY <3>2
      <4> QED
        BY <3>2, <3>3, <4>1, SubSeqProperties
    <3>5. f[n] \in Event
      BY <1>2, <3>1, <3>2
    <3> HIDE DEF g
    <3>6. f = Append(g, f[n])
      <4>1. Append(g, f[n]) \in Seq(Event) /\ Len(Append(g, f[n])) = n
            /\ \A i \in 1..n : Append(g, f[n])[i] = IF i = n THEN f[n] ELSE g[i]
        BY <3>2, <3>4, <3>5
      <4>2. \A i \in 1..n : f[i] = Append(g, f[n])[i]
        <5> SUFFICES ASSUME NEW i \in 1..n PROVE f[i] = Append(g, f[n])[i]
          OBVIOUS
        <5>1. i = n \/ i \in 1..n - 1
          BY <3>2
        <5> QED
          BY <3>4, <4>1, <5>1
      <4> QED
        BY <1>2, <4>1, <4>2, SeqEqual
    <3> QED
      BY <3>2, <3>4, <3>5, <3>6
  <2>2. Joins(g)
    <3>1. n - 1 \notin Bad
      <4> HIDE DEF Bad
      <4> QED
        BY <1>1, <2>1
    <3> QED
      BY <2>1, <3>1
  <2>3. s \o f = Append(s \o g, e) /\ s \o g \in Seq(Event)
    BY <2>1
  <2>4. E!Motion(s \o f) = E!Motion(s \o g) + Moves(e) /\ E!Motion(f) = E!Motion(g) + Moves(e)
    BY <2>1, <2>3, MotionAppend
  <2>5. Moves(e) \in Int
    BY MotionOne
  <2> QED
    BY <1>0, <1>2, <2>2, <2>4, <2>5
<1> QED
  BY <1>3, <1>4

\* The motion without its first event.
LEMMA MotionTail ==
    ASSUME NEW s \in Seq(Event), s # <<>>
    PROVE  /\ Head(s) \in Event /\ Tail(s) \in Seq(Event)
           /\ Moves(Head(s)) \in Int
           /\ E!Motion(s) = Moves(Head(s)) + E!Motion(Tail(s))
<1>1. Head(s) \in Event /\ Tail(s) \in Seq(Event) /\ <<Head(s)>> \in Seq(Event)
  OBVIOUS
<1>2. s = <<Head(s)>> \o Tail(s)
  OBVIOUS
<1> QED
  BY <1>1, <1>2, MotionOne, MotionConcat

-----------------------------------------------------------------------------
(* The motion tracker.                                                      *)

Sum == [dx : Int, wheel : Int, has : BOOLEAN]

MotionTypes == /\ kernel \in [Devs -> Seq(Event)] /\ sums \in [Devs -> Sum]
               /\ \A d \in Devs : ~sums[d].has => sums[d].dx = 0
               /\ pos \in [x : Int, known : BOOLEAN] /\ pointer \in Int /\ exact \in BOOLEAN

\* What a node has on its way to the tracker.
OnWay == [d \in Devs |-> E!Motion(kernel[d]) + sums[d].dx]

\* The sum over the nodes takes them in any order.
AnyOf == [T \in SUBSET Devs |-> CHOOSE x \in T : TRUE]

PendingIsSum ==
    /\ OnWay \in [Devs -> Int]
    /\ \E g \in [SUBSET Devs -> Int] : Sums(g, OnWay, AnyOf, Devs) /\ E!Pending = g[Devs]

LEMMA AnyOfIs == Choice(AnyOf, Devs)
  BY DEF AnyOf, Choice

LEMMA PendingIs == MotionTypes => PendingIsSum
<1> SUFFICES ASSUME MotionTypes PROVE PendingIsSum
  OBVIOUS
<1> DEFINE Step(f) == [s \in SUBSET Devs |->
                         IF s = {} THEN 0
                         ELSE LET x == CHOOSE x \in s : TRUE
                              IN  E!Motion(kernel[x]) + sums[x].dx + f[s \ {x}]]
<1>1. E!Pending = (CHOOSE f : f = Step(f))[Devs]
  BY DEF E!Pending, E!MapThenSumSet, E!MapThenFoldSet
<1>2. ASSUME NEW d \in Devs
      PROVE  E!Motion(kernel[d]) + sums[d].dx \in Int
  <2>1. kernel[d] \in Seq(Event) /\ sums[d].dx \in Int
    BY DEF MotionTypes, Sum
  <2> QED
    BY <2>1, MotionConcat
<1>3. OnWay \in [Devs -> Int]
  BY <1>2 DEF OnWay
<1>4. PICK g \in [SUBSET Devs -> Int] : Sums(g, OnWay, AnyOf, Devs)
  BY <1>3, AnyOfIs, DevsAssumption, SumExists
<1>5. ASSUME NEW s \in SUBSET Devs, s # {}, NEW f
      PROVE  /\ AnyOf[s] \in s
             /\ Step(f)[s] = OnWay[AnyOf[s]] + f[s \ {AnyOf[s]}]
  <2>1. AnyOf[s] \in s /\ AnyOf[s] = CHOOSE x \in s : TRUE
    BY <1>5 DEF AnyOf
  <2>2. OnWay[AnyOf[s]] = E!Motion(kernel[AnyOf[s]]) + sums[AnyOf[s]].dx
    BY <2>1 DEF OnWay
  <2> QED
    BY <1>5, <2>1, <2>2
<1>6. ASSUME NEW f PROVE Step(f)[{}] = 0
  OBVIOUS
<1>7. g = Step(g)
  <2>1. g = [s \in SUBSET Devs |-> g[s]] /\ Step(g) = [s \in SUBSET Devs |-> Step(g)[s]]
    OBVIOUS
  <2>2. ASSUME NEW s \in SUBSET Devs PROVE g[s] = Step(g)[s]
    <3> HIDE DEF Step
    <3>1. CASE s = {}
      BY <1>4, <1>6, <3>1 DEF Sums
    <3>2. CASE s # {}
      BY <1>4, <1>5, <3>2 DEF Sums
    <3> QED
      BY <3>1, <3>2
  <2> HIDE DEF Step
  <2> QED
    BY <2>1, <2>2
<1> DEFINE iter == CHOOSE f : f = Step(f)
<1>8. iter = Step(iter)
  BY <1>7
<1> HIDE DEF iter, Step
<1>9. SameStep(iter, g, AnyOf, Devs)
  <2>1. iter[{}] = g[{}]
    BY <1>6, <1>7, <1>8
  <2>2. ASSUME NEW T \in SUBSET Devs, T # {}, iter[T \ {AnyOf[T]}] = g[T \ {AnyOf[T]}]
        PROVE  iter[T] = g[T]
    <3>1. iter[T] = OnWay[AnyOf[T]] + iter[T \ {AnyOf[T]}]
      BY <1>5, <1>8, <2>2
    <3>2. g[T] = OnWay[AnyOf[T]] + g[T \ {AnyOf[T]}]
      BY <1>5, <1>7, <2>2
    <3> QED
      BY <2>2, <3>1, <3>2
  <2> QED
    BY <2>1, <2>2 DEF SameStep
<1>10. iter[Devs] = g[Devs]
  BY <1>9, AnyOfIs, DevsAssumption, SumsAgree
<1> QED
  BY <1>1, <1>3, <1>4, <1>10 DEF iter, PendingIsSum

LEMMA PendingIsNext == MotionTypes' => PendingIsSum'
  BY PendingIs, PTL

\* What is on its way changes by what the one node that did something has of it.
LEMMA PendingMoves ==
    ASSUME MotionTypes, MotionTypes', NEW d \in Devs,
           \A x \in Devs \ {d} : kernel'[x] = kernel[x] /\ sums'[x] = sums[x]
    PROVE  /\ E!Pending \in Int /\ OnWay[d] \in Int /\ OnWay'[d] \in Int
           /\ E!Pending' = E!Pending + (OnWay'[d] - OnWay[d])
<1>1. OnWay \in [Devs -> Int] /\ OnWay' \in [Devs -> Int]
  BY PendingIs, PendingIsNext DEF PendingIsSum
<1>2. PICK g \in [SUBSET Devs -> Int] : Sums(g, OnWay, AnyOf, Devs) /\ E!Pending = g[Devs]
  BY PendingIs DEF PendingIsSum
<1>3. PICK h \in [SUBSET Devs -> Int] : Sums(h, OnWay', AnyOf, Devs) /\ E!Pending' = h[Devs]
  <2>1. AnyOf' = AnyOf
    BY DEF AnyOf
  <2> QED
    BY <2>1, PendingIsNext DEF PendingIsSum, Sums
<1>4. \A x \in Devs \ {d} : OnWay'[x] = OnWay[x]
  BY DEF OnWay
<1>5. h[Devs] = g[Devs] + (OnWay'[d] - OnWay[d])
  <2>1. PICK w : w = OnWay
    OBVIOUS
  <2>2. PICK v : v = OnWay'
    OBVIOUS
  <2>3. w \in [Devs -> Int] /\ v \in [Devs -> Int] /\ OnlyAt(d, w, v, Devs)
    BY <1>1, <1>4, <2>1, <2>2 DEF OnlyAt
  <2>4. Sums(g, w, AnyOf, Devs) /\ Sums(h, v, AnyOf, Devs)
    BY <1>2, <1>3, <2>1, <2>2
  <2>5. h[Devs] = g[Devs] + (v[d] - w[d])
    BY <2>3, <2>4, AnyOfIs, DevsAssumption, SumMoves
  <2> QED
    BY <2>1, <2>2, <2>5
<1> QED
  BY <1>1, <1>2, <1>3, <1>5

LEMMA PendingStays ==
    ASSUME MotionTypes, MotionTypes', UNCHANGED <<kernel, sums>>
    PROVE  E!Pending' = E!Pending
<1>1. OnWay' = OnWay /\ AnyOf' = AnyOf
  BY DEF OnWay, AnyOf
<1>2. PICK g : Sums(g, OnWay, AnyOf, Devs) /\ E!Pending = g[Devs]
  BY PendingIs DEF PendingIsSum
<1>3. PICK h : Sums(h, OnWay, AnyOf, Devs) /\ E!Pending' = h[Devs]
  BY <1>1, PendingIsNext DEF PendingIsSum, Sums
<1>4. SameStep(h, g, AnyOf, Devs)
  BY <1>2, <1>3 DEF SameStep, Sums
<1> QED
  BY <1>2, <1>3, <1>4, AnyOfIs, DevsAssumption, SumsAgree

LEMMA MotionTypesStep == MotionTypes /\ E!ENext => MotionTypes'
<1> SUFFICES ASSUME MotionTypes, E!ENext PROVE MotionTypes'
  OBVIOUS
<1>1. ASSUME NEW d \in Devs, NEW f \in Frames, E!Gesture(d, f) PROVE MotionTypes'
  <2>1. f \in Seq(Event) /\ kernel[d] \in Seq(Event)
    BY FramesAssumption DEF MotionTypes
  <2>2. kernel[d] \o f \in Seq(Event) /\ E!Motion(f) \in Int
    BY <2>1, MotionConcat
  <2>3. kernel' \in [Devs -> Seq(Event)] /\ UNCHANGED <<sums, pos>>
    BY <1>1, <2>2 DEF E!Gesture, MotionTypes
  <2>4. pointer' \in Int
    BY <1>1, <2>2 DEF E!Gesture, MotionTypes
  <2>5. exact' \in BOOLEAN
    BY <1>1 DEF E!Gesture, MotionTypes
  <2> QED
    BY <2>3, <2>4, <2>5 DEF MotionTypes
<1>2. ASSUME NEW d \in Devs, E!KernelEvent(d) PROVE MotionTypes'
  <2> DEFINE e == Head(kernel[d])
             a == sums[d]
  <2>1. kernel[d] \in Seq(Event) /\ kernel[d] # <<>> /\ a \in Sum /\ (~a.has => a.dx = 0)
    BY <1>2 DEF E!KernelEvent, MotionTypes
  <2>2. e \in Event /\ Tail(kernel[d]) \in Seq(Event)
    BY <2>1, MotionTail
  <2> HIDE DEF e
  <2>3. E!Zero \in Sum /\ ~E!Zero.has /\ E!Zero.dx = 0
    BY DEF E!Zero, Sum
  <2>4. /\ E!Added(a, e) \in Sum
        /\ ~E!Added(a, e).has => E!Added(a, e).dx = 0
    <3>1. /\ a.dx + e.value \in Int /\ a.wheel + 120 * e.value \in Int
          /\ a.wheel + e.value \in Int
      BY <2>1, <2>2 DEF Sum, Event
    <3>2. CASE e.code = "x"
      <4>1. E!Added(a, e) = [a EXCEPT !.dx = a.dx + e.value, !.has = TRUE]
        BY <3>2 DEF E!Added
      <4> QED
        BY <2>1, <3>1, <4>1 DEF Sum
    <3>3. CASE e.code = "wheel"
      <4>1. E!Added(a, e) = [a EXCEPT !.wheel = a.wheel + 120 * e.value, !.has = TRUE]
        BY <3>3 DEF E!Added
      <4> QED
        BY <2>1, <3>1, <4>1 DEF Sum
    <3>4. CASE e.code = "wheelHR"
      <4>1. E!Added(a, e) = [a EXCEPT !.wheel = a.wheel + e.value, !.has = TRUE]
        BY <3>4 DEF E!Added
      <4> QED
        BY <2>1, <3>1, <4>1 DEF Sum
    <3>5. CASE e.code \notin {"x", "wheel", "wheelHR"}
      BY <2>1, <3>5 DEF E!Added
    <3> QED
      BY <3>2, <3>3, <3>4, <3>5
  <2>5. PICK b \in Sum : sums' = [sums EXCEPT ![d] = b] /\ (~b.has => b.dx = 0)
    <3>1. CASE e.code = "syn"
      BY <1>2, <2>3, <3>1 DEF E!KernelEvent, E!Owner, E!AfterSyn, e
    <3>2. CASE e.code # "syn"
      BY <1>2, <2>4, <3>2 DEF E!KernelEvent, E!Owner, e
    <3> QED
      BY <3>1, <3>2
  <2>6. sums' \in [Devs -> Sum] /\ \A x \in Devs : ~sums'[x].has => sums'[x].dx = 0
    BY <2>5 DEF MotionTypes
  <2>7. kernel' \in [Devs -> Seq(Event)] /\ UNCHANGED <<pointer, exact>>
    BY <1>2, <2>2 DEF E!KernelEvent, MotionTypes
  <2>8. pos' \in [x : Int, known : BOOLEAN]
    <3>1. pos.x + a.dx \in Int
      BY <2>1 DEF MotionTypes, Sum
    <3>2. pos' = pos \/ pos' = [x |-> pos.x + a.dx, known |-> TRUE]
      BY <1>2 DEF E!KernelEvent, E!Owner
    <3>3. pos \in [x : Int, known : BOOLEAN]
      BY DEF MotionTypes
    <3>4. [x |-> pos.x + a.dx, known |-> TRUE] \in [x : Int, known : BOOLEAN]
      BY <3>1
    <3> HIDE DEF a
    <3> QED
      BY <3>2, <3>3, <3>4
  <2> QED
    BY <2>6, <2>7, <2>8 DEF MotionTypes
<1>3. CASE UNCHANGED <<kernel, sums, pos, pointer, exact>>
  BY <1>3 DEF MotionTypes
<1>4. CASE E!EStartCapture \/ \E f \in BOOLEAN : E!GrabNodes(f)
  BY <1>3, <1>4 DEF E!EStartCapture, E!GrabNodes, E!tracking
<1>5. ASSUME NEW d \in Devs, E!EnterRead(d) PROVE MotionTypes'
  BY <1>3, <1>5 DEF E!EnterRead, E!tracking
<1>6. ASSUME NEW x \in Spots, E!InjectAbs(x) \/ E!SetPosition(x) PROVE MotionTypes'
  <2>1. UNCHANGED <<kernel, sums>> /\ pos' = [x |-> x, known |-> TRUE]
    BY <1>6 DEF E!InjectAbs, E!SetPosition, E!untouched
  <2>2. x \in Int
    BY SpotsAssumption
  <2>3. pointer' = pointer \/ pointer' = pointer + (IF pos.known THEN x - pos.x ELSE 0)
    BY <1>6 DEF E!InjectAbs, E!SetPosition
  <2>4. pointer' \in Int
    BY <2>2, <2>3 DEF MotionTypes
  <2>5. exact' \in BOOLEAN
    BY <1>6 DEF E!InjectAbs, E!SetPosition, MotionTypes
  <2> QED
    BY <2>1, <2>2, <2>4, <2>5 DEF MotionTypes
<1>7. CASE E!InjectRel
  <2>1. UNCHANGED <<kernel, sums, pos>> /\ pointer' = pointer + 1 /\ exact' = FALSE
    BY <1>7 DEF E!InjectRel, E!untouched
  <2>2. pointer' \in Int
    BY <2>1 DEF MotionTypes
  <2>3. exact' \in BOOLEAN
    BY <2>1, Zenon
  <2> QED
    BY <2>1, <2>2, <2>3 DEF MotionTypes
<1>8. ASSUME NEW c \in Stoppers, E!Stopping(c) PROVE MotionTypes'
  BY <1>3, <1>8 DEF E!Stopping, E!Find, E!Once, E!UngrabNodes, E!CloseNodes, E!Join, E!tracking
<1> QED
  BY <1>1, <1>2, <1>4, <1>5, <1>6, <1>7, <1>8 DEF E!ENext, E!Reader

\* What a reader's event does to its own node, and to no other.
LEMMA EventRead ==
    ASSUME MotionTypes, NEW d \in Devs, E!KernelEvent(d), NEW e, e = Head(kernel[d])
    PROVE  /\ kernel[d] \in Seq(Event) /\ kernel[d] # <<>> /\ e \in Event
           /\ kernel'[d] = Tail(kernel[d])
           /\ sums'[d].dx = IF e.code = "syn" THEN 0 ELSE sums[d].dx + Moves(e)
           /\ pos'.x = IF e.code = "syn" THEN pos.x + sums[d].dx ELSE pos.x
           /\ \A x \in Devs \ {d} : kernel'[x] = kernel[x] /\ sums'[x] = sums[x]
           /\ UNCHANGED <<pointer, exact>>
<1>1. kernel[d] \in Seq(Event) /\ kernel[d] # <<>> /\ e \in Event /\ sums[d] \in Sum
      /\ (~sums[d].has => sums[d].dx = 0)
  <2>1. kernel[d] \in Seq(Event) /\ kernel[d] # <<>>
    BY DEF E!KernelEvent, MotionTypes
  <2> QED
    BY <2>1, MotionTail DEF MotionTypes
<1>2. /\ kernel' = [kernel EXCEPT ![d] = Tail(@)]
      /\ UNCHANGED <<pointer, exact>>
      /\ IF e.code = "syn"
         THEN /\ sums' = [sums EXCEPT ![d] = E!Zero]
              /\ pos' = IF sums[d].has /\ sums[d].dx # 0
                        THEN [x |-> pos.x + sums[d].dx, known |-> TRUE] ELSE pos
         ELSE /\ sums' = [sums EXCEPT ![d] = E!Added(@, e)]
              /\ UNCHANGED pos
  BY DEF E!KernelEvent, E!Owner, E!AfterSyn
<1>3. kernel'[d] = Tail(kernel[d])
      /\ \A x \in Devs \ {d} : kernel'[x] = kernel[x] /\ sums'[x] = sums[x]
  BY <1>2 DEF MotionTypes
<1>4. E!Zero.dx = 0
  BY DEF E!Zero
<1>5. E!Added(sums[d], e).dx = sums[d].dx + Moves(e)
  BY <1>1 DEF E!Added, Moves, Sum, Event
<1>6. sums'[d].dx = IF e.code = "syn" THEN 0 ELSE sums[d].dx + Moves(e)
  BY <1>2, <1>4, <1>5 DEF MotionTypes
<1>7. pos'.x = IF e.code = "syn" THEN pos.x + sums[d].dx ELSE pos.x
  BY <1>1, <1>2 DEF MotionTypes, Sum
<1> QED
  BY <1>1, <1>2, <1>3, <1>6, <1>7

\* The tracker and what is on its way to it, kept as one number by every step.
TrackInv == MotionTypes /\ (exact => pointer = pos.x + E!Pending)

LEMMA TrackStep == TrackInv /\ E!ENext => TrackInv'
<1> SUFFICES ASSUME TrackInv, E!ENext, exact' PROVE pointer' = pos'.x + E!Pending'
  BY MotionTypesStep DEF TrackInv
<1>0. MotionTypes /\ MotionTypes'
  BY MotionTypesStep DEF TrackInv
<1>t. pos.x \in Int /\ pointer \in Int /\ pos.known \in BOOLEAN /\ (exact => pointer = pos.x + E!Pending)
  BY DEF TrackInv, MotionTypes
<1>1. ASSUME NEW d \in Devs, NEW f \in Frames, E!Gesture(d, f)
      PROVE  pointer' = pos'.x + E!Pending'
  <2>1. /\ f \in Seq(Event) /\ kernel[d] \in Seq(Event) /\ sums[d].dx \in Int
        /\ UNCHANGED <<sums, pos>> /\ kernel'[d] = kernel[d] \o f
        /\ \A x \in Devs \ {d} : kernel'[x] = kernel[x] /\ sums'[x] = sums[x]
    BY <1>0, <1>1, FramesAssumption DEF E!Gesture, MotionTypes, Sum
  <2>2. /\ E!Motion(kernel[d]) \in Int /\ E!Motion(f) \in Int
        /\ E!Motion(kernel'[d]) = E!Motion(kernel[d]) + E!Motion(f)
    BY <2>1, MotionConcat
  <2>3. OnWay'[d] - OnWay[d] = E!Motion(f)
    <3>1. /\ OnWay[d] = E!Motion(kernel[d]) + sums[d].dx
          /\ OnWay'[d] = E!Motion(kernel'[d]) + sums[d].dx
      BY <2>1 DEF OnWay
    <3> QED
      BY <2>1, <2>2, <3>1
  <2>4. E!Pending \in Int /\ E!Pending' = E!Pending + E!Motion(f)
    <3>1. E!Pending \in Int /\ E!Pending' = E!Pending + (OnWay'[d] - OnWay[d])
      BY <1>0, <2>1, PendingMoves
    <3> QED
      BY <2>3, <3>1
  <2>5. /\ exact /\ pos' = pos
        /\ pointer' = IF grabbed[d] THEN pointer ELSE pointer + E!Motion(f)
        /\ grabbed[d] => E!Motion(f) = 0
    BY <1>1 DEF E!Gesture
  <2> QED
    BY <1>t, <2>2, <2>4, <2>5
<1>2. ASSUME NEW d \in Devs, E!KernelEvent(d)
      PROVE  pointer' = pos'.x + E!Pending'
  <2> DEFINE e == Head(kernel[d])
  <2>1. /\ kernel[d] \in Seq(Event) /\ kernel[d] # <<>> /\ e \in Event
        /\ kernel'[d] = Tail(kernel[d])
        /\ sums'[d].dx = IF e.code = "syn" THEN 0 ELSE sums[d].dx + Moves(e)
        /\ pos'.x = IF e.code = "syn" THEN pos.x + sums[d].dx ELSE pos.x
        /\ \A x \in Devs \ {d} : kernel'[x] = kernel[x] /\ sums'[x] = sums[x]
        /\ UNCHANGED <<pointer, exact>>
    BY <1>0, <1>2, EventRead
  <2>2. /\ Moves(e) \in Int /\ Tail(kernel[d]) \in Seq(Event)
        /\ E!Motion(kernel[d]) = Moves(e) + E!Motion(Tail(kernel[d]))
    BY <2>1, MotionTail
  <2>3. E!Motion(Tail(kernel[d])) \in Int /\ sums[d].dx \in Int
    BY <1>0, <2>2, MotionConcat DEF MotionTypes, Sum
  <2>4. E!Pending \in Int /\ E!Pending' = E!Pending + (OnWay'[d] - OnWay[d])
    BY <1>0, <2>1, PendingMoves
  <2>5. /\ OnWay[d] = E!Motion(kernel[d]) + sums[d].dx
        /\ OnWay'[d] = E!Motion(Tail(kernel[d])) + sums'[d].dx
    BY <2>1 DEF OnWay
  <2> HIDE DEF e
  <2>6. CASE e.code = "syn"
    <3>1. Moves(e) = 0
      BY <2>6 DEF Moves
    <3>2. E!Pending' = E!Pending - sums[d].dx
      BY <2>1, <2>2, <2>3, <2>4, <2>5, <2>6, <3>1
    <3> QED
      BY <1>t, <2>1, <2>3, <2>4, <2>6, <3>2
  <2>7. CASE e.code # "syn"
    <3>1. E!Pending' = E!Pending
      BY <2>1, <2>2, <2>3, <2>4, <2>5, <2>7
    <3> QED
      BY <1>t, <2>1, <2>7, <3>1
  <2> QED
    BY <2>6, <2>7
<1>3. UNCHANGED <<kernel, sums>> => E!Pending' = E!Pending
  BY <1>0, PendingStays
<1>4. CASE UNCHANGED <<kernel, sums, pos, pointer, exact>>
  BY <1>t, <1>3, <1>4
<1>5. CASE E!EStartCapture \/ \E f \in BOOLEAN : E!GrabNodes(f)
  BY <1>4, <1>5 DEF E!EStartCapture, E!GrabNodes, E!tracking
<1>6. ASSUME NEW d \in Devs, E!EnterRead(d) PROVE pointer' = pos'.x + E!Pending'
  BY <1>4, <1>6 DEF E!EnterRead, E!tracking
<1>7. ASSUME NEW x \in Spots, E!InjectAbs(x) PROVE pointer' = pos'.x + E!Pending'
  <2>1. UNCHANGED <<kernel, sums>> /\ pos' = [x |-> x, known |-> TRUE] /\ exact /\ pos.known
        /\ pointer' = pointer + (IF pos.known THEN x - pos.x ELSE 0)
    BY <1>7 DEF E!InjectAbs, E!untouched
  <2>2. E!Pending \in Int
    BY <1>0, PendingIs DEF PendingIsSum, Sums
  <2>3. x \in Int
    BY SpotsAssumption
  <2> QED
    BY <1>t, <1>3, <2>1, <2>2, <2>3
<1>8. ASSUME NEW x \in Spots, E!SetPosition(x) PROVE pointer' = pos'.x + E!Pending'
  BY <1>3, <1>8 DEF E!SetPosition, E!untouched
<1>9. CASE E!InjectRel
  BY <1>9 DEF E!InjectRel
<1>10. ASSUME NEW c \in Stoppers, E!Stopping(c) PROVE pointer' = pos'.x + E!Pending'
  BY <1>4, <1>10 DEF E!Stopping, E!Find, E!Once, E!UngrabNodes, E!CloseNodes, E!Join, E!tracking
<1> QED
  BY <1>1, <1>2, <1>5, <1>6, <1>7, <1>8, <1>9, <1>10 DEF E!ENext, E!Reader

LEMMA BNextEvdev == [BNext]_bvars => E!ENext \/ UNCHANGED evdev
  BY DEF BNext, bvars

LEMMA MotionTypesInit == BInit => MotionTypes
<1> SUFFICES ASSUME BInit PROVE MotionTypes
  OBVIOUS
<1>1. <<>> \in Seq(Event)
  OBVIOUS
<1>2. /\ kernel = [d \in Devs |-> <<>>]
      /\ sums = [d \in Devs |-> [dx |-> 0, wheel |-> 0, has |-> FALSE]]
      /\ pos = [x |-> 0, known |-> FALSE] /\ pointer = 0 /\ exact = FALSE
  BY DEF BInit, E!EInit, E!Zero
<1>3. [dx |-> 0, wheel |-> 0, has |-> FALSE] \in Sum
  BY DEF Sum
<1>4. /\ kernel \in [Devs -> Seq(Event)] /\ sums \in [Devs -> Sum]
      /\ \A d \in Devs : sums[d].dx = 0
  BY <1>1, <1>2, <1>3
<1>5. pos \in [x : Int, known : BOOLEAN] /\ pointer \in Int
  BY <1>2
<1>6. exact \in BOOLEAN
  BY <1>2, Zenon
<1> QED
  BY <1>4, <1>5, <1>6 DEF MotionTypes

\* Once anchored at the cursor, the tracker and the motion on its way to it give the
\* cursor's place, for any nodes, gestures and injections: an absolute injection
\* lands where it is meant to (backend_linux.go:383-410).
THEOREM TrackerStaysExact == BSpec => []TrackerKnowsCursor
<1>1. BInit => TrackInv
  <2> SUFFICES ASSUME BInit PROVE TrackInv
    OBVIOUS
  <2>1. ~exact
    BY DEF BInit, E!EInit
  <2> QED
    BY <2>1, MotionTypesInit DEF TrackInv
<1>2. TrackInv /\ [BNext]_bvars => TrackInv'
  <2> SUFFICES ASSUME TrackInv, UNCHANGED evdev PROVE TrackInv'
    BY BNextEvdev, TrackStep
  <2>1. MotionTypes /\ MotionTypes' /\ UNCHANGED <<kernel, sums>>
    BY DEF evdev, TrackInv, MotionTypes
  <2>2. E!Pending' = E!Pending
    BY <2>1, PendingStays
  <2> QED
    BY <2>1, <2>2 DEF TrackInv, evdev
<1>3. TrackInv => TrackerKnowsCursor
  BY DEF TrackInv, TrackerKnowsCursor, E!TrackerKnowsCursor
<1> QED
  BY <1>1, <1>2, <1>3, PTL DEF BSpec

-----------------------------------------------------------------------------
(* The frames.                                                              *)

FrameMotions == {E!Motion(f) : f \in Frames}
Prefix(k, i) == E!Motion(SubSeq(k, 1, i))
Syn(k, i) == k[i].code = "syn"

\* What is left on a node, given the motion already summed by its reader: the rest
\* of a frame, then whole frames.
WholeFrames(k, m) ==
    /\ k = <<>> => m = 0
    /\ k # <<>> => Syn(k, Len(k))
    /\ \A i \in 1..Len(k) : Syn(k, i) =>
          /\ (\A j \in 1..i - 1 : ~Syn(k, j)) => m + Prefix(k, i) \in FrameMotions
          /\ \A p \in 1..i - 1 :
                Syn(k, p) /\ (\A j \in p + 1..i - 1 : ~Syn(k, j)) =>
                   Prefix(k, i) - Prefix(k, p) \in FrameMotions

LEMMA PrefixIs ==
    ASSUME NEW k \in Seq(Event), NEW i \in 1..Len(k)
    PROVE  SubSeq(k, 1, i) \in Seq(Event) /\ Prefix(k, i) \in Int
<1>1. i \in Int /\ 1 \in Int /\ \A j \in 1..i : k[j] \in Event
  OBVIOUS
<1>2. SubSeq(k, 1, i) \in Seq(Event)
  BY <1>1, SubSeqProperties
<1> QED
  BY <1>2, MotionConcat DEF Prefix

LEMMA PrefixTail ==
    ASSUME NEW k \in Seq(Event), k # <<>>
    PROVE  /\ Prefix(k, 1) = Moves(Head(k)) /\ Moves(Head(k)) \in Int
           /\ \A i \in 1..Len(k) - 1 : /\ Prefix(Tail(k), i) \in Int
                                       /\ Prefix(k, i + 1) = Moves(Head(k)) + Prefix(Tail(k), i)
<1>1. /\ Len(k) \in Nat /\ Len(k) >= 1
      /\ Tail(k) \in Seq(Event) /\ Len(Tail(k)) = Len(k) - 1
      /\ Head(k) \in Event /\ Moves(Head(k)) \in Int
      /\ \A j \in 1..Len(k) - 1 : Tail(k)[j] = k[j + 1]
  BY MotionTail
<1>2. Prefix(k, 1) = Moves(Head(k))
  <2>1. SubSeq(k, 1, 1) \in Seq(Event) /\ Len(SubSeq(k, 1, 1)) = 1 /\ SubSeq(k, 1, 1)[1] = k[1]
    <3>1. 1 \in 1..Len(k) /\ \A i \in 1..1 : k[i] \in Event
      BY <1>1
    <3> QED
      BY <3>1, SubSeqProperties
  <2>2. SubSeq(k, 1, 1) = <<Head(k)>>
    <3>1. /\ <<Head(k)>> \in Seq(Event) /\ Len(<<Head(k)>>) = 1
          /\ <<Head(k)>>[1] = k[1]
      BY <1>1
    <3>2. \A j \in 1..1 : j = 1
      OBVIOUS
    <3> QED
      BY <2>1, <3>1, <3>2, SeqEqual
  <2> QED
    BY <1>1, <2>2, MotionOne DEF Prefix
<1>3. ASSUME NEW i \in 1..Len(k) - 1
      PROVE  /\ Prefix(Tail(k), i) \in Int
             /\ Prefix(k, i + 1) = Moves(Head(k)) + Prefix(Tail(k), i)
  <2> DEFINE s == SubSeq(k, 1, i + 1)
  <2>1. 1 \in 1..Len(k) /\ i + 1 \in 1..Len(k) /\ i \in 1..Len(Tail(k))
        /\ 1 + 1 = 2 /\ (i + 1) - 1 + 1 = i + 1
    BY <1>1
  <2>2. s \in Seq(Event) /\ Prefix(Tail(k), i) \in Int
    BY <1>1, <2>1, PrefixIs
  <2>3. Head(s) = k[1] /\ Tail(s) = SubSeq(k, 2, i + 1) /\ s # <<>>
    <3>1. Head(s) = k[1] /\ Tail(s) = SubSeq(k, 1 + 1, i + 1)
      BY <2>1, HeadTailOfSubSeq
    <3>2. Len(s) = i + 1
      <4>1. \A j \in 1..i + 1 : k[j] \in Event
        BY <2>1
      <4>2. 1 <= i + 1 /\ i + 1 \in Int /\ (i + 1) - 1 + 1 = i + 1
        BY <1>1
      <4> QED
        BY <4>1, <4>2, SubSeqProperties
    <3>3. Len(s) # 0
      BY <3>2
    <3> QED
      BY <2>1, <3>1, <3>3
  <2>4. SubSeq(k, 2, i + 1) = SubSeq(Tail(k), 1, i)
    <3>1. /\ SubSeq(k, 2, i + 1) \in Seq(Event) /\ Len(SubSeq(k, 2, i + 1)) = i
          /\ \A j \in 1..i : SubSeq(k, 2, i + 1)[j] = k[j + 1]
      <4>1. /\ 2 \in Int /\ i + 1 \in Int /\ 2 <= i + 1 /\ (i + 1) - 2 + 1 = i
            /\ \A j \in 2..i + 1 : k[j] \in Event
            /\ \A j \in 1..i : 2 + j - 1 = j + 1
        BY <1>1
      <4> QED
        BY <4>1, SubSeqProperties
    <3>2. /\ SubSeq(Tail(k), 1, i) \in Seq(Event) /\ Len(SubSeq(Tail(k), 1, i)) = i
          /\ \A j \in 1..i : SubSeq(Tail(k), 1, i)[j] = Tail(k)[j]
      <4>1. /\ 1 \in Int /\ i \in Int /\ 1 <= i /\ i - 1 + 1 = i
            /\ \A j \in 1..i : Tail(k)[j] \in Event
            /\ \A j \in 1..i : 1 + j - 1 = j
        BY <1>1, <2>1
      <4> QED
        BY <4>1, SubSeqProperties
    <3>3. \A j \in 1..i : Tail(k)[j] = k[j + 1]
      BY <1>1
    <3> QED
      BY <3>1, <3>2, <3>3, SeqEqual
  <2>5. Head(k) = k[1]
    BY <1>1
  <2> HIDE DEF s
  <2>6. E!Motion(s) = Moves(Head(s)) + E!Motion(Tail(s))
    BY <2>2, <2>3, MotionTail
  <2> QED
    BY <2>2, <2>3, <2>4, <2>5, <2>6 DEF Prefix, s
<1> QED
  BY <1>1, <1>2, <1>3

LEMMA PrefixConcat ==
    ASSUME NEW k \in Seq(Event), NEW f \in Seq(Event), f # <<>>
    PROVE  /\ \A i \in 1..Len(k) : Prefix(k \o f, i) = Prefix(k, i)
           /\ Prefix(k, Len(k)) = E!Motion(k)
           /\ Prefix(k \o f, Len(k) + Len(f)) = E!Motion(k) + E!Motion(f)
<1>1. \A i \in 1..Len(k) : SubSeq(k \o f, 1, i) = SubSeq(k, 1, i)
  <2> SUFFICES ASSUME NEW i \in 1..Len(k) PROVE SubSeq(k \o f, 1, i) = SubSeq(k, 1, i)
    OBVIOUS
  <2>1. 1 \in 1..Len(k)
    OBVIOUS
  <2> QED
    BY <2>1, SubSeqOfConcat1
<1>2. SubSeq(k, 1, Len(k)) = k
  BY SubSeqFull
<1>3. k \o f \in Seq(Event) /\ Len(k \o f) = Len(k) + Len(f)
  OBVIOUS
<1>4. SubSeq(k \o f, 1, Len(k) + Len(f)) = k \o f
  BY <1>3, SubSeqFull
<1> QED
  BY <1>1, <1>2, <1>4, MotionConcat DEF Prefix

\* A frame queued behind what is left.
LEMMA FrameQueued ==
    ASSUME NEW k \in Seq(Event), NEW m \in Int, WholeFrames(k, m), NEW f \in Frames
    PROVE  WholeFrames(k \o f, m)
<1> DEFINE a == k \o f
<1>1. /\ f \in Seq(Event) /\ f # <<>> /\ Len(f) \in Nat /\ Len(f) >= 1 /\ Len(k) \in Nat
      /\ \A i \in 1..Len(f) : Syn(f, i) <=> i = Len(f)
  BY FramesAssumption DEF Syn
<1>2. /\ a \in Seq(Event) /\ Len(a) = Len(k) + Len(f) /\ a # <<>>
      /\ \A i \in 1..Len(k) : a[i] = k[i]
      /\ \A i \in 1..Len(f) : a[Len(k) + i] = f[i]
  <2>1. a \in Seq(Event) /\ Len(a) = Len(k) + Len(f)
        /\ \A i \in 1..Len(k) + Len(f) : a[i] = IF i <= Len(k) THEN k[i] ELSE f[i - Len(k)]
    BY <1>1, ConcatProperties
  <2>2. Len(a) # 0
    BY <1>1, <2>1
  <2>3. \A i \in 1..Len(f) : /\ Len(k) + i \in 1..Len(k) + Len(f)
                             /\ ~(Len(k) + i <= Len(k)) /\ (Len(k) + i) - Len(k) = i
    BY <1>1
  <2> HIDE DEF a
  <2>4. a # <<>>
    BY <2>2
  <2>5. \A i \in 1..Len(k) : i \in 1..Len(k) + Len(f) /\ i <= Len(k)
    BY <1>1
  <2> QED
    BY <2>1, <2>3, <2>4, <2>5
<1>3. /\ \A i \in 1..Len(k) : Prefix(a, i) = Prefix(k, i)
      /\ Prefix(k, Len(k)) = E!Motion(k)
      /\ Prefix(a, Len(a)) = E!Motion(k) + E!Motion(f)
      /\ E!Motion(k) \in Int /\ E!Motion(f) \in Int
  BY <1>1, <1>2, PrefixConcat, MotionConcat
<1> HIDE DEF a
<1>4. E!Motion(f) \in FrameMotions
  BY DEF FrameMotions
<1>5. \A i \in 1..Len(k) : Syn(a, i) <=> Syn(k, i)
  BY <1>2 DEF Syn
<1>6. \A i \in 1..Len(a) : i \notin 1..Len(k) => (Syn(a, i) <=> i = Len(a))
  <2> SUFFICES ASSUME NEW i \in 1..Len(a), i \notin 1..Len(k)
               PROVE  Syn(a, i) <=> i = Len(a)
    OBVIOUS
  <2>1. PICK n \in 1..Len(f) : i = Len(k) + n
    <3>1. i - Len(k) \in 1..Len(f) /\ i = Len(k) + (i - Len(k))
      BY <1>1, <1>2
    <3> QED
      BY <3>1
  <2>2. a[i] = f[n]
    BY <1>2, <2>1
  <2>3. n = Len(f) <=> i = Len(a)
    <3>1. Len(a) = Len(k) + Len(f) /\ n \in Int
      BY <1>2
    <3> QED
      BY <1>1, <2>1, <3>1
  <2> QED
    BY <1>1, <2>2, <2>3 DEF Syn
<1>7. ASSUME NEW i \in 1..Len(k), Syn(a, i)
      PROVE  /\ (\A j \in 1..i - 1 : ~Syn(a, j)) => m + Prefix(a, i) \in FrameMotions
             /\ \A p \in 1..i - 1 :
                   Syn(a, p) /\ (\A j \in p + 1..i - 1 : ~Syn(a, j)) =>
                      Prefix(a, i) - Prefix(a, p) \in FrameMotions
  <2>1. \A j \in 1..i - 1 : j \in 1..Len(k)
    BY <1>1
  <2>2. \A p \in 1..i - 1 : \A j \in p + 1..i - 1 : j \in 1..Len(k)
    BY <1>1
  <2>3. Prefix(a, i) = Prefix(k, i) /\ \A p \in 1..i - 1 : Prefix(a, p) = Prefix(k, p)
    BY <1>3, <2>1
  <2>4. Syn(k, i)
    BY <1>5, <1>7
  <2>5. /\ \A j \in 1..i - 1 : Syn(a, j) <=> Syn(k, j)
        /\ \A p \in 1..i - 1 : \A j \in p + 1..i - 1 : Syn(a, j) <=> Syn(k, j)
    BY <1>5, <2>1, <2>2
  <2>6. /\ (\A j \in 1..i - 1 : ~Syn(k, j)) => m + Prefix(k, i) \in FrameMotions
        /\ \A p \in 1..i - 1 :
              Syn(k, p) /\ (\A j \in p + 1..i - 1 : ~Syn(k, j)) =>
                 Prefix(k, i) - Prefix(k, p) \in FrameMotions
    BY <2>4 DEF WholeFrames
  <2> QED
    BY <2>3, <2>5, <2>6
<1>8. ASSUME NEW i \in 1..Len(a), i \notin 1..Len(k), Syn(a, i)
      PROVE  /\ (\A j \in 1..i - 1 : ~Syn(a, j)) => m + Prefix(a, i) \in FrameMotions
             /\ \A p \in 1..i - 1 :
                   Syn(a, p) /\ (\A j \in p + 1..i - 1 : ~Syn(a, j)) =>
                      Prefix(a, i) - Prefix(a, p) \in FrameMotions
  <2>1. i = Len(a)
    BY <1>6, <1>8
  <2>2. CASE k = <<>>
    <3>1. Len(k) = 0 /\ m = 0 /\ E!Motion(k) = 0
      BY <2>2, MotionNone DEF WholeFrames
    <3>2. m + Prefix(a, i) = E!Motion(f)
      BY <1>3, <2>1, <3>1
    <3>3. \A p \in 1..i - 1 : ~Syn(a, p)
      <4>1. \A p \in 1..i - 1 : p \in 1..Len(a) /\ p # Len(a) /\ p \notin 1..Len(k)
        BY <1>1, <1>2, <2>1, <3>1
      <4> QED
        BY <1>6, <4>1
    <3> QED
      BY <1>4, <3>2, <3>3
  <2>3. CASE k # <<>>
    <3>1. Len(k) \in 1..i - 1 /\ Len(k) \in 1..Len(k)
      <4>1. Len(k) # 0
        BY <2>3
      <4>2. i - 1 \in Int /\ Len(k) <= i - 1 /\ Len(k) >= 1
        BY <1>1, <1>2, <2>1, <4>1
      <4> QED
        BY <1>1, <4>2
    <3>2. Syn(a, Len(k))
      BY <1>5, <2>3, <3>1 DEF WholeFrames
    <3>3. ASSUME NEW p \in 1..i - 1, Syn(a, p), \A j \in p + 1..i - 1 : ~Syn(a, j)
          PROVE  Prefix(a, i) - Prefix(a, p) \in FrameMotions
      <4>1. p \in 1..Len(k)
        <5>1. p \in 1..Len(a) /\ p # Len(a)
          BY <1>1, <1>2, <2>1
        <5> QED
          BY <1>6, <3>3, <5>1
      <4>2. ~(Len(k) \in p + 1..i - 1)
        BY <3>2, <3>3
      <4>3. p = Len(k)
        BY <1>1, <3>1, <4>1, <4>2
      <4>4. Prefix(a, p) = E!Motion(k)
        BY <1>3, <3>1, <4>3
      <4>5. Prefix(a, i) - Prefix(a, p) = E!Motion(f)
        BY <1>3, <2>1, <4>4
      <4> QED
        BY <1>4, <4>5
    <3> QED
      BY <3>1, <3>2, <3>3
  <2> QED
    BY <2>2, <2>3
<1>9. Syn(a, Len(a))
  <2>1. Len(a) \in 1..Len(a) /\ Len(a) \notin 1..Len(k)
    BY <1>1, <1>2
  <2> QED
    BY <1>6, <2>1
<1>10. \A i \in 1..Len(a) : Syn(a, i) =>
          /\ (\A j \in 1..i - 1 : ~Syn(a, j)) => m + Prefix(a, i) \in FrameMotions
          /\ \A p \in 1..i - 1 :
                Syn(a, p) /\ (\A j \in p + 1..i - 1 : ~Syn(a, j)) =>
                   Prefix(a, i) - Prefix(a, p) \in FrameMotions
  BY <1>7, <1>8
<1>11. WholeFrames(a, m)
  BY <1>2, <1>9, <1>10 DEF WholeFrames
<1> QED
  BY <1>11 DEF a

\* The first event taken off: it adds to the sum, and a SYN_REPORT empties it.
LEMMA EventTaken ==
    ASSUME NEW k \in Seq(Event), k # <<>>, NEW m \in Int, WholeFrames(k, m),
           NEW n, n = IF Syn(k, 1) THEN 0 ELSE m + Moves(Head(k))
    PROVE  WholeFrames(Tail(k), n)
<1> DEFINE t == Tail(k)
           x == Moves(Head(k))
<1>1. /\ Len(k) \in Nat /\ Len(k) >= 1 /\ t \in Seq(Event) /\ Len(t) = Len(k) - 1
      /\ Head(k) = k[1] /\ x \in Int
      /\ \A j \in 1..Len(t) : t[j] = k[j + 1]
  BY MotionTail
<1>2. /\ Prefix(k, 1) = x
      /\ \A i \in 1..Len(t) : Prefix(t, i) \in Int /\ Prefix(k, i + 1) = x + Prefix(t, i)
  BY <1>1, PrefixTail
<1>3. Syn(k, 1) => x = 0
  BY <1>1 DEF Syn, Moves
<1> HIDE DEF t, x
<1>4. \A i \in 1..Len(t) : i + 1 \in 1..Len(k) /\ (Syn(t, i) <=> Syn(k, i + 1))
  BY <1>1 DEF Syn
<1>5. n = IF Syn(k, 1) THEN 0 ELSE m + x
  BY DEF x
<1>6. CASE t = <<>>
  <2>1. Len(k) = 1 /\ Len(t) = 0
    <3>1. Len(t) = 0
      BY <1>6
    <3> QED
      BY <1>1, <3>1
  <2>2. Syn(k, 1)
    BY <2>1 DEF WholeFrames
  <2>3. n = 0 /\ \A i \in 1..Len(t) : FALSE
    BY <1>5, <2>1, <2>2
  <2> QED
    BY <1>6, <2>3 DEF WholeFrames, t
<1>7. CASE t # <<>>
  <2>1. Syn(t, Len(t))
    <3>1. Len(t) # 0
      BY <1>1, <1>7
    <3>2. Len(t) \in 1..Len(t) /\ Len(t) + 1 = Len(k)
      BY <1>1, <3>1
    <3>3. Syn(k, Len(k))
      BY DEF WholeFrames
    <3> QED
      BY <1>4, <3>2, <3>3
  <2>2. ASSUME NEW i \in 1..Len(t), Syn(t, i)
        PROVE  /\ (\A j \in 1..i - 1 : ~Syn(t, j)) => n + Prefix(t, i) \in FrameMotions
               /\ \A p \in 1..i - 1 :
                     Syn(t, p) /\ (\A j \in p + 1..i - 1 : ~Syn(t, j)) =>
                        Prefix(t, i) - Prefix(t, p) \in FrameMotions
    <3> DEFINE l == i + 1
    <3>1. l \in 1..Len(k) /\ Syn(k, l) /\ l - 1 = i
      BY <1>4, <2>2
    <3>2. /\ (\A j \in 1..l - 1 : ~Syn(k, j)) => m + Prefix(k, l) \in FrameMotions
          /\ \A p \in 1..l - 1 :
                Syn(k, p) /\ (\A j \in p + 1..l - 1 : ~Syn(k, j)) =>
                   Prefix(k, l) - Prefix(k, p) \in FrameMotions
      BY <3>1 DEF WholeFrames
    <3>3. Prefix(k, l) = x + Prefix(t, i) /\ Prefix(t, i) \in Int
      BY <1>2
    <3>4. \A j \in 2..i : j - 1 \in 1..i - 1 /\ (j - 1) + 1 = j /\ j - 1 \in 1..Len(t)
      BY <1>1
    <3> HIDE DEF l
    <3>5. ASSUME \A j \in 1..i - 1 : ~Syn(t, j)
          PROVE  n + Prefix(t, i) \in FrameMotions
      <4>1. \A j \in 2..i : ~Syn(k, j)
        <5> SUFFICES ASSUME NEW j \in 2..i PROVE ~Syn(k, j)
          OBVIOUS
        <5>1. PICK u \in 1..i - 1 : u + 1 = j /\ u \in 1..Len(t)
          BY <3>4
        <5> QED
          BY <1>4, <3>5, <5>1
      <4>2. CASE Syn(k, 1)
        <5>1. 1 \in 1..l - 1 /\ 1 + 1..l - 1 = 2..i
          BY <1>1, <3>1
        <5>2. Prefix(k, l) - Prefix(k, 1) \in FrameMotions
          BY <3>2, <4>1, <4>2, <5>1
        <5>3. n + Prefix(t, i) = Prefix(k, l) - Prefix(k, 1)
          BY <1>1, <1>2, <1>5, <3>3, <4>2
        <5> QED
          BY <5>2, <5>3
      <4>3. CASE ~Syn(k, 1)
        <5>1. \A j \in 1..l - 1 : j = 1 \/ j \in 2..i
          BY <3>1
        <5>2. m + Prefix(k, l) \in FrameMotions
          BY <3>2, <4>1, <4>3, <5>1
        <5>3. n = m + x
          BY <1>5, <4>3
        <5>4. n + Prefix(t, i) = m + Prefix(k, l)
          BY <1>1, <3>3, <5>3
        <5> QED
          BY <5>2, <5>4
      <4> QED
        BY <4>2, <4>3
    <3>6. ASSUME NEW p \in 1..i - 1, Syn(t, p), \A j \in p + 1..i - 1 : ~Syn(t, j)
          PROVE  Prefix(t, i) - Prefix(t, p) \in FrameMotions
      <4>1. p \in 1..Len(t) /\ p + 1 \in 1..l - 1
        BY <1>1, <3>1
      <4>2. Syn(k, p + 1)
        BY <1>4, <3>6, <4>1
      <4>3. \A j \in (p + 1) + 1..l - 1 : ~Syn(k, j)
        <5> SUFFICES ASSUME NEW j \in (p + 1) + 1..l - 1 PROVE ~Syn(k, j)
          OBVIOUS
        <5>1. j - 1 \in p + 1..i - 1 /\ j - 1 \in 1..Len(t) /\ (j - 1) + 1 = j
          BY <1>1, <3>1
        <5> QED
          BY <1>4, <3>6, <5>1
      <4>4. Prefix(k, l) - Prefix(k, p + 1) \in FrameMotions
        BY <3>2, <4>1, <4>2, <4>3
      <4>5. Prefix(k, p + 1) = x + Prefix(t, p) /\ Prefix(t, p) \in Int
        BY <1>2, <4>1
      <4>6. Prefix(t, i) - Prefix(t, p) = Prefix(k, l) - Prefix(k, p + 1)
        BY <1>1, <3>3, <4>5
      <4> QED
        BY <4>4, <4>6
    <3> QED
      BY <3>5, <3>6
  <2>3. \A i \in 1..Len(t) : Syn(t, i) =>
           /\ (\A j \in 1..i - 1 : ~Syn(t, j)) => n + Prefix(t, i) \in FrameMotions
           /\ \A p \in 1..i - 1 :
                 Syn(t, p) /\ (\A j \in p + 1..i - 1 : ~Syn(t, j)) =>
                    Prefix(t, i) - Prefix(t, p) \in FrameMotions
    BY <2>2
  <2>4. WholeFrames(t, n)
    BY <1>7, <2>1, <2>3 DEF WholeFrames
  <2> QED
    BY <2>4 DEF t
<1> QED
  BY <1>6, <1>7

\* What a reader has summed when it comes to a SYN_REPORT is one frame.
LEMMA SynReports ==
    ASSUME NEW k \in Seq(Event), k # <<>>, NEW m \in Int, WholeFrames(k, m), Syn(k, 1)
    PROVE  m \in FrameMotions
<1>1. 1 \in 1..Len(k) /\ \A j \in 1..1 - 1 : FALSE
  OBVIOUS
<1>2. m + Prefix(k, 1) \in FrameMotions
  BY <1>1 DEF WholeFrames
<1>3. Head(k) = k[1] /\ Moves(Head(k)) = 0
  BY DEF Syn, Moves
<1>4. Prefix(k, 1) = 0
  BY <1>3, PrefixTail
<1>5. m + Prefix(k, 1) = m
  BY <1>4
<1> QED
  BY <1>2, <1>5

\* Every node holds the rest of a frame and whole frames.
FrameInv == MotionTypes /\ \A d \in Devs : WholeFrames(kernel[d], sums[d].dx)

LEMMA FrameStep == FrameInv /\ E!ENext => FrameInv'
<1> SUFFICES ASSUME FrameInv, E!ENext, NEW x \in Devs
             PROVE  WholeFrames(kernel'[x], sums'[x].dx)
  BY MotionTypesStep DEF FrameInv
<1>1. /\ MotionTypes /\ kernel[x] \in Seq(Event) /\ sums[x].dx \in Int
      /\ WholeFrames(kernel[x], sums[x].dx)
  BY DEF FrameInv, MotionTypes, Sum
<1>2. CASE UNCHANGED <<kernel, sums>>
  BY <1>1, <1>2
<1>3. ASSUME NEW d \in Devs, NEW f \in Frames, E!Gesture(d, f)
      PROVE  WholeFrames(kernel'[x], sums'[x].dx)
  <2>1. sums' = sums /\ kernel'[x] = IF x = d THEN kernel[x] \o f ELSE kernel[x]
    BY <1>1, <1>3 DEF E!Gesture, MotionTypes
  <2> QED
    BY <1>1, <2>1, FrameQueued
<1>4. ASSUME NEW d \in Devs, E!KernelEvent(d)
      PROVE  WholeFrames(kernel'[x], sums'[x].dx)
  <2> DEFINE e == Head(kernel[d])
  <2>1. /\ kernel[d] # <<>>
        /\ kernel'[d] = Tail(kernel[d])
        /\ sums'[d].dx = IF e.code = "syn" THEN 0 ELSE sums[d].dx + Moves(e)
        /\ \A y \in Devs \ {d} : kernel'[y] = kernel[y] /\ sums'[y] = sums[y]
    BY <1>1, <1>4, EventRead
  <2>2. CASE x = d
    <3>1. Syn(kernel[x], 1) <=> e.code = "syn"
      BY <1>1, <2>1, <2>2 DEF Syn
    <3>2. sums'[x].dx = IF Syn(kernel[x], 1) THEN 0 ELSE sums[x].dx + Moves(Head(kernel[x]))
      BY <2>1, <2>2, <3>1
    <3>3. kernel[x] # <<>> /\ kernel'[x] = Tail(kernel[x])
      BY <2>1, <2>2
    <3>4. WholeFrames(Tail(kernel[x]), sums'[x].dx)
      BY <1>1, <3>2, <3>3, EventTaken
    <3> QED
      BY <3>3, <3>4
  <2>3. CASE x # d
    BY <1>1, <2>1, <2>3
  <2> QED
    BY <2>2, <2>3
<1>5. CASE E!EStartCapture \/ E!InjectRel \/ \E f \in BOOLEAN : E!GrabNodes(f)
  BY <1>2, <1>5 DEF E!EStartCapture, E!InjectRel, E!GrabNodes, E!untouched
<1>6. ASSUME NEW d \in Devs, E!EnterRead(d) PROVE UNCHANGED <<kernel, sums>>
  BY <1>6 DEF E!EnterRead
<1>7. ASSUME NEW y \in Spots, E!InjectAbs(y) \/ E!SetPosition(y) PROVE UNCHANGED <<kernel, sums>>
  BY <1>7 DEF E!InjectAbs, E!SetPosition, E!untouched
<1>8. ASSUME NEW c \in Stoppers, E!Stopping(c) PROVE UNCHANGED <<kernel, sums>>
  BY <1>8 DEF E!Stopping, E!Find, E!Once, E!UngrabNodes, E!CloseNodes, E!Join
<1> QED
  BY <1>2, <1>3, <1>4, <1>5, <1>6, <1>7, <1>8 DEF E!ENext, E!Reader

\* A report is one frame of one node, whatever the readers of the other nodes do in
\* between: no accumulator mixes two frames or two nodes
\* (backend_linux.go:147-160, 554-578).
THEOREM ReportsAreFrames == BSpec => ReportsOneFrame
<1>1. BInit => FrameInv
  <2> SUFFICES ASSUME BInit, NEW d \in Devs PROVE WholeFrames(kernel[d], sums[d].dx)
    BY MotionTypesInit DEF FrameInv
  <2>1. kernel[d] = <<>> /\ sums[d].dx = 0
    BY DEF BInit, E!EInit, E!Zero
  <2>2. Len(<<>>) = 0 /\ \A i \in 1..0 : FALSE
    OBVIOUS
  <2> QED
    BY <2>1, <2>2 DEF WholeFrames
<1>2. FrameInv /\ [BNext]_bvars => FrameInv'
  <2> SUFFICES ASSUME FrameInv, UNCHANGED evdev PROVE FrameInv'
    BY BNextEvdev, FrameStep
  <2> QED
    BY DEF evdev, FrameInv, MotionTypes
<1>3. FrameInv =>
        [\A d \in Devs : E!KernelEvent(d) /\ Head(kernel[d]).code = "syn" =>
            pos'.x - pos.x \in {E!Motion(f) : f \in Frames}]_evdev
  <2> SUFFICES ASSUME FrameInv, NEW d \in Devs, E!KernelEvent(d), Head(kernel[d]).code = "syn"
               PROVE  pos'.x - pos.x \in FrameMotions
    BY DEF FrameMotions
  <2>1. kernel[d] \in Seq(Event) /\ kernel[d] # <<>> /\ pos'.x = pos.x + sums[d].dx
    BY EventRead DEF FrameInv
  <2>2. sums[d].dx \in Int /\ pos.x \in Int /\ WholeFrames(kernel[d], sums[d].dx)
    BY DEF FrameInv, MotionTypes, Sum
  <2>3. Syn(kernel[d], 1)
    BY <2>1 DEF Syn
  <2>4. sums[d].dx \in FrameMotions
    BY <2>1, <2>2, <2>3, SynReports
  <2>5. pos'.x - pos.x = sums[d].dx
    BY <2>1, <2>2
  <2> QED
    BY <2>4, <2>5
<1>4. BSpec => []FrameInv
  BY <1>1, <1>2, PTL DEF BSpec
<1> QED
  BY <1>3, <1>4, PTL DEF ReportsOneFrame, E!ReportsOneFrame, E!evars, evdev
=============================================================================
