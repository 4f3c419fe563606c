---------------------------- MODULE EvdevBackend ----------------------------
(***************************************************************************)
(* The evdev capture backend (internal/input/backend_linux.go): one reader *)
(* per input node, each with its accumulator, the motion tracker they      *)
(* share with the injection, the grab, StopCapture and Close.  One axis.   *)
(*                                                                         *)
(* The kernel is external: it queues the events of a frame with its        *)
(* SYN_REPORT at once on the node, and moves the cursor unless the node is *)
(* grabbed.  Closing a node does not wake a reader inside read(): File.Fd, *)
(* which the ioctls use, makes the descriptor a blocking one.              *)
(***************************************************************************)
EXTENDS Integers, Sequences, FiniteSetsExt, SequencesExt

CONSTANTS Devs, Callers,           \* nodes; the callers of StopCapture
          Frames,                  \* what a gesture queues: events up to a SYN
          Spots,                   \* positions injected or anchored
          MaxFrames, MaxInjects    \* bounds on gestures and on injections

VARIABLES file,      \* node -> "open" or "closed"
          grabbed,   \* node -> the kernel delivers its events to us alone
          kernel,    \* node -> events not yet read
          sums,      \* node -> the accumulator of its reader
          reader,    \* node -> place of its reader
          capture,   \* "never", "on" (stopCh is set) or "over"
          done,      \* stopCh is closed
          fresh,     \* stopOnce has not run
          caller,    \* caller -> place in StopCapture
          pos,       \* the tracker: px and hasPos
          pointer,   \* where the cursor really is (kernel and compositor)
          exact,     \* the tracker was anchored at the cursor, and nothing since
                     \* moved one of them alone (history)
          crash,     \* the program panicked
          made, injects

evars == <<file, grabbed, kernel, sums, reader, capture, done, fresh, caller,
           pos, pointer, exact, crash, made, injects>>

stopping == <<capture, done, fresh, caller, crash>>
tracking == <<pos, pointer, exact>>
nodes == <<file, grabbed>>

Zero == [dx |-> 0, wheel |-> 0, has |-> FALSE]

EInit == /\ file = [d \in Devs |-> "open"]
         /\ grabbed = [d \in Devs |-> FALSE]
         /\ kernel = [d \in Devs |-> <<>>]
         /\ sums = [d \in Devs |-> Zero]
         /\ reader = [d \in Devs |-> "none"]
         /\ capture = "never" /\ done = FALSE /\ fresh = TRUE
         /\ caller = [c \in Callers |-> "idle"]
         /\ pos = [x |-> 0, known |-> FALSE]
         /\ pointer = 0 /\ exact = FALSE
         /\ crash = FALSE
         /\ made = 0 /\ injects = 0

\* Motion of a sequence of events, and motion on its way to the tracker.
Motion(events) == FoldLeft(LAMBDA m, e : IF e.code = "x" THEN m + e.value ELSE m, 0, events)
Pending == MapThenSumSet(LAMBDA d : Motion(kernel[d]) + sums[d].dx, Devs)

-----------------------------------------------------------------------------
(* The kernel, StartCapture and SetForwarding. *)

Gesture(d, f) ==
    /\ capture = "on"
    /\ made < MaxFrames
    /\ made' = made + 1
    /\ kernel' = [kernel EXCEPT ![d] = @ \o f]
    /\ pointer' = IF grabbed[d] THEN pointer ELSE pointer + Motion(f)
    /\ exact' = (exact /\ (grabbed[d] => Motion(f) = 0))
    /\ UNCHANGED <<nodes, sums, reader, stopping, pos, injects>>

EStartCapture ==
    /\ capture = "never"
    /\ capture' = "on"
    /\ reader' = [d \in Devs |-> "top"]
    /\ UNCHANGED <<nodes, kernel, sums, done, fresh, caller, crash, tracking, made, injects>>

\* SetForwarding grabs or releases every node; it fails on a closed one.
GrabNodes(f) ==
    /\ capture # "over"
    /\ grabbed' = [d \in Devs |-> IF file[d] = "open" THEN f ELSE grabbed[d]]
    /\ UNCHANGED <<file, kernel, sums, reader, stopping, tracking, made, injects>>

-----------------------------------------------------------------------------
(* readLoop and handleKernelEvent. *)

\* A reader that ends lets go of its node: a closed one is then closed for good.
Ends(d, next) ==
    /\ reader' = [reader EXCEPT ![d] = next]
    /\ grabbed' = [grabbed EXCEPT ![d] = @ /\ ~(next = "ended" /\ file[d] = "closed")]

\* The check of stopCh and the call of Read, which on a file that was closed in
\* between only fails and finds stopCh closed.
EnterRead(d) ==
    /\ reader[d] = "top"
    /\ Ends(d, IF done THEN "ended" ELSE "inside")
    /\ UNCHANGED <<file, kernel, sums, stopping, tracking, made, injects>>

\* What an event adds to the sums of its frame.
Added(a, e) ==
    CASE e.code = "x"       -> [a EXCEPT !.dx = @ + e.value, !.has = TRUE]
      [] e.code = "wheel"   -> [a EXCEPT !.wheel = @ + 120 * e.value, !.has = TRUE]
      [] e.code = "wheelHR" -> [a EXCEPT !.wheel = @ + e.value, !.has = TRUE]
      [] OTHER              -> a

\* Mutant of Owner: one accumulator for all the readers.
OneOwner(d) == CHOOSE o \in Devs : TRUE

\* Whose sums a reader of d uses: each has its own.
Owner(d) == d

\* Mutant of AfterSyn: the motion of a frame that also has a wheel is kept.
KeptWithWheel(a) == IF a.wheel # 0 THEN [a EXCEPT !.wheel = 0] ELSE Zero

\* The sums after they were reported.
AfterSyn(a) == Zero

\* An event is read; a SYN_REPORT reports the sums and moves the tracker.
KernelEvent(d) ==
    LET o == Owner(d)
        e == Head(kernel[d])
    IN  /\ reader[d] = "inside"
        /\ kernel[d] # <<>>
        /\ kernel' = [kernel EXCEPT ![d] = Tail(@)]
        /\ reader' = [reader EXCEPT ![d] = "top"]
        /\ IF e.code = "syn"
           THEN /\ sums' = [sums EXCEPT ![o] = AfterSyn(@)]
                /\ pos' = IF sums[o].has /\ sums[o].dx # 0
                          THEN [x |-> pos.x + sums[o].dx, known |-> TRUE] ELSE pos
           ELSE /\ sums' = [sums EXCEPT ![o] = Added(@, e)]
                /\ UNCHANGED pos
        /\ UNCHANGED <<nodes, stopping, pointer, exact, made, injects>>

-----------------------------------------------------------------------------
(* Injection and the tracker. *)

Injects == injects < MaxInjects /\ injects' = injects + 1
untouched == <<nodes, kernel, sums, reader, stopping, made>>

\* toDelta: an absolute target becomes a step from the tracker, none when unknown.
InjectAbs(x) == /\ Injects
                /\ pos' = [x |-> x, known |-> TRUE]
                /\ pointer' = pointer + (IF pos.known THEN x - pos.x ELSE 0)
                /\ exact' = (exact /\ pos.known)
                /\ UNCHANGED untouched

\* A relative injection moves the cursor and not the tracker.
InjectRel == /\ Injects
             /\ pointer' = pointer + 1
             /\ exact' = FALSE
             /\ UNCHANGED <<untouched, pos>>

SetPosition(x) == /\ Injects
                  /\ pos' = [x |-> x, known |-> TRUE]
                  /\ exact' = (pointer = x + Pending)
                  /\ UNCHANGED <<untouched, pointer>>

-----------------------------------------------------------------------------
(* StopCapture. *)

Step(c, from, to) == caller[c] = from /\ caller' = [caller EXCEPT ![c] = to]

Find(c) == /\ Step(c, "idle", IF capture = "on" THEN "once" ELSE "out")
           /\ UNCHANGED <<nodes, kernel, sums, reader, capture, done, fresh, crash,
                          tracking, made, injects>>

\* stopOnce closes the channel; a Once that was reset closes it again, and panics.
Once(c) == /\ Step(c, "once", "ungrab")
           /\ done' = TRUE
           /\ fresh' = FALSE
           /\ crash' = (fresh /\ done)
           /\ UNCHANGED <<nodes, kernel, sums, reader, capture, tracking, made, injects>>

UngrabNodes(c) == /\ Step(c, "ungrab", "close")
                  /\ grabbed' = [d \in Devs |-> grabbed[d] /\ file[d] = "closed"]
                  /\ UNCHANGED <<file, kernel, sums, reader, capture, done, fresh, crash,
                                 tracking, made, injects>>

CloseNodes(c) == /\ Step(c, "close", "join")
                 /\ file' = [d \in Devs |-> "closed"]
                 /\ grabbed' = [d \in Devs |-> grabbed[d] /\ reader[d] # "ended"]
                 /\ UNCHANGED <<kernel, sums, reader, capture, done, fresh, crash,
                                tracking, made, injects>>

\* Mutant of Joined: a reader inside read() is not waited for.
JoinedButInside == \A d \in Devs : reader[d] \in {"ended", "inside"}

Joined == \A d \in Devs : reader[d] = "ended"

Join(c) == /\ Step(c, "join", "out")
           /\ Joined
           /\ capture' = "over"
           /\ fresh' = TRUE
           /\ UNCHANGED <<nodes, kernel, sums, reader, done, crash, tracking, made, injects>>

-----------------------------------------------------------------------------
Reader(d) == EnterRead(d) \/ KernelEvent(d)
Stopping(c) == Find(c) \/ Once(c) \/ UngrabNodes(c) \/ CloseNodes(c) \/ Join(c)

ENext == /\ ~crash
         /\ \/ EStartCapture
            \/ \E d \in Devs, f \in Frames : Gesture(d, f)
            \/ \E f \in BOOLEAN : GrabNodes(f)
            \/ \E d \in Devs : Reader(d)
            \/ InjectRel
            \/ \E x \in Spots : InjectAbs(x) \/ SetPosition(x)
            \/ \E c \in Callers : Stopping(c)

ESpec == EInit /\ [][ENext]_evars

-----------------------------------------------------------------------------
\* Once anchored at the cursor, the tracker and the motion on its way to it give
\* the cursor's place, so that an absolute injection lands where it is meant to:
\* over all readers and injections interleaved, unless the nodes are grabbed while
\* the mouse moves or a relative injection moves the cursor alone
\* (backend_linux.go:383-410, 603-613).
TrackerKnowsCursor == exact => pointer = pos.x + Pending

\* A report is one frame of one node: what a reader has summed and what is left of
\* the frame never mix with the frame of another node (backend_linux.go:147-160, 554-578).
ReportsOneFrame ==
    [][\A d \in Devs :
          KernelEvent(d) /\ Head(kernel[d]).code = "syn" =>
             pos'.x - pos.x \in {Motion(f) : f \in Frames}]_evars

\* When a StopCapture is over every reader has ended and every node is released,
\* with two callers, and a SetForwarding between the release of a node and its
\* close (backend_linux.go:527-551).
ReadersGone == capture = "over" =>
                  \A d \in Devs : reader[d] = "ended" /\ ~grabbed[d] /\ file[d] = "closed"
=============================================================================
