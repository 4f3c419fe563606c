----------------------------- MODULE HostSwitch -----------------------------
(***************************************************************************)
(* One machine's side of the KVM switch: internal/host/host.go together    *)
(* with the Switcher of internal/input/input.go and the cursor and grab    *)
(* state of the input backend.  Three kinds of goroutine share it:         *)
(*   - the capture goroutines (Readers) run onCapture for every event;     *)
(*   - the Run goroutine serves switch requests and forwards events;       *)
(*   - the leg readers (Legs) run OnNextMachine when a peer sends the      *)
(*     focus back (cmd/mwb-client/serve.go, OnNextMachine callback).       *)
(* Every step between two accesses to shared state is an action, so TLC    *)
(* meets every interleaving of them.                                       *)
(*                                                                         *)
(* A position is "inside" (deeper than rearmInset from every edge), "rim"  *)
(* (closer than that, yet on no edge) or the edge it touches.  An event    *)
(* queued for forwarding is only "can it be shipped" (hasDelta for motion, *)
(* TRUE for keys).  Machines are slot numbers; a layout gives our own slot,*)
(* the occupied slots and the neighbour of each slot across each edge.     *)
(***************************************************************************)
EXTENDS Integers, Sequences

CONSTANTS Readers,        \* capture goroutines that report motion or keys
          Legs,           \* leg readers that can deliver a NextMachine
          Machines,       \* machine IDs (1..4 in the code)
          Edges,          \* screen edges in play
          Layouts,        \* what Server.Layout() may return over time
          QueueCap,       \* capacity of fwdCh (64 in the code)
          NModifiers,     \* len(modifierVKs) (4 in the code)
          MaxHidden,      \* bound: the hide counter saturates here
          Backend,        \* "x11" (absolute) or "evdev" (relative)
          PeerHides,      \* may a peer send HideMouse?
          OneGoroutine    \* TRUE: cursor work serialised as host.go:5-7 says

NoSlot == 0
Positions == {"inside", "rim"} \cup Edges
Landings == Positions \ {"inside"}     \* an entry point is next to an edge

LayoutType == [self : Machines, occ : SUBSET Machines,
               nb : [Machines -> [Edges -> Machines \cup {NoSlot}]]]

ASSUME SlotsAssumption == Machines \subseteq Nat \ {NoSlot}
ASSUME EdgesAssumption == {"inside", "rim"} \cap Edges = {}
ASSUME BoundsAssumption == /\ QueueCap \in Nat \ {0}
                           /\ NModifiers \in Nat \ {0}
                           /\ MaxHidden \in Nat \ {0}
ASSUME FlagsAssumption == /\ Backend \in {"x11", "evdev"}
                          /\ PeerHides \in BOOLEAN
                          /\ OneGoroutine \in BOOLEAN
\* What matrix.go guarantees of Neighbor (MatrixLayoutProofs, NeighborSound).
ASSUME LayoutsAssumption ==
    /\ Layouts # {} /\ Layouts \subseteq LayoutType
    /\ \A L \in Layouts, s \in Machines, e \in Edges : L.nb[s][e] \in {NoSlot} \cup (L.occ \ {s})

Requests == [edge : Edges, dest : Machines]

VARIABLES
    layout,       \* the live layout, owned by the server
    connected,    \* peers with a live message leg
    tracker,      \* h.px, h.py: where the host believes the cursor is
    cursor,       \* where the cursor really is
    hasPos,       \* h.hasPos
    armed,        \* h.armed, the edge hysteresis
    current,      \* h.current: who holds the focus
    slot,         \* Switcher.ch: at most one switch request
    fwdQ,         \* h.fwdCh
    grabbed,      \* backend.forwarding: local delivery is cut off
    hidden,       \* hideCounter: HideCursor calls without a ShowCursor
    reader,       \* capture goroutine -> its place in onCapture
    run,          \* the Run goroutine's place in doSwitch / forward
    leg,          \* leg reader -> its place in OnNextMachine
    told,         \* history: slots a NextMachine went out to
    lastWord,     \* history: the last hand-over, "out" to a peer or "back"
    fires         \* history: requests since the cursor was last inside

io    == <<connected, layout>>
shown == <<grabbed, hidden>>
hist  == <<told, lastWord, fires>>
vars  == <<layout, connected, tracker, cursor, hasPos, armed, current, slot, fwdQ,
           grabbed, hidden, reader, run, leg, told, lastWord, fires>>

Self == layout.self

ReaderPCs == {"idle", "enqueue", "armed", "lookup", "disarm", "send", "drain", "resend"}
RunPCs == {"idle", "ship", "resolve", "release", "next", "hide", "grab", "store",
           "stopping", "stopped"}
LegPCs == {"idle", "ungrab", "show", "land"}

IdleReader == [pc |-> "idle", at |-> "rim", self |-> NoSlot, dest |-> NoSlot, job |-> FALSE]
IdleRun == [pc |-> "idle", edge |-> "rim", dest |-> NoSlot, n |-> 0]

ReaderType == [pc : ReaderPCs, at : Positions, self : Machines \cup {NoSlot},
               dest : Machines \cup {NoSlot}, job : BOOLEAN]
RunType == [pc : RunPCs, edge : Positions, dest : Machines \cup {NoSlot}, n : 0..NModifiers]

LeastOf(a, b) == IF a <= b THEN a ELSE b

-----------------------------------------------------------------------------
Init == /\ layout \in Layouts
        /\ connected = layout.occ \ {Self}
        /\ tracker \in Edges                \* px, py start at (0,0), a corner
        /\ cursor \in Positions
        /\ hasPos = FALSE /\ armed = TRUE
        /\ current = Self
        /\ slot = <<>> /\ fwdQ = <<>>
        /\ grabbed = FALSE /\ hidden = 0
        /\ reader = [c \in Readers |-> IdleReader]
        /\ run = IdleRun
        /\ leg = [l \in Legs |-> [pc |-> "idle", at |-> "rim"]]
        /\ told = {} /\ lastWord = "none" /\ fires = 0

Capturing == run.pc \notin {"stopping", "stopped"}

(***************************************************************************)
(* The capture goroutines.                                                 *)
(***************************************************************************)

\* A motion event: the section of onCapture under h.mu (lines 124-173).  An
\* absolute backend reports the cursor.  A relative one adds a delta to the
\* tracker, whose offset from the cursor is unknown; while grabbed the cursor
\* stays where it is.
CaptureMotion(c, to, real) ==
    /\ Capturing /\ reader[c].pc = "idle"
    /\ Backend = "x11" => real = to
    /\ Backend = "evdev" /\ grabbed => real = cursor
    /\ tracker' = to /\ cursor' = real /\ hasPos' = TRUE
    /\ armed' = (armed \/ to = "inside")
    /\ fires' = IF to = "inside" THEN 0 ELSE fires
    /\ reader' = [reader EXCEPT ![c] =
                     IF current # Self
                     THEN [IdleReader EXCEPT !.pc = "enqueue", !.job = hasPos]
                     ELSE [IdleReader EXCEPT !.pc = "armed", !.at = to, !.self = Self]]
    /\ UNCHANGED <<io, current, slot, fwdQ, shown, run, leg, told, lastWord>>

\* A key, button or wheel event matters only while the focus is away.
CaptureKey(c) ==
    /\ Capturing /\ reader[c].pc = "idle" /\ current # Self
    /\ reader' = [reader EXCEPT ![c] = [IdleReader EXCEPT !.pc = "enqueue", !.job = TRUE]]
    /\ UNCHANGED <<io, tracker, cursor, hasPos, armed, current, slot, fwdQ, shown, run, leg, hist>>

\* enqueue: a full queue drops the event.
Enqueue(c) ==
    /\ reader[c].pc = "enqueue"
    /\ fwdQ' = IF Len(fwdQ) < QueueCap THEN Append(fwdQ, reader[c].job) ELSE fwdQ
    /\ reader' = [reader EXCEPT ![c] = IdleReader]
    /\ UNCHANGED <<io, tracker, cursor, hasPos, armed, current, slot, shown, run, leg, hist>>

\* The unlocked read of h.armed, then DetectEdge on the position seen above.
CheckArmed(c) ==
    /\ reader[c].pc = "armed"
    /\ reader' = [reader EXCEPT ![c] = IF armed /\ reader[c].at \in Edges
                                       THEN [reader[c] EXCEPT !.pc = "lookup"] ELSE IdleReader]
    /\ UNCHANGED <<io, tracker, cursor, hasPos, armed, current, slot, fwdQ, shown, run, leg, hist>>

\* h.layout() and Neighbor: an edge with nobody behind it does nothing.
LookUp(c) ==
    /\ reader[c].pc = "lookup"
    /\ LET dest == layout.nb[reader[c].self][reader[c].at]
       IN reader' = [reader EXCEPT ![c] =
                        IF dest = NoSlot \/ dest = reader[c].self THEN IdleReader
                        ELSE [reader[c] EXCEPT !.pc = "disarm", !.dest = dest]]
    /\ UNCHANGED <<io, tracker, cursor, hasPos, armed, current, slot, fwdQ, shown, run, leg, hist>>

\* Mutant of Disarm: the edge stays armed.
StayArmed(c) ==
    /\ reader[c].pc = "disarm"
    /\ fires' = LeastOf(fires + 1, 2)
    /\ reader' = [reader EXCEPT ![c].pc = "send"]
    /\ UNCHANGED <<io, tracker, cursor, hasPos, armed, current, slot, fwdQ, shown, run, leg,
                   told, lastWord>>

\* disarm: the hysteresis takes effect before the request is sent.
Disarm(c) ==
    /\ reader[c].pc = "disarm"
    /\ armed' = FALSE
    /\ fires' = LeastOf(fires + 1, 2)
    /\ reader' = [reader EXCEPT ![c].pc = "send"]
    /\ UNCHANGED <<io, tracker, cursor, hasPos, current, slot, fwdQ, shown, run, leg, told, lastWord>>

RequestOf(c) == [edge |-> reader[c].at, dest |-> reader[c].dest]

\* Mutant of SendRequest: a full channel loses the new request, not the old.
SendOrDrop(c) ==
    /\ reader[c].pc = "send"
    /\ slot' = IF slot = <<>> THEN <<RequestOf(c)>> ELSE slot
    /\ reader' = [reader EXCEPT ![c] = IdleReader]
    /\ UNCHANGED <<io, tracker, cursor, hasPos, armed, current, fwdQ, shown, run, leg, hist>>

\* RequestSwitch, one channel operation at a time: put; if full, take the old
\* request out; put again, or give up.
SendRequest(c) ==
    /\ reader[c].pc = "send"
    /\ \/ /\ slot = <<>>
          /\ slot' = <<RequestOf(c)>>
          /\ reader' = [reader EXCEPT ![c] = IdleReader]
       \/ /\ slot # <<>>
          /\ reader' = [reader EXCEPT ![c].pc = "drain"]
          /\ UNCHANGED slot
    /\ UNCHANGED <<io, tracker, cursor, hasPos, armed, current, fwdQ, shown, run, leg, hist>>

DrainRequest(c) ==
    /\ reader[c].pc = "drain"
    /\ slot' = <<>>
    /\ reader' = [reader EXCEPT ![c].pc = "resend"]
    /\ UNCHANGED <<io, tracker, cursor, hasPos, armed, current, fwdQ, shown, run, leg, hist>>

ResendRequest(c) ==
    /\ reader[c].pc = "resend"
    /\ slot' = IF slot = <<>> THEN <<RequestOf(c)>> ELSE slot
    /\ reader' = [reader EXCEPT ![c] = IdleReader]
    /\ UNCHANGED <<io, tracker, cursor, hasPos, armed, current, fwdQ, shown, run, leg, hist>>

(***************************************************************************)
(* The Run goroutine.  Its select takes from fwdCh and from the switcher.  *)
(***************************************************************************)
LegsIdle == \A l \in Legs : leg[l].pc = "idle"

\* Mutant of TakeJob: the focus is not compared with ourselves.
TakeJobBlindly ==
    /\ run.pc = "idle" /\ fwdQ # <<>>
    /\ fwdQ' = Tail(fwdQ)
    /\ run' = IF Head(fwdQ) THEN [IdleRun EXCEPT !.pc = "ship", !.dest = current] ELSE IdleRun
    /\ UNCHANGED <<io, tracker, cursor, hasPos, armed, current, slot, shown, reader, leg, hist>>

\* forward, up to the choice of destination: the focus is read again here.
TakeJob ==
    /\ run.pc = "idle" /\ fwdQ # <<>>
    /\ fwdQ' = Tail(fwdQ)
    /\ run' = IF current # Self /\ Head(fwdQ)
              THEN [IdleRun EXCEPT !.pc = "ship", !.dest = current] ELSE IdleRun
    /\ UNCHANGED <<io, tracker, cursor, hasPos, armed, current, slot, shown, reader, leg, hist>>

\* forward, the send itself; an error is only logged.
Ship ==
    /\ run.pc = "ship"
    /\ run' = IdleRun
    /\ UNCHANGED <<io, tracker, cursor, hasPos, armed, current, slot, fwdQ, shown, reader, leg, hist>>

\* Mutant of TakeRequest: requests wait until the focus is home.
TakeRequestAtHome ==
    /\ run.pc = "idle" /\ slot # <<>> /\ current = Self
    /\ slot' = <<>>
    /\ run' = [IdleRun EXCEPT !.pc = "resolve", !.edge = slot[1].edge, !.dest = slot[1].dest]
    /\ UNCHANGED <<io, tracker, cursor, hasPos, armed, current, fwdQ, shown, reader, leg, hist>>

\* Run receives a request: the channel is empty from here on.
TakeRequest ==
    /\ run.pc = "idle" /\ slot # <<>>
    /\ OneGoroutine => LegsIdle
    /\ slot' = <<>>
    /\ run' = [IdleRun EXCEPT !.pc = "resolve", !.edge = slot[1].edge, !.dest = slot[1].dest]
    /\ UNCHANGED <<io, tracker, cursor, hasPos, armed, current, fwdQ, shown, reader, leg, hist>>

\* Mutant of Resolve: the destination is not looked up again.
ResolveFromRequest ==
    /\ run.pc = "resolve"
    /\ run' = [run EXCEPT !.pc = "release", !.n = NModifiers]
    /\ UNCHANGED <<io, tracker, cursor, hasPos, armed, current, slot, fwdQ, shown, reader, leg, hist>>

\* doSwitch, lines 247-256: a destination that became ours or vacant is looked
\* up once more, and the request is dropped when nobody is there.
Resolve ==
    /\ run.pc = "resolve"
    /\ LET dest == IF run.dest = Self \/ run.dest \notin layout.occ
                   THEN layout.nb[Self][run.edge] ELSE run.dest
       IN run' = IF dest = NoSlot \/ dest = Self THEN IdleRun
                 ELSE [run EXCEPT !.pc = "release", !.dest = dest, !.n = NModifiers]
    /\ UNCHANGED <<io, tracker, cursor, hasPos, armed, current, slot, fwdQ, shown, reader, leg, hist>>

\* One modifier release; each one sleeps KeyUpThrottle (10 ms).
ReleaseModifier ==
    /\ run.pc = "release"
    /\ run' = IF run.n > 1 THEN [run EXCEPT !.n = @ - 1] ELSE [run EXCEPT !.pc = "next", !.n = 0]
    /\ UNCHANGED <<io, tracker, cursor, hasPos, armed, current, slot, fwdQ, shown, reader, leg, hist>>

\* Mutant of HandOver: a failed send is only logged.
HandOverRegardless ==
    /\ run.pc = "next"
    /\ \/ connected # {} /\ told' = told \cup {run.dest} /\ lastWord' = "out"
       \/ UNCHANGED <<told, lastWord>>
    /\ run' = [run EXCEPT !.pc = "hide"]
    /\ UNCHANGED <<io, tracker, cursor, hasPos, armed, current, slot, fwdQ, shown, reader, leg, fires>>

\* SendNextMachine: broadcast succeeds when any leg takes the packet, not only
\* dest's; an error gives the switch up.
HandOver ==
    /\ run.pc = "next"
    /\ \/ /\ connected # {}
          /\ told' = told \cup {run.dest} /\ lastWord' = "out"
          /\ run' = [run EXCEPT !.pc = "hide"]
       \/ run' = IdleRun /\ UNCHANGED <<told, lastWord>>
    /\ UNCHANGED <<io, tracker, cursor, hasPos, armed, current, slot, fwdQ, shown, reader, leg, fires>>

\* SendSwitched, then HideCursor (an error on evdev, which hides nothing).
HideLocal ==
    /\ run.pc = "hide"
    /\ hidden' = IF Backend = "x11" THEN LeastOf(hidden + 1, MaxHidden) ELSE hidden
    /\ run' = [run EXCEPT !.pc = "grab"]
    /\ UNCHANGED <<io, tracker, cursor, hasPos, armed, current, slot, fwdQ, grabbed, reader, leg, hist>>

\* Mutant of GrabInput: the function returns before the focus is stored.
GrabAndReturn ==
    /\ run.pc = "grab"
    /\ grabbed' = TRUE
    /\ run' = IdleRun
    /\ UNCHANGED <<io, tracker, cursor, hasPos, armed, current, slot, fwdQ, hidden, reader, leg, hist>>

\* SetForwarding(true): local delivery stops before the focus is stored.
GrabInput ==
    /\ run.pc = "grab"
    /\ grabbed' = TRUE
    /\ run' = [run EXCEPT !.pc = "store"]
    /\ UNCHANGED <<io, tracker, cursor, hasPos, armed, current, slot, fwdQ, hidden, reader, leg, hist>>

StoreDest ==
    /\ run.pc = "store"
    /\ current' = run.dest
    /\ run' = IdleRun
    /\ UNCHANGED <<io, tracker, cursor, hasPos, armed, slot, fwdQ, shown, reader, leg, hist>>

\* stop closes: Run returns and its deferred StopCapture begins.
Stop ==
    /\ run.pc = "idle"
    /\ run' = [IdleRun EXCEPT !.pc = "stopping"]
    /\ UNCHANGED <<io, tracker, cursor, hasPos, armed, current, slot, fwdQ, shown, reader, leg, hist>>

\* StopCapture waits for the capture goroutines; evdev then forgets the grab,
\* and closing the x11 backend shows the cursor as often as it was hidden.
StopCapture ==
    /\ run.pc = "stopping" /\ \A c \in Readers : reader[c].pc = "idle"
    /\ run' = [run EXCEPT !.pc = "stopped"]
    /\ grabbed' = FALSE
    /\ hidden' = 0
    /\ UNCHANGED <<io, tracker, cursor, hasPos, armed, current, slot, fwdQ, reader, leg, hist>>

(***************************************************************************)
(* The leg readers: OnNextMachine.                                         *)
(***************************************************************************)

\* A NextMachine arrives, landing at a point next to an edge.
ReceiveNextMachine(l, at) ==
    /\ connected # {}
    /\ leg[l].pc = "idle"
    /\ OneGoroutine => run.pc = "idle" /\ LegsIdle
    /\ current' = Self
    /\ lastWord' = "back"
    /\ leg' = [leg EXCEPT ![l] = [pc |-> "ungrab", at |-> at]]
    /\ UNCHANGED <<io, tracker, cursor, hasPos, armed, slot, fwdQ, shown, reader, run, told, fires>>

\* Mutant of UngrabInput: the grab is kept.
KeepGrab(l) ==
    /\ leg[l].pc = "ungrab"
    /\ leg' = [leg EXCEPT ![l].pc = "show"]
    /\ UNCHANGED <<io, tracker, cursor, hasPos, armed, current, slot, fwdQ, shown, reader, run, hist>>

\* SetForwarding(false), after the focus is already back.
UngrabInput(l) ==
    /\ leg[l].pc = "ungrab"
    /\ grabbed' = FALSE
    /\ leg' = [leg EXCEPT ![l].pc = "show"]
    /\ UNCHANGED <<io, tracker, cursor, hasPos, armed, current, slot, fwdQ, hidden, reader, run, hist>>

ShowCursor(l) ==
    /\ leg[l].pc = "show"
    /\ hidden' = IF hidden > 0 THEN hidden - 1 ELSE 0
    /\ leg' = [leg EXCEPT ![l].pc = "land"]
    /\ UNCHANGED <<io, tracker, cursor, hasPos, armed, current, slot, fwdQ, grabbed, reader, run, hist>>

\* The warp.  A backend with SetPosition (evdev) gets the edge blasts and its
\* own tracker set, and the function returns before the host's tracker is;
\* the others get the tracker and an absolute move.
Land(l) ==
    /\ leg[l].pc = "land"
    /\ cursor' = leg[l].at
    /\ IF Backend = "evdev" THEN UNCHANGED <<tracker, hasPos>>
                            ELSE tracker' = leg[l].at /\ hasPos' = TRUE
    /\ leg' = [leg EXCEPT ![l] = [pc |-> "idle", at |-> "rim"]]
    /\ UNCHANGED <<io, armed, current, slot, fwdQ, shown, reader, run, hist>>

(***************************************************************************)
(* The rest of the station.                                                *)
(***************************************************************************)

\* A peer asks for our cursor to be hidden (serve.go, OnHideMouse).
PeerHidesCursor ==
    /\ PeerHides /\ Capturing /\ connected # {} /\ Backend = "x11"
    /\ hidden' = LeastOf(hidden + 1, MaxHidden)
    /\ UNCHANGED <<io, tracker, cursor, hasPos, armed, current, slot, fwdQ, grabbed, reader, run, leg, hist>>

\* A merge changes the live layout; it may give us another slot.
Renumber ==
    /\ layout' \in Layouts
    /\ UNCHANGED <<connected, tracker, cursor, hasPos, armed, current, slot, fwdQ, shown,
                   reader, run, leg, hist>>

\* A peer's leg drops or comes up; the host is told of neither.
PeerDown(p) ==
    /\ connected' = connected \ {p}
    /\ UNCHANGED <<layout, tracker, cursor, hasPos, armed, current, slot, fwdQ, shown,
                   reader, run, leg, hist>>

PeerUp(p) ==
    /\ p \in layout.occ \ {Self}
    /\ connected' = connected \cup {p}
    /\ UNCHANGED <<layout, tracker, cursor, hasPos, armed, current, slot, fwdQ, shown,
                   reader, run, leg, hist>>

ReaderStep(c) == \/ Enqueue(c) \/ CheckArmed(c) \/ LookUp(c) \/ Disarm(c)
                 \/ SendRequest(c) \/ DrainRequest(c) \/ ResendRequest(c)

SwitchStep == \/ Ship \/ Resolve \/ ReleaseModifier \/ HandOver
              \/ HideLocal \/ GrabInput \/ StoreDest \/ StopCapture

LegStep(l) == UngrabInput(l) \/ ShowCursor(l) \/ Land(l)

Next == \/ \E c \in Readers : \/ \E to, real \in Positions : CaptureMotion(c, to, real)
                              \/ CaptureKey(c)
                              \/ ReaderStep(c)
        \/ TakeJob \/ TakeRequest \/ SwitchStep \/ Stop
        \/ \E l \in Legs : \/ \E at \in Landings : ReceiveNextMachine(l, at)
                           \/ LegStep(l)
        \/ PeerHidesCursor \/ Renumber
        \/ \E p \in Machines : PeerDown(p) \/ PeerUp(p)

\* A goroutine that can step does (none of these steps waits for the user);
\* Go's select picks a ready case at random, so neither queue starves.
Fairness == /\ \A c \in Readers : WF_vars(ReaderStep(c))
            /\ \A l \in Legs : WF_vars(LegStep(l))
            /\ WF_vars(SwitchStep)
            /\ SF_vars(TakeRequest) /\ SF_vars(TakeJob)

Spec == Init /\ [][Next]_vars

FairSpec == Spec /\ Fairness

-----------------------------------------------------------------------------
TypeOK ==
    /\ layout \in Layouts /\ connected \subseteq Machines
    /\ tracker \in Positions /\ cursor \in Positions
    /\ hasPos \in BOOLEAN /\ armed \in BOOLEAN /\ grabbed \in BOOLEAN
    /\ current \in Machines
    /\ slot \in Seq(Requests) /\ Len(slot) <= 1
    /\ fwdQ \in Seq(BOOLEAN) /\ Len(fwdQ) <= QueueCap
    /\ hidden \in 0..MaxHidden
    /\ reader \in [Readers -> ReaderType]
    /\ run \in RunType
    /\ leg \in [Legs -> [pc : LegPCs, at : Landings]]
    /\ told \subseteq Machines /\ lastWord \in {"none", "out", "back"} /\ fires \in 0..2

\* The focus is only ever here or on a machine that was sent a NextMachine:
\* doSwitch stores the destination last, after the send went out, and gives up
\* when it fails (host.go:263-274), whatever the other goroutines do meanwhile.
FocusWasHandedOver == current # Self => current \in told

\* Input is only forwarded to a machine that was first told to take the focus,
\* and never to ourselves, although forward re-reads the focus long after the
\* event was queued (host.go:278-282).
ForwardAfterHandOver == run.pc = "ship" => run.dest \in told \ {Self}

\* Hysteresis: between two moments with the cursor inside the re-arm inset,
\* at most one edge hit becomes a switch request (host.go:34-38, 160-167).
OneFirePerDive == fires <= 1

\* RequestSwitch coalesces: when it returns, the request it was called with is
\* the one in the channel, whatever Run took meanwhile (input.go:191-206).
FreshRequestWins ==
    [][\A c \in Readers :
         reader[c].pc \in {"send", "resend"} /\ reader'[c].pc = "idle"
           => slot' = <<RequestOf(c)>>]_vars

\* A switch never starts towards a slot that the layout it consults shows as
\* vacant or as ours, even if the layout changed after the edge was hit and
\* the request was queued (host.go:247-256).
NeverToVacantSlot ==
    [][run.pc = "resolve" /\ run'.pc = "release" => run'.dest \in layout.occ \ {Self}]_vars

\* No goroutine is inside doSwitch or OnNextMachine.
Settled == run.pc \in {"idle", "ship"} /\ LegsIdle

\* Between hand-overs the pieces of focus state agree: the last word between
\* the machines, h.current, the grab and (x11) the hidden cursor.
SettledCoherent ==
    Settled => /\ current # Self <=> lastWord = "out"
               /\ grabbed <=> current # Self
               /\ Backend = "x11" /\ current # Self => hidden > 0

\* When the last word was a NextMachine to us, the focus is here: "take focus
\* back" (host.go:329-330).
ReturnTakesFocus == Settled /\ lastWord = "back" => current = Self

\* Cursor hiding and showing pair up (docs/05-verify.md:20): with the focus
\* here and nothing in progress the cursor is visible.
CursorBackWhenLocal == Settled /\ current = Self => hidden = 0

\* OnNextMachine re-anchors the tracker to where the warp put the cursor
\* (host.go:332-336).
ReturnAnchorsTracker ==
    [][\A l \in Legs : leg[l].pc = "land" /\ leg'[l].pc = "idle" => tracker' = cursor']_vars

\* A queued switch request is eventually taken up, however many events wait to
\* be forwarded, unless the station stops (host.go:110-119).
RequestServed == slot # <<>> ~> run.pc \in {"resolve", "stopping", "stopped"}

\* A switch that was announced to a peer is carried through: the focus leaves
\* us (host.go:263-274).
HandOverCompletes == run.pc = "hide" ~> current # Self

\* A peer that holds our focus and drops off the network does not keep our
\* keyboard for ever: the 5 s crossing watchdog (const.go:123,
\* docs/05-verify.md:27) resets the focus, unless the station stops.
DeadPeerReleasesFocus ==
    current \notin connected \cup {Self} ~> current \in connected \cup {Self} \/ ~Capturing
=============================================================================
