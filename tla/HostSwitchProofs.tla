-------------------------- MODULE HostSwitchProofs --------------------------
(***************************************************************************)
(* Theorems about HostSwitch, for any number of capture goroutines, leg    *)
(* readers and layouts and for any queue capacity.  Shape says what the    *)
(* record of each goroutine may hold at each place in its code; with it    *)
(* the type invariant is inductive, and the safety invariants follow from  *)
(* small strengthenings of their own.                                      *)
(***************************************************************************)
EXTENDS HostSwitch, TLAPS

RecordShape(r) ==
    /\ r.pc = "armed" => r.self \in Machines
    /\ r.pc \in {"lookup", "disarm", "send", "drain", "resend"}
         => r.at \in Edges /\ r.self \in Machines
    /\ r.pc \in {"disarm", "send", "drain", "resend"} => r.dest \in Machines

ReaderShape == \A c \in Readers : RecordShape(reader[c])

Switching == {"release", "next", "hide", "grab", "store"}

RunShape ==
    /\ run.pc \in {"resolve"} \cup Switching => run.edge \in Edges /\ run.dest \in Machines
    /\ run.pc = "ship" => run.dest \in Machines

\* The type invariant and the shapes by parts, so that a step is checked part
\* by part.
StationOK == /\ layout \in Layouts /\ connected \subseteq Machines /\ current \in Machines
             /\ tracker \in Positions /\ cursor \in Positions
             /\ told \subseteq Machines /\ lastWord \in {"none", "out", "back"} /\ fires \in 0..2
             /\ hidden \in 0..MaxHidden
FlagsOK == hasPos \in BOOLEAN /\ armed \in BOOLEAN /\ grabbed \in BOOLEAN
QueuesOK == /\ slot \in Seq(Requests) /\ Len(slot) <= 1
            /\ fwdQ \in Seq(BOOLEAN) /\ Len(fwdQ) <= QueueCap
ReadersOK == reader \in [Readers -> ReaderType] /\ ReaderShape
RunOK == run \in RunType /\ RunShape
LegsOK == leg \in [Legs -> [pc : LegPCs, at : Landings]]

TypeInv == StationOK /\ FlagsOK /\ QueuesOK /\ ReadersOK /\ RunOK /\ LegsOK

USE DEF NoSlot

\* What the assumption on Layouts says of the layout in use.
LEMMA LayoutFacts ==
    ASSUME NEW L \in Layouts
    PROVE  /\ L.self \in Machines
           /\ L.occ \subseteq Machines
           /\ NoSlot \notin Machines
           /\ \A s \in Machines, e \in Edges : /\ L.nb[s][e] \in Machines \cup {NoSlot}
                                            /\ L.nb[s][e] # NoSlot => L.nb[s][e] \in L.occ \ {s}
  BY LayoutsAssumption, SlotsAssumption DEF LayoutType

\* A neighbour in the live layout is nobody or another, occupied slot.
LEMMA NeighborFacts ==
    ASSUME layout \in Layouts, NEW s \in Machines, NEW e \in Edges
    PROVE  /\ NoSlot \notin Machines
           /\ layout.nb[s][e] # NoSlot => /\ layout.nb[s][e] \in Machines
                                          /\ layout.nb[s][e] \in layout.occ \ {s}
<1>1. layout.nb[s][e] \in {NoSlot} \cup (layout.occ \ {s})
  BY LayoutsAssumption
<1> QED
  BY <1>1, LayoutFacts

LEMMA InitTypeInv == Init => TypeInv
<1> SUFFICES ASSUME Init PROVE TypeInv
  OBVIOUS
<1>1. layout \in Layouts /\ Self \in Machines /\ layout.occ \subseteq Machines
  BY LayoutFacts DEF Init, Self
<1>2. StationOK
  BY <1>1, BoundsAssumption DEF Init, StationOK, Positions
<1>3. FlagsOK
  BY Zenon DEF Init, FlagsOK
<1>4. QueuesOK
  BY BoundsAssumption DEF Init, QueuesOK
<1>5. ReadersOK
  BY DEF Init, ReadersOK, ReaderType, ReaderPCs, IdleReader, ReaderShape, RecordShape, Positions
<1>6. RunOK
  BY BoundsAssumption DEF Init, RunOK, RunType, RunPCs, IdleRun, RunShape, Switching, Positions
<1>7. LegsOK
  BY DEF Init, LegsOK, LegPCs, Landings, Positions
<1> QED
  BY <1>2, <1>3, <1>4, <1>5, <1>6, <1>7 DEF TypeInv

-----------------------------------------------------------------------------
\* Moving one capture goroutine to a well-formed record keeps them all so.
LEMMA ReaderMoves ==
    ASSUME ReadersOK, NEW c \in Readers, NEW r \in ReaderType, RecordShape(r),
           reader' = [reader EXCEPT ![c] = r]
    PROVE  ReadersOK'
  BY DEF ReadersOK, ReaderShape

\* The records a capture goroutine starts from are well-formed.
LEMMA IdleReaderOK == IdleReader \in ReaderType /\ RecordShape(IdleReader)
  BY DEF IdleReader, ReaderType, ReaderPCs, RecordShape, Positions

\* A request made by a goroutine about to send it is a request.
LEMMA RequestOfOK ==
    ASSUME ReadersOK, NEW c \in Readers, reader[c].pc \in {"send", "resend"}
    PROVE  /\ RequestOf(c) \in Requests
           /\ <<RequestOf(c)>> \in Seq(Requests) /\ Len(<<RequestOf(c)>>) <= 1
<1>1. RequestOf(c) \in Requests
  BY DEF ReadersOK, ReaderShape, RecordShape, RequestOf, Requests
<1> QED
  BY <1>1

\* A step of a capture goroutine.
LEMMA ReaderTypeInv ==
    ASSUME TypeInv, NEW c \in Readers, NEW to \in Positions, NEW real \in Positions,
           CaptureMotion(c, to, real) \/ CaptureKey(c) \/ ReaderStep(c)
    PROVE  TypeInv'
<1>0. StationOK /\ FlagsOK /\ QueuesOK /\ ReadersOK /\ RunOK /\ LegsOK
  BY DEF TypeInv
<1>1. CASE CaptureMotion(c, to, real)
  <2>1. QueuesOK' /\ RunOK' /\ LegsOK'
    BY <1>0, <1>1 DEF CaptureMotion, QueuesOK, RunOK, RunShape, LegsOK, io, shown, hist
  <2>2. StationOK'
    BY <1>0, <1>1 DEF CaptureMotion, StationOK, io, shown
  <2>3. FlagsOK'
    BY <1>0, <1>1, Zenon DEF CaptureMotion, FlagsOK, shown
  <2>4. ReadersOK'
    <3>1. CASE current # Self
      <4> DEFINE r == [IdleReader EXCEPT !.pc = "enqueue", !.job = hasPos]
      <4>1. r \in ReaderType /\ RecordShape(r)
        BY <1>0, IdleReaderOK DEF FlagsOK, ReaderType, ReaderPCs, RecordShape
      <4>2. reader' = [reader EXCEPT ![c] = r]
        BY <1>1, <3>1 DEF CaptureMotion
      <4> QED
        BY <1>0, <4>1, <4>2, ReaderMoves
    <3>2. CASE current = Self
      <4> DEFINE r == [IdleReader EXCEPT !.pc = "armed", !.at = to, !.self = Self]
      <4>1. Self \in Machines
        BY <1>0, LayoutFacts DEF StationOK, Self
      <4>2. r \in ReaderType /\ RecordShape(r)
        BY <4>1, IdleReaderOK DEF ReaderType, ReaderPCs, RecordShape, IdleReader
      <4>3. reader' = [reader EXCEPT ![c] = r]
        BY <1>1, <3>2 DEF CaptureMotion
      <4> QED
        BY <1>0, <4>2, <4>3, ReaderMoves
    <3> QED
      BY <3>1, <3>2
  <2> QED
    BY <2>1, <2>2, <2>3, <2>4 DEF TypeInv
<1>2. CASE CaptureKey(c)
  <2>1. StationOK' /\ FlagsOK' /\ QueuesOK' /\ RunOK' /\ LegsOK'
    BY <1>0, <1>2 DEF CaptureKey, StationOK, FlagsOK, QueuesOK, RunOK, RunShape, LegsOK, io, shown, hist
  <2>2. ReadersOK'
    BY <1>0, <1>2 DEF CaptureKey, ReadersOK, ReaderType, ReaderPCs, ReaderShape, RecordShape,
       IdleReader, Positions
  <2> QED
    BY <2>1, <2>2 DEF TypeInv
<1>3. CASE Enqueue(c)
  <2>1. StationOK' /\ FlagsOK' /\ RunOK' /\ LegsOK'
    BY <1>0, <1>3 DEF Enqueue, StationOK, FlagsOK, RunOK, RunShape, LegsOK, io, shown, hist
  <2>2. QueuesOK'
    <3>1. reader[c].job \in BOOLEAN
      BY <1>0, Zenon DEF ReadersOK, ReaderType
    <3>2. CASE Len(fwdQ) < QueueCap
      BY <1>0, <1>3, <3>1, <3>2, BoundsAssumption DEF Enqueue, QueuesOK
    <3>3. CASE ~(Len(fwdQ) < QueueCap)
      BY <1>0, <1>3, <3>3 DEF Enqueue, QueuesOK
    <3> QED
      BY <3>2, <3>3
  <2>3. ReadersOK'
    BY <1>0, <1>3, IdleReaderOK, ReaderMoves DEF Enqueue
  <2> QED
    BY <2>1, <2>2, <2>3 DEF TypeInv
<1>4. CASE CheckArmed(c)
  <2>1. StationOK' /\ FlagsOK' /\ QueuesOK' /\ RunOK' /\ LegsOK'
    BY <1>0, <1>4 DEF CheckArmed, StationOK, FlagsOK, QueuesOK, RunOK, RunShape, LegsOK, io, shown, hist
  <2>2. ReadersOK'
    <3>1. CASE armed /\ reader[c].at \in Edges
      BY <1>0, <1>4, <3>1 DEF CheckArmed, ReadersOK, ReaderType, ReaderPCs, ReaderShape, RecordShape
    <3>2. CASE ~(armed /\ reader[c].at \in Edges)
      BY <1>0, <1>4, <3>2, IdleReaderOK, ReaderMoves DEF CheckArmed
    <3> QED
      BY <3>1, <3>2
  <2> QED
    BY <2>1, <2>2 DEF TypeInv
<1>5. CASE LookUp(c)
  <2>1. StationOK' /\ FlagsOK' /\ QueuesOK' /\ RunOK' /\ LegsOK'
    BY <1>0, <1>5 DEF LookUp, StationOK, FlagsOK, QueuesOK, RunOK, RunShape, LegsOK, io, shown, hist
  <2>2. ReadersOK'
    <3> DEFINE dest == layout.nb[reader[c].self][reader[c].at]
    <3>1. CASE dest = NoSlot \/ dest = reader[c].self
      BY <1>0, <1>5, <3>1, IdleReaderOK, ReaderMoves DEF LookUp
    <3>2. CASE ~(dest = NoSlot \/ dest = reader[c].self)
      <4> DEFINE r == [reader[c] EXCEPT !.pc = "disarm", !.dest = dest]
      <4>1. reader[c].self \in Machines /\ reader[c].at \in Edges /\ reader[c] \in ReaderType
        BY <1>0, <1>5 DEF LookUp, ReadersOK, ReaderShape, RecordShape
      <4>2. dest \in Machines
        BY <1>0, <4>1, <3>2, NeighborFacts DEF StationOK
      <4>3. r \in ReaderType /\ RecordShape(r)
        BY <4>1, <4>2 DEF ReaderType, ReaderPCs, RecordShape
      <4>4. reader' = [reader EXCEPT ![c] = r]
        BY <1>5, <3>2 DEF LookUp
      <4> QED
        BY <1>0, <4>3, <4>4, ReaderMoves
    <3> QED
      BY <3>1, <3>2
  <2> QED
    BY <2>1, <2>2 DEF TypeInv
<1>6. CASE Disarm(c)
  <2>1. QueuesOK' /\ RunOK' /\ LegsOK'
    BY <1>0, <1>6 DEF Disarm, QueuesOK, RunOK, RunShape, LegsOK, io, shown, hist
  <2>2. StationOK'
    BY <1>0, <1>6 DEF Disarm, StationOK, io, shown, LeastOf
  <2>3. FlagsOK'
    BY <1>0, <1>6, Zenon DEF Disarm, FlagsOK, shown
  <2>4. ReadersOK'
    BY <1>0, <1>6 DEF Disarm, ReadersOK, ReaderType, ReaderPCs, ReaderShape, RecordShape
  <2> QED
    BY <2>1, <2>2, <2>3, <2>4 DEF TypeInv
<1>7. CASE SendRequest(c)
  <2>1. StationOK' /\ FlagsOK' /\ RunOK' /\ LegsOK'
    BY <1>0, <1>7 DEF SendRequest, StationOK, FlagsOK, RunOK, RunShape, LegsOK, io, shown, hist
  <2>2. QueuesOK'
    <3>1. slot' = <<RequestOf(c)>> \/ slot' = slot
      BY <1>7 DEF SendRequest
    <3>2. <<RequestOf(c)>> \in Seq(Requests) /\ Len(<<RequestOf(c)>>) <= 1
      BY <1>0, <1>7, RequestOfOK DEF SendRequest
    <3>3. slot' \in Seq(Requests) /\ Len(slot') <= 1
      BY <1>0, <3>1, <3>2, Zenon DEF QueuesOK
    <3> QED
      BY <1>0, <1>7, <3>3 DEF SendRequest, QueuesOK
  <2>3. ReadersOK'
    <3>1. CASE reader' = [reader EXCEPT ![c] = IdleReader]
      BY <1>0, <3>1, IdleReaderOK, ReaderMoves
    <3>2. CASE reader' = [reader EXCEPT ![c].pc = "drain"]
      BY <1>0, <1>7, <3>2 DEF SendRequest, ReadersOK, ReaderType, ReaderPCs, ReaderShape, RecordShape
    <3> QED
      BY <1>7, <3>1, <3>2 DEF SendRequest
  <2> QED
    BY <2>1, <2>2, <2>3 DEF TypeInv
<1>8. CASE DrainRequest(c)
  <2>1. StationOK' /\ FlagsOK' /\ RunOK' /\ LegsOK'
    BY <1>0, <1>8 DEF DrainRequest, StationOK, FlagsOK, RunOK, RunShape, LegsOK, io, shown, hist
  <2>2. QueuesOK'
    BY <1>0, <1>8 DEF DrainRequest, QueuesOK
  <2>3. ReadersOK'
    BY <1>0, <1>8 DEF DrainRequest, ReadersOK, ReaderType, ReaderPCs, ReaderShape, RecordShape
  <2> QED
    BY <2>1, <2>2, <2>3 DEF TypeInv
<1>9. CASE ResendRequest(c)
  <2>1. StationOK' /\ FlagsOK' /\ RunOK' /\ LegsOK'
    BY <1>0, <1>9 DEF ResendRequest, StationOK, FlagsOK, RunOK, RunShape, LegsOK, io, shown, hist
  <2>2. QueuesOK'
    BY <1>0, <1>9, RequestOfOK DEF ResendRequest, QueuesOK
  <2>3. ReadersOK'
    BY <1>0, <1>9, IdleReaderOK, ReaderMoves DEF ResendRequest
  <2> QED
    BY <2>1, <2>2, <2>3 DEF TypeInv
<1> QED
  BY <1>1, <1>2, <1>3, <1>4, <1>5, <1>6, <1>7, <1>8, <1>9 DEF ReaderStep

\* Taking the head off a channel leaves a shorter one.
LEMMA TailOK ==
    ASSUME NEW S, NEW q \in Seq(S), q # <<>>
    PROVE  Tail(q) \in Seq(S) /\ Len(Tail(q)) <= Len(q) /\ Head(q) \in S
  OBVIOUS

LEMMA CountsOK == 0 \in 0..NModifiers /\ NModifiers \in 0..NModifiers
  BY BoundsAssumption

LEMMA IdleRunOK == IdleRun \in RunType /\ (run' = IdleRun => RunShape')
  BY BoundsAssumption DEF IdleRun, RunType, RunPCs, RunShape, Switching, Positions

\* A step of the Run goroutine.
LEMMA RunTypeInv ==
    ASSUME TypeInv,
           TakeJob \/ TakeRequest \/ SwitchStep \/ Stop
    PROVE  TypeInv'
<1>0. StationOK /\ FlagsOK /\ QueuesOK /\ ReadersOK /\ RunOK /\ LegsOK
  BY DEF TypeInv
<1>1. CASE TakeJob
  <2>1. StationOK' /\ FlagsOK' /\ ReadersOK' /\ LegsOK'
    BY <1>0, <1>1 DEF TakeJob, StationOK, FlagsOK, ReadersOK, ReaderShape, LegsOK, io, shown, hist
  <2>2. QueuesOK'
    <3>1. fwdQ' \in Seq(BOOLEAN) /\ Len(fwdQ') <= Len(fwdQ)
      BY <1>0, <1>1, TailOK DEF TakeJob, QueuesOK
    <3>2. Len(fwdQ') \in Nat /\ Len(fwdQ) \in Nat /\ QueueCap \in Nat
      BY <1>0, <3>1, BoundsAssumption DEF QueuesOK
    <3>3. Len(fwdQ') <= QueueCap
      BY <1>0, <3>1, <3>2 DEF QueuesOK
    <3> QED
      BY <1>0, <1>1, <3>1, <3>3 DEF TakeJob, QueuesOK
  <2>3. RunOK'
    <3>1. CASE current # Self /\ Head(fwdQ)
      <4>1. run' = [IdleRun EXCEPT !.pc = "ship", !.dest = current]
        BY <1>1, <3>1, Zenon DEF TakeJob
      <4> QED
        BY <1>0, <4>1, CountsOK DEF StationOK, IdleRun, Positions, RunOK, RunShape, RunType, RunPCs, Switching
    <3>2. CASE ~(current # Self /\ Head(fwdQ))
      BY <1>0, <1>1, <3>2, IdleRunOK DEF TakeJob, RunOK
    <3> QED
      BY <3>1, <3>2
  <2> QED
    BY <2>1, <2>2, <2>3 DEF TypeInv
<1>2. CASE Ship
  <2>1. StationOK' /\ FlagsOK' /\ QueuesOK' /\ ReadersOK' /\ LegsOK'
    BY <1>0, <1>2 DEF Ship, StationOK, FlagsOK, QueuesOK, ReadersOK, ReaderShape, LegsOK, io, shown, hist
  <2>2. RunOK'
    BY <1>2, IdleRunOK DEF Ship, RunOK
  <2> QED
    BY <2>1, <2>2 DEF TypeInv
<1>3. CASE TakeRequest
  <2>1. StationOK' /\ FlagsOK' /\ ReadersOK' /\ LegsOK'
    BY <1>0, <1>3 DEF TakeRequest, StationOK, FlagsOK, ReadersOK, ReaderShape, LegsOK, io, shown, hist
  <2>2. QueuesOK'
    BY <1>0, <1>3 DEF TakeRequest, QueuesOK
  <2>3. RunOK'
    <3>1. slot[1] \in Requests
      BY <1>0, <1>3 DEF TakeRequest, QueuesOK
    <3> QED
      BY <1>0, <1>3, <3>1, CountsOK DEF TakeRequest, IdleRun, Requests, Positions, RunOK, RunShape, RunType, RunPCs, Switching
  <2> QED
    BY <2>1, <2>2, <2>3 DEF TypeInv
<1>4. CASE Resolve
  <2>1. StationOK' /\ FlagsOK' /\ QueuesOK' /\ ReadersOK' /\ LegsOK'
    BY <1>0, <1>4 DEF Resolve, StationOK, FlagsOK, QueuesOK, ReadersOK, ReaderShape, LegsOK, io, shown, hist
  <2>2. RunOK'
    <3> DEFINE dest == IF run.dest = Self \/ run.dest \notin layout.occ
                       THEN layout.nb[Self][run.edge] ELSE run.dest
    <3>1. CASE dest = NoSlot \/ dest = Self
      BY <1>4, <3>1, IdleRunOK DEF Resolve, RunOK
    <3>2. CASE ~(dest = NoSlot \/ dest = Self)
      <4>0. /\ run.edge \in Edges /\ run.dest \in Machines
            /\ layout \in Layouts /\ Self \in Machines
        BY <1>0, <1>4, LayoutFacts DEF Resolve, StationOK, RunOK, RunShape, Self
      <4>1. dest \in Machines /\ run.edge \in Edges
        BY <3>2, <4>0, NeighborFacts
      <4>2. run' = [run EXCEPT !.pc = "release", !.dest = dest, !.n = NModifiers]
        BY <1>4, <3>2 DEF Resolve
      <4> QED
        BY <1>0, <4>1, <4>2, CountsOK DEF RunOK, RunShape, RunType, RunPCs, Switching
    <3> QED
      BY <3>1, <3>2
  <2> QED
    BY <2>1, <2>2 DEF TypeInv
<1>5. CASE ReleaseModifier
  <2>1. StationOK' /\ FlagsOK' /\ QueuesOK' /\ ReadersOK' /\ LegsOK'
    BY <1>0, <1>5 DEF ReleaseModifier, StationOK, FlagsOK, QueuesOK, ReadersOK, ReaderShape, LegsOK, io, shown, hist
  <2>2. RunOK'
    <3>1. run.n \in 0..NModifiers
      BY <1>0 DEF RunOK, RunType
    <3>2. CASE run.n > 1
      <4>1. run.n - 1 \in 0..NModifiers
        BY <3>1, <3>2, BoundsAssumption
      <4> QED
        BY <1>0, <1>5, <3>2, <4>1 DEF ReleaseModifier, RunOK, RunShape, RunType, RunPCs, Switching
    <3>3. CASE ~(run.n > 1)
      BY <1>0, <1>5, <3>3, CountsOK DEF ReleaseModifier, RunOK, RunShape, RunType, RunPCs, Switching
    <3> QED
      BY <3>2, <3>3
  <2> QED
    BY <2>1, <2>2 DEF TypeInv
<1>6. CASE HandOver
  <2>1. FlagsOK' /\ QueuesOK' /\ ReadersOK' /\ LegsOK'
    BY <1>0, <1>6 DEF HandOver, FlagsOK, QueuesOK, ReadersOK, ReaderShape, LegsOK, io, shown, hist
  <2>2. StationOK'
    BY <1>0, <1>6 DEF HandOver, StationOK, io, shown, RunOK, RunShape, Switching
  <2>3. RunOK'
    <3>1. CASE run' = IdleRun
      BY <3>1, IdleRunOK DEF RunOK
    <3>2. CASE run' = [run EXCEPT !.pc = "hide"]
      BY <1>0, <1>6, <3>2 DEF HandOver, RunOK, RunShape, RunType, RunPCs, Switching
    <3> QED
      BY <1>6, <3>1, <3>2 DEF HandOver
  <2> QED
    BY <2>1, <2>2, <2>3 DEF TypeInv
<1>7. CASE HideLocal
  <2>1. FlagsOK' /\ QueuesOK' /\ ReadersOK' /\ LegsOK'
    BY <1>0, <1>7 DEF HideLocal, FlagsOK, QueuesOK, ReadersOK, ReaderShape, LegsOK, io, shown, hist
  <2>2. StationOK'
    BY <1>0, <1>7, BoundsAssumption DEF HideLocal, StationOK, io, hist, LeastOf
  <2>3. RunOK'
    BY <1>0, <1>7 DEF HideLocal, RunOK, RunShape, RunType, RunPCs, Switching
  <2> QED
    BY <2>1, <2>2, <2>3 DEF TypeInv
<1>8. CASE GrabInput
  <2>1. StationOK' /\ QueuesOK' /\ ReadersOK' /\ LegsOK'
    BY <1>0, <1>8 DEF GrabInput, StationOK, QueuesOK, ReadersOK, ReaderShape, LegsOK, io, shown, hist
  <2>2. FlagsOK'
    BY <1>0, <1>8, Zenon DEF GrabInput, FlagsOK, shown
  <2>3. RunOK'
    BY <1>0, <1>8 DEF GrabInput, RunOK, RunShape, RunType, RunPCs, Switching
  <2> QED
    BY <2>1, <2>2, <2>3 DEF TypeInv
<1>9. CASE StoreDest
  <2>1. FlagsOK' /\ QueuesOK' /\ ReadersOK' /\ LegsOK'
    BY <1>0, <1>9 DEF StoreDest, FlagsOK, QueuesOK, ReadersOK, ReaderShape, LegsOK, io, shown, hist
  <2>2. StationOK'
    BY <1>0, <1>9 DEF StoreDest, StationOK, io, shown, hist, RunOK, RunShape, Switching
  <2>3. RunOK'
    BY <1>9, IdleRunOK DEF StoreDest, RunOK
  <2> QED
    BY <2>1, <2>2, <2>3 DEF TypeInv
<1>10. CASE Stop
  <2>1. StationOK' /\ FlagsOK' /\ QueuesOK' /\ ReadersOK' /\ LegsOK'
    BY <1>0, <1>10 DEF Stop, StationOK, FlagsOK, QueuesOK, ReadersOK, ReaderShape, LegsOK, io, shown, hist
  <2>2. RunOK'
    BY <1>10, BoundsAssumption DEF Stop, IdleRun, Positions, RunOK, RunShape, RunType, RunPCs, Switching
  <2> QED
    BY <2>1, <2>2 DEF TypeInv
<1>11. CASE StopCapture
  <2>1. QueuesOK' /\ ReadersOK' /\ LegsOK'
    BY <1>0, <1>11 DEF StopCapture, QueuesOK, ReadersOK, ReaderShape, LegsOK, io, shown, hist
  <2>2. StationOK'
    BY <1>0, <1>11, BoundsAssumption DEF StopCapture, StationOK, io, hist
  <2>3. FlagsOK'
    BY <1>0, <1>11, Zenon DEF StopCapture, FlagsOK, shown
  <2>4. RunOK'
    BY <1>0, <1>11 DEF StopCapture, RunOK, RunShape, RunType, RunPCs, Switching
  <2> QED
    BY <2>1, <2>2, <2>3, <2>4 DEF TypeInv
<1> QED
  BY <1>1, <1>2, <1>3, <1>4, <1>5, <1>6, <1>7, <1>8, <1>9, <1>10, <1>11 DEF SwitchStep

\* A step of a leg reader.
LEMMA LegTypeInv ==
    ASSUME TypeInv, NEW l \in Legs, NEW at \in Landings,
           ReceiveNextMachine(l, at) \/ LegStep(l)
    PROVE  TypeInv'
<1>0. StationOK /\ FlagsOK /\ QueuesOK /\ ReadersOK /\ RunOK /\ LegsOK
  BY DEF TypeInv
<1>1. CASE ReceiveNextMachine(l, at)
  <2>1. FlagsOK' /\ QueuesOK' /\ ReadersOK' /\ RunOK'
    BY <1>0, <1>1 DEF ReceiveNextMachine, FlagsOK, QueuesOK, ReadersOK, ReaderShape, RunOK, RunShape, io, shown, hist
  <2>2. StationOK'
    BY <1>0, <1>1, LayoutFacts DEF ReceiveNextMachine, StationOK, io, shown, Self
  <2>3. LegsOK'
    BY <1>0, <1>1 DEF ReceiveNextMachine, LegsOK, LegPCs, Landings, Positions
  <2> QED
    BY <2>1, <2>2, <2>3 DEF TypeInv
<1>2. CASE UngrabInput(l)
  <2>1. StationOK' /\ QueuesOK' /\ ReadersOK' /\ RunOK'
    BY <1>0, <1>2 DEF UngrabInput, StationOK, QueuesOK, ReadersOK, ReaderShape, RunOK, RunShape, io, shown, hist
  <2>2. FlagsOK'
    BY <1>0, <1>2, Zenon DEF UngrabInput, FlagsOK, shown
  <2>3. LegsOK'
    BY <1>0, <1>2 DEF UngrabInput, LegsOK, LegPCs, Landings, Positions
  <2> QED
    BY <2>1, <2>2, <2>3 DEF TypeInv
<1>3. CASE ShowCursor(l)
  <2>1. FlagsOK' /\ QueuesOK' /\ ReadersOK' /\ RunOK'
    BY <1>0, <1>3 DEF ShowCursor, FlagsOK, QueuesOK, ReadersOK, ReaderShape, RunOK, RunShape, io, shown, hist
  <2>2. StationOK'
    BY <1>0, <1>3, BoundsAssumption DEF ShowCursor, StationOK, io, hist
  <2>3. LegsOK'
    BY <1>0, <1>3 DEF ShowCursor, LegsOK, LegPCs, Landings, Positions
  <2> QED
    BY <2>1, <2>2, <2>3 DEF TypeInv
<1>4. CASE Land(l)
  <2>1. QueuesOK' /\ ReadersOK' /\ RunOK'
    BY <1>0, <1>4 DEF Land, QueuesOK, ReadersOK, ReaderShape, RunOK, RunShape, io, shown, hist
  <2>2. StationOK'
    BY <1>0, <1>4 DEF Land, StationOK, io, shown, hist, LegsOK, Landings
  <2>3. FlagsOK'
    BY <1>0, <1>4, Zenon DEF Land, FlagsOK, shown
  <2>4. LegsOK'
    BY <1>0, <1>4 DEF Land, LegsOK, LegPCs, Landings, Positions
  <2> QED
    BY <2>1, <2>2, <2>3, <2>4 DEF TypeInv
<1> QED
  BY <1>1, <1>2, <1>3, <1>4 DEF LegStep

\* A step of the rest of the station.
LEMMA StationTypeInv ==
    ASSUME TypeInv, NEW p \in Machines,
           PeerHidesCursor \/ Renumber \/ PeerDown(p) \/ PeerUp(p)
    PROVE  TypeInv'
<1>0. StationOK /\ FlagsOK /\ QueuesOK /\ ReadersOK /\ RunOK /\ LegsOK
  BY DEF TypeInv
<1>1. CASE PeerHidesCursor
  <2>1. FlagsOK' /\ QueuesOK' /\ ReadersOK' /\ RunOK' /\ LegsOK'
    BY <1>0, <1>1 DEF PeerHidesCursor, FlagsOK, QueuesOK, ReadersOK, ReaderShape, RunOK, RunShape, LegsOK, io, shown, hist
  <2>2. StationOK'
    BY <1>0, <1>1, BoundsAssumption DEF PeerHidesCursor, StationOK, io, hist, LeastOf
  <2> QED
    BY <2>1, <2>2 DEF TypeInv
<1>2. CASE Renumber
  <2>1. FlagsOK' /\ QueuesOK' /\ ReadersOK' /\ RunOK' /\ LegsOK'
    BY <1>0, <1>2 DEF Renumber, FlagsOK, QueuesOK, ReadersOK, ReaderShape, RunOK, RunShape, LegsOK, io, shown, hist
  <2>2. StationOK'
    BY <1>0, <1>2 DEF Renumber, StationOK, shown, hist
  <2> QED
    BY <2>1, <2>2 DEF TypeInv
<1>3. CASE PeerDown(p)
  <2>1. FlagsOK' /\ QueuesOK' /\ ReadersOK' /\ RunOK' /\ LegsOK'
    BY <1>0, <1>3 DEF PeerDown, FlagsOK, QueuesOK, ReadersOK, ReaderShape, RunOK, RunShape, LegsOK, io, shown, hist
  <2>2. StationOK'
    BY <1>0, <1>3 DEF PeerDown, StationOK, shown, hist
  <2> QED
    BY <2>1, <2>2 DEF TypeInv
<1>4. CASE PeerUp(p)
  <2>1. FlagsOK' /\ QueuesOK' /\ ReadersOK' /\ RunOK' /\ LegsOK'
    BY <1>0, <1>4 DEF PeerUp, FlagsOK, QueuesOK, ReadersOK, ReaderShape, RunOK, RunShape, LegsOK, io, shown, hist
  <2>2. StationOK'
    BY <1>0, <1>4, LayoutFacts DEF PeerUp, StationOK, shown, hist
  <2> QED
    BY <2>1, <2>2 DEF TypeInv
<1> QED
  BY <1>1, <1>2, <1>3, <1>4

LEMMA StutterTypeInv == TypeInv /\ UNCHANGED vars => TypeInv'
<1> SUFFICES ASSUME TypeInv, UNCHANGED vars PROVE TypeInv'
  OBVIOUS
<1>1. StationOK /\ FlagsOK /\ QueuesOK /\ ReadersOK /\ RunOK /\ LegsOK
  BY DEF TypeInv
<1>2. StationOK' /\ QueuesOK' /\ ReadersOK' /\ RunOK' /\ LegsOK'
  BY <1>1 DEF vars, StationOK, QueuesOK, ReadersOK, ReaderShape, RunOK, RunShape, LegsOK
<1>3. FlagsOK'
  BY <1>1, Zenon DEF vars, FlagsOK
<1> QED
  BY <1>2, <1>3 DEF TypeInv

LEMMA NextTypeInv == TypeInv /\ [Next]_vars => TypeInv'
<1> SUFFICES ASSUME TypeInv, [Next]_vars PROVE TypeInv'
  OBVIOUS
<1>1. ASSUME NEW c \in Readers, NEW to \in Positions, NEW real \in Positions,
             CaptureMotion(c, to, real) \/ CaptureKey(c) \/ ReaderStep(c)
      PROVE  TypeInv'
  BY <1>1, ReaderTypeInv
<1>2. CASE TakeJob \/ TakeRequest \/ SwitchStep \/ Stop
  BY <1>2, RunTypeInv
<1>3. ASSUME NEW l \in Legs, NEW at \in Landings, ReceiveNextMachine(l, at) \/ LegStep(l)
      PROVE  TypeInv'
  BY <1>3, LegTypeInv
<1>4. ASSUME NEW p \in Machines, PeerHidesCursor \/ Renumber \/ PeerDown(p) \/ PeerUp(p)
      PROVE  TypeInv'
  BY <1>4, StationTypeInv
<1>5. CASE UNCHANGED vars
  BY <1>5, StutterTypeInv
<1>6. "rim" \in Positions /\ "rim" \in Landings /\ (\E p \in Machines : TRUE)
  BY LayoutsAssumption DEF Positions, Landings, LayoutType
<1> QED
  BY <1>1, <1>2, <1>3, <1>4, <1>5, <1>6 DEF Next

\* The type invariant, with the shape of every goroutine's record.
THEOREM TypeInvariance == Spec => []TypeInv
<1>1. Init => TypeInv
  BY InitTypeInv
<1>2. TypeInv /\ [Next]_vars => TypeInv'
  BY NextTypeInv
<1> QED
  BY <1>1, <1>2, PTL DEF Spec

\* Every variable keeps its type; the channels stay within their capacities.
THEOREM TypeCorrect == Spec => []TypeOK
<1>1. TypeInv => TypeOK
  BY Zenon DEF TypeInv, TypeOK, StationOK, FlagsOK, QueuesOK, ReadersOK, RunOK, LegsOK
<1> QED
  BY <1>1, TypeInvariance, PTL

-----------------------------------------------------------------------------
(***************************************************************************)
(* Focus.  Our slot must not change: SelfFixed is the condition the code   *)
(* needs, because h.current keeps a slot number while the layout lives on. *)
(***************************************************************************)
SelfFixed == \A a, b \in Layouts : a.self = b.self

LEMMA SelfStays ==
    ASSUME SelfFixed, TypeInv, TypeInv'
    PROVE  Self' = Self
  BY DEF SelfFixed, TypeInv, StationOK, Self

FocusInv == /\ current # Self => current \in told
            /\ run.pc \in {"hide", "grab", "store"} => run.dest \in told
            /\ run.pc = "ship" => run.dest \in told \ {Self}

LEMMA FocusStep ==
    ASSUME SelfFixed, TypeInv, TypeInv', FocusInv, [Next]_vars
    PROVE  FocusInv'
<1>1. Self' = Self
  BY SelfStays
<1>2. CASE UNCHANGED <<current, run, told>>
  BY <1>1, <1>2 DEF FocusInv
<1>3. CASE TakeJob
  BY <1>1, <1>3 DEF TakeJob, FocusInv, IdleRun, hist
<1>4. CASE TakeRequest
  BY <1>1, <1>4 DEF TakeRequest, FocusInv, IdleRun, hist
<1>5. CASE Ship \/ Stop
  BY <1>1, <1>5 DEF Ship, Stop, FocusInv, IdleRun, hist
<1>6. CASE Resolve
  <2>1. run'.pc \in {"idle", "release"} /\ UNCHANGED <<current, told>>
    BY <1>6 DEF Resolve, IdleRun, hist, TypeInv, RunOK, RunType
  <2> QED
    BY <1>1, <2>1 DEF FocusInv
<1>7. CASE ReleaseModifier
  <2>1. run'.pc \in {"release", "next"} /\ UNCHANGED <<current, told>>
    BY <1>7 DEF ReleaseModifier, hist, TypeInv, RunOK, RunType
  <2> QED
    BY <1>1, <2>1 DEF FocusInv
<1>8. CASE HandOver
  BY <1>1, <1>8 DEF HandOver, FocusInv, IdleRun, TypeInv, RunOK, RunType
<1>9. CASE HideLocal \/ GrabInput
  BY <1>1, <1>9 DEF HideLocal, GrabInput, FocusInv, hist, TypeInv, RunOK, RunType
<1>10. CASE StoreDest
  BY <1>1, <1>10 DEF StoreDest, FocusInv, IdleRun, hist
<1>11. CASE StopCapture
  BY <1>1, <1>11 DEF StopCapture, FocusInv, hist, TypeInv, RunOK, RunType
<1>12. ASSUME NEW l \in Legs, NEW at \in Landings, ReceiveNextMachine(l, at) PROVE FocusInv'
  BY <1>1, <1>12 DEF ReceiveNextMachine, FocusInv
<1>13. ASSUME NEW c \in Readers, NEW to \in Positions, NEW real \in Positions,
              CaptureMotion(c, to, real) \/ CaptureKey(c) \/ ReaderStep(c)
       PROVE  UNCHANGED <<current, run, told>>
  BY <1>13 DEF CaptureMotion, CaptureKey, ReaderStep, Enqueue, CheckArmed, LookUp, Disarm,
               SendRequest, DrainRequest, ResendRequest, hist
<1>14. ASSUME NEW l \in Legs, LegStep(l) PROVE UNCHANGED <<current, run, told>>
  BY <1>14 DEF LegStep, UngrabInput, ShowCursor, Land, hist
<1>15. ASSUME NEW p \in Machines, PeerHidesCursor \/ Renumber \/ PeerDown(p) \/ PeerUp(p)
       PROVE  UNCHANGED <<current, run, told>>
  BY <1>15 DEF PeerHidesCursor, Renumber, PeerDown, PeerUp, hist
<1>16. "rim" \in Positions /\ (\E p \in Machines : TRUE)
  BY LayoutsAssumption DEF Positions, LayoutType
<1> QED
  BY <1>2, <1>3, <1>4, <1>5, <1>6, <1>7, <1>8, <1>9, <1>10, <1>11, <1>12, <1>13, <1>14, <1>15, <1>16
  DEF Next, SwitchStep, vars

LEMMA FocusInvariance ==
    ASSUME SelfFixed
    PROVE  Spec => []FocusInv
<1>1. Init => FocusInv
  BY DEF Init, FocusInv, IdleRun
<1>2. TypeInv /\ TypeInv' /\ FocusInv /\ [Next]_vars => FocusInv'
  BY FocusStep
<1> QED
  BY <1>1, <1>2, TypeInvariance, PTL DEF Spec

\* The focus only ever rests here or on a machine that was sent a NextMachine: for
\* any number of capture goroutines and legs, with peers coming and going and
\* layouts changing, as long as our own slot stays the same.
THEOREM FocusIsHandedOver ==
    ASSUME SelfFixed
    PROVE  Spec => []FocusWasHandedOver
<1>1. FocusInv => FocusWasHandedOver
  BY DEF FocusInv, FocusWasHandedOver
<1> QED
  BY <1>1, FocusInvariance, PTL

\* Under the same condition input is only forwarded to such a machine, and never
\* to ourselves.
THEOREM InputFollowsHandOver ==
    ASSUME SelfFixed
    PROVE  Spec => []ForwardAfterHandOver
<1>1. FocusInv => ForwardAfterHandOver
  BY DEF FocusInv, ForwardAfterHandOver
<1> QED
  BY <1>1, FocusInvariance, PTL

-----------------------------------------------------------------------------
(***************************************************************************)
(* Switching never starts towards a vacant slot, whatever the layouts do.  *)
(***************************************************************************)

\* The destination doSwitch settles on is occupied in the layout it consulted
\* and is not ours, for every sequence of layouts.
THEOREM SwitchesToOccupied == Spec => NeverToVacantSlot
<1>1. ASSUME TypeInv, [Next]_vars, run.pc = "resolve", run'.pc = "release"
      PROVE  run'.dest \in layout.occ \ {Self}
  <2>1. Resolve
    <3>1. run' # run
      BY <1>1
    <3>2. ASSUME NEW c \in Readers, NEW to \in Positions, NEW real \in Positions,
                 CaptureMotion(c, to, real) \/ CaptureKey(c) \/ ReaderStep(c)
          PROVE  run' = run
      BY <3>2 DEF CaptureMotion, CaptureKey, ReaderStep, Enqueue, CheckArmed, LookUp, Disarm,
                  SendRequest, DrainRequest, ResendRequest
    <3>3. ASSUME NEW l \in Legs, NEW at \in Landings, ReceiveNextMachine(l, at) \/ LegStep(l)
          PROVE  run' = run
      BY <3>3 DEF ReceiveNextMachine, LegStep, UngrabInput, ShowCursor, Land
    <3>4. ASSUME NEW p \in Machines, PeerHidesCursor \/ Renumber \/ PeerDown(p) \/ PeerUp(p)
          PROVE  run' = run
      BY <3>4 DEF PeerHidesCursor, Renumber, PeerDown, PeerUp
    <3>5. ~TakeJob /\ ~TakeRequest /\ ~Stop
      BY <1>1 DEF TakeJob, TakeRequest, Stop
    <3>6. SwitchStep => Resolve
      BY <1>1 DEF SwitchStep, Ship, ReleaseModifier, HandOver, HideLocal, GrabInput, StoreDest,
                  StopCapture
    <3>7. "rim" \in Positions /\ "rim" \in Landings /\ (\E p \in Machines : TRUE)
      BY LayoutsAssumption DEF Positions, Landings, LayoutType
    <3> QED
      BY <1>1, <3>1, <3>2, <3>3, <3>4, <3>5, <3>6, <3>7 DEF Next, vars
  <2> DEFINE dest == IF run.dest = Self \/ run.dest \notin layout.occ
                     THEN layout.nb[Self][run.edge] ELSE run.dest
  <2>2. ~(dest = NoSlot \/ dest = Self)
    BY <1>1, <2>1 DEF Resolve, IdleRun
  <2>3. run'.dest = dest
    BY <1>1, <2>1, <2>2 DEF Resolve, TypeInv, RunOK, RunType
  <2>4. run.edge \in Edges /\ Self \in Machines /\ layout \in Layouts
    BY <1>1, LayoutFacts DEF TypeInv, RunOK, RunShape, StationOK, Self
  <2> QED
    BY <2>2, <2>3, <2>4, NeighborFacts
<1>2. TypeInv /\ [Next]_vars =>
        [run.pc = "resolve" /\ run'.pc = "release" => run'.dest \in layout.occ \ {Self}]_vars
  BY <1>1
<1> QED
  BY <1>2, TypeInvariance, PTL DEF Spec, NeverToVacantSlot

-----------------------------------------------------------------------------
(***************************************************************************)
(* Hysteresis and coalescing, for a backend whose motion comes from one    *)
(* goroutine (the x11 poll loop; several evdev readers share h.armed and   *)
(* the switcher without a lock around check and use).                      *)
(***************************************************************************)
OneReader == \E c : Readers = {c}

\* Once an edge has fired, nobody is past the check of h.armed any more.
FireInv == /\ fires \in 0..1
           /\ fires = 1 => /\ ~armed
                           /\ \A c \in Readers : reader[c].pc \notin {"lookup", "disarm"}

\* Between taking the old request out and putting the new one in, the channel
\* stays empty.
SlotInv == \A c \in Readers : reader[c].pc = "resend" => slot = <<>>

LEMMA SingleReaderStep ==
    ASSUME OneReader, TypeInv, FireInv, SlotInv, [Next]_vars
    PROVE  FireInv' /\ SlotInv'
<1>0. PICK c : Readers = {c}
  BY DEF OneReader
<1> USE DEF FireInv, SlotInv
<1>1. /\ reader \in [Readers -> ReaderType] /\ armed \in BOOLEAN
  BY Zenon DEF TypeInv, FlagsOK, ReadersOK
<1>2. CASE UNCHANGED <<armed, fires, reader>> /\ (slot' = slot \/ slot' = <<>>)
  BY <1>2
<1>3. ASSUME NEW to \in Positions, NEW real \in Positions, CaptureMotion(c, to, real)
      PROVE  FireInv' /\ SlotInv'
  <2>1. /\ armed' = (armed \/ to = "inside") /\ fires' = IF to = "inside" THEN 0 ELSE fires
        /\ reader'[c].pc \in {"enqueue", "armed"}
    BY <1>0, <1>1, <1>3 DEF CaptureMotion, IdleReader
  <2>2. FireInv'
    <3>1. fires' = 1 => fires = 1 /\ to # "inside" /\ ~armed'
      BY <1>1, <2>1
    <3> QED
      BY <1>0, <2>1, <3>1
  <2>3. SlotInv'
    BY <1>0, <2>1
  <2> QED
    BY <2>2, <2>3
<1>4. CASE CaptureKey(c) \/ Enqueue(c)
  <2>1. UNCHANGED <<armed, fires>> /\ reader'[c].pc \in {"enqueue", "idle"}
    <3>1. CASE CaptureKey(c)
      BY <1>0, <1>1, <3>1 DEF CaptureKey, IdleReader, hist
    <3>2. CASE Enqueue(c)
      BY <1>0, <1>1, <3>2 DEF Enqueue, IdleReader, hist
    <3> QED
      BY <1>4, <3>1, <3>2
  <2> QED
    BY <1>0, <2>1
<1>5. CASE CheckArmed(c)
  <2>1. /\ UNCHANGED <<armed, fires>> /\ reader'[c].pc \in {"lookup", "idle"}
        /\ reader'[c].pc = "lookup" => armed
    BY <1>0, <1>1, <1>5 DEF CheckArmed, IdleReader, ReaderType, hist
  <2> QED
    BY <1>0, <2>1
<1>6. CASE LookUp(c)
  <2>1. /\ UNCHANGED <<armed, fires>> /\ reader[c].pc = "lookup"
        /\ reader'[c].pc \in {"disarm", "idle"}
    BY <1>0, <1>1, <1>6 DEF LookUp, IdleReader, ReaderType, hist
  <2> QED
    BY <1>0, <2>1
<1>7. CASE Disarm(c)
  <2>1. /\ reader[c].pc = "disarm" /\ reader'[c].pc = "send"
        /\ armed' = FALSE /\ fires' = LeastOf(fires + 1, 2)
    BY <1>0, <1>1, <1>7 DEF Disarm, ReaderType
  <2> QED
    BY <1>0, <2>1 DEF LeastOf
<1>8. CASE SendRequest(c) \/ DrainRequest(c) \/ ResendRequest(c)
  <2>1. /\ UNCHANGED <<armed, fires>> /\ reader'[c].pc \in {"idle", "drain", "resend"}
        /\ reader'[c].pc = "resend" => slot' = <<>>
    BY <1>0, <1>1, <1>8 DEF SendRequest, DrainRequest, ResendRequest, IdleReader, ReaderType, hist
  <2> QED
    BY <1>0, <2>1
<1>9. CASE TakeJob \/ TakeRequest \/ SwitchStep \/ Stop
  BY <1>2, <1>9 DEF TakeJob, TakeRequest, SwitchStep, Stop, Ship, Resolve, ReleaseModifier, HandOver,
                    HideLocal, GrabInput, StoreDest, StopCapture, hist
<1>10. ASSUME NEW l \in Legs, NEW at \in Landings, ReceiveNextMachine(l, at) \/ LegStep(l)
       PROVE  FireInv' /\ SlotInv'
  BY <1>2, <1>10 DEF ReceiveNextMachine, LegStep, UngrabInput, ShowCursor, Land, hist
<1>11. ASSUME NEW p \in Machines, PeerHidesCursor \/ Renumber \/ PeerDown(p) \/ PeerUp(p)
       PROVE  FireInv' /\ SlotInv'
  BY <1>2, <1>11 DEF PeerHidesCursor, Renumber, PeerDown, PeerUp, hist
<1>12. "rim" \in Landings /\ (\E p \in Machines : TRUE)
  BY LayoutsAssumption DEF Positions, Landings, LayoutType
<1> QED
  BY <1>0, <1>2, <1>3, <1>4, <1>5, <1>6, <1>7, <1>8, <1>9, <1>10, <1>11, <1>12
  DEF Next, ReaderStep, vars

LEMMA SingleReaderInvariance ==
    ASSUME OneReader
    PROVE  Spec => [](FireInv /\ SlotInv)
<1>1. Init => FireInv /\ SlotInv
  BY DEF Init, FireInv, SlotInv, IdleReader
<1>2. TypeInv /\ FireInv /\ SlotInv /\ [Next]_vars => FireInv' /\ SlotInv'
  BY SingleReaderStep
<1> QED
  BY <1>1, <1>2, TypeInvariance, PTL DEF Spec

\* Between two moments with the cursor inside the re-arm inset at most one edge hit
\* becomes a request, for any edges, layouts and legs (host.go:34-38, 160-167).
THEOREM EdgeFiresOnce ==
    ASSUME OneReader
    PROVE  Spec => []OneFirePerDive
<1>1. FireInv => OneFirePerDive
  BY DEF FireInv, OneFirePerDive
<1> QED
  BY <1>1, SingleReaderInvariance, PTL

\* RequestSwitch leaves its own request in the channel, whatever the Run goroutine
\* takes between its three channel operations (input.go:191-206).
THEOREM RequestSupersedes ==
    ASSUME OneReader
    PROVE  Spec => FreshRequestWins
<1>1. ASSUME TypeInv, SlotInv, [Next]_vars, NEW c \in Readers,
             reader[c].pc \in {"send", "resend"}, reader'[c].pc = "idle"
      PROVE  slot' = <<RequestOf(c)>>
  <2>0. Readers = {c} /\ reader \in [Readers -> ReaderType]
    <3>1. PICK d : Readers = {d}
      BY DEF OneReader
    <3> QED
      BY <1>1, <3>1 DEF TypeInv, ReadersOK
  <2>1. reader' # reader
    BY <1>1
  <2>2. SendRequest(c) \/ ResendRequest(c)
    <3>1. CASE TakeJob \/ TakeRequest \/ SwitchStep \/ Stop
      BY <2>1, <3>1 DEF TakeJob, TakeRequest, SwitchStep, Stop, Ship, Resolve, ReleaseModifier,
                        HandOver, HideLocal, GrabInput, StoreDest, StopCapture
    <3>2. ASSUME NEW l \in Legs, NEW at \in Landings, ReceiveNextMachine(l, at) \/ LegStep(l)
          PROVE  FALSE
      BY <2>1, <3>2 DEF ReceiveNextMachine, LegStep, UngrabInput, ShowCursor, Land
    <3>3. ASSUME NEW p \in Machines, PeerHidesCursor \/ Renumber \/ PeerDown(p) \/ PeerUp(p)
          PROVE  FALSE
      BY <2>1, <3>3 DEF PeerHidesCursor, Renumber, PeerDown, PeerUp
    <3>4. ASSUME NEW to \in Positions, NEW real \in Positions, CaptureMotion(c, to, real)
          PROVE  FALSE
      BY <1>1, <3>4 DEF CaptureMotion
    <3>5. ~CaptureKey(c) /\ ~Enqueue(c) /\ ~CheckArmed(c) /\ ~LookUp(c) /\ ~Disarm(c) /\ ~DrainRequest(c)
      BY <1>1 DEF CaptureKey, Enqueue, CheckArmed, LookUp, Disarm, DrainRequest
    <3>6. "rim" \in Landings /\ (\E p \in Machines : TRUE)
      BY LayoutsAssumption DEF Positions, Landings, LayoutType
    <3> QED
      BY <1>1, <2>0, <2>1, <3>1, <3>2, <3>3, <3>4, <3>5, <3>6 DEF Next, ReaderStep, vars
  <2>3. CASE SendRequest(c)
    BY <1>1, <2>0, <2>3 DEF SendRequest, ReaderType
  <2>4. CASE ResendRequest(c)
    BY <1>1, <2>4 DEF ResendRequest, SlotInv
  <2> QED
    BY <2>2, <2>3, <2>4
<1>2. TypeInv /\ SlotInv /\ [Next]_vars =>
        [\A c \in Readers : reader[c].pc \in {"send", "resend"} /\ reader'[c].pc = "idle"
            => slot' = <<RequestOf(c)>>]_vars
  BY <1>1
<1> QED
  BY <1>2, TypeInvariance, SingleReaderInvariance, PTL DEF Spec, FreshRequestWins

-----------------------------------------------------------------------------
(***************************************************************************)
(* The pieces of focus state, when all cursor work is on one goroutine as  *)
(* host.go:5-7 says: at each place of doSwitch and OnNextMachine, which of *)
(* them are already those of the new focus.                                *)
(***************************************************************************)
Agree == /\ current # Self <=> lastWord = "out"
         /\ grabbed <=> current # Self
         /\ Backend = "x11" /\ current # Self => hidden > 0

Leaving == /\ lastWord = "out"
           /\ run.pc = "hide" => /\ grabbed <=> current # Self
                                 /\ Backend = "x11" /\ current # Self => hidden > 0
           /\ run.pc \in {"grab", "store"} => (Backend = "x11" => hidden > 0)
           /\ run.pc = "store" => grabbed

Returning == /\ current = Self /\ lastWord = "back"
             /\ (\E l \in Legs : leg[l].pc \in {"show", "land"}) => ~grabbed

CoherentInv ==
    /\ \A k, l \in Legs : leg[k].pc # "idle" /\ leg[l].pc # "idle" => k = l
    /\ run.pc \in {"resolve"} \cup Switching => LegsIdle
    /\ run.pc \in Switching => run.dest # Self
    /\ run.pc \in {"hide", "grab", "store"} => Leaving
    /\ ~LegsIdle => Returning
    /\ run.pc \in {"idle", "ship", "resolve", "release", "next"} /\ LegsIdle => Agree

LEMMA CoherentRunStep ==
    ASSUME SelfFixed, OneGoroutine, TypeInv, TypeInv', CoherentInv,
           TakeJob \/ TakeRequest \/ SwitchStep \/ Stop
    PROVE  CoherentInv'
<1>1. /\ run \in RunType /\ Self' = Self /\ hidden \in 0..MaxHidden /\ grabbed \in BOOLEAN
  BY SelfStays, Zenon DEF TypeInv, RunOK, StationOK, FlagsOK
<1>2. leg' = leg
  BY DEF TakeJob, TakeRequest, SwitchStep, Stop, Ship, Resolve, ReleaseModifier, HandOver,
         HideLocal, GrabInput, StoreDest, StopCapture
<1> USE DEF CoherentInv, Agree, Leaving, Returning, LegsIdle, Switching
<1>3. CASE TakeJob \/ Ship
  <2>1. /\ run.pc \in {"idle", "ship"} /\ run'.pc \in {"idle", "ship"}
        /\ UNCHANGED <<current, lastWord, grabbed, hidden>>
    <3>1. CASE TakeJob
      BY <3>1 DEF TakeJob, IdleRun, shown, hist
    <3>2. CASE Ship
      BY <3>2 DEF Ship, IdleRun, shown, hist
    <3> QED
      BY <1>3, <3>1, <3>2
  <2> QED
    BY <1>1, <1>2, <2>1
<1>4. CASE TakeRequest
  <2>1. /\ run.pc = "idle" /\ run'.pc = "resolve" /\ LegsIdle
        /\ UNCHANGED <<current, lastWord, grabbed, hidden>>
    BY <1>4 DEF TakeRequest, IdleRun, shown, hist
  <2> QED
    BY <1>1, <1>2, <2>1
<1>5. CASE Resolve
  <2>1. /\ run.pc = "resolve" /\ run'.pc \in {"idle", "release"}
        /\ run'.pc = "release" => run'.dest # Self
        /\ UNCHANGED <<current, lastWord, grabbed, hidden>>
    BY <1>1, <1>5 DEF Resolve, IdleRun, RunType, shown, hist
  <2> QED
    BY <1>1, <1>2, <2>1
<1>6. CASE ReleaseModifier
  <2>1. /\ run.pc = "release" /\ run'.pc \in {"release", "next"} /\ run'.dest = run.dest
        /\ UNCHANGED <<current, lastWord, grabbed, hidden>>
    BY <1>1, <1>6 DEF ReleaseModifier, RunType, shown, hist
  <2> QED
    BY <1>1, <1>2, <2>1
<1>7. CASE HandOver
  <2>1. /\ run.pc = "next" /\ UNCHANGED <<current, grabbed, hidden>>
        /\ \/ run'.pc = "hide" /\ run'.dest = run.dest /\ lastWord' = "out"
           \/ run'.pc = "idle" /\ lastWord' = lastWord
    BY <1>1, <1>7 DEF HandOver, IdleRun, RunType, shown
  <2> QED
    BY <1>1, <1>2, <2>1
<1>8. CASE HideLocal
  <2>1. /\ run.pc = "hide" /\ run'.pc = "grab" /\ run'.dest = run.dest
        /\ UNCHANGED <<current, lastWord, grabbed>>
        /\ Backend = "x11" => hidden' > 0
    BY <1>1, <1>8, BoundsAssumption DEF HideLocal, RunType, LeastOf, hist
  <2> QED
    BY <1>1, <1>2, <2>1
<1>9. CASE GrabInput
  <2>1. /\ run.pc = "grab" /\ run'.pc = "store" /\ run'.dest = run.dest /\ grabbed' = TRUE
        /\ UNCHANGED <<current, lastWord, hidden>>
    BY <1>1, <1>9 DEF GrabInput, RunType, hist
  <2> QED
    BY <1>1, <1>2, <2>1
<1>10. CASE StoreDest
  <2>1. /\ run.pc = "store" /\ run'.pc = "idle" /\ current' = run.dest
        /\ UNCHANGED <<lastWord, grabbed, hidden>>
    BY <1>10 DEF StoreDest, IdleRun, shown, hist
  <2>2. current' # Self' /\ LegsIdle /\ lastWord' = "out" /\ grabbed'
        /\ (Backend = "x11" => hidden' > 0)
    BY <1>1, <2>1
  <2> QED
    BY <1>1, <1>2, <2>1, <2>2
<1>11. CASE Stop \/ StopCapture
  <2>1. /\ run.pc \in {"idle", "stopping"} /\ run'.pc \in {"stopping", "stopped"}
        /\ UNCHANGED <<current, lastWord>> /\ (grabbed' => grabbed)
    BY <1>1, <1>11 DEF Stop, StopCapture, IdleRun, RunType, shown, hist
  <2> QED
    BY <1>1, <1>2, <2>1
<1> QED
  BY <1>3, <1>4, <1>5, <1>6, <1>7, <1>8, <1>9, <1>10, <1>11 DEF SwitchStep

LEMMA CoherentLegStep ==
    ASSUME SelfFixed, OneGoroutine, TypeInv, TypeInv', CoherentInv,
           NEW l \in Legs, NEW at \in Landings, ReceiveNextMachine(l, at) \/ LegStep(l)
    PROVE  CoherentInv'
<1>1. /\ leg \in [Legs -> [pc : LegPCs, at : Landings]]
      /\ Self' = Self /\ grabbed \in BOOLEAN
  BY SelfStays, Zenon DEF TypeInv, LegsOK, FlagsOK
<1>2. run' = run
  BY DEF ReceiveNextMachine, LegStep, UngrabInput, ShowCursor, Land
<1> USE DEF CoherentInv, Agree, Leaving, Returning, LegsIdle, Switching
<1>3. CASE ReceiveNextMachine(l, at)
  <2>1. /\ run.pc = "idle" /\ LegsIdle /\ current' = Self /\ lastWord' = "back"
        /\ UNCHANGED <<grabbed, hidden>>
        /\ leg'[l].pc = "ungrab" /\ \A k \in Legs \ {l} : leg'[k] = leg[k]
    BY <1>1, <1>3 DEF ReceiveNextMachine, shown
  <2> QED
    BY <1>1, <1>2, <2>1
<1>4. ASSUME leg[l].pc # "idle" PROVE Returning /\ run.pc \notin {"resolve"} \cup Switching
                                     /\ \A k \in Legs \ {l} : leg[k].pc = "idle"
  BY <1>4
<1>5. CASE UngrabInput(l)
  <2>1. /\ leg[l].pc = "ungrab" /\ leg'[l].pc = "show" /\ grabbed' = FALSE
        /\ UNCHANGED <<current, lastWord, hidden>>
        /\ \A k \in Legs \ {l} : leg'[k] = leg[k]
    BY <1>1, <1>5 DEF UngrabInput, hist
  <2> QED
    BY <1>1, <1>2, <1>4, <2>1
<1>6. CASE ShowCursor(l)
  <2>1. /\ leg[l].pc = "show" /\ leg'[l].pc = "land" /\ UNCHANGED <<current, lastWord, grabbed>>
        /\ \A k \in Legs \ {l} : leg'[k] = leg[k]
    BY <1>1, <1>6 DEF ShowCursor, hist
  <2> QED
    BY <1>1, <1>2, <1>4, <2>1
<1>7. CASE Land(l)
  <2>1. /\ leg[l].pc = "land" /\ leg'[l].pc = "idle"
        /\ UNCHANGED <<current, lastWord, grabbed, hidden>>
        /\ \A k \in Legs \ {l} : leg'[k] = leg[k]
    BY <1>1, <1>7 DEF Land, shown, hist
  <2>2. current = Self /\ lastWord = "back" /\ ~grabbed
    BY <1>4, <2>1
  <2> QED
    BY <1>1, <1>2, <1>4, <2>1, <2>2
<1> QED
  BY <1>3, <1>5, <1>6, <1>7 DEF LegStep

LEMMA CoherentStep ==
    ASSUME SelfFixed, OneGoroutine, TypeInv, TypeInv', CoherentInv, [Next]_vars
    PROVE  CoherentInv'
<1>1. Self' = Self /\ hidden \in 0..MaxHidden
  BY SelfStays DEF TypeInv, StationOK
<1>2. CASE UNCHANGED <<current, lastWord, grabbed, run, leg>> /\ (hidden > 0 => hidden' > 0)
  BY <1>1, <1>2 DEF CoherentInv, Agree, Leaving, Returning, LegsIdle, Switching
<1>3. CASE TakeJob \/ TakeRequest \/ SwitchStep \/ Stop
  BY <1>3, CoherentRunStep
<1>4. ASSUME NEW l \in Legs, NEW at \in Landings, ReceiveNextMachine(l, at) \/ LegStep(l)
      PROVE  CoherentInv'
  BY <1>4, CoherentLegStep
<1>5. ASSUME NEW c \in Readers, NEW to \in Positions, NEW real \in Positions,
             CaptureMotion(c, to, real) \/ CaptureKey(c) \/ ReaderStep(c)
      PROVE  CoherentInv'
  BY <1>2, <1>5 DEF CaptureMotion, CaptureKey, ReaderStep, Enqueue, CheckArmed, LookUp, Disarm,
                    SendRequest, DrainRequest, ResendRequest, shown, hist
<1>6. CASE PeerHidesCursor
  BY <1>1, <1>2, <1>6, BoundsAssumption DEF PeerHidesCursor, LeastOf, hist
<1>7. ASSUME NEW p \in Machines, Renumber \/ PeerDown(p) \/ PeerUp(p)
      PROVE  CoherentInv'
  BY <1>2, <1>7 DEF Renumber, PeerDown, PeerUp, shown, hist
<1>8. CASE UNCHANGED vars
  BY <1>2, <1>8 DEF vars
<1>9. "rim" \in Positions /\ "rim" \in Landings /\ (\E p \in Machines : TRUE)
  BY LayoutsAssumption DEF Positions, Landings, LayoutType
<1> QED
  BY <1>3, <1>4, <1>5, <1>6, <1>7, <1>8, <1>9 DEF Next

\* Between hand-overs the last word between the machines, h.current, the grab and
\* (x11) the hidden cursor agree: for any layouts that keep our slot and any number
\* of legs and capture goroutines, as long as doSwitch and OnNextMachine never
\* overlap, which the code does not enforce (host.go:5-7, 241-275, 329-355).
THEOREM HandOversAgree ==
    ASSUME SelfFixed, OneGoroutine
    PROVE  Spec => []SettledCoherent
<1>1. Init => CoherentInv
  BY DEF Init, CoherentInv, Agree, Returning, LegsIdle, Switching, IdleRun
<1>2. TypeInv /\ TypeInv' /\ CoherentInv /\ [Next]_vars => CoherentInv'
  BY CoherentStep
<1>3. CoherentInv => SettledCoherent
  BY DEF CoherentInv, SettledCoherent, Settled, Agree
<1> QED
  BY <1>1, <1>2, <1>3, TypeInvariance, PTL DEF Spec
=============================================================================
