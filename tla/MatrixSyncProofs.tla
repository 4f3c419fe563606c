-------------------------- MODULE MatrixSyncProofs --------------------------
(***************************************************************************)
(* What the layout exchange guarantees for any peers and any layouts they  *)
(* hold: MatrixSync's invariants and action properties.                    *)
(***************************************************************************)
EXTENDS MatrixSync, TLAPS

Cells == Names \cup {Vacant}
SlotIds == 0..MaxMachine

\* The layouts and what is sent of them.
LayoutsOK == /\ matrix \in Matrices
             /\ snap \in [Peers -> Matrices] /\ burst \in [Peers -> Matrices]
             /\ sent \in [Peers -> Seq(Cells)]

\* The counters and places of the peers' goroutines.
PlacesOK == /\ at \in [Peers -> Places]
            /\ given \in [Peers -> SlotIds] /\ turn \in [Peers -> SlotIds]
            /\ pool \in [Names -> SlotIds]
            /\ stated \in [Slots -> BOOLEAN]
            /\ named \in [Peers -> BOOLEAN] /\ lone \in [Peers -> BOOLEAN]

\* A reader handles packets only once its leg is in service; before that at
\* most the first packet of a burst waits for it.
BeforeService == \A p \in Peers : /\ at[p] # "in" => turn[p] <= 1 /\ ~named[p]
                                  /\ turn[p] = 0 => ~named[p]

\* What a joiner was sent is a beginning of the copy taken for it.
Sending ==
    \A p \in Peers :
        /\ at[p] \notin {"burst", "in"} => sent[p] = <<>>
        /\ at[p] = "burst" => Len(sent[p]) < MaxMachine
        /\ at[p] = "burst" \/ sent[p] # <<>> => ~IsEmpty(snap[p])
        /\ \A i \in 1..Len(sent[p]) : i \in Slots /\ sent[p][i] = snap[p].slots[i]

\* The slots of a burst left alone are stated as far as it has been merged, and
\* a layout that is whole and no guess has a stated slot.
Stated ==
    /\ \A p \in Peers, s \in Slots : lone[p] /\ s < turn[p] => stated[s]
    /\ whole /\ ~adopted /\ ~IsEmpty(matrix) => \E s \in Occupied(matrix) : stated[s]

\* Where a burst left alone has got to: layout and pool hold what was merged and
\* learned of it.
Arriving ==
    \A p \in Peers :
        turn[p] # 0 =>
          /\ burst[p] \in Layouts
          /\ lone[p] => \A s \in Slots :
               /\ s < turn[p] => matrix.slots[s] = burst[p].slots[s]
               /\ /\ s < turn[p] \/ (s = turn[p] /\ named[p])
                  /\ burst[p].slots[s] # Vacant
                  => pool[burst[p].slots[s]] = s

SyncInv == LayoutsOK /\ PlacesOK /\ BeforeService /\ Sending /\ Stated

-----------------------------------------------------------------------------
(* The operators. *)

LEMMA LeastSlot ==
    ASSUME NEW S \in SUBSET Slots, S # {}
    PROVE  Least(S) \in S
<1>1. \E n \in S : \A k \in S : n <= k
  <2>1. CASE 1 \in S
    BY <2>1 DEF Slots, MaxMachine
  <2>2. CASE 1 \notin S /\ 2 \in S
    BY <2>2 DEF Slots, MaxMachine
  <2>3. CASE 1 \notin S /\ 2 \notin S /\ 3 \in S
    BY <2>3 DEF Slots, MaxMachine
  <2>4. CASE 1 \notin S /\ 2 \notin S /\ 3 \notin S
    <3>1. \A k \in S : k = 4
      BY <2>4 DEF Slots, MaxMachine
    <3>2. PICK n \in S : TRUE
      OBVIOUS
    <3> QED
      BY <3>1, <3>2
  <2> QED
    BY <2>1, <2>2, <2>3, <2>4
<1> QED
  BY <1>1 DEF Least

LEMMA SlotOfFacts ==
    ASSUME NEW m \in Matrices, NEW name
    PROVE  /\ SlotOf(m, name) \in SlotIds
           /\ SlotOf(m, name) # NoSlot => m.slots[SlotOf(m, name)] = name
<1> DEFINE holders == {s \in Slots : m.slots[s] = name}
<1>1. CASE holders = {}
  BY <1>1 DEF SlotOf, SlotIds, NoSlot, MaxMachine
<1>2. CASE holders # {}
  <2>1. Least(holders) \in holders
    BY <1>2, LeastSlot
  <2>2. SlotOf(m, name) = Least(holders)
    BY <1>2 DEF SlotOf
  <2> QED
    BY <2>1, <2>2 DEF SlotIds, Slots, MaxMachine
<1> QED
  BY <1>1, <1>2

\* Seating a peer gives a layout, and an occupied slot keeps its name.
LEMMA SeatedFacts ==
    ASSUME NEW m \in Matrices, NEW p \in Peers
    PROVE  /\ Seated(m, p) \in Matrices
           /\ ~IsEmpty(m) => \A s \in Occupied(m) : Seated(m, p).slots[s] = m.slots[s]
<1> DEFINE base == IF IsEmpty(m) THEN AdoptFresh(p) ELSE m
<1>1. AdoptFresh(p) \in Matrices
  BY PeersAssumption DEF AdoptFresh, NoMatrix, Matrices, Slots, MaxMachine
<1>2. base \in Matrices
  BY <1>1
<1>3. CASE Seated(m, p) = base
  BY <1>2, <1>3
<1>4. CASE Seated(m, p) # base
  <2>1. /\ Seated(m, p) = [base EXCEPT !.slots[FirstVacant(base)] = p]
        /\ \E s \in Slots : base.slots[s] = Vacant
    BY <1>4 DEF Seated
  <2>2. FirstVacant(base) \in {s \in Slots : base.slots[s] = Vacant}
    <3> HIDE DEF base
    <3> QED
      BY <2>1, LeastSlot DEF FirstVacant
  <2>3. Seated(m, p) \in Matrices
    <3> HIDE DEF base
    <3> QED
      BY <1>2, <2>1, <2>2, PeersAssumption DEF Matrices
  <2>4. ASSUME ~IsEmpty(m), NEW s \in Occupied(m) PROVE Seated(m, p).slots[s] = m.slots[s]
    <3>1. base = m
      BY <2>4
    <3>2. s # FirstVacant(m) /\ s \in Slots
      BY <2>2, <3>1, <2>4 DEF Occupied
    <3> QED
      BY <2>1, <3>1, <3>2 DEF Matrices
  <2> QED
    BY <2>3, <2>4
<1> QED
  BY <1>3, <1>4

LEMMA LearnFacts ==
    ASSUME NEW q \in [Names -> SlotIds], NEW name, NEW s \in SlotIds
    PROVE  /\ Learn(q, name, s) \in [Names -> SlotIds]
           /\ name \in Names => Learn(q, name, s)[name] = s
           /\ \A n \in Names \ {name} : q[n] # s => Learn(q, name, s)[n] = q[n]
  BY DEF Learn, SlotIds, NoSlot, MaxMachine

LEMMA MergedFacts ==
    ASSUME NEW m \in Matrices, NEW b \in Matrices, NEW s \in Slots
    PROVE  /\ Merged(m, b, s) \in Matrices
           /\ Merged(m, b, s).slots = [m.slots EXCEPT ![s] = b.slots[s]]
           /\ s = MaxMachine => Merged(m, b, s).wrap = b.wrap /\ Merged(m, b, s).twoRow = b.twoRow
  BY DEF Merged, Matrices

LEMMA NextTurn ==
    ASSUME NEW t \in SlotIds
    PROVE  (t + 1) % (MaxMachine + 1) = IF t = MaxMachine THEN 0 ELSE t + 1
<1>1. t \in 0..4
  BY DEF SlotIds, MaxMachine
<1>2. (t + 1) % 5 = IF t = 4 THEN 0 ELSE t + 1
  BY <1>1
<1> QED
  BY <1>2 DEF MaxMachine

LEMMA NoMatrixFacts == NoMatrix \in Matrices /\ IsEmpty(NoMatrix)
  BY DEF NoMatrix, Matrices, IsEmpty, Occupied

-----------------------------------------------------------------------------
(* Types. *)

LEMMA InitTypes == SyncInit => LayoutsOK /\ PlacesOK
  BY NoMatrixFacts
  DEF SyncInit, LayoutsOK, PlacesOK, Places, SlotIds, NoSlot, MaxMachine, Nothing, Cells

LEMMA DropTypes ==
    ASSUME LayoutsOK, PlacesOK, NEW p \in Peers, Drop(p)
    PROVE  /\ snap' \in [Peers -> Matrices] /\ burst' \in [Peers -> Matrices]
           /\ sent' \in [Peers -> Seq(Cells)]
           /\ at' \in [Peers -> Places] /\ turn' \in [Peers -> SlotIds]
           /\ named' \in [Peers -> BOOLEAN]
  BY NoMatrixFacts DEF LayoutsOK, PlacesOK, Drop, Places, SlotIds, MaxMachine

LEMMA StepTypes ==
    ASSUME LayoutsOK, PlacesOK, Sending, [SyncNext]_<<svars, focus>>
    PROVE  (LayoutsOK /\ PlacesOK)'
<1> USE DEF LayoutsOK, PlacesOK
<1>1. ASSUME NEW p \in Peers, Trust(p) PROVE (LayoutsOK /\ PlacesOK)'
  <2>1. matrix' \in Matrices /\ SlotOf(matrix', p) \in SlotIds
    BY <1>1, SeatedFacts, SlotOfFacts DEF Trust
  <2>2. at' \in [Peers -> Places] /\ given' \in [Peers -> SlotIds]
    BY <1>1, <2>1 DEF Trust, Places
  <2>3. stated' \in [Slots -> BOOLEAN] /\ lone' \in [Peers -> BOOLEAN]
    BY <1>1 DEF Trust
  <2> QED
    BY <1>1, <2>1, <2>2, <2>3 DEF Trust
<1>2. ASSUME NEW p \in Peers, LearnPeer(p) PROVE (LayoutsOK /\ PlacesOK)'
  <2>1. pool' \in [Names -> SlotIds]
    BY <1>2, LearnFacts DEF LearnPeer
  <2>2. lone' \in [Peers -> BOOLEAN]
    BY <1>2 DEF LearnPeer, Interferes
  <2>3. given' \in [Peers -> SlotIds]
    BY <1>2 DEF LearnPeer, SlotIds, NoSlot, MaxMachine
  <2>4. at' \in [Peers -> Places]
    BY <1>2 DEF LearnPeer, Places
  <2> QED
    BY <1>2, <2>1, <2>2, <2>3, <2>4 DEF LearnPeer
<1>3. ASSUME NEW p \in Peers, Greet(p) PROVE (LayoutsOK /\ PlacesOK)'
  <2>1. CASE Drop(p)
    BY <1>3, <2>1, DropTypes DEF Greet
  <2>2. CASE ~Drop(p)
    BY <1>3, <2>2 DEF Greet, Places
  <2> QED
    BY <2>1, <2>2
<1>4. ASSUME NEW p \in Peers, Share(p) PROVE (LayoutsOK /\ PlacesOK)'
  BY <1>4 DEF Share, Places
<1>5. ASSUME NEW p \in Peers, SendSlot(p) PROVE (LayoutsOK /\ PlacesOK)'
  <2>1. CASE Drop(p)
    BY <1>5, <2>1, DropTypes DEF SendSlot
  <2>2. CASE ~Drop(p)
    <3>1. Len(sent[p]) + 1 \in Slots
      BY <1>5, <2>2 DEF SendSlot, Sending, Slots, MaxMachine
    <3>2. snap[p].slots[Len(sent[p]) + 1] \in Cells
      BY <3>1 DEF Matrices, Cells
    <3>3. sent' \in [Peers -> Seq(Cells)]
      <4>1. Append(sent[p], snap[p].slots[Len(sent[p]) + 1]) \in Seq(Cells)
        BY <3>2
      <4>2. sent' = [sent EXCEPT ![p] = Append(sent[p], snap[p].slots[Len(sent[p]) + 1])]
        BY <1>5, <2>2 DEF SendSlot
      <4> QED
        BY <4>1, <4>2
    <3> QED
      BY <1>5, <2>2, <3>3 DEF SendSlot, Places
  <2> QED
    BY <2>1, <2>2
<1>6. ASSUME NEW p \in Peers, LearnSlot(p) PROVE (LayoutsOK /\ PlacesOK)'
  <2>1. pool' \in [Names -> SlotIds]
    BY <1>6, LearnFacts DEF LearnSlot
  <2>2. lone' \in [Peers -> BOOLEAN]
    BY <1>6 DEF LearnSlot, Interferes
  <2> QED
    BY <1>6, <2>1, <2>2 DEF LearnSlot
<1>7. ASSUME NEW p \in Peers, MergeSlot(p) PROVE (LayoutsOK /\ PlacesOK)'
  <2>1. turn[p] \in Slots /\ (turn[p] + 1) % (MaxMachine + 1) \in SlotIds
    BY <1>7 DEF MergeSlot, SlotIds, Slots, MaxMachine
  <2>2. matrix' \in Matrices
    BY <1>7, <2>1, MergedFacts DEF MergeSlot
  <2>3. lone' \in [Peers -> BOOLEAN]
    BY <1>7 DEF MergeSlot, Interferes
  <2> QED
    BY <1>7, <2>1, <2>2, <2>3, NoMatrixFacts DEF MergeSlot
<1>8. ASSUME NEW p \in Peers, Leave(p) PROVE (LayoutsOK /\ PlacesOK)'
  BY <1>8, DropTypes DEF Leave
<1>9. ASSUME NEW p \in Peers, NEW m \in Layouts, StartBurst(p, m) PROVE (LayoutsOK /\ PlacesOK)'
  BY <1>9, LayoutsAssumption DEF StartBurst, SlotIds, MaxMachine
<1>10. ASSUME NEW p \in Peers, NEW m \in Layouts, NamedPacket(p, m) PROVE (LayoutsOK /\ PlacesOK)'
  <2>1. SlotOf(m, p) \in SlotIds
    BY LayoutsAssumption, SlotOfFacts
  <2>2. pool' \in [Names -> SlotIds]
    BY <1>10, <2>1, LearnFacts DEF NamedPacket
  <2> QED
    BY <1>10, <2>2 DEF NamedPacket
<1>11. ASSUME NEW m \in Layouts, SetMatrix(m) PROVE (LayoutsOK /\ PlacesOK)'
  BY <1>11, LayoutsAssumption DEF SetMatrix
<1>12. CASE UNCHANGED <<svars, focus>>
  BY <1>12 DEF svars
<1> QED
  BY <1>1, <1>2, <1>3, <1>4, <1>5, <1>6, <1>7, <1>8, <1>9, <1>10, <1>11, <1>12 DEF SyncNext

-----------------------------------------------------------------------------
(* The readers and what they are sent. *)

\* BeforeService, for one peer.
Waiting(q) == /\ at[q] # "in" => turn[q] <= 1 /\ ~named[q]
              /\ turn[q] = 0 => ~named[q]

LEMMA StepBeforeService ==
    ASSUME PlacesOK, BeforeService, [SyncNext]_<<svars, focus>>
    PROVE  BeforeService'
<1> SUFFICES ASSUME NEW q \in Peers PROVE Waiting(q)'
  BY DEF BeforeService, Waiting
<1> USE DEF PlacesOK, BeforeService, Waiting
<1>1. ASSUME NEW p \in Peers, Trust(p) \/ LearnPeer(p) \/ Share(p)
      PROVE  Waiting(q)'
  BY <1>1 DEF Trust, LearnPeer, Share
<1>2. ASSUME NEW p \in Peers, Greet(p) \/ SendSlot(p) \/ Leave(p)
      PROVE  Waiting(q)'
  BY <1>2 DEF Greet, SendSlot, Leave, Drop
<1>3. ASSUME NEW p \in Peers, LearnSlot(p) \/ MergeSlot(p)
      PROVE  Waiting(q)'
  BY <1>3 DEF LearnSlot, MergeSlot
<1>4. ASSUME NEW p \in Peers, NEW m \in Layouts, StartBurst(p, m) \/ NamedPacket(p, m)
      PROVE  Waiting(q)'
  BY <1>4 DEF StartBurst, NamedPacket
<1>5. ASSUME NEW m \in Layouts, SetMatrix(m)
      PROVE  Waiting(q)'
  BY <1>5 DEF SetMatrix
<1>6. CASE UNCHANGED <<svars, focus>>
  BY <1>6 DEF svars
<1> QED
  BY <1>1, <1>2, <1>3, <1>4, <1>5, <1>6 DEF SyncNext

\* Sending, for one peer.
SendingTo(p) ==
    /\ at[p] \notin {"burst", "in"} => sent[p] = <<>>
    /\ at[p] = "burst" => Len(sent[p]) < MaxMachine
    /\ at[p] = "burst" \/ sent[p] # <<>> => ~IsEmpty(snap[p])
    /\ \A i \in 1..Len(sent[p]) : i \in Slots /\ sent[p][i] = snap[p].slots[i]

LEMMA DropSending ==
    ASSUME LayoutsOK, PlacesOK, Sending, NEW p \in Peers, Drop(p), NEW q \in Peers
    PROVE  SendingTo(q)'
  BY DEF LayoutsOK, PlacesOK, Sending, SendingTo, Drop

LEMMA StepSending ==
    ASSUME LayoutsOK, PlacesOK, Sending, [SyncNext]_<<svars, focus>>
    PROVE  Sending'
<1> SUFFICES ASSUME NEW q \in Peers PROVE SendingTo(q)'
  BY DEF Sending, SendingTo
<1> USE DEF LayoutsOK, PlacesOK
<1>1. ASSUME NEW p \in Peers, Trust(p) \/ LearnPeer(p) PROVE SendingTo(q)'
  <2>1. SendingTo(q) /\ UNCHANGED <<snap, sent>>
    <3>1. SendingTo(q)
      BY DEF Sending, SendingTo
    <3>2. UNCHANGED <<snap, sent>>
      BY <1>1 DEF Trust, LearnPeer
    <3> QED
      BY <3>1, <3>2
  <2>2. (at'[q] = at[q]) \/ (at[q] \in {"out", "learn"} /\ at'[q] \in {"greet", "learn"})
    BY <1>1 DEF Trust, LearnPeer
  <2> QED
    BY <2>1, <2>2 DEF SendingTo
<1>2. ASSUME NEW p \in Peers, Greet(p) PROVE SendingTo(q)'
  <2>1. CASE Drop(p)
    BY <2>1, DropSending
  <2>2. CASE ~Drop(p)
    BY <1>2, <2>2 DEF Greet, Sending, SendingTo
  <2> QED
    BY <2>1, <2>2
<1>3. ASSUME NEW p \in Peers, Share(p) PROVE SendingTo(q)'
  BY <1>3 DEF Share, Sending, SendingTo, MaxMachine
<1>4. ASSUME NEW p \in Peers, SendSlot(p) PROVE SendingTo(q)'
  <2>1. CASE Drop(p)
    BY <2>1, DropSending
  <2>2. CASE ~Drop(p) /\ q # p
    BY <1>4, <2>2 DEF SendSlot, Sending, SendingTo
  <2>3. CASE ~Drop(p) /\ q = p
    <3> DEFINE n == Len(sent[p]) + 1
               cell == snap[p].slots[n]
    <3>1. /\ n \in Slots /\ at[p] = "burst" /\ ~IsEmpty(snap[p])
          /\ UNCHANGED snap
          /\ \A i \in 1..Len(sent[p]) : i \in Slots /\ sent[p][i] = snap[p].slots[i]
      BY <1>4, <2>3 DEF SendSlot, Sending, Slots, MaxMachine
    <3>2. cell \in Cells
      BY <3>1 DEF Matrices, Cells
    <3>3. sent'[p] = Append(sent[p], cell)
      BY <1>4, <2>3 DEF SendSlot
    <3>4. /\ Len(sent'[p]) = n
          /\ \A i \in 1..n : sent'[p][i] = IF i = n THEN cell ELSE sent[p][i]
      BY <3>2, <3>3
    <3>5. at'[p] = IF n = MaxMachine THEN "in" ELSE "burst"
      BY <1>4, <2>3 DEF SendSlot
    <3>6. Len(sent'[p]) < MaxMachine \/ at'[p] = "in"
      BY <3>1, <3>4, <3>5 DEF Slots, MaxMachine
    <3>7. ASSUME NEW i \in 1..n PROVE i \in Slots /\ sent'[p][i] = snap'[p].slots[i]
      <4>1. CASE i = n
        BY <3>1, <3>4, <4>1
      <4>2. CASE i # n
        <5>1. i \in 1..Len(sent[p])
          BY <4>2
        <5> QED
          BY <3>1, <3>4, <4>2, <5>1
      <4> QED
        BY <4>1, <4>2
    <3> QED
      BY <2>3, <3>1, <3>4, <3>5, <3>6, <3>7 DEF SendingTo
  <2> QED
    BY <2>1, <2>2, <2>3
<1>5. ASSUME NEW p \in Peers, LearnSlot(p) \/ MergeSlot(p) PROVE SendingTo(q)'
  <2>1. UNCHANGED <<at, sent, snap>>
    BY <1>5 DEF LearnSlot, MergeSlot
  <2> QED
    BY <2>1 DEF Sending, SendingTo
<1>6. ASSUME NEW p \in Peers, Leave(p) PROVE SendingTo(q)'
  BY <1>6, DropSending DEF Leave
<1>7. ASSUME NEW p \in Peers, NEW m \in Layouts, StartBurst(p, m) \/ NamedPacket(p, m)
      PROVE  SendingTo(q)'
  BY <1>7 DEF StartBurst, NamedPacket, Sending, SendingTo
<1>8. ASSUME NEW m \in Layouts, SetMatrix(m) PROVE SendingTo(q)'
  BY <1>8 DEF SetMatrix, Sending, SendingTo
<1>9. CASE UNCHANGED <<svars, focus>>
  BY <1>9 DEF svars, Sending, SendingTo
<1> QED
  BY <1>1, <1>2, <1>3, <1>4, <1>5, <1>6, <1>7, <1>8, <1>9 DEF SyncNext

-----------------------------------------------------------------------------
(* What somebody stated. *)

\* A burst stays as far as it was for a peer whose turn, solitude and slots stay.
LEMMA StepStatedTurns ==
    ASSUME LayoutsOK, PlacesOK, Stated, [SyncNext]_<<svars, focus>>
    PROVE  \A q \in Peers, s \in Slots : lone'[q] /\ s < turn'[q] => stated'[s]
<1> SUFFICES ASSUME NEW q \in Peers, NEW s \in Slots, lone'[q], s < turn'[q]
             PROVE  stated'[s]
  OBVIOUS
<1> USE DEF LayoutsOK, PlacesOK, Stated
<1>1. ASSUME NEW p \in Peers, Trust(p) PROVE stated'[s]
  BY <1>1 DEF Trust
<1>2. ASSUME NEW p \in Peers, LearnPeer(p) PROVE stated'[s]
  BY <1>2 DEF LearnPeer, Interferes
<1>3. ASSUME NEW p \in Peers, Greet(p) \/ Share(p) \/ SendSlot(p) \/ Leave(p) PROVE stated'[s]
  BY <1>3 DEF Greet, Share, SendSlot, Leave, Drop, Slots, MaxMachine
<1>4. ASSUME NEW p \in Peers, LearnSlot(p) PROVE stated'[s]
  BY <1>4 DEF LearnSlot, Interferes
<1>5. ASSUME NEW p \in Peers, MergeSlot(p) PROVE stated'[s]
  <2>1. q = p /\ lone[p]
    BY <1>5 DEF MergeSlot, Interferes
  <2>2. turn'[p] = IF turn[p] = MaxMachine THEN 0 ELSE turn[p] + 1
    BY <1>5, NextTurn DEF MergeSlot
  <2>3. s <= turn[p]
    <3>1. turn[p] \in 0..4 /\ s \in 1..4 /\ s < turn'[p]
      BY <2>1 DEF Slots, SlotIds, MaxMachine
    <3> QED
      BY <2>2, <3>1
  <2> QED
    BY <1>5, <2>1, <2>3 DEF MergeSlot, Slots, SlotIds, MaxMachine
<1>6. ASSUME NEW p \in Peers, NEW m \in Layouts, StartBurst(p, m) \/ NamedPacket(p, m)
      PROVE  stated'[s]
  BY <1>6 DEF StartBurst, NamedPacket, Slots, MaxMachine
<1>7. ASSUME NEW m \in Layouts, SetMatrix(m) PROVE stated'[s]
  BY <1>7 DEF SetMatrix
<1>8. CASE UNCHANGED <<svars, focus>>
  BY <1>8 DEF svars
<1> QED
  BY <1>1, <1>2, <1>3, <1>4, <1>5, <1>6, <1>7, <1>8 DEF SyncNext

LEMMA StepStatedWhole ==
    ASSUME LayoutsOK, PlacesOK, Stated, [SyncNext]_<<svars, focus>>,
           whole', ~adopted', ~IsEmpty(matrix')
    PROVE  \E s \in Occupied(matrix') : stated'[s]
<1> USE DEF LayoutsOK, PlacesOK, Stated
<1>1. ASSUME NEW p \in Peers, Trust(p) PROVE \E s \in Occupied(matrix') : stated'[s]
  <2>1. ~IsEmpty(matrix) /\ ~adopted /\ whole
    BY <1>1 DEF Trust
  <2>2. PICK s \in Occupied(matrix) : stated[s]
    BY <2>1
  <2>3. matrix'.slots[s] = matrix.slots[s] /\ s \in Slots
    BY <1>1, <2>1, SeatedFacts DEF Trust, Occupied
  <2>4. s \in Occupied(matrix')
    BY <2>2, <2>3 DEF Occupied
  <2>5. stated'[s]
    BY <1>1, <2>2, <2>3 DEF Trust
  <2> QED
    BY <2>4, <2>5
<1>2. ASSUME NEW p \in Peers,
             LearnPeer(p) \/ Greet(p) \/ Share(p) \/ SendSlot(p) \/ LearnSlot(p) \/ Leave(p)
      PROVE  \E s \in Occupied(matrix') : stated'[s]
  BY <1>2 DEF LearnPeer, Greet, Share, SendSlot, LearnSlot, Leave
<1>3. ASSUME NEW p \in Peers, MergeSlot(p) PROVE \E s \in Occupied(matrix') : stated'[s]
  <2>1. turn[p] = MaxMachine /\ lone[p]
    BY <1>3 DEF MergeSlot
  <2>2. \A s \in Slots : stated'[s]
    BY <1>3, <2>1 DEF MergeSlot, Slots, MaxMachine
  <2> QED
    BY <2>2 DEF IsEmpty, Occupied
<1>4. ASSUME NEW p \in Peers, NEW m \in Layouts, StartBurst(p, m) \/ NamedPacket(p, m)
      PROVE  \E s \in Occupied(matrix') : stated'[s]
  BY <1>4 DEF StartBurst, NamedPacket
<1>5. ASSUME NEW m \in Layouts, SetMatrix(m) PROVE \E s \in Occupied(matrix') : stated'[s]
  BY <1>5 DEF SetMatrix, IsEmpty, Occupied
<1>6. CASE UNCHANGED <<svars, focus>>
  BY <1>6 DEF svars
<1> QED
  BY <1>1, <1>2, <1>3, <1>4, <1>5, <1>6 DEF SyncNext

-----------------------------------------------------------------------------
(* The pool, and bursts left alone. *)

LEMMA LearnOneToOne ==
    ASSUME NEW q \in [Names -> SlotIds], NEW name, NEW s,
           \A n, o \in Names : q[n] = q[o] /\ q[n] # NoSlot => n = o
    PROVE  \A n, o \in Names : Learn(q, name, s)[n] = Learn(q, name, s)[o]
                               /\ Learn(q, name, s)[n] # NoSlot => n = o
  BY DEF Learn

LEMMA StepPool ==
    ASSUME PlacesOK, PoolOneToOne, [SyncNext]_<<svars, focus>>
    PROVE  PoolOneToOne'
<1>1. ASSUME NEW p \in Peers,
             Trust(p) \/ Greet(p) \/ Share(p) \/ SendSlot(p) \/ MergeSlot(p) \/ Leave(p)
      PROVE  UNCHANGED pool
  BY <1>1 DEF Trust, Greet, Share, SendSlot, MergeSlot, Leave
<1>2. ASSUME NEW m \in Layouts, SetMatrix(m) \/ \E p \in Peers : StartBurst(p, m)
      PROVE  UNCHANGED pool
  BY <1>2 DEF SetMatrix, StartBurst
<1>3. ASSUME NEW p \in Peers, LearnPeer(p) \/ LearnSlot(p)
      PROVE  UNCHANGED pool \/ \E name, s : pool' = Learn(pool, name, s)
  BY <1>3 DEF LearnPeer, LearnSlot
<1>4. ASSUME NEW p \in Peers, NEW m \in Layouts, NamedPacket(p, m)
      PROVE  \E name, s : pool' = Learn(pool, name, s)
  BY <1>4 DEF NamedPacket
<1>5. UNCHANGED <<svars, focus>> => UNCHANGED pool
  BY DEF svars
<1>6. UNCHANGED pool \/ \E name, s : pool' = Learn(pool, name, s)
  BY <1>1, <1>2, <1>3, <1>4, <1>5 DEF SyncNext
<1>7. CASE UNCHANGED pool
  BY <1>7 DEF PoolOneToOne
<1>8. ASSUME NEW name, NEW s, pool' = Learn(pool, name, s) PROVE PoolOneToOne'
  BY <1>8, LearnOneToOne DEF PoolOneToOne, PlacesOK
<1> QED
  BY <1>6, <1>7, <1>8

\* A layout names each machine once: SlotOf and the pool take that for granted.
DistinctNames == \A m \in Layouts : \A s, t \in Occupied(m) : m.slots[s] = m.slots[t] => s = t

\* Slot s of q's burst has been merged, and learned.
MergedAt(q, s) == matrix.slots[s] = burst[q].slots[s]
LearnedAt(q, s) == burst[q].slots[s] # Vacant => pool[burst[q].slots[s]] = s

ArrivingFrom(q) ==
    turn[q] # 0 =>
      /\ burst[q] \in Layouts
      /\ lone[q] => \A s \in Slots :
           /\ s < turn[q] => MergedAt(q, s)
           /\ s < turn[q] \/ (s = turn[q] /\ named[q]) => LearnedAt(q, s)

LEMMA ArrivingByPeer == Arriving <=> \A q \in Peers : ArrivingFrom(q)
  BY DEF Arriving, ArrivingFrom, MergedAt, LearnedAt

\* Learning a slot of the burst keeps what was learned of it before.
LEMMA LearnArrives ==
    ASSUME LayoutsOK, PlacesOK, DistinctNames, NEW q \in Peers, ArrivingFrom(q),
           turn[q] # 0, lone[q], LearnSlot(q), NEW s \in Slots, s <= turn[q]
    PROVE  LearnedAt(q, s)'
<1> DEFINE name == burst[q].slots[turn[q]]
           cell == burst[q].slots[s]
<1>1. turn[q] \in Slots /\ burst[q] \in Layouts /\ UNCHANGED burst
  BY DEF PlacesOK, SlotIds, Slots, MaxMachine, LearnSlot, ArrivingFrom
<1>2. SUFFICES ASSUME cell # Vacant PROVE pool'[cell] = s
  BY <1>1 DEF LearnedAt
<1>3. cell \in Names
  BY <1>1, <1>2 DEF LayoutsOK, Matrices
<1>4. turn[q] \in SlotIds /\ pool \in [Names -> SlotIds]
  BY DEF PlacesOK
<1>5. CASE s = turn[q]
  <2>1. pool' = Learn(pool, name, turn[q]) /\ name \in Names
    BY <1>2, <1>3, <1>5 DEF LearnSlot
  <2> QED
    BY <1>4, <1>5, <2>1, LearnFacts
<1>6. CASE s < turn[q]
  <2>1. pool[cell] = s
    BY <1>2, <1>6 DEF ArrivingFrom, LearnedAt
  <2>2. CASE name = Vacant
    BY <2>1, <2>2 DEF LearnSlot
  <2>3. CASE name # Vacant
    <3>1. cell # name
      BY <1>1, <1>2, <1>6, <2>3 DEF DistinctNames, Occupied, Slots, MaxMachine
    <3>2. pool' = Learn(pool, name, turn[q]) /\ pool[cell] # turn[q]
      BY <1>1, <1>6, <2>1, <2>3 DEF LearnSlot, Slots, MaxMachine
    <3> QED
      BY <1>3, <1>4, <2>1, <3>1, <3>2, LearnFacts
  <2> QED
    BY <2>2, <2>3
<1> QED
  BY <1>1, <1>5, <1>6 DEF Slots, MaxMachine

LEMMA StepArriving ==
    ASSUME LayoutsOK, PlacesOK, BeforeService, DistinctNames, Arriving,
           [SyncNext]_<<svars, focus>>
    PROVE  Arriving'
<1> SUFFICES ASSUME NEW q \in Peers PROVE ArrivingFrom(q)'
  BY DEF Arriving, ArrivingFrom, MergedAt, LearnedAt
<1>0. ArrivingFrom(q)
  BY ArrivingByPeer
<1>a. turn[q] \in 0..4
  BY DEF PlacesOK, SlotIds, MaxMachine
<1> USE DEF LayoutsOK, PlacesOK
<1>1. ASSUME NEW p \in Peers, Trust(p) PROVE ArrivingFrom(q)'
  BY <1>0, <1>1 DEF Trust, ArrivingFrom, MergedAt, LearnedAt
<1>2. ASSUME NEW p \in Peers, LearnPeer(p) PROVE ArrivingFrom(q)'
  <2>1. q # p => ~lone'[q]
    BY <1>2 DEF LearnPeer, Interferes
  <2>2. q = p => turn[q] <= 1 /\ ~named[q]
    BY <1>2 DEF LearnPeer, BeforeService
  <2>3. UNCHANGED <<burst, turn, named, matrix>>
    BY <1>2 DEF LearnPeer
  <2>4. CASE q = p
    <3>1. \A s \in Slots : ~(s < turn[q]) /\ ~(s = turn[q] /\ named[q])
      BY <1>a, <2>2, <2>4 DEF Slots, MaxMachine
    <3> QED
      BY <1>0, <2>3, <3>1 DEF ArrivingFrom
  <2>5. CASE q # p
    BY <1>0, <2>1, <2>3, <2>5 DEF ArrivingFrom
  <2> QED
    BY <2>4, <2>5
<1>3. ASSUME NEW p \in Peers, Greet(p) \/ SendSlot(p) \/ Leave(p) PROVE ArrivingFrom(q)'
  <2>1. UNCHANGED <<matrix, pool, lone>>
    BY <1>3 DEF Greet, SendSlot, Leave
  <2>2. (turn'[q] = turn[q] /\ burst'[q] = burst[q] /\ named'[q] = named[q]) \/ turn'[q] = 0
    BY <1>3 DEF Greet, SendSlot, Leave, Drop
  <2> QED
    BY <1>0, <2>1, <2>2 DEF ArrivingFrom, MergedAt, LearnedAt
<1>4. ASSUME NEW p \in Peers, Share(p) PROVE ArrivingFrom(q)'
  BY <1>0, <1>4 DEF Share, ArrivingFrom, MergedAt, LearnedAt
<1>5. ASSUME NEW p \in Peers, LearnSlot(p) PROVE ArrivingFrom(q)'
  <2>1. UNCHANGED <<matrix, burst, turn>> /\ (q # p => ~lone'[q])
    BY <1>5 DEF LearnSlot, Interferes
  <2>2. CASE q = p /\ turn[q] # 0 /\ lone'[q]
    <3>1. lone[q]
      BY <1>5, <2>2 DEF LearnSlot, Interferes
    <3>2. \A s \in Slots : s <= turn[q] => LearnedAt(q, s)'
      BY <1>0, <1>5, <2>2, <3>1, LearnArrives
    <3>3. \A s \in Slots : s < turn[q] => MergedAt(q, s)'
      BY <1>0, <2>1, <2>2, <3>1 DEF ArrivingFrom, MergedAt
    <3>4. \A s \in Slots : s < turn[q] \/ s = turn[q] => s <= turn[q]
      BY <1>a DEF Slots, MaxMachine
    <3> QED
      BY <1>0, <2>1, <2>2, <3>2, <3>3, <3>4 DEF ArrivingFrom
  <2>3. CASE ~(turn[q] # 0 /\ lone'[q])
    BY <1>0, <2>1, <2>3 DEF ArrivingFrom
  <2> QED
    BY <2>1, <2>2, <2>3
<1>6. ASSUME NEW p \in Peers, MergeSlot(p) PROVE ArrivingFrom(q)'
  <2>1. UNCHANGED pool /\ (q # p => ~lone'[q] /\ turn'[q] = turn[q] /\ burst'[q] = burst[q])
    BY <1>6 DEF MergeSlot, Interferes
  <2>2. CASE q # p
    BY <1>0, <2>1, <2>2 DEF ArrivingFrom
  <2>3. CASE q = p /\ turn'[q] # 0
    <3>1. /\ turn[q] \in Slots /\ turn[q] # MaxMachine /\ turn'[q] = turn[q] + 1
          /\ burst'[q] = burst[q] /\ ~named'[q] /\ named[q]
      BY <1>6, <2>3, NextTurn DEF MergeSlot, Slots, SlotIds, MaxMachine
    <3>2. matrix'.slots = [matrix.slots EXCEPT ![turn[q]] = burst[q].slots[turn[q]]]
      <4>1. matrix' = Merged(matrix, burst[q], turn[q])
        BY <1>6, <2>3 DEF MergeSlot
      <4>2. Merged(matrix, burst[q], turn[q]).slots
              = [matrix.slots EXCEPT ![turn[q]] = burst[q].slots[turn[q]]]
        BY DEF Merged
      <4> QED
        BY <4>1, <4>2, Zenon
    <3>3. \A s \in Slots : matrix'.slots[s] = IF s = turn[q] THEN burst[q].slots[s]
                                              ELSE matrix.slots[s]
      BY <3>2 DEF Matrices
    <3>4. lone'[q] = lone[q]
      BY <1>6, <2>3 DEF MergeSlot, Interferes
    <3>5. \A s \in Slots : s < turn[q] + 1 <=> s < turn[q] \/ s = turn[q]
      BY <3>1 DEF Slots, MaxMachine
    <3> QED
      BY <1>0, <2>1, <2>3, <3>1, <3>3, <3>4, <3>5 DEF ArrivingFrom, MergedAt, LearnedAt, Slots, MaxMachine
  <2> QED
    BY <2>2, <2>3 DEF ArrivingFrom
<1>7. ASSUME NEW p \in Peers, NEW m \in Layouts, StartBurst(p, m) PROVE ArrivingFrom(q)'
  <2>1. CASE q # p
    BY <1>0, <1>7, <2>1 DEF StartBurst, ArrivingFrom, MergedAt, LearnedAt
  <2>2. CASE q = p
    <3>1. turn'[q] = 1 /\ burst'[q] = m /\ ~named'[q]
      BY <1>7, <2>2 DEF StartBurst, BeforeService
    <3> QED
      BY <3>1 DEF ArrivingFrom, Slots, MaxMachine
  <2> QED
    BY <2>1, <2>2
<1>8. ASSUME NEW p \in Peers, NEW m \in Layouts, NamedPacket(p, m) PROVE ArrivingFrom(q)'
  BY <1>0, <1>8 DEF NamedPacket, ArrivingFrom
<1>9. ASSUME NEW m \in Layouts, SetMatrix(m) PROVE ArrivingFrom(q)'
  BY <1>0, <1>9 DEF SetMatrix, ArrivingFrom
<1>10. CASE UNCHANGED <<svars, focus>>
  BY <1>0, <1>10 DEF svars, ArrivingFrom, MergedAt, LearnedAt
<1> QED
  BY <1>1, <1>2, <1>3, <1>4, <1>5, <1>6, <1>7, <1>8, <1>9, <1>10 DEF SyncNext

-----------------------------------------------------------------------------
LEMMA InitSyncInv == SyncInit => SyncInv /\ PoolOneToOne /\ Arriving
<1>1. SyncInit => LayoutsOK /\ PlacesOK
  BY InitTypes
<1>2. SyncInit => BeforeService /\ Sending
  BY DEF SyncInit, BeforeService, Sending
<1>3. SyncInit => Stated
  BY NoMatrixFacts DEF SyncInit, Stated, Slots, MaxMachine
<1>4. SyncInit => PoolOneToOne /\ Arriving
  BY DEF SyncInit, PoolOneToOne, Arriving
<1> QED
  BY <1>1, <1>2, <1>3, <1>4 DEF SyncInv

LEMMA NextSyncInv == SyncInv /\ [SyncNext]_<<svars, focus>> => SyncInv'
<1> SUFFICES ASSUME SyncInv, [SyncNext]_<<svars, focus>> PROVE SyncInv'
  OBVIOUS
<1>1. (LayoutsOK /\ PlacesOK)' /\ BeforeService' /\ Sending'
  BY StepTypes, StepBeforeService, StepSending DEF SyncInv
<1>2. Stated'
  BY StepStatedTurns, StepStatedWhole DEF SyncInv, Stated
<1> QED
  BY <1>1, <1>2 DEF SyncInv

\* The inductive invariant: types, how far each goroutine has got, and what of
\* the layout somebody stated.
THEOREM SyncInvariance == SyncSpec => []SyncInv
<1> QED
  BY InitSyncInv, NextSyncInv, PTL DEF SyncSpec

\* The pool binds names and slots one to one, for any peers, layouts and number
\* of joins and bursts, however the readers of the legs interleave.
THEOREM PoolIsOneToOne == SyncSpec => []PoolOneToOne
<1>1. SyncInv /\ PoolOneToOne /\ [SyncNext]_<<svars, focus>> => PoolOneToOne'
  BY StepPool DEF SyncInv
<1> QED
  BY <1>1, InitSyncInv, SyncInvariance, PTL DEF SyncSpec

\* A layout that goes out has a name where a peer or the configuration put it,
\* unless a burst is half merged or was interfered with.
THEOREM GuessesStayHome == SyncSpec => GuessNeverShared
<1>1. ASSUME SyncInv, NEW p \in Peers, Share(p), at'[p] = "burst", whole
      PROVE  \E s \in Occupied(matrix) : stated[s]
  <2>1. ~IsEmpty(matrix) /\ ~adopted
    BY <1>1 DEF Share, SyncInv, PlacesOK
  <2> QED
    BY <1>1, <2>1 DEF SyncInv, Stated
<1>2. SyncInv => [\A p \in Peers : Share(p) /\ at'[p] = "burst" /\ whole
                     => \E s \in Occupied(matrix) : stated[s]]_svars
  BY <1>1
<1> QED
  BY <1>2, SyncInvariance, PTL DEF GuessNeverShared

\* A joiner receives the layout of one moment, never a blank one, while the live
\* layout changes under the burst.
THEOREM JoinersGetSnapshots == SyncSpec => []BurstIsSnapshot
<1>1. SyncInv => BurstIsSnapshot
  <2> SUFFICES ASSUME SyncInv, NEW p \in Peers, Len(sent[p]) = MaxMachine
               PROVE  /\ \A s \in Slots : sent[p][s] = snap[p].slots[s]
                      /\ \E s \in Slots : sent[p][s] # Vacant
    BY DEF BurstIsSnapshot
  <2>1. \A s \in Slots : sent[p][s] = snap[p].slots[s]
    BY DEF SyncInv, Sending, Slots, MaxMachine
  <2>2. ~IsEmpty(snap[p])
    BY DEF SyncInv, Sending, MaxMachine
  <2> QED
    BY <2>1, <2>2 DEF IsEmpty, Occupied
<1> QED
  BY <1>1, SyncInvariance, PTL

\* A burst left alone arrives whole: at its last packet the layout is the
\* sender's, flags included, and every name resolves to its slot.  The sender's
\* layout has to name each machine once.
THEOREM BurstsArriveWhole ==
    ASSUME DistinctNames
    PROVE  SyncSpec => BurstArrivesWhole
<1>1. SyncInv /\ Arriving /\ [SyncNext]_<<svars, focus>> => Arriving'
  BY StepArriving DEF SyncInv
<1>2. ASSUME SyncInv, Arriving, NEW p \in Peers, MergeSlot(p), turn[p] = MaxMachine, lone[p]
      PROVE  /\ matrix' = burst[p]
             /\ \A s \in Occupied(burst[p]) : pool[burst[p].slots[s]] = s
  <2>1. named[p] /\ matrix' = Merged(matrix, burst[p], MaxMachine)
    BY <1>2 DEF MergeSlot
  <2>2. /\ \A s \in Slots : s < MaxMachine => matrix.slots[s] = burst[p].slots[s]
        /\ \A s \in Slots : burst[p].slots[s] # Vacant => pool[burst[p].slots[s]] = s
    BY <1>2, <2>1 DEF Arriving, Slots, MaxMachine
  <2>3. matrix \in Matrices /\ burst[p] \in Matrices
    BY <1>2 DEF SyncInv, LayoutsOK
  <2>4. [matrix.slots EXCEPT ![MaxMachine] = burst[p].slots[MaxMachine]] = burst[p].slots
    BY <2>2, <2>3 DEF Matrices, Slots, MaxMachine
  <2>5. matrix' = burst[p]
    BY <2>1, <2>3, <2>4 DEF Merged, Matrices
  <2> QED
    BY <2>2, <2>5 DEF Occupied
<1>3. SyncInv /\ Arriving =>
        [\A p \in Peers : MergeSlot(p) /\ turn[p] = MaxMachine /\ lone[p]
            => /\ matrix' = burst[p]
               /\ \A s \in Occupied(burst[p]) : pool[burst[p].slots[s]] = s]_svars
  BY <1>2
<1> QED
  BY <1>1, <1>3, InitSyncInv, SyncInvariance, PTL DEF SyncSpec, BurstArrivesWhole
=============================================================================
