---------------------------- MODULE FanOutProofs ----------------------------
(***************************************************************************)
(* The ring of dedup.go implements the abstract window of RecentIDs, for   *)
(* every set of IDs and every window size; so does the receiver's ring     *)
(* under all legs of all peers.  With one peer, what it refuses was        *)
(* handled before; if that peer also broadcasts one packet at a time and   *)
(* the window spans what two legs buffer, every packet is handled once.    *)
(***************************************************************************)
EXTENDS FanOut, TLAPS, SequenceTheorems, FiniteSetTheorems

-----------------------------------------------------------------------------
(* The ring.                                                                *)

\* Until the ring is full, pos counts the entries written.
RingInv == /\ ids \in [0..Window - 1 -> Ids]
           /\ pos \in 0..Window - 1 /\ seen \in 0..Window
           /\ seen < Window => pos = seen

\* The window the ring stands for.
Oldest == [k \in 1..seen |-> ids[Place(k)]]

\* The modulo of the next position is a wrap to 0.
LEMMA NextPos ==
    ASSUME NEW p \in 0..Window - 1
    PROVE  (p + 1) % Window = IF p + 1 = Window THEN 0 ELSE p + 1
  BY WindowAssumption

LEMMA RingInvariance == RingInv /\ [DedupNext]_dedupVars => RingInv'
<1> SUFFICES ASSUME RingInv, [DedupNext]_dedupVars PROVE RingInv'
  OBVIOUS
<1>1. ASSUME NEW id \in Ids, Record(id) PROVE RingInv'
  <2>1. pos' = IF pos + 1 = Window THEN 0 ELSE pos + 1
    BY <1>1, NextPos DEF Record, RingInv
  <2> QED
    BY <1>1, <2>1, WindowAssumption DEF Record, RingInv
<1>2. CASE UNCHANGED <<ids, pos, seen>>
  BY <1>2 DEF RingInv
<1> QED
  BY <1>1, <1>2 DEF DedupNext, Seen, dedupVars

\* Every place the window names is in the ring, and it names all of them.
LEMMA Places ==
    ASSUME RingInv
    PROVE  /\ \A k \in 1..seen : Place(k) \in 0..seen - 1
           /\ \A i \in 0..seen - 1 : \E k \in 1..seen : Place(k) = i
<1>1. CASE seen < Window
  <2>1. \A k \in 1..seen : Place(k) = k - 1
    BY <1>1 DEF RingInv, Place
  <2>2. \A i \in 0..seen - 1 : i + 1 \in 1..seen /\ Place(i + 1) = i
    BY <1>1 DEF RingInv, Place
  <2> QED
    BY <2>1, <2>2 DEF RingInv
<1>2. CASE seen = Window
  <2>1. \A k \in 1..seen : Place(k) \in 0..seen - 1
    BY <1>2, WindowAssumption DEF RingInv, Place
  <2>2. ASSUME NEW i \in 0..seen - 1 PROVE \E k \in 1..seen : Place(k) = i
    <3>1. CASE i < pos
      <4>1. i - pos + seen + 1 \in 1..seen /\ Place(i - pos + seen + 1) = i
        BY <1>2, <3>1, WindowAssumption DEF RingInv, Place
      <4> QED
        BY <4>1
    <3>2. CASE i >= pos
      <4>1. i - pos + 1 \in 1..seen /\ Place(i - pos + 1) = i
        BY <1>2, <3>2, WindowAssumption DEF RingInv, Place
      <4> QED
        BY <4>1
    <3> QED
      BY <3>1, <3>2 DEF RingInv
  <2> QED
    BY <2>1, <2>2
<1> QED
  BY <1>1, <1>2, WindowAssumption DEF RingInv

\* A function on 1..n is a sequence of length n.
LEMMA FunctionIsSeq ==
    ASSUME NEW S, NEW n \in Nat, NEW f, f = [k \in 1..n |-> f[k]], \A k \in 1..n : f[k] \in S
    PROVE  f \in Seq(S) /\ Len(f) = n
<1>1. f \in [1..n -> S]
  OBVIOUS
<1> QED
  BY <1>1

\* The window is a sequence of seen IDs, and its elements are what Seen scans.
LEMMA OldestFacts ==
    ASSUME RingInv
    PROVE  /\ Oldest \in Seq(Ids) /\ Len(Oldest) = seen
           /\ {Oldest[k] : k \in 1..seen} = Scanned
<1>1. seen \in Nat /\ \A k \in 1..seen : Oldest[k] \in Ids
  <2>1. seen \in Nat /\ 0..seen - 1 \subseteq 0..Window - 1
    BY WindowAssumption DEF RingInv
  <2>2. ASSUME NEW k \in 1..seen PROVE ids[Place(k)] \in Ids
    <3>1. Place(k) \in 0..Window - 1
      BY <2>1, Places
    <3> QED
      BY <3>1 DEF RingInv
  <2> QED
    BY <2>1, <2>2 DEF Oldest
<1>2. Oldest = [k \in 1..seen |-> Oldest[k]]
  BY DEF Oldest
<1>3. Oldest \in Seq(Ids) /\ Len(Oldest) = seen
  BY <1>1, <1>2, FunctionIsSeq
<1>4. {Oldest[k] : k \in 1..seen} = Scanned
  BY Places DEF Oldest, Scanned
<1> QED
  BY <1>3, <1>4

\* Recording an ID appends it to the window; a full window loses its oldest.
LEMMA RecordAppends ==
    ASSUME RingInv, NEW id \in Ids, Record(id)
    PROVE  Oldest' = IF Len(Oldest) < Window THEN Append(Oldest, id) ELSE Append(Tail(Oldest), id)
<1>1. pos' = IF pos + 1 = Window THEN 0 ELSE pos + 1
  BY NextPos DEF Record, RingInv
<1>2. PICK n \in 0..Window : n = seen
  BY DEF RingInv
<1>3. Oldest \in Seq(Ids) /\ Len(Oldest) = n /\ Oldest = [k \in 1..n |-> ids[Place(k)]]
  BY <1>2, OldestFacts DEF Oldest
<1>4. \A i \in 0..Window - 1 : ids'[i] = IF i = pos THEN id ELSE ids[i]
  BY DEF Record, RingInv
<1>5. CASE n < Window
  <2>1. seen' = n + 1 /\ pos = n
    BY <1>2, <1>5 DEF Record, RingInv
  <2>2. \A k \in 1..n + 1 : Place(k)' = k - 1
    BY <1>1, <1>5, <2>1, WindowAssumption DEF Place
  <2>3. \A k \in 1..n : Place(k) = k - 1
    BY <1>2, <2>1 DEF Place
  <2>4. Oldest' = [k \in 1..n + 1 |-> ids'[k - 1]]
    BY <2>1, <2>2 DEF Oldest
  <2>5. \A k \in 1..n : Oldest'[k] = Oldest[k]
    <3>1. ASSUME NEW k \in 1..n PROVE Oldest'[k] = Oldest[k]
      <4>1. k \in 1..n + 1 /\ k - 1 \in 0..Window - 1 /\ k - 1 # pos
        BY <1>5, <2>1, WindowAssumption
      <4>2. ids'[k - 1] = ids[k - 1]
        BY <1>4, <4>1
      <4> QED
        BY <1>3, <2>3, <2>4, <4>1, <4>2
    <3> QED
      BY <3>1
  <2>6. Oldest'[n + 1] = id
    <3>1. n + 1 \in 1..n + 1 /\ pos \in 0..Window - 1 /\ (n + 1) - 1 = pos
      BY <1>5, <2>1, WindowAssumption
    <3> QED
      BY <1>4, <2>4, <3>1
  <2>7. Oldest' \in Seq(Ids) /\ Len(Oldest') = n + 1
    <3>1. \A k \in 1..n + 1 : Oldest'[k] \in Ids
      BY <1>3, <2>5, <2>6
    <3>2. Oldest' = [k \in 1..n + 1 |-> Oldest'[k]]
      BY <2>4
    <3> QED
      BY <3>1, <3>2, FunctionIsSeq
  <2>8. Oldest' = Append(Oldest, id)
    <3>1. /\ Append(Oldest, id) \in Seq(Ids) /\ Len(Append(Oldest, id)) = n + 1
          /\ \A k \in 1..n : Append(Oldest, id)[k] = Oldest[k]
          /\ Append(Oldest, id)[n + 1] = id
      BY <1>3, AppendProperties
    <3>2. \A k \in 1..Len(Oldest') : Oldest'[k] = Append(Oldest, id)[k]
      BY <2>5, <2>6, <2>7, <3>1
    <3> QED
      BY <2>7, <3>1, <3>2, SeqEqual
  <2> QED
    BY <1>3, <1>5, <2>8
<1>6. CASE n = Window
  <2>1. seen' = n
    BY <1>2, <1>6, WindowAssumption DEF Record
  <2>2. \A k \in 1..n : Place(k) \in 0..Window - 1 /\ (Place(k) = pos => k = 1)
    BY <1>2, <1>6, WindowAssumption DEF Place, RingInv
  <2>3. \A k \in 1..n - 1 : Place(k)' = Place(k + 1)
    BY <1>1, <1>2, <1>6, <2>1, WindowAssumption DEF Place, RingInv
  <2>4. \A k \in 1..n : k = n => Place(k)' = pos
    BY <1>1, <1>2, <1>6, <2>1, WindowAssumption DEF Place, RingInv
  <2>5. Oldest' = [k \in 1..n |-> ids'[Place(k)']]
    BY <2>1 DEF Oldest
  <2>6. \A k \in 1..n - 1 : Oldest'[k] = Oldest[k + 1]
    <3>1. ASSUME NEW k \in 1..n - 1 PROVE Oldest'[k] = Oldest[k + 1]
      <4>1. k \in 1..n /\ k + 1 \in 1..n
        BY <1>6, WindowAssumption
      <4>2. ids'[Place(k + 1)] = ids[Place(k + 1)]
        BY <1>4, <2>2, <4>1
      <4> QED
        BY <1>3, <2>3, <2>5, <4>1, <4>2
    <3> QED
      BY <3>1
  <2>7. Oldest'[n] = id
    <3>1. n \in 1..n /\ pos \in 0..Window - 1
      BY <1>6, WindowAssumption DEF RingInv
    <3> QED
      BY <1>4, <2>4, <2>5, <3>1
  <2>8. Tail(Oldest) \in Seq(Ids) /\ Len(Tail(Oldest)) = n - 1
        /\ \A k \in 1..n - 1 : Tail(Oldest)[k] = Oldest[k + 1]
    <3>1. Oldest # <<>>
      BY <1>3, <1>6, WindowAssumption
    <3> QED
      BY <1>3, <3>1, HeadTailProperties
  <2>9. Oldest' \in Seq(Ids) /\ Len(Oldest') = n
    <3>1. \A k \in 1..n : Oldest'[k] \in Ids
      BY <1>3, <2>6, <2>7
    <3>2. Oldest' = [k \in 1..n |-> Oldest'[k]]
      BY <2>5
    <3> QED
      BY <3>1, <3>2, FunctionIsSeq
  <2>10. Oldest' = Append(Tail(Oldest), id)
    <3>1. /\ Append(Tail(Oldest), id) \in Seq(Ids) /\ Len(Append(Tail(Oldest), id)) = n
          /\ \A k \in 1..n - 1 : Append(Tail(Oldest), id)[k] = Tail(Oldest)[k]
          /\ Append(Tail(Oldest), id)[n] = id
      BY <1>6, <2>8, AppendProperties, WindowAssumption
    <3>2. \A k \in 1..Len(Oldest') : Oldest'[k] = Append(Tail(Oldest), id)[k]
      BY <2>6, <2>7, <2>8, <2>9, <3>1
    <3> QED
      BY <2>9, <3>1, <3>2, SeqEqual
  <2> QED
    <3>1. ~(Len(Oldest) < Window)
      BY <1>3, <1>6, WindowAssumption
    <3> QED
      BY <2>10, <3>1
<1>7. n < Window \/ n = Window
  BY WindowAssumption
<1> QED
  BY <1>5, <1>6, <1>7

\* The ring of dedup.go refuses exactly the last Window IDs it accepted, for
\* any window size and any IDs, 0 included.
THEOREM RingImplementsWindow == DedupSpec => RecentSpec
<1>1. DedupInit => RingInv /\ Recent!Init
  <2> SUFFICES ASSUME DedupInit PROVE RingInv /\ Recent!Init
    OBVIOUS
  <2>1. RingInv
    BY WindowAssumption, ZeroAssumption DEF DedupInit, RingInv
  <2>2. Recent!Init
    BY DEF DedupInit, Recent!Init, NoAnswer, Recent!NoVerdict
  <2> QED
    BY <2>1, <2>2
<1>2. RingInv /\ [DedupNext]_dedupVars => RingInv'
  BY RingInvariance
<1>3. RingInv /\ [DedupNext]_dedupVars => [Recent!Next]_Recent!recentVars
  <2> SUFFICES ASSUME RingInv, [DedupNext]_dedupVars PROVE [Recent!Next]_Recent!recentVars
    OBVIOUS
  <2>1. /\ {Oldest[k] : k \in 1..Len(Oldest)} = Recent!Known
        /\ Recent!recentVars = <<Oldest, answer>>
    BY DEF Oldest, Recent!Known, Recent!recentVars
  <2>2. ASSUME NEW id \in Ids, id \in Scanned, answer' = Answer(id, TRUE),
               UNCHANGED <<ids, pos, seen>>
        PROVE  Recent!Next
    <3>1. Recent!Refuse(id)
      BY <2>1, <2>2, OldestFacts DEF Recent!Refuse, Recent!Verdict, Answer, Place
    <3> QED
      BY <3>1 DEF Recent!Next
  <2>3. ASSUME NEW id \in Ids, id \notin Scanned, answer' = Answer(id, FALSE), Record(id)
        PROVE  Recent!Next
    <3>1. Oldest' = IF Len(Oldest) < Window THEN Append(Oldest, id) ELSE Append(Tail(Oldest), id)
      BY <2>3, RecordAppends
    <3>2. Recent!Accept(id)
      BY <2>1, <2>3, <3>1, OldestFacts DEF Recent!Accept, Recent!Verdict, Answer, Oldest
    <3> QED
      BY <3>2 DEF Recent!Next
  <2>4. CASE UNCHANGED dedupVars
    BY <2>4 DEF dedupVars, Recent!recentVars, Place
  <2> QED
    BY <2>2, <2>3, <2>4 DEF DedupNext, Seen
<1> QED
  BY <1>1, <1>2, <1>3, PTL DEF DedupSpec, RecentSpec, Recent!Spec

-----------------------------------------------------------------------------
(* The legs around it.                                                      *)

\* Only packets that were sent are under way.
SendersOK == /\ next \in [Peers -> 0..MaxIssued]
             /\ writing \in [Peers -> [1..Writers -> [n : 0..MaxIssued, todo : SUBSET Lanes]]]
             /\ \A p \in Peers, w \in 1..Writers : writing[p][w].todo # {} => writing[p][w].n \in Packets
LanesOK == lane \in [Peers -> [Lanes -> Seq(Packets)]]

LEMMA SendersStep == SendersOK /\ [Next]_vars => SendersOK'
<1> SUFFICES ASSUME SendersOK, [Next]_vars PROVE SendersOK'
  OBVIOUS
<1>1. ASSUME NEW p \in Peers, NEW w \in 1..Writers, Broadcast(p, w) PROVE SendersOK'
  <2>1. next[p] + 1 \in 0..MaxIssued /\ next[p] + 1 \in Packets
    BY <1>1, FanOutAssumption DEF Broadcast, SendersOK, Packets
  <2> QED
    BY <1>1, <2>1 DEF Broadcast, SendersOK
<1>2. ASSUME NEW p \in Peers, NEW w \in 1..Writers, NEW l \in Lanes, WriteLane(p, w, l)
      PROVE  SendersOK'
  <2> DEFINE R == [n : 0..MaxIssued, todo : SUBSET Lanes]
  <2>0. writing \in [Peers -> [1..Writers -> R]]
    BY DEF SendersOK
  <2>1. writing[p] \in [1..Writers -> R] /\ writing[p][w] \in R
    <3> HIDE DEF R
    <3> QED
      BY <2>0
  <2>2. [writing[p][w] EXCEPT !.todo = @ \ {l}] \in R
    BY <2>1
  <2>3. /\ writing' = [writing EXCEPT ![p] = [writing[p] EXCEPT
                                     ![w] = [writing[p][w] EXCEPT !.todo = @ \ {l}]]]
        /\ next' = next
    BY <1>2 DEF WriteLane
  <2> HIDE DEF R
  <2>4. writing' \in [Peers -> [1..Writers -> R]]
    BY <2>1, <2>2, <2>3 DEF SendersOK, R
  <2>5. ASSUME NEW q \in Peers, NEW v \in 1..Writers, writing'[q][v].todo # {}
        PROVE  writing'[q][v].n \in Packets
    <3>1. CASE q = p /\ v = w
      <4>1. writing[p][w].todo # {} /\ writing[p][w].n \in Packets
        BY <1>2 DEF WriteLane, SendersOK
      <4>2. writing'[p][w] = [writing[p][w] EXCEPT !.todo = @ \ {l}]
        BY <2>1, <2>3 DEF SendersOK
      <4>3. writing'[p][w].n = writing[p][w].n
        BY <2>1, <4>2 DEF R
      <4> QED
        BY <3>1, <4>1, <4>3
    <3>2. CASE ~(q = p /\ v = w)
      <4>1. writing'[q][v] = writing[q][v]
        BY <2>1, <2>3, <3>2 DEF SendersOK
      <4> QED
        BY <2>5, <4>1 DEF SendersOK
    <3> QED
      BY <3>1, <3>2
  <2> QED
    BY <2>3, <2>4, <2>5 DEF SendersOK, R
<1>3. ASSUME NEW p \in Peers, NEW l \in Lanes, LoseLane(p, l) PROVE SendersOK'
  <2> DEFINE R == [n : 0..MaxIssued, todo : SUBSET Lanes]
             kept == [w \in 1..Writers |-> [writing[p][w] EXCEPT !.todo = @ \ {l}]]
  <2>0. writing \in [Peers -> [1..Writers -> R]]
    BY DEF SendersOK
  <2>1. /\ writing[p] \in [1..Writers -> R]
        /\ \A w \in 1..Writers : writing[p][w] \in R
    <3> HIDE DEF R
    <3> QED
      BY <2>0
  <2>2. \A w \in 1..Writers : [writing[p][w] EXCEPT !.todo = @ \ {l}] \in R
    BY <2>1
  <2>3. kept \in [1..Writers -> R]
    BY <2>2
  <2>4. writing' = [writing EXCEPT ![p] = kept] /\ next' = next
    BY <1>3 DEF LoseLane
  <2>5. \A w \in 1..Writers : kept[w].n = writing[p][w].n /\ kept[w].todo \subseteq writing[p][w].todo
    BY <2>1
  <2> HIDE DEF R, kept
  <2>6. writing' \in [Peers -> [1..Writers -> R]]
    BY <2>3, <2>4 DEF SendersOK, R
  <2>7. ASSUME NEW q \in Peers, NEW v \in 1..Writers, writing'[q][v].todo # {}
        PROVE  writing'[q][v].n \in Packets
    <3>1. CASE q = p
      BY <2>4, <2>5, <2>7, <3>1 DEF SendersOK
    <3>2. CASE q # p
      BY <2>4, <2>7, <3>2 DEF SendersOK
    <3> QED
      BY <3>1, <3>2
  <2> QED
    BY <2>4, <2>6, <2>7 DEF SendersOK, R
<1>4. CASE next' = next /\ writing' = writing
  BY <1>4, Zenon DEF SendersOK
<1> QED
  BY <1>1, <1>2, <1>3, <1>4 DEF Next, Deliver, Finished, vars

LEMMA LanesStep == SendersOK /\ LanesOK /\ [Next]_vars => LanesOK'
<1> SUFFICES ASSUME SendersOK, LanesOK, [Next]_vars PROVE LanesOK'
  OBVIOUS
<1>1. ASSUME NEW p \in Peers, NEW w \in 1..Writers, NEW l \in Lanes, WriteLane(p, w, l)
      PROVE  LanesOK'
  <2>1. lane[p][l] \in Seq(Packets) /\ writing[p][w].n \in Packets
    BY <1>1 DEF WriteLane, SendersOK, LanesOK
  <2>2. Append(lane[p][l], writing[p][w].n) \in Seq(Packets)
    BY <2>1
  <2> QED
    BY <1>1, <2>2 DEF WriteLane, LanesOK
<1>2. ASSUME NEW p \in Peers, NEW l \in Lanes, Deliver(p, l) PROVE LanesOK'
  <2>1. lane[p][l] \in Seq(Packets) /\ lane[p][l] # <<>>
    BY <1>2 DEF Deliver, LanesOK
  <2>2. Tail(lane[p][l]) \in Seq(Packets)
    BY <2>1
  <2> QED
    BY <1>2, <2>2 DEF Deliver, LanesOK
<1>3. ASSUME NEW p \in Peers, NEW l \in Lanes, LoseLane(p, l) PROVE LanesOK'
  <2>1. <<>> \in Seq(Packets)
    OBVIOUS
  <2> QED
    BY <1>3, <2>1 DEF LoseLane, LanesOK
<1>4. ASSUME NEW p \in Peers, NEW w \in 1..Writers, Broadcast(p, w) PROVE LanesOK'
  BY <1>4 DEF Broadcast, LanesOK
<1>5. CASE UNCHANGED vars
  BY <1>5 DEF vars, LanesOK
<1> QED
  BY <1>1, <1>2, <1>3, <1>4, <1>5 DEF Next, Finished

\* Every step of the legs either asks the ring once, or leaves it alone.
LEMMA StepIsDedupStep == LanesOK /\ [Next]_vars => [DedupNext]_dedupVars
<1> SUFFICES ASSUME LanesOK, [Next]_vars PROVE [DedupNext]_dedupVars
  OBVIOUS
<1>1. ASSUME NEW p \in Peers, NEW l \in Lanes, Deliver(p, l) PROVE DedupNext
  <2>1. lane[p][l] \in Seq(Packets) /\ lane[p][l] # <<>>
    BY <1>1 DEF Deliver, LanesOK
  <2>2. Head(lane[p][l]) \in Packets
    BY <2>1
  <2>3. IdOf(Head(lane[p][l])) \in Ids
    BY <2>2, FanOutAssumption DEF Packets, IdOf
  <2> QED
    BY <1>1, <2>3 DEF Deliver, DedupNext
<1>2. CASE UNCHANGED dedupVars
  BY <1>2
<1> QED
  BY <1>1, <1>2 DEF Next, Broadcast, WriteLane, LoseLane, Finished, vars

\* The shared ring implements the abstract window whatever the legs do: for any
\* number of peers, legs and writers, any leg capacity and any window size.
THEOREM LegsShareWindow == Spec => RecentSpec
<1>1. Init => DedupInit /\ SendersOK /\ LanesOK
  <2> SUFFICES ASSUME Init PROVE DedupInit /\ SendersOK /\ LanesOK
    OBVIOUS
  <2>1. SendersOK
    BY FanOutAssumption DEF Init, SendersOK
  <2>2. LanesOK
    BY DEF Init, LanesOK
  <2> QED
    BY <2>1, <2>2 DEF Init
<1>2. Spec => DedupSpec
  BY <1>1, SendersStep, LanesStep, StepIsDedupStep, PTL DEF Spec, DedupSpec
<1> QED
  BY <1>2, RingImplementsWindow

-----------------------------------------------------------------------------
(* Types, with the ring.                                                    *)

HistoryOK == processed \in [Peers -> [Packets -> 0..2]]
FanTypes == RingInv /\ SendersOK /\ LanesOK /\ HistoryOK

\* What Deliver does, case by case: within the bound, an ID is its packet.
LEMMA DeliverCases ==
    ASSUME FanTypes, NEW p \in Peers, NEW l \in Lanes, Deliver(p, l),
           NEW n, n = Head(lane[p][l])
    PROVE  /\ n \in Packets /\ n \in Ids /\ lane[p][l] # <<>>
           /\ \/ n \in Scanned /\ UNCHANGED <<ids, pos, seen, processed>>
              \/ /\ n \notin Scanned /\ Record(n)
                 /\ processed[p][n] = 2 => processed' = processed
                 /\ processed[p][n] # 2 => processed' = [processed EXCEPT ![p][n] = @ + 1]
<1>1. n \in Packets /\ lane[p][l] # <<>>
  <2>1. lane[p][l] \in Seq(Packets) /\ lane[p][l] # <<>>
    BY DEF Deliver, FanTypes, LanesOK
  <2> QED
    BY <2>1
<1>2. IdOf(n) = n /\ n \in Ids
  <2>1. n \in Nat /\ n < IdSpace
    BY <1>1, FanOutAssumption DEF Packets
  <2>2. n % IdSpace = n
    BY <2>1, FanOutAssumption
  <2> QED
    BY <1>1, <2>2, FanOutAssumption DEF Packets, IdOf
<1>3. /\ Seen(n)
      /\ answer'.dup \/ processed[p][n] = 2 => processed' = processed
      /\ ~(answer'.dup \/ processed[p][n] = 2) => processed' = [processed EXCEPT ![p][n] = @ + 1]
  BY <1>2 DEF Deliver
<1>4. CASE n \in Scanned
  <2>1. answer' = Answer(n, TRUE) /\ UNCHANGED <<ids, pos, seen>>
    BY <1>3, <1>4 DEF Seen
  <2>2. answer'.dup
    BY <2>1 DEF Answer
  <2> QED
    BY <1>1, <1>2, <1>3, <1>4, <2>1, <2>2
<1>5. CASE n \notin Scanned
  <2>1. answer' = Answer(n, FALSE) /\ Record(n)
    BY <1>3, <1>5 DEF Seen
  <2>2. ~answer'.dup
    BY <2>1 DEF Answer
  <2> QED
    BY <1>1, <1>2, <1>3, <1>5, <2>1, <2>2
<1> QED
  BY <1>4, <1>5

LEMMA HistoryStep == FanTypes /\ [Next]_vars => HistoryOK'
<1> SUFFICES ASSUME FanTypes, [Next]_vars PROVE HistoryOK'
  OBVIOUS
<1>1. ASSUME NEW p \in Peers, NEW l \in Lanes, Deliver(p, l) PROVE HistoryOK'
  <2>1. PICK n : n = Head(lane[p][l])
    OBVIOUS
  <2>2. n \in Packets
    BY <1>1, <2>1, DeliverCases
  <2>3. \/ processed' = processed
        \/ processed[p][n] # 2 /\ processed' = [processed EXCEPT ![p][n] = @ + 1]
    BY <1>1, <2>1, DeliverCases
  <2>4. processed[p][n] # 2 => processed[p][n] + 1 \in 0..2
    BY <2>2 DEF FanTypes, HistoryOK
  <2> QED
    BY <2>2, <2>3, <2>4 DEF FanTypes, HistoryOK
<1>2. CASE processed' = processed
  BY <1>2 DEF FanTypes, HistoryOK
<1> QED
  BY <1>1, <1>2 DEF Next, Broadcast, WriteLane, LoseLane, Finished, vars

LEMMA FanTypesInvariance == Spec => []FanTypes
<1>1. Init => FanTypes
  <2> SUFFICES ASSUME Init PROVE FanTypes
    OBVIOUS
  <2>1. RingInv
    BY WindowAssumption, ZeroAssumption DEF Init, DedupInit, RingInv
  <2>2. SendersOK
    BY FanOutAssumption DEF Init, SendersOK
  <2>3. LanesOK /\ HistoryOK
    BY DEF Init, LanesOK, HistoryOK
  <2> QED
    BY <2>1, <2>2, <2>3 DEF FanTypes
<1>2. FanTypes /\ [Next]_vars => FanTypes'
  BY SendersStep, LanesStep, HistoryStep, StepIsDedupStep, RingInvariance DEF FanTypes
<1> QED
  BY <1>1, <1>2, PTL DEF Spec

\* A write waits for room: no leg holds more than its buffer.
RoomLeft == \A p \in Peers, l \in Lanes : Len(lane[p][l]) <= LaneCap

LEMMA RoomStep == FanTypes /\ RoomLeft /\ [Next]_vars => RoomLeft'
<1> SUFFICES ASSUME FanTypes, RoomLeft, [Next]_vars, NEW q \in Peers, NEW k \in Lanes
             PROVE  Len(lane'[q][k]) <= LaneCap
  BY DEF RoomLeft
<1>1. lane \in [Peers -> [Lanes -> Seq(Packets)]] /\ lane[q][k] \in Seq(Packets)
  BY DEF FanTypes, LanesOK
<1>2. Len(lane[q][k]) <= LaneCap /\ Len(lane[q][k]) \in Nat /\ LaneCap \in Nat
  BY <1>1, FanOutAssumption DEF RoomLeft
<1>3. ASSUME NEW p \in Peers, NEW w \in 1..Writers, NEW l \in Lanes, WriteLane(p, w, l)
      PROVE  Len(lane'[q][k]) <= LaneCap
  <2>1. CASE q = p /\ k = l
    <3>1. writing[p][w].n \in Packets
      BY <1>3 DEF WriteLane, FanTypes, SendersOK
    <3>2. lane'[q][k] = Append(lane[q][k], writing[p][w].n) /\ Len(lane[q][k]) < LaneCap
      BY <1>1, <1>3, <2>1 DEF WriteLane
    <3> QED
      BY <1>1, <1>2, <3>1, <3>2
  <2>2. CASE ~(q = p /\ k = l)
    <3>1. lane'[q][k] = lane[q][k]
      BY <1>1, <1>3, <2>2 DEF WriteLane
    <3> QED
      BY <1>2, <3>1
  <2> QED
    BY <2>1, <2>2
<1>4. ASSUME NEW p \in Peers, NEW l \in Lanes, Deliver(p, l)
      PROVE  Len(lane'[q][k]) <= LaneCap
  <2>1. CASE q = p /\ k = l
    <3>1. lane[q][k] # <<>> /\ lane'[q][k] = Tail(lane[q][k])
      BY <1>1, <1>4, <2>1 DEF Deliver
    <3>2. Len(Tail(lane[q][k])) = Len(lane[q][k]) - 1
      BY <1>1, <3>1
    <3> QED
      BY <1>2, <3>1, <3>2
  <2>2. CASE ~(q = p /\ k = l)
    <3>1. lane'[q][k] = lane[q][k]
      BY <1>1, <1>4, <2>2 DEF Deliver
    <3> QED
      BY <1>2, <3>1
  <2> QED
    BY <2>1, <2>2
<1>5. ASSUME NEW p \in Peers, NEW l \in Lanes, LoseLane(p, l)
      PROVE  Len(lane'[q][k]) <= LaneCap
  <2>1. lane'[q][k] = <<>> \/ lane'[q][k] = lane[q][k]
    BY <1>1, <1>5 DEF LoseLane
  <2> QED
    BY <1>2, <2>1
<1>6. CASE UNCHANGED lane
  BY <1>2, <1>6
<1> QED
  BY <1>3, <1>4, <1>5, <1>6 DEF Next, Broadcast, Finished, vars

\* The types of FanOut, with the buffers of the legs never exceeded: for any
\* number of peers, legs and writers.
THEOREM FanOutTyped == Spec => []TypeOK
<1>1. Init => RoomLeft
  BY FanOutAssumption DEF Init, RoomLeft
<1>2. FanTypes /\ RoomLeft => TypeOK
  <2> SUFFICES ASSUME FanTypes, RoomLeft PROVE TypeOK
    OBVIOUS
  <2>1. /\ ids \in [0..Window - 1 -> Ids] /\ pos \in 0..Window - 1 /\ seen \in 0..Window
        /\ next \in [Peers -> 0..MaxIssued]
    BY DEF FanTypes, RingInv, SendersOK
  <2>2. ASSUME NEW p \in Peers
        PROVE  /\ \A l \in Lanes : lane[p][l] \in Seq(Packets) /\ Len(lane[p][l]) <= LaneCap
               /\ processed[p] \in [Packets -> 0..2]
    BY DEF FanTypes, LanesOK, HistoryOK, RoomLeft
  <2> QED
    BY <2>1, <2>2 DEF TypeOK
<1> QED
  BY <1>1, <1>2, RoomStep, FanTypesInvariance, PTL DEF Spec

-----------------------------------------------------------------------------
(* With one peer, only what was handled is refused.                         *)

OnePeer == \E p : Peers = {p}

\* Recording an ID, entry by entry.
LEMMA OldestAfterRecord ==
    ASSUME RingInv, NEW id \in Ids, Record(id)
    PROVE  /\ seen \in Nat /\ seen' \in Nat \ {0} /\ Oldest'[seen'] = id
           /\ \/ seen < Window /\ seen' = seen + 1 /\ \A k \in 1..seen : Oldest'[k] = Oldest[k]
              \/ seen = Window /\ seen' = seen /\ \A k \in 1..seen - 1 : Oldest'[k] = Oldest[k + 1]
<1>1. Oldest \in Seq(Ids) /\ Len(Oldest) = seen /\ seen \in 0..Window
  BY OldestFacts DEF RingInv
<1>2. Oldest' = IF Len(Oldest) < Window THEN Append(Oldest, id) ELSE Append(Tail(Oldest), id)
  BY RecordAppends
<1>3. CASE seen < Window
  <2>1. seen' = seen + 1
    BY <1>3 DEF Record
  <2>2. Oldest' = Append(Oldest, id)
    BY <1>1, <1>2, <1>3
  <2>3. Oldest'[seen + 1] = id /\ \A k \in 1..seen : Oldest'[k] = Oldest[k]
    BY <1>1, <2>2, AppendProperties
  <2> QED
    BY <1>1, <1>3, <2>1, <2>3
<1>4. CASE seen = Window
  <2>1. seen' = seen
    BY <1>4, WindowAssumption DEF Record
  <2>2. Oldest' = Append(Tail(Oldest), id)
    BY <1>1, <1>2, <1>4, WindowAssumption
  <2>3. /\ Tail(Oldest) \in Seq(Ids) /\ Len(Tail(Oldest)) = seen - 1
        /\ \A k \in 1..seen - 1 : Tail(Oldest)[k] = Oldest[k + 1]
    <3>1. Oldest # <<>>
      BY <1>1, <1>4, WindowAssumption
    <3> QED
      BY <1>1, <3>1, HeadTailProperties
  <2>4. Oldest'[seen] = id /\ \A k \in 1..seen - 1 : Oldest'[k] = Tail(Oldest)[k]
    BY <1>1, <1>4, <2>2, <2>3, AppendProperties, WindowAssumption
  <2> QED
    BY <1>1, <1>4, <2>1, <2>3, <2>4, WindowAssumption
<1> QED
  BY <1>1, <1>3, <1>4, WindowAssumption

\* Every ID in the ring is a packet that was handled.
SeenWasHandled ==
    \A p \in Peers, k \in 1..seen : Oldest[k] \in Packets /\ processed[p][Oldest[k]] # 0

LEMMA SeenWasHandledStep ==
    ASSUME OnePeer, FanTypes, SeenWasHandled, [Next]_vars
    PROVE  SeenWasHandled'
<1>1. ASSUME NEW p \in Peers, NEW l \in Lanes, Deliver(p, l) PROVE SeenWasHandled'
  <2>1. PICK n : n = Head(lane[p][l])
    OBVIOUS
  <2>2. n \in Packets /\ n \in Ids
    BY <1>1, <2>1, DeliverCases
  <2>3. CASE n \in Scanned /\ UNCHANGED <<ids, pos, seen, processed>>
    BY <2>3 DEF SeenWasHandled, Oldest, Place
  <2>4. CASE /\ n \notin Scanned /\ Record(n)
             /\ processed[p][n] = 2 => processed' = processed
             /\ processed[p][n] # 2 => processed' = [processed EXCEPT ![p][n] = @ + 1]
    <3>1. processed'[p][n] # 0 /\ \A m \in Packets : processed[p][m] # 0 => processed'[p][m] # 0
      BY <2>2, <2>4 DEF FanTypes, HistoryOK
    <3>2. /\ seen \in Nat /\ seen' \in Nat \ {0} /\ Oldest'[seen'] = n
          /\ \/ seen < Window /\ seen' = seen + 1 /\ \A k \in 1..seen : Oldest'[k] = Oldest[k]
             \/ seen = Window /\ seen' = seen /\ \A k \in 1..seen - 1 : Oldest'[k] = Oldest[k + 1]
      BY <2>2, <2>4, OldestAfterRecord DEF FanTypes
    <3>3. \A k \in 1..seen' : Oldest'[k] \in Packets /\ processed'[p][Oldest'[k]] # 0
      <4> SUFFICES ASSUME NEW k \in 1..seen'
                   PROVE  Oldest'[k] \in Packets /\ processed'[p][Oldest'[k]] # 0
        OBVIOUS
      <4>1. CASE k = seen'
        BY <2>2, <3>1, <3>2, <4>1
      <4>2. CASE k # seen'
        <5>1. \E j \in 1..seen : Oldest'[k] = Oldest[j]
          BY <3>2, <4>2
        <5> QED
          BY <3>1, <5>1 DEF SeenWasHandled
      <4> QED
        BY <4>1, <4>2
    <3>4. \A q \in Peers : q = p
      BY OnePeer DEF OnePeer
    <3> QED
      BY <3>3, <3>4 DEF SeenWasHandled
  <2> QED
    BY <1>1, <2>1, <2>3, <2>4, DeliverCases
<1>2. CASE UNCHANGED <<ids, pos, seen, processed>>
  BY <1>2 DEF SeenWasHandled, Oldest, Place
<1> QED
  BY <1>1, <1>2 DEF Next, Broadcast, WriteLane, LoseLane, Finished, vars, dedupVars

LEMMA SeenWasHandledInvariance == ASSUME OnePeer PROVE Spec => []SeenWasHandled
<1>1. Init => SeenWasHandled
  BY DEF Init, DedupInit, SeenWasHandled
<1>2. FanTypes /\ SeenWasHandled /\ [Next]_vars => SeenWasHandled'
  BY SeenWasHandledStep
<1> QED
  BY <1>1, <1>2, FanTypesInvariance, PTL DEF Spec

\* A peer's packet that arrives for the first time is handled, on whichever leg
\* and however the legs lag or break, as long as it is the only peer: two number
\* their packets alike (docs/01-audit.md:111).
THEOREM FirstArrivalHandled == ASSUME OnePeer PROVE Spec => FreshIsProcessed
<1>1. ASSUME FanTypes, SeenWasHandled, NEW p \in Peers, NEW l \in Lanes,
             Deliver(p, l), processed[p][Head(lane[p][l])] = 0
      PROVE  processed'[p][Head(lane[p][l])] = 1
  <2>1. PICK n : n = Head(lane[p][l])
    OBVIOUS
  <2>2. n \in Packets
    BY <1>1, <2>1, DeliverCases
  <2>3. n \notin Scanned
    <3>1. {Oldest[k] : k \in 1..seen} = Scanned
      BY <1>1, OldestFacts DEF FanTypes
    <3> QED
      BY <1>1, <2>1, <3>1 DEF SeenWasHandled
  <2>4. processed' = [processed EXCEPT ![p][n] = @ + 1]
    BY <1>1, <2>1, <2>3, DeliverCases
  <2> QED
    BY <1>1, <2>1, <2>2, <2>4 DEF FanTypes, HistoryOK
<1>2. FanTypes /\ SeenWasHandled =>
        [\A p \in Peers, l \in Lanes :
           Deliver(p, l) /\ processed[p][Head(lane[p][l])] = 0
             => processed'[p][Head(lane[p][l])] = 1]_vars
  BY <1>1
<1> QED
  BY <1>2, FanTypesInvariance, SeenWasHandledInvariance, PTL DEF Spec, FreshIsProcessed

-----------------------------------------------------------------------------
(* One broadcast at a time and a window that spans two legs.                *)

OneAtATime == Writers = 1
WideWindow == Window > 2 * LaneCap

\* With one writer the packets of a leg follow on one another up to the last one
\* broadcast, or to the one before when the last still has to be written to it.
Last(p, l) == IF l \in writing[p][1].todo THEN next[p] - 1 ELSE next[p]
LanesInStep ==
    \A p \in Peers : /\ writing[p][1].n = next[p]
                     /\ \A l \in Lanes :
                           /\ Len(lane[p][l]) <= LaneCap
                           /\ \A i \in 1..Len(lane[p][l]) :
                                 lane[p][l][i] = Last(p, l) - Len(lane[p][l]) + i

\* Packet n is still on its way to us, on some leg.
Pending(p, n) == \/ \E l \in Lanes : \E i \in 1..Len(lane[p][l]) : lane[p][l][i] = n
                 \/ writing[p][1].todo # {} /\ n = next[p]

\* What the window holds of the packets: they were sent, they differ, and a later
\* one is at most LaneCap numbers behind an earlier one.
Spread ==
    \A p \in Peers :
        /\ \A k \in 1..seen : Oldest[k] \in 1..next[p]
        /\ \A j, k \in 1..seen : j < k => /\ Oldest[j] # Oldest[k]
                                         /\ Oldest[k] >= Oldest[j] - LaneCap

\* A packet that was handled and is still on its way is in the window.
PendingIsKnown ==
    \A p \in Peers, n \in Packets :
        /\ processed[p][n] # 0 => n <= next[p]
        /\ processed[p][n] # 0 /\ Pending(p, n) => n \in Scanned

LagInv == LanesInStep /\ Spread /\ PendingIsKnown /\ ProcessedOnce

LEMMA TailIsShift ==
    ASSUME NEW S, NEW q \in Seq(S), q # <<>>
    PROVE  /\ Len(q) \in Nat \ {0} /\ Len(Tail(q)) = Len(q) - 1 /\ Head(q) = q[1]
           /\ \A i \in 1..Len(q) - 1 : Tail(q)[i] = q[i + 1]
<1>1. Len(q) \in Nat \ {0} /\ Head(q) = q[1] /\ Tail(q) \in Seq(S) /\ Len(Tail(q)) = Len(q) - 1
      /\ \A i \in 1..Len(Tail(q)) : Tail(q)[i] = q[i + 1]
  BY HeadTailProperties
<1> QED
  BY <1>1

LEMMA AppendAtEnd ==
    ASSUME NEW S, NEW q \in Seq(S), NEW x \in S
    PROVE  /\ Len(q) \in Nat /\ Len(Append(q, x)) = Len(q) + 1 /\ Append(q, x)[Len(q) + 1] = x
           /\ \A i \in 1..Len(q) : Append(q, x)[i] = q[i]
  BY AppendProperties

\* What a step changes of the senders and lanes, with the only writer.
LEMMA OneWriter ==
    ASSUME OneAtATime, NEW w \in 1..Writers
    PROVE  w = 1
  BY DEF OneAtATime

\* The steps on peer p, one leg at a time.
LEMMA BroadcastFacts ==
    ASSUME OneAtATime, FanTypes, NEW p \in Peers, Broadcast(p, 1)
    PROVE  /\ writing[p][1].todo = {} /\ lane' = lane
           /\ next'[p] = next[p] + 1 /\ next[p] \in Nat
           /\ writing'[p][1].n = next[p] + 1 /\ writing'[p][1].todo = Lanes
           /\ \A q \in Peers \ {p} : next'[q] = next[q] /\ writing'[q] = writing[q]
<1>1. 1 \in 1..Writers
  BY DEF OneAtATime
<1> QED
  BY <1>1, FanOutAssumption DEF Broadcast, FanTypes, SendersOK

LEMMA WriteLaneFacts ==
    ASSUME OneAtATime, FanTypes, NEW p \in Peers, NEW l \in Lanes, WriteLane(p, 1, l)
    PROVE  /\ l \in writing[p][1].todo /\ next' = next /\ Len(lane[p][l]) < LaneCap
           /\ writing[p][1].n \in Packets
           /\ writing'[p][1].n = writing[p][1].n /\ writing'[p][1].todo = writing[p][1].todo \ {l}
           /\ lane'[p][l] = Append(lane[p][l], writing[p][1].n)
           /\ \A k \in Lanes \ {l} : lane'[p][k] = lane[p][k]
           /\ \A q \in Peers \ {p} : writing'[q] = writing[q] /\ lane'[q] = lane[q]
<1>1. 1 \in 1..Writers
  BY DEF OneAtATime
<1>2. lane'[p][l] = Append(lane[p][l], writing[p][1].n)
  BY DEF WriteLane, FanTypes, LanesOK
<1>3. /\ \A k \in Lanes \ {l} : lane'[p][k] = lane[p][k]
      /\ \A q \in Peers \ {p} : writing'[q] = writing[q] /\ lane'[q] = lane[q]
  BY DEF WriteLane, FanTypes, LanesOK, SendersOK
<1>4. /\ writing'[p][1].n = writing[p][1].n /\ writing'[p][1].todo = writing[p][1].todo \ {l}
  <2>1. writing[p] \in [1..Writers -> [n : 0..MaxIssued, todo : SUBSET Lanes]]
    BY DEF FanTypes, SendersOK
  <2>2. writing'[p][1] = [writing[p][1] EXCEPT !.todo = @ \ {l}]
    BY <1>1, <2>1 DEF WriteLane, FanTypes, SendersOK
  <2>3. writing[p][1] \in [n : 0..MaxIssued, todo : SUBSET Lanes]
    BY <1>1, <2>1
  <2> QED
    BY <2>2, <2>3
<1>5. l \in writing[p][1].todo /\ next' = next /\ Len(lane[p][l]) < LaneCap
  BY DEF WriteLane
<1>6. writing[p][1].n \in Packets
  BY <1>1, <1>5 DEF FanTypes, SendersOK
<1> QED
  BY <1>2, <1>3, <1>4, <1>5, <1>6

LEMMA DeliverFacts ==
    ASSUME FanTypes, NEW p \in Peers, NEW l \in Lanes, Deliver(p, l)
    PROVE  /\ lane[p][l] \in Seq(Packets) /\ lane[p][l] # <<>>
           /\ lane'[p][l] = Tail(lane[p][l]) /\ next' = next /\ writing' = writing
           /\ \A k \in Lanes \ {l} : lane'[p][k] = lane[p][k]
           /\ \A q \in Peers \ {p} : lane'[q] = lane[q]
  BY DEF Deliver, FanTypes, LanesOK

LEMMA LoseLaneFacts ==
    ASSUME OneAtATime, FanTypes, NEW p \in Peers, NEW l \in Lanes, LoseLane(p, l)
    PROVE  /\ lane'[p][l] = <<>> /\ next' = next
           /\ writing'[p][1].n = writing[p][1].n /\ writing'[p][1].todo = writing[p][1].todo \ {l}
           /\ \A k \in Lanes \ {l} : lane'[p][k] = lane[p][k]
           /\ \A q \in Peers \ {p} : writing'[q] = writing[q] /\ lane'[q] = lane[q]
<1>1. 1 \in 1..Writers
  BY DEF OneAtATime
<1>2. /\ lane'[p][l] = <<>> /\ next' = next
      /\ \A k \in Lanes \ {l} : lane'[p][k] = lane[p][k]
      /\ \A q \in Peers \ {p} : writing'[q] = writing[q] /\ lane'[q] = lane[q]
  BY DEF LoseLane, FanTypes, LanesOK, SendersOK
<1>3. writing'[p][1].n = writing[p][1].n /\ writing'[p][1].todo = writing[p][1].todo \ {l}
  <2>1. writing[p][1] \in [n : 0..MaxIssued, todo : SUBSET Lanes]
    <3> DEFINE R == [n : 0..MaxIssued, todo : SUBSET Lanes]
    <3>1. writing \in [Peers -> [1..Writers -> R]]
      BY DEF FanTypes, SendersOK
    <3> HIDE DEF R
    <3>2. writing[p][1] \in R
      BY <1>1, <3>1
    <3> QED
      BY <3>2 DEF R
  <2>2. writing'[p][1] = [writing[p][1] EXCEPT !.todo = @ \ {l}]
    BY <1>1 DEF LoseLane, FanTypes, SendersOK
  <2> QED
    BY <2>1, <2>2
<1> QED
  BY <1>2, <1>3

LEMMA LanesInStepStep ==
    ASSUME OneAtATime, FanTypes, LanesInStep, [Next]_vars
    PROVE  LanesInStep'
<1> DEFINE Along(q, k) == /\ Len(lane[q][k]) <= LaneCap
                          /\ \A i \in 1..Len(lane[q][k]) :
                                lane[q][k][i] = Last(q, k) - Len(lane[q][k]) + i
<1>1. \A q \in Peers : writing[q][1].n = next[q] /\ next[q] \in Nat /\ \A k \in Lanes : Along(q, k)
  BY FanOutAssumption DEF LanesInStep, FanTypes, SendersOK
<1>2. \A q \in Peers, k \in Lanes : lane[q][k] \in Seq(Packets)
  BY DEF FanTypes, LanesOK
<1> SUFFICES \A q \in Peers : writing'[q][1].n = next'[q] /\ \A k \in Lanes : Along(q, k)'
  BY DEF LanesInStep
<1>3. ASSUME NEW p \in Peers, Broadcast(p, 1), NEW q \in Peers
      PROVE  writing'[q][1].n = next'[q] /\ \A k \in Lanes : Along(q, k)'
  <2>1. \A k \in Lanes : Last(q, k)' = Last(q, k)
    BY <1>1, <1>3, BroadcastFacts DEF Last
  <2>2. writing'[q][1].n = next'[q]
    BY <1>1, <1>3, BroadcastFacts
  <2>3. lane' = lane
    BY <1>3, BroadcastFacts
  <2> QED
    BY <1>1, <2>1, <2>2, <2>3
<1>4. ASSUME NEW p \in Peers, NEW l \in Lanes, WriteLane(p, 1, l), NEW q \in Peers
      PROVE  writing'[q][1].n = next'[q] /\ \A k \in Lanes : Along(q, k)'
  <2>1. writing'[q][1].n = next'[q]
    BY <1>1, <1>4, WriteLaneFacts
  <2>2. ASSUME NEW k \in Lanes, q # p \/ k # l PROVE Along(q, k)'
    <3>1. lane'[q][k] = lane[q][k] /\ Last(q, k)' = Last(q, k)
      BY <1>4, <2>2, WriteLaneFacts DEF Last
    <3> QED
      BY <1>1, <3>1
  <2>3. Along(p, l)'
    <3>1. Last(p, l) = next[p] - 1 /\ Last(p, l)' = next[p]
      BY <1>4, WriteLaneFacts DEF Last
    <3>2. PICK n : n = next[p] /\ n \in Packets /\ lane'[p][l] = Append(lane[p][l], n)
      BY <1>1, <1>4, WriteLaneFacts
    <3>3. PICK c : c = Len(lane[p][l])
      OBVIOUS
    <3>4. /\ c \in Nat /\ Len(lane'[p][l]) = c + 1 /\ lane'[p][l][c + 1] = n
          /\ \A i \in 1..c : lane'[p][l][i] = lane[p][l][i]
      BY <1>2, <3>2, <3>3, AppendAtEnd
    <3>5. c < LaneCap /\ n \in Nat /\ LaneCap \in Nat
      BY <1>4, <3>2, <3>3, WriteLaneFacts, FanOutAssumption DEF Packets
    <3>6. \A i \in 1..c : lane'[p][l][i] = n - 1 - c + i
      BY <1>1, <3>1, <3>2, <3>3, <3>4
    <3>7. \A i \in 1..c + 1 : lane'[p][l][i] = n - (c + 1) + i
      BY <3>4, <3>5, <3>6
    <3>8. Last(p, l)' = n /\ Len(lane'[p][l]) = c + 1 /\ c + 1 <= LaneCap
      BY <3>1, <3>2, <3>4, <3>5
    <3> QED
      BY <3>7, <3>8
  <2> QED
    BY <2>1, <2>2, <2>3
<1>5. ASSUME NEW p \in Peers, NEW l \in Lanes, Deliver(p, l), NEW q \in Peers
      PROVE  writing'[q][1].n = next'[q] /\ \A k \in Lanes : Along(q, k)'
  <2>1. writing'[q][1].n = next'[q] /\ \A k \in Lanes : Last(q, k)' = Last(q, k)
    BY <1>1, <1>5, DeliverFacts DEF Last
  <2>2. ASSUME NEW k \in Lanes, q # p \/ k # l PROVE Along(q, k)'
    <3>1. lane'[q][k] = lane[q][k]
      BY <1>5, <2>2, DeliverFacts
    <3> QED
      BY <1>1, <2>1, <3>1
  <2>3. ASSUME q = p PROVE Along(p, l)'
    <3>1. PICK c : c = Len(lane[p][l])
      OBVIOUS
    <3>2. /\ c \in Nat \ {0} /\ Len(lane'[p][l]) = c - 1
          /\ \A i \in 1..c - 1 : lane'[p][l][i] = lane[p][l][i + 1]
      <4>1. lane[p][l] \in Seq(Packets) /\ lane[p][l] # <<>> /\ lane'[p][l] = Tail(lane[p][l])
        BY <1>5, DeliverFacts
      <4> QED
        BY <3>1, <4>1, TailIsShift
    <3>3. c <= LaneCap /\ LaneCap \in Nat
      BY <1>1, <3>1, FanOutAssumption
    <3>4. PICK e : e = Last(p, l)
      OBVIOUS
    <3>5. e \in Int
      BY <1>1, <3>4 DEF Last
    <3>6. \A i \in 1..c : lane[p][l][i] = e - c + i
      BY <1>1, <3>1, <3>4
    <3>7. \A i \in 1..c - 1 : lane'[p][l][i] = e - (c - 1) + i
      BY <3>2, <3>5, <3>6
    <3> QED
      BY <2>1, <2>3, <3>2, <3>3, <3>4, <3>7
  <2> QED
    BY <2>1, <2>2, <2>3
<1>6. ASSUME NEW p \in Peers, NEW l \in Lanes, LoseLane(p, l), NEW q \in Peers
      PROVE  writing'[q][1].n = next'[q] /\ \A k \in Lanes : Along(q, k)'
  <2>1. writing'[q][1].n = next'[q]
    BY <1>1, <1>6, LoseLaneFacts
  <2>2. ASSUME NEW k \in Lanes, q # p \/ k # l PROVE Along(q, k)'
    <3>1. lane'[q][k] = lane[q][k] /\ Last(q, k)' = Last(q, k)
      BY <1>6, <2>2, LoseLaneFacts DEF Last
    <3> QED
      BY <1>1, <3>1
  <2>3. Along(p, l)'
    <3>1. lane'[p][l] = <<>> /\ Len(<<>>) = 0 /\ 0 <= LaneCap
      BY <1>6, LoseLaneFacts, FanOutAssumption
    <3> QED
      BY <3>1
  <2> QED
    BY <2>1, <2>2, <2>3
<1>7. CASE UNCHANGED vars
  BY <1>1, <1>7 DEF vars, Last
<1> QED
  BY <1>3, <1>4, <1>5, <1>6, <1>7, OneWriter DEF Next, Finished

\* What is on its way is among the last LaneCap + 1 packets.
LEMMA PendingIsRecent ==
    ASSUME OneAtATime, FanTypes, LanesInStep, NEW p \in Peers, NEW n \in Packets, Pending(p, n)
    PROVE  next[p] \in Nat /\ n <= next[p] /\ n >= next[p] - LaneCap
<1>1. next[p] \in Nat /\ LaneCap \in Nat /\ n \in Nat
  BY FanOutAssumption DEF FanTypes, SendersOK, Packets
<1>2. CASE \E l \in Lanes : \E i \in 1..Len(lane[p][l]) : lane[p][l][i] = n
  <2>0. PICK l \in Lanes : \E i \in 1..Len(lane[p][l]) : lane[p][l][i] = n
    BY <1>2
  <2>1. PICK i \in 1..Len(lane[p][l]) : lane[p][l][i] = n
    BY <2>0
  <2>2. PICK c : c = Len(lane[p][l])
    OBVIOUS
  <2>3. c \in Nat /\ c <= LaneCap /\ n = Last(p, l) - c + i /\ i \in 1..c
    BY <2>1, <2>2 DEF LanesInStep, FanTypes, LanesOK
  <2>4. Last(p, l) \in {next[p] - 1, next[p]}
    BY DEF Last
  <2> QED
    BY <1>1, <2>3, <2>4
<1>3. CASE n = next[p]
  BY <1>1, <1>3
<1> QED
  BY <1>2, <1>3 DEF Pending

\* Only Broadcast puts a packet on its way.
LEMMA PendingBefore ==
    ASSUME OneAtATime, FanTypes, LanesInStep, NEW q \in Peers, NEW n \in Packets, Pending(q, n)',
           \/ \E p \in Peers, l \in Lanes : WriteLane(p, 1, l) \/ Deliver(p, l) \/ LoseLane(p, l)
           \/ n # next'[q] /\ \E p \in Peers : Broadcast(p, 1)
    PROVE  Pending(q, n)
<1>1. CASE \E p \in Peers : Broadcast(p, 1) /\ n # next'[q]
  BY <1>1, BroadcastFacts DEF Pending
<1>2. ASSUME NEW p \in Peers, NEW l \in Lanes, WriteLane(p, 1, l)
      PROVE  Pending(q, n)
  <2>1. CASE q # p
    BY <1>2, <2>1, WriteLaneFacts DEF Pending
  <2>2. CASE q = p /\ writing'[q][1].todo # {} /\ n = next'[q]
    BY <1>2, <2>2, WriteLaneFacts DEF Pending
  <2>3. CASE q = p /\ \E k \in Lanes : \E i \in 1..Len(lane'[q][k]) : lane'[q][k][i] = n
    <3>0. PICK k \in Lanes : \E i \in 1..Len(lane'[p][k]) : lane'[p][k][i] = n
      BY <2>3
    <3>1. PICK i \in 1..Len(lane'[p][k]) : lane'[p][k][i] = n
      BY <3>0
    <3>2. CASE k # l
      BY <1>2, <2>3, <3>1, <3>2, WriteLaneFacts DEF Pending
    <3>3. CASE k = l
      <4>1. /\ lane[p][l] \in Seq(Packets) /\ writing[p][1].n = next[p]
            /\ writing[p][1].n \in Packets /\ writing[p][1].todo # {}
            /\ lane'[p][l] = Append(lane[p][l], writing[p][1].n)
        <5>1. lane[p][l] \in Seq(Packets)
          BY DEF FanTypes, LanesOK
        <5>2. writing[p][1].n = next[p]
          BY DEF LanesInStep
        <5> QED
          BY <1>2, <5>1, <5>2, WriteLaneFacts
      <4>2. /\ Len(lane[p][l]) \in Nat /\ Len(lane'[p][l]) = Len(lane[p][l]) + 1
            /\ lane'[p][l][Len(lane[p][l]) + 1] = next[p]
            /\ \A j \in 1..Len(lane[p][l]) : lane'[p][l][j] = lane[p][l][j]
        BY <4>1, AppendAtEnd
      <4>3. CASE i = Len(lane[p][l]) + 1
        BY <2>3, <3>1, <3>3, <4>1, <4>2, <4>3 DEF Pending
      <4>4. CASE i # Len(lane[p][l]) + 1
        <5>1. i \in 1..Len(lane[p][l])
          BY <3>1, <3>3, <4>2, <4>4
        <5> QED
          BY <2>3, <3>1, <3>3, <4>2, <5>1 DEF Pending
      <4> QED
        BY <4>3, <4>4
    <3> QED
      BY <3>2, <3>3
  <2> QED
    BY <2>1, <2>2, <2>3 DEF Pending
<1>3. ASSUME NEW p \in Peers, NEW l \in Lanes, Deliver(p, l)
      PROVE  Pending(q, n)
  <2>1. CASE q # p
    BY <1>3, <2>1, DeliverFacts DEF Pending
  <2>2. CASE q = p /\ writing'[q][1].todo # {} /\ n = next'[q]
    BY <1>3, <2>2, DeliverFacts DEF Pending
  <2>3. CASE q = p /\ \E k \in Lanes : \E i \in 1..Len(lane'[q][k]) : lane'[q][k][i] = n
    <3>0. PICK k \in Lanes : \E i \in 1..Len(lane'[p][k]) : lane'[p][k][i] = n
      BY <2>3
    <3>1. PICK i \in 1..Len(lane'[p][k]) : lane'[p][k][i] = n
      BY <3>0
    <3>2. CASE k # l
      BY <1>3, <2>3, <3>1, <3>2, DeliverFacts DEF Pending
    <3>3. CASE k = l
      <4>1. lane[p][l] \in Seq(Packets) /\ lane[p][l] # <<>> /\ lane'[p][l] = Tail(lane[p][l])
        BY <1>3, DeliverFacts
      <4>2. /\ Len(lane[p][l]) \in Nat \ {0} /\ Len(lane'[p][l]) = Len(lane[p][l]) - 1
            /\ \A j \in 1..Len(lane[p][l]) - 1 : lane'[p][l][j] = lane[p][l][j + 1]
        BY <4>1, TailIsShift
      <4>3. i + 1 \in 1..Len(lane[p][l]) /\ lane[p][l][i + 1] = n
        BY <3>1, <3>3, <4>2
      <4> QED
        BY <2>3, <4>3 DEF Pending
    <3> QED
      BY <3>2, <3>3
  <2> QED
    BY <2>1, <2>2, <2>3 DEF Pending
<1>4. ASSUME NEW p \in Peers, NEW l \in Lanes, LoseLane(p, l)
      PROVE  Pending(q, n)
  <2>1. CASE q # p
    BY <1>4, <2>1, LoseLaneFacts DEF Pending
  <2>2. CASE q = p /\ writing'[q][1].todo # {} /\ n = next'[q]
    BY <1>4, <2>2, LoseLaneFacts DEF Pending
  <2>3. CASE q = p /\ \E k \in Lanes : \E i \in 1..Len(lane'[q][k]) : lane'[q][k][i] = n
    <3>0. PICK k \in Lanes : \E i \in 1..Len(lane'[p][k]) : lane'[p][k][i] = n
      BY <2>3
    <3>1. PICK i \in 1..Len(lane'[p][k]) : lane'[p][k][i] = n
      BY <3>0
    <3>2. k # l
      BY <1>4, <3>1, LoseLaneFacts
    <3> QED
      BY <1>4, <2>3, <3>1, <3>2, LoseLaneFacts DEF Pending
  <2> QED
    BY <2>1, <2>2, <2>3 DEF Pending
<1> QED
  BY <1>1, <1>2, <1>3, <1>4

\* The packet in a reader's hands was on its way.
LEMMA HeadIsPending ==
    ASSUME FanTypes, NEW p \in Peers, NEW l \in Lanes, Deliver(p, l),
           NEW n, n = Head(lane[p][l])
    PROVE  Pending(p, n)
<1>1. lane[p][l] \in Seq(Packets) /\ lane[p][l] # <<>>
  BY DeliverFacts
<1>2. 1 \in 1..Len(lane[p][l]) /\ lane[p][l][1] = n
  BY <1>1, TailIsShift
<1> QED
  BY <1>2 DEF Pending

\* An accepted packet that evicts one still on its way would complete Window
\* different packets, none of them the evicted one, in 2 * LaneCap numbers.
LEMMA EvictedWasDelivered ==
    ASSUME OneAtATime, WideWindow, FanTypes, LanesInStep, Spread, seen = Window,
           NEW p \in Peers, NEW n \in Packets, Pending(p, n), n \notin Scanned,
           NEW m \in Packets, Pending(p, m), m = Oldest[1]
    PROVE  FALSE
<1> DEFINE f == [i \in 1..Window |-> IF i = Window THEN n ELSE Oldest[i + 1]]
           T == (m - LaneCap..m + LaneCap) \ {m}
<1>1. Window \in Nat \ {0} /\ LaneCap \in Nat /\ m \in Int /\ n \in Int /\ Window > 2 * LaneCap
  BY WindowAssumption, FanOutAssumption DEF Packets, WideWindow
<1>2. /\ next[p] \in Nat /\ n <= next[p] /\ n >= next[p] - LaneCap
      /\ m <= next[p] /\ m >= next[p] - LaneCap
  BY PendingIsRecent
<1>3. \A k \in 1..Window : Oldest[k] # n
  BY OldestFacts DEF FanTypes
<1>4. n \in T
  <2>1. m # n
    BY <1>1, <1>3
  <2> QED
    BY <1>1, <1>2, <2>1
<1>5. \A i \in 1..Window - 1 : Oldest[i + 1] \in T
  <2> SUFFICES ASSUME NEW i \in 1..Window - 1 PROVE Oldest[i + 1] \in T
    OBVIOUS
  <2>1. 1 \in 1..seen /\ i + 1 \in 1..seen /\ 1 < i + 1
    BY <1>1
  <2>2. Oldest[i + 1] \in 1..next[p] /\ Oldest[1] # Oldest[i + 1]
        /\ Oldest[i + 1] >= Oldest[1] - LaneCap
    BY <2>1 DEF Spread
  <2> QED
    BY <1>1, <1>2, <2>2
<1>6. \A i, j \in 1..Window - 1 : i # j => Oldest[i + 1] # Oldest[j + 1]
  <2>1. \A i, j \in 1..Window - 1 : i < j => Oldest[i + 1] # Oldest[j + 1]
    <3> SUFFICES ASSUME NEW i \in 1..Window - 1, NEW j \in 1..Window - 1, i < j
                 PROVE  Oldest[i + 1] # Oldest[j + 1]
      OBVIOUS
    <3>1. i + 1 \in 1..seen /\ j + 1 \in 1..seen /\ i + 1 < j + 1
      BY <1>1
    <3> QED
      BY <3>1 DEF Spread
  <2>2. \A i, j \in 1..Window - 1 : i # j => i < j \/ j < i
    BY <1>1
  <2> QED
    BY <2>1, <2>2
<1>7. f \in [1..Window -> T]
  <2> HIDE DEF T
  <2>1. \A i \in 1..Window : i = Window \/ i \in 1..Window - 1
    BY <1>1
  <2> QED
    BY <1>4, <1>5, <2>1
<1>8. IsFiniteSet(1..Window) /\ Cardinality(1..Window) = Window
  <2>1. 1 \in Int /\ Window \in Int /\ ~(1 > Window) /\ Window - 1 + 1 = Window
    BY <1>1
  <2> QED
    BY <2>1, FS_Interval
<1>9. IsFiniteSet(T) /\ Cardinality(T) = 2 * LaneCap
  <2>1. /\ IsFiniteSet(m - LaneCap..m + LaneCap)
        /\ Cardinality(m - LaneCap..m + LaneCap) = 2 * LaneCap + 1
    <3>1. m - LaneCap \in Int /\ m + LaneCap \in Int /\ ~(m - LaneCap > m + LaneCap)
          /\ (m + LaneCap) - (m - LaneCap) + 1 = 2 * LaneCap + 1
      BY <1>1
    <3> QED
      BY <3>1, FS_Interval
  <2>2. m \in m - LaneCap..m + LaneCap
    BY <1>1
  <2>3. IsFiniteSet(T) /\ Cardinality(T) = (2 * LaneCap + 1) - 1
    <3> DEFINE I == m - LaneCap..m + LaneCap
    <3>1. T = I \ {m}
      OBVIOUS
    <3> HIDE DEF I, T
    <3>2. IsFiniteSet(I) /\ Cardinality(I) = 2 * LaneCap + 1 /\ m \in I
      BY <2>1, <2>2 DEF I
    <3> QED
      BY <3>1, <3>2, FS_RemoveElement
  <2> QED
    BY <1>1, <2>3
<1>10. PICK i \in 1..Window, j \in 1..Window : i # j /\ f[i] = f[j]
  <2> HIDE DEF f, T
  <2>1. Cardinality(T) < Cardinality(1..Window)
    BY <1>1, <1>8, <1>9
  <2> QED
    BY <1>7, <1>8, <1>9, <2>1, FS_PigeonHole
<1>11. CASE i = Window
  <2>1. j \in 1..Window - 1 /\ f[i] = n /\ f[j] = Oldest[j + 1] /\ j + 1 \in 1..Window
    BY <1>1, <1>10, <1>11
  <2> QED
    BY <1>3, <1>10, <2>1
<1>12. CASE j = Window
  <2>1. i \in 1..Window - 1 /\ f[j] = n /\ f[i] = Oldest[i + 1] /\ i + 1 \in 1..Window
    BY <1>1, <1>10, <1>12
  <2> QED
    BY <1>3, <1>10, <2>1
<1>13. CASE i # Window /\ j # Window
  <2>1. /\ i \in 1..Window - 1 /\ f[i] = Oldest[i + 1]
        /\ j \in 1..Window - 1 /\ f[j] = Oldest[j + 1]
    BY <1>1, <1>10, <1>13
  <2> QED
    BY <1>6, <1>10, <2>1
<1> QED
  BY <1>11, <1>12, <1>13

LEMMA ScannedIsWindow == RingInv => Scanned = {Oldest[k] : k \in 1..seen}
  BY OldestFacts

LEMMA ScannedIsWindowNext == RingInv' => (Scanned = {Oldest[k] : k \in 1..seen})'
  BY ScannedIsWindow, PTL

\* A packet is accepted: it joins the window, and the window keeps what it needs.
LEMMA AcceptStep ==
    ASSUME OnePeer, OneAtATime, WideWindow, FanTypes, LagInv,
           NEW p \in Peers, NEW l \in Lanes, Deliver(p, l),
           NEW n, n = Head(lane[p][l]), n \notin Scanned
    PROVE  Spread' /\ PendingIsKnown' /\ ProcessedOnce'
<1>1. /\ n \in Packets /\ n \in Ids /\ Record(n)
      /\ processed[p][n] = 2 => processed' = processed
      /\ processed[p][n] # 2 => processed' = [processed EXCEPT ![p][n] = @ + 1]
  BY DeliverCases
<1>2. Pending(p, n) /\ next' = next
  BY HeadIsPending, DeliverFacts
<1>3. processed[p][n] = 0
  BY <1>1, <1>2 DEF LagInv, PendingIsKnown
<1>4. processed'[p][n] = 1 /\ \A m \in Packets \ {n} : processed'[p][m] = processed[p][m]
  BY <1>1, <1>3 DEF FanTypes, HistoryOK
<1>5. \A q \in Peers : q = p
  BY DEF OnePeer
<1>6. /\ seen \in Nat /\ seen' \in Nat \ {0} /\ Oldest'[seen'] = n
      /\ \/ seen < Window /\ seen' = seen + 1 /\ \A k \in 1..seen : Oldest'[k] = Oldest[k]
         \/ seen = Window /\ seen' = seen /\ \A k \in 1..seen - 1 : Oldest'[k] = Oldest[k + 1]
  BY <1>1, OldestAfterRecord DEF FanTypes
<1>7. /\ next[p] \in Nat /\ n \in 1..next[p] /\ n >= next[p] - LaneCap /\ LaneCap \in Nat
  BY <1>1, <1>2, PendingIsRecent, FanOutAssumption DEF LagInv, Packets
<1>8. Scanned = {Oldest[k] : k \in 1..seen} /\ Scanned' = {Oldest'[k] : k \in 1..seen'}
  <2>1. RingInv /\ RingInv'
    BY <1>1, RingInvariance DEF FanTypes, DedupNext, Seen, Deliver, RingInv, Record
  <2> QED
    BY <2>1, ScannedIsWindow, ScannedIsWindowNext
<1>9. ProcessedOnce'
  BY <1>4, <1>5 DEF LagInv, ProcessedOnce
<1>10. Spread'
  <2>1. \A k \in 1..seen' : Oldest'[k] \in 1..next[p]
    <3> SUFFICES ASSUME NEW k \in 1..seen' PROVE Oldest'[k] \in 1..next[p]
      OBVIOUS
    <3>1. k = seen' \/ \E j \in 1..seen : Oldest'[k] = Oldest[j]
      BY <1>6
    <3> QED
      BY <1>6, <1>7, <3>1 DEF LagInv, Spread
  <2>2. ASSUME NEW j \in 1..seen', NEW k \in 1..seen', j < k
        PROVE  Oldest'[j] # Oldest'[k] /\ Oldest'[k] >= Oldest'[j] - LaneCap
    <3>1. CASE k # seen'
      <4>1. \E i, h \in 1..seen : i < h /\ Oldest'[j] = Oldest[i] /\ Oldest'[k] = Oldest[h]
        BY <1>6, <2>2, <3>1
      <4> QED
        BY <4>1 DEF LagInv, Spread
    <3>2. CASE k = seen'
      <4>1. PICK i \in 1..seen : Oldest'[j] = Oldest[i]
        BY <1>6, <2>2, <3>2
      <4>2. Oldest[i] # n /\ Oldest[i] \in 1..next[p]
        BY <1>8 DEF LagInv, Spread
      <4> QED
        BY <1>6, <1>7, <3>2, <4>1, <4>2
    <3> QED
      BY <3>1, <3>2
  <2> QED
    BY <1>2, <1>5, <2>1, <2>2 DEF Spread
<1>11. PendingIsKnown'
  <2> SUFFICES ASSUME NEW m \in Packets, processed'[p][m] # 0
               PROVE  /\ m <= next'[p]
                      /\ Pending(p, m)' => m \in Scanned'
    BY <1>5 DEF PendingIsKnown
  <2>1. CASE m = n
    BY <1>2, <1>6, <1>7, <1>8, <2>1
  <2>2. CASE m # n
    <3>1. processed[p][m] # 0 /\ m <= next'[p]
      BY <1>2, <1>4, <2>2 DEF LagInv, PendingIsKnown
    <3>2. ASSUME Pending(p, m)' PROVE m \in Scanned'
      <4>1. Pending(p, m)
        BY <3>2, PendingBefore DEF LagInv
      <4>2. PICK k \in 1..seen : m = Oldest[k]
        BY <1>8, <3>1, <4>1 DEF LagInv, PendingIsKnown
      <4>3. CASE seen < Window
        BY <1>6, <1>8, <4>2, <4>3
      <4>4. CASE seen = Window /\ k # 1
        <5>1. k - 1 \in 1..seen' /\ Oldest'[k - 1] = Oldest[k]
          BY <1>6, <4>2, <4>4
        <5> QED
          BY <1>8, <4>2, <5>1
      <4>5. CASE seen = Window /\ k = 1
        BY <1>1, <1>2, <4>1, <4>2, <4>5, EvictedWasDelivered DEF LagInv
      <4> QED
        BY <1>6, <4>3, <4>4, <4>5
    <3> QED
      BY <3>1, <3>2
  <2> QED
    BY <2>1, <2>2
<1> QED
  BY <1>9, <1>10, <1>11

LEMMA LagStep ==
    ASSUME OnePeer, OneAtATime, WideWindow, FanTypes, LagInv, [Next]_vars
    PROVE  LagInv'
<1>1. LanesInStep'
  BY LanesInStepStep DEF LagInv
<1>2. ASSUME NEW p \in Peers, NEW l \in Lanes, Deliver(p, l)
      PROVE  LagInv'
  <2>1. PICK n : n = Head(lane[p][l])
    OBVIOUS
  <2>2. CASE n \notin Scanned
    BY <1>1, <1>2, <2>1, <2>2, AcceptStep DEF LagInv
  <2>3. CASE n \in Scanned
    <3>1. UNCHANGED <<ids, pos, seen, processed>> /\ next' = next
      BY <1>2, <2>1, <2>3, DeliverCases, DeliverFacts
    <3>2. Scanned' = Scanned /\ \A k \in 1..seen : Oldest'[k] = Oldest[k]
      BY <3>1 DEF Scanned, Oldest, Place
    <3>3. \A q \in Peers, m \in Packets : Pending(q, m)' => Pending(q, m)
      BY <1>2, PendingBefore DEF LagInv
    <3>4. Spread'
      BY <3>1, <3>2 DEF LagInv, Spread
    <3>5. PendingIsKnown'
      BY <3>1, <3>2, <3>3 DEF LagInv, PendingIsKnown
    <3>6. ProcessedOnce'
      BY <3>1 DEF LagInv, ProcessedOnce
    <3> QED
      BY <1>1, <3>4, <3>5, <3>6 DEF LagInv
  <2> QED
    BY <2>2, <2>3
<1>3. ASSUME UNCHANGED <<dedupVars, processed>>,
             \A q \in Peers : next[q] \in Nat /\ next'[q] \in Nat /\ next[q] <= next'[q],
             \A q \in Peers, m \in Packets : m <= next[q] /\ Pending(q, m)' => Pending(q, m)
      PROVE  LagInv'
  <2>1. Scanned' = Scanned /\ \A k \in 1..seen : Oldest'[k] = Oldest[k]
    BY <1>3 DEF Scanned, Oldest, Place, dedupVars
  <2>2. Spread'
    <3>1. \A q \in Peers, k \in 1..seen : Oldest[k] \in 1..next'[q]
      BY <1>3 DEF LagInv, Spread
    <3> QED
      BY <1>3, <2>1, <3>1 DEF LagInv, Spread, dedupVars
  <2>3. PendingIsKnown'
    <3> SUFFICES ASSUME NEW q \in Peers, NEW m \in Packets, processed[q][m] # 0
                 PROVE  m <= next'[q] /\ (Pending(q, m)' => m \in Scanned)
      BY <1>3, <2>1 DEF PendingIsKnown
    <3>1. m \in Nat /\ m <= next[q]
      BY DEF LagInv, PendingIsKnown, Packets
    <3> QED
      BY <1>3, <3>1 DEF LagInv, PendingIsKnown
  <2>4. ProcessedOnce'
    BY <1>3 DEF LagInv, ProcessedOnce
  <2> QED
    BY <1>1, <2>2, <2>3, <2>4 DEF LagInv
<1>4. \A q \in Peers : next[q] \in Nat
  BY DEF FanTypes, SendersOK
<1>5. ASSUME NEW p \in Peers, Broadcast(p, 1)
      PROVE  LagInv'
  <2>1. \A q \in Peers : next'[q] \in Nat /\ next[q] <= next'[q]
    BY <1>4, <1>5, BroadcastFacts
  <2>2. ASSUME NEW q \in Peers, NEW m \in Packets, m <= next[q], Pending(q, m)'
        PROVE  Pending(q, m)
    <3>1. CASE q = p
      <4>1. m # next'[q]
        BY <1>4, <1>5, <2>2, <3>1, BroadcastFacts DEF Packets
      <4> QED
        BY <1>5, <2>2, <4>1, PendingBefore DEF LagInv
    <3>2. CASE q # p
      BY <1>5, <2>2, <3>2, BroadcastFacts DEF Pending
    <3> QED
      BY <3>1, <3>2
  <2>3. UNCHANGED <<dedupVars, processed>>
    BY <1>5 DEF Broadcast
  <2> QED
    BY <1>3, <1>4, <2>1, <2>2, <2>3
<1>6. ASSUME NEW p \in Peers, NEW l \in Lanes, WriteLane(p, 1, l) \/ LoseLane(p, l)
      PROVE  LagInv'
  <2>1. UNCHANGED <<dedupVars, processed>> /\ next' = next
    BY <1>6 DEF WriteLane, LoseLane
  <2>2. \A q \in Peers, m \in Packets : Pending(q, m)' => Pending(q, m)
    BY <1>6, PendingBefore DEF LagInv
  <2> QED
    BY <1>3, <1>4, <2>1, <2>2
<1>7. CASE UNCHANGED vars
  <2>1. UNCHANGED <<dedupVars, processed>> /\ next' = next
    BY <1>7 DEF vars
  <2>2. \A q \in Peers, m \in Packets : Pending(q, m)' => Pending(q, m)
    BY <1>7 DEF vars, Pending
  <2> QED
    BY <1>3, <1>4, <2>1, <2>2
<1> QED
  BY <1>2, <1>5, <1>6, <1>7, OneWriter DEF Next, Finished

\* A packet fanned out over any number of legs is handled once at most, however
\* far one leg lags behind another and whatever legs break (dispatch.go:79-96):
\* for every window wider than two legs' buffers, with one peer that broadcasts
\* one packet at a time.
THEOREM HandledOnce ==
    ASSUME OnePeer, OneAtATime, WideWindow
    PROVE  Spec => []ProcessedOnce
<1>1. Init => LagInv
  <2> SUFFICES ASSUME Init PROVE LagInv
    OBVIOUS
  <2>1. LanesInStep
    <3>1. 1 \in 1..Writers /\ Len(<<>>) = 0 /\ 0 <= LaneCap
      BY FanOutAssumption DEF OneAtATime
    <3> QED
      BY <3>1 DEF Init, LanesInStep
  <2>2. Spread /\ PendingIsKnown /\ ProcessedOnce
    BY DEF Init, DedupInit, Spread, PendingIsKnown, ProcessedOnce
  <2> QED
    BY <2>1, <2>2 DEF LagInv
<1>2. FanTypes /\ LagInv /\ [Next]_vars => LagInv'
  BY LagStep
<1>3. LagInv => ProcessedOnce
  BY DEF LagInv
<1> QED
  BY <1>1, <1>2, <1>3, FanTypesInvariance, PTL DEF Spec
=============================================================================
