---------------------------- MODULE InboundProofs ----------------------------
(***************************************************************************)
(* What holds of every connection a server accepts: the handshake of the   *)
(* message port for any number of rounds, any buffers and any keys; and on *)
(* the clipboard port what ClipTransferProofs shows of every transfer.     *)
(***************************************************************************)
EXTENDS Inbound, ClipTransferProofs

-----------------------------------------------------------------------------
(* The handshake.  Peer is M!Other. *)

Peer(e) == M!Other(e)
Open(e) == pc[e] # "failed"

\* The packets of a queue; their order: challenges, answers, traffic, each once.
PacketsIn(s) == {s[i] : i \in 1..Len(s)}
Rank == [handshake |-> 1, ack |-> 2, traffic |-> 3]
Sorted(s) == \A i, j \in 1..Len(s) :
                i < j => Rank[s[i].kind] <= Rank[s[j].kind] /\ s[i] # s[j]

MsgTypes ==
    /\ pc \in [Ends -> M!Places]
    /\ sent \in [Ends -> 0..Rounds] /\ owed \in [Ends -> 0..Rounds]
    /\ acked \in [Ends -> SUBSET M!Challenges] /\ answered \in [Ends -> SUBSET M!Challenges]
    /\ inbox \in [Ends -> Seq(M!Packets)]
    /\ closed \subseteq Ends /\ hungUp \subseteq Ends

\* What the place of an end says of its own counters.
PlaceInv(e) ==
    /\ pc[e] = "send" => sent[e] < Rounds /\ owed[e] = 0 /\ acked[e] = {}
    /\ pc[e] \in {"read", "answer", "trusted", "serving"} => sent[e] = Rounds
    /\ pc[e] = "read" => acked[e] # M!Challenges /\ owed[e] = 0
    /\ pc[e] = "answer" => owed[e] # 0
    /\ M!Through(e) => acked[e] = M!Challenges /\ owed[e] = 0
    /\ e \in closed <=> ~Open(e)

\* What is on its way to e.
InboxInv(e) ==
    /\ Sorted(inbox[e])
    /\ \A p \in PacketsIn(inbox[e]) :
         /\ p.kind = "handshake" =>
              p.n \in (1..sent[Peer(e)]) \ (answered[e] \cup {owed[e]})
         /\ p.kind = "ack" =>
              sent[Peer(e)] = Rounds /\ p.n \in answered[Peer(e)] \ acked[e]
         /\ p.kind = "traffic" =>
              /\ sent[Peer(e)] = Rounds /\ answered[Peer(e)] = M!Challenges
              /\ pc[Peer(e)] \in {"serving", "failed"}

\* No challenge and no answer is lost on the way to e.
LossInv(e) ==
    /\ \A n \in 1..sent[Peer(e)] :
         n \in answered[e] \/ owed[e] = n \/ M!Packet("handshake", n) \in PacketsIn(inbox[e])
    /\ Open(e) => \A n \in answered[Peer(e)] :
                    n \in acked[e] \/ M!Packet("ack", n) \in PacketsIn(inbox[e])

\* Whoever has read an acknowledgement has read all the peer's challenges.
AckInv(e) ==
    /\ owed[e] # 0 => owed[e] \in (1..sent[Peer(e)]) \ answered[e] /\ acked[e] = {}
    /\ answered[e] \subseteq 1..sent[Peer(e)]
    /\ acked[e] \subseteq answered[Peer(e)]
    /\ acked[e] # {} => /\ sent[Peer(e)] = Rounds /\ key[e] = key[Peer(e)]
                        /\ \A p \in PacketsIn(inbox[e]) : p.kind # "handshake"

\* An end fails for a reason: the keys differ, or the peer has left.
FailInv(e) == hungUp = {} /\ ~Open(e) => key[e] # key[Peer(e)] \/ ~Open(Peer(e))

EndInv(e) == PlaceInv(e) /\ InboxInv(e) /\ LossInv(e) /\ AckInv(e) /\ FailInv(e)

MsgInv == MsgTypes /\ \A e \in Ends : EndInv(e)

\* The two ends of the connection, one of them acting.
TwoEnds(a, b) == /\ Ends = {a, b} /\ a # b
              /\ Peer(a) = b /\ Peer(b) = a /\ M!Other(a) = b /\ M!Other(b) = a
PairInv(a, b) == TwoEnds(a, b) /\ MsgTypes /\ EndInv(a) /\ EndInv(b)

-----------------------------------------------------------------------------
LEMMA PeerFacts ==
    ASSUME NEW e \in Ends
    PROVE  /\ Peer(e) \in Ends /\ Peer(e) # e /\ Peer(Peer(e)) = e
           /\ \A f \in Ends : f = e \/ f = Peer(e)
<1>1. PICK a \in Ends, b \in Ends : a # b /\ Ends = {a, b}
  BY EndsAssumption
<1>2. \A f \in Ends : Peer(f) \in Ends /\ Peer(f) # f
  BY <1>1 DEF Peer, M!Other
<1> QED
  BY <1>1, <1>2

LEMMA PacketFacts ==
    /\ \A k \in {"handshake", "ack", "traffic"}, n \in 0..Rounds :
         M!Packet(k, n) \in M!Packets /\ M!Packet(k, n).kind = k /\ M!Packet(k, n).n = n
    /\ \A p \in M!Packets : /\ p.kind \in {"handshake", "ack", "traffic"} /\ p.n \in 0..Rounds
                            /\ p = M!Packet(p.kind, p.n)
  BY DEF M!Packet, M!Packets

LEMMA HeadItems ==
    ASSUME NEW s \in Seq(M!Packets), s # <<>>, Sorted(s)
    PROVE  /\ Head(s) \in PacketsIn(s) /\ Head(s) \in M!Packets
           /\ Tail(s) \in Seq(M!Packets) /\ Sorted(Tail(s))
           /\ PacketsIn(Tail(s)) = PacketsIn(s) \ {Head(s)}
           /\ \A p \in PacketsIn(s) : Rank[Head(s).kind] <= Rank[p.kind]
<1>1. /\ Len(s) \in Nat \ {0} /\ Head(s) = s[1] /\ Tail(s) \in Seq(M!Packets)
      /\ Len(Tail(s)) = Len(s) - 1 /\ \A i \in 1..Len(s) - 1 : Tail(s)[i] = s[i + 1]
  OBVIOUS
<1>2. \A i \in 1..Len(s) : s[i] \in M!Packets
  OBVIOUS
<1>3. Sorted(Tail(s))
  BY <1>1 DEF Sorted
<1>4. \A p \in PacketsIn(s) : Rank[Head(s).kind] <= Rank[p.kind]
  <2> SUFFICES ASSUME NEW i \in 1..Len(s) PROVE Rank[s[1].kind] <= Rank[s[i].kind]
    BY <1>1 DEF PacketsIn
  <2>1. CASE i = 1
    <3>1. s[1].kind \in {"handshake", "ack", "traffic"}
      BY <1>1, <1>2, PacketFacts
    <3> QED
      BY <2>1, <3>1 DEF Rank
  <2>2. CASE i # 1
    BY <1>1, <2>2 DEF Sorted
  <2> QED
    BY <2>1, <2>2
<1>5. ASSUME NEW p \in PacketsIn(Tail(s)) PROVE p \in PacketsIn(s) \ {Head(s)}
  <2>1. PICK i \in 1..Len(s) - 1 : p = s[i + 1]
    BY <1>1, <1>5 DEF PacketsIn
  <2>2. i + 1 \in 1..Len(s) /\ 1 < i + 1 /\ 1 \in 1..Len(s)
    BY <1>1
  <2> QED
    BY <1>1, <2>1, <2>2 DEF PacketsIn, Sorted
<1>6. ASSUME NEW p \in PacketsIn(s), p # Head(s) PROVE p \in PacketsIn(Tail(s))
  <2>1. PICK i \in 1..Len(s) : p = s[i]
    BY <1>6 DEF PacketsIn
  <2>2. i - 1 \in 1..Len(s) - 1
    BY <1>1, <1>6, <2>1
  <2>3. Tail(s)[i - 1] = p
    BY <1>1, <2>1, <2>2
  <2> QED
    BY <1>1, <2>2, <2>3 DEF PacketsIn
<1>7. Head(s) \in PacketsIn(s) /\ Head(s) \in M!Packets
  BY <1>1, <1>2 DEF PacketsIn
<1> QED
  BY <1>1, <1>3, <1>4, <1>5, <1>6, <1>7

LEMMA AppendItems ==
    ASSUME NEW s \in Seq(M!Packets), NEW p \in M!Packets
    PROVE  /\ Append(s, p) \in Seq(M!Packets)
           /\ PacketsIn(Append(s, p)) = PacketsIn(s) \cup {p}
           /\ Sorted(s) /\ p \notin PacketsIn(s) /\ (\A q \in PacketsIn(s) : Rank[q.kind] <= Rank[p.kind])
                => Sorted(Append(s, p))
<1>1. /\ Append(s, p) \in Seq(M!Packets) /\ Len(Append(s, p)) = Len(s) + 1 /\ Len(s) \in Nat
      /\ \A i \in 1..Len(s) : Append(s, p)[i] = s[i]
      /\ Append(s, p)[Len(s) + 1] = p
  OBVIOUS
<1>2. PacketsIn(Append(s, p)) = PacketsIn(s) \cup {p}
  <2>1. ASSUME NEW q \in PacketsIn(Append(s, p)) PROVE q \in PacketsIn(s) \cup {p}
    <3>1. PICK i \in 1..Len(s) + 1 : q = Append(s, p)[i]
      BY <1>1, <2>1 DEF PacketsIn
    <3>2. CASE i = Len(s) + 1
      BY <1>1, <3>1, <3>2
    <3>3. CASE i # Len(s) + 1
      <4>1. i \in 1..Len(s)
        BY <1>1, <3>3
      <4> QED
        BY <1>1, <3>1, <4>1 DEF PacketsIn
    <3> QED
      BY <3>2, <3>3
  <2>2. ASSUME NEW q \in PacketsIn(s) PROVE q \in PacketsIn(Append(s, p))
    <3>1. PICK i \in 1..Len(s) : q = s[i]
      BY <2>2 DEF PacketsIn
    <3>2. i \in 1..Len(s) + 1
      BY <1>1
    <3> QED
      BY <1>1, <3>1, <3>2 DEF PacketsIn
  <2>3. p \in PacketsIn(Append(s, p))
    <3>1. Len(s) + 1 \in 1..Len(s) + 1
      BY <1>1
    <3> QED
      BY <1>1, <3>1 DEF PacketsIn
  <2> QED
    BY <2>1, <2>2, <2>3
<1>3. ASSUME Sorted(s), p \notin PacketsIn(s), \A q \in PacketsIn(s) : Rank[q.kind] <= Rank[p.kind],
             NEW i \in 1..Len(s) + 1, NEW j \in 1..Len(s) + 1, i < j
      PROVE  /\ Rank[Append(s, p)[i].kind] <= Rank[Append(s, p)[j].kind]
             /\ Append(s, p)[i] # Append(s, p)[j]
  <2>1. i \in 1..Len(s) /\ s[i] \in PacketsIn(s) /\ Append(s, p)[i] = s[i]
    BY <1>1, <1>3 DEF PacketsIn
  <2>2. CASE j = Len(s) + 1
    BY <1>1, <1>3, <2>1, <2>2
  <2>3. CASE j # Len(s) + 1
    <3>1. j \in 1..Len(s) /\ Append(s, p)[j] = s[j]
      BY <1>1, <2>3
    <3> QED
      BY <1>3, <2>1, <3>1 DEF Sorted
  <2> QED
    BY <2>2, <2>3
<1> QED
  BY <1>1, <1>2, <1>3 DEF Sorted

-----------------------------------------------------------------------------
LEMMA SendChallengeStep ==
    ASSUME NEW a \in Ends, NEW b \in Ends, PairInv(a, b), M!SendChallenge(a)
    PROVE  MsgTypes' /\ EndInv(a)' /\ EndInv(b)'
<1> DEFINE n == sent[a] + 1
           p == M!Packet("handshake", n)
<1>1. /\ TwoEnds(a, b) /\ MsgTypes
      /\ PlaceInv(a) /\ InboxInv(a) /\ LossInv(a) /\ AckInv(a) /\ FailInv(a)
      /\ PlaceInv(b) /\ InboxInv(b) /\ LossInv(b) /\ AckInv(b) /\ FailInv(b)
  BY DEF PairInv, EndInv
<1>2. /\ pc[a] = "send" /\ inbox' = [inbox EXCEPT ![b] = Append(@, p)]
      /\ sent' = [sent EXCEPT ![a] = @ + 1]
      /\ pc' = [pc EXCEPT ![a] = IF n = Rounds THEN "read" ELSE "send"]
      /\ UNCHANGED <<key, owed, acked, closed, answered, hungUp>>
  BY <1>1 DEF M!SendChallenge, M!Write, M!hist, TwoEnds
<1>3. /\ sent[a] \in 0..Rounds /\ sent[a] < Rounds /\ Rounds \in Nat \ {0} /\ n \in 1..Rounds
      /\ acked[a] = {} /\ owed[a] = 0 /\ acked[a] # M!Challenges
  <2>1. 1 \in M!Challenges /\ Rounds \in Nat \ {0}
    BY CountsAssumption DEF M!Challenges
  <2>2. sent[a] \in 0..Rounds /\ sent[a] < Rounds /\ acked[a] = {} /\ owed[a] = 0
    BY <1>1, <1>2 DEF MsgTypes, PlaceInv
  <2> QED
    BY <2>1, <2>2
<1>4. p \in M!Packets /\ p.kind = "handshake" /\ p.n = n
  BY <1>3, PacketFacts
<1>5. /\ inbox'[a] = inbox[a] /\ inbox'[b] = Append(inbox[b], p)
      /\ inbox[b] \in Seq(M!Packets) /\ inbox[a] \in Seq(M!Packets)
  BY <1>1, <1>2 DEF MsgTypes, TwoEnds
<1>6. /\ sent'[a] = n /\ sent'[b] = sent[b]
      /\ pc'[a] \in {"read", "send"} /\ (pc'[a] = "read" <=> n = Rounds) /\ pc'[b] = pc[b]
  BY <1>1, <1>2 DEF MsgTypes, TwoEnds
<1>7. MsgTypes'
  <2>1. sent' \in [Ends -> 0..Rounds]
    BY <1>1, <1>2, <1>3 DEF MsgTypes
  <2>2. pc' \in [Ends -> M!Places]
    BY <1>1, <1>2 DEF MsgTypes, M!Places
  <2>3. inbox' \in [Ends -> Seq(M!Packets)]
    BY <1>1, <1>2, <1>4, <1>5, AppendItems DEF MsgTypes
  <2> QED
    BY <1>1, <1>2, <2>1, <2>2, <2>3 DEF MsgTypes
\* nothing but challenges has been sent to b
<1>8. \A q \in PacketsIn(inbox[b]) : q \in M!Packets /\ q.kind = "handshake" /\ q.n \in 1..sent[a]
  <2>1. \A q \in PacketsIn(inbox[b]) : q \in M!Packets
    BY <1>5 DEF PacketsIn
  <2> QED
    BY <1>1, <1>3, <2>1, PacketFacts DEF InboxInv, TwoEnds
<1>9. Sorted(inbox'[b]) /\ PacketsIn(inbox'[b]) = PacketsIn(inbox[b]) \cup {p}
  <2>1. p \notin PacketsIn(inbox[b])
    BY <1>3, <1>4, <1>8
  <2>2. \A q \in PacketsIn(inbox[b]) : Rank[q.kind] <= Rank[p.kind]
    BY <1>4, <1>8 DEF Rank
  <2> QED
    BY <1>1, <1>4, <1>5, <2>1, <2>2, AppendItems DEF InboxInv
<1>10. EndInv(a)'
  <2>1. PlaceInv(a)'
    BY <1>1, <1>2, <1>3, <1>6 DEF PlaceInv, M!Through, Open
  <2>2. InboxInv(a)' /\ LossInv(a)' /\ AckInv(a)' /\ FailInv(a)'
    BY <1>1, <1>2, <1>3, <1>5, <1>6 DEF InboxInv, LossInv, AckInv, FailInv, Open, TwoEnds
  <2> QED
    BY <2>1, <2>2 DEF EndInv
<1>11. EndInv(b)'
  <2>1. PlaceInv(b)' /\ AckInv(b)' /\ FailInv(b)'
    BY <1>1, <1>2, <1>3, <1>6 DEF PlaceInv, AckInv, FailInv, M!Through, Open, TwoEnds
  <2>2. InboxInv(b)'
    <3>1. n \in (1..n) \ (answered[b] \cup {owed[b]})
      BY <1>1, <1>3 DEF AckInv, TwoEnds
    <3>2. \A q \in PacketsIn(inbox'[b]) :
             q.kind = "handshake" /\ q.n \in (1..n) \ (answered[b] \cup {owed[b]})
      <4> SUFFICES ASSUME NEW q \in PacketsIn(inbox[b])
                   PROVE  q.n \in (1..n) \ (answered[b] \cup {owed[b]})
        BY <1>4, <1>8, <1>9, <3>1
      <4>1. q.n \in (1..sent[a]) \ (answered[b] \cup {owed[b]})
        BY <1>1, <1>8 DEF InboxInv, TwoEnds
      <4> QED
        BY <1>3, <4>1
    <3> QED
      BY <1>1, <1>2, <1>6, <1>9, <3>2 DEF InboxInv, TwoEnds
  <2>3. LossInv(b)'
    BY <1>1, <1>2, <1>3, <1>4, <1>6, <1>9 DEF LossInv, TwoEnds, Open
  <2> QED
    BY <2>1, <2>2, <2>3 DEF EndInv
<1> QED
  BY <1>7, <1>10, <1>11

LEMMA FailStep ==
    ASSUME NEW a \in Ends, NEW b \in Ends, PairInv(a, b), M!Fail(a), Open(a),
           UNCHANGED <<key, sent, owed, acked, inbox, answered>>,
           \/ UNCHANGED hungUp /\ (key[a] # key[b] \/ ~Open(b))
           \/ hungUp' = hungUp \cup {a}
    PROVE  MsgTypes' /\ EndInv(a)' /\ EndInv(b)'
<1>1. /\ TwoEnds(a, b) /\ MsgTypes
      /\ PlaceInv(a) /\ InboxInv(a) /\ LossInv(a) /\ AckInv(a) /\ FailInv(a)
      /\ PlaceInv(b) /\ InboxInv(b) /\ LossInv(b) /\ AckInv(b) /\ FailInv(b)
  BY DEF PairInv, EndInv
<1>2. pc' = [pc EXCEPT ![a] = "failed"] /\ closed' = closed \cup {a}
  BY DEF M!Fail
<1>3. pc'[a] = "failed" /\ pc'[b] = pc[b]
  BY <1>1, <1>2 DEF MsgTypes, TwoEnds
<1>4. MsgTypes'
  BY <1>1, <1>2 DEF MsgTypes, M!Places
<1>5. EndInv(a)'
  <2>1. PlaceInv(a)' /\ FailInv(a)'
    BY <1>1, <1>2, <1>3 DEF PlaceInv, FailInv, M!Through, Open, TwoEnds
  <2>2. InboxInv(a)' /\ LossInv(a)' /\ AckInv(a)'
    BY <1>1, <1>2, <1>3 DEF InboxInv, LossInv, AckInv, Open, TwoEnds
  <2> QED
    BY <2>1, <2>2 DEF EndInv
<1>6. EndInv(b)'
  <2>1. PlaceInv(b)' /\ FailInv(b)'
    BY <1>1, <1>2, <1>3 DEF PlaceInv, FailInv, M!Through, Open, TwoEnds
  <2>2. InboxInv(b)' /\ LossInv(b)' /\ AckInv(b)'
    BY <1>1, <1>2, <1>3 DEF InboxInv, LossInv, AckInv, Open, TwoEnds
  <2> QED
    BY <2>1, <2>2 DEF EndInv
<1> QED
  BY <1>4, <1>5, <1>6

LEMMA ReadChallengeStep ==
    ASSUME NEW a \in Ends, NEW b \in Ends, PairInv(a, b), M!ReadChallenge(a)
    PROVE  MsgTypes' /\ EndInv(a)' /\ EndInv(b)'
<1> DEFINE h == Head(inbox[a])
           n == h.n
<1>1. /\ TwoEnds(a, b) /\ MsgTypes
      /\ PlaceInv(a) /\ InboxInv(a) /\ LossInv(a) /\ AckInv(a) /\ FailInv(a)
      /\ PlaceInv(b) /\ InboxInv(b) /\ LossInv(b) /\ AckInv(b) /\ FailInv(b)
  BY DEF PairInv, EndInv
<1>2. /\ pc[a] = "read" /\ inbox[a] # <<>> /\ h.kind = "handshake"
      /\ inbox' = [inbox EXCEPT ![a] = Tail(@)]
      /\ owed' = [owed EXCEPT ![a] = n]
      /\ pc' = [pc EXCEPT ![a] = "answer"]
      /\ UNCHANGED <<key, sent, acked, closed, answered, hungUp>>
  BY DEF M!ReadChallenge, M!Reads, M!hist
<1>3. /\ inbox[a] \in Seq(M!Packets) /\ h \in PacketsIn(inbox[a]) /\ h \in M!Packets
      /\ Tail(inbox[a]) \in Seq(M!Packets) /\ Sorted(Tail(inbox[a]))
      /\ PacketsIn(Tail(inbox[a])) = PacketsIn(inbox[a]) \ {h}
  BY <1>1, <1>2, HeadItems DEF MsgTypes, InboxInv
<1>4. /\ inbox'[a] = Tail(inbox[a]) /\ inbox'[b] = inbox[b]
      /\ owed'[a] = n /\ owed'[b] = owed[b] /\ pc'[a] = "answer" /\ pc'[b] = pc[b]
  BY <1>1, <1>2 DEF MsgTypes, TwoEnds
<1>5. /\ n \in (1..sent[b]) \ answered[a] /\ n \in 1..Rounds /\ h = M!Packet("handshake", n)
      /\ acked[a] = {} /\ owed[a] = 0
  <2>1. n \in (1..sent[b]) \ answered[a] /\ acked[a] = {} /\ owed[a] = 0
    BY <1>1, <1>2, <1>3 DEF InboxInv, AckInv, PlaceInv, TwoEnds
  <2>2. sent[b] \in 0..Rounds /\ Rounds \in Nat
    BY <1>1, CountsAssumption DEF MsgTypes
  <2> QED
    BY <1>2, <1>3, <2>1, <2>2, PacketFacts
<1>6. MsgTypes'
  <2>1. owed' \in [Ends -> 0..Rounds]
    <3>1. n \in 0..Rounds
      BY <1>5
    <3> QED
      BY <1>1, <1>2, <3>1 DEF MsgTypes
  <2> QED
    BY <1>1, <1>2, <1>3, <2>1 DEF MsgTypes, M!Places
<1>7. EndInv(a)'
  <2>1. PlaceInv(a)' /\ FailInv(a)'
    BY <1>1, <1>2, <1>4, <1>5 DEF PlaceInv, FailInv, M!Through, Open, TwoEnds
  <2>2. InboxInv(a)'
    <3>1. \A q \in PacketsIn(Tail(inbox[a])) : q.kind = "handshake" =>
             q.n \in (1..sent[b]) \ (answered[a] \cup {n})
      <4> SUFFICES ASSUME NEW q \in PacketsIn(inbox[a]), q # h, q.kind = "handshake"
                   PROVE  q.n \in (1..sent[b]) \ (answered[a] \cup {n})
        BY <1>3
      <4>1. q \in M!Packets
        BY <1>3 DEF PacketsIn
      <4>2. q.n # n
        BY <1>5, <4>1, PacketFacts
      <4> QED
        BY <1>1, <4>2 DEF InboxInv, TwoEnds
    <3> QED
      BY <1>1, <1>2, <1>3, <1>4, <3>1 DEF InboxInv, TwoEnds
  <2>3. LossInv(a)'
    <3>1. \A m \in 1..sent[b] : \/ m \in answered[a] \/ n = m
                               \/ M!Packet("handshake", m) \in PacketsIn(Tail(inbox[a]))
      <4> SUFFICES ASSUME NEW m \in 1..sent[b], M!Packet("handshake", m) \in PacketsIn(inbox[a]),
                          M!Packet("handshake", m) = h
                   PROVE  n = m
        BY <1>1, <1>3, <1>5 DEF LossInv, TwoEnds
      <4>1. m \in 0..Rounds
        <5>1. sent[b] \in 0..Rounds /\ Rounds \in Nat
          BY <1>1, CountsAssumption DEF MsgTypes
        <5> QED
          BY <5>1
      <4> QED
        BY <4>1, PacketFacts
    <3>2. \A m \in answered[b] : m \in acked[a] \/ M!Packet("ack", m) \in PacketsIn(Tail(inbox[a]))
      <4> SUFFICES ASSUME NEW m \in answered[b]
                   PROVE  M!Packet("ack", m) # h
        BY <1>1, <1>2, <1>3 DEF LossInv, Open, TwoEnds
      <4>1. m \in 0..Rounds
        BY <1>1 DEF MsgTypes, M!Challenges
      <4> QED
        BY <1>2, <4>1, PacketFacts
    <3> QED
      BY <1>1, <1>2, <1>4, <3>1, <3>2 DEF LossInv, TwoEnds
  <2>4. AckInv(a)'
    BY <1>1, <1>2, <1>3, <1>4, <1>5 DEF AckInv, TwoEnds
  <2> QED
    BY <2>1, <2>2, <2>3, <2>4 DEF EndInv
<1>8. EndInv(b)'
  <2>1. PlaceInv(b)' /\ AckInv(b)' /\ LossInv(b)' /\ FailInv(b)'
    BY <1>1, <1>2, <1>4 DEF PlaceInv, AckInv, LossInv, FailInv, M!Through, Open, TwoEnds
  <2>2. InboxInv(b)'
    BY <1>1, <1>2, <1>4 DEF InboxInv, TwoEnds
  <2> QED
    BY <2>1, <2>2 DEF EndInv
<1> QED
  BY <1>6, <1>7, <1>8

LEMMA AnswerStep ==
    ASSUME NEW a \in Ends, NEW b \in Ends, PairInv(a, b), M!Answer(a)
    PROVE  MsgTypes' /\ EndInv(a)' /\ EndInv(b)'
<1> DEFINE n == owed[a]
           p == M!Packet("ack", n)
<1>1. /\ TwoEnds(a, b) /\ MsgTypes
      /\ PlaceInv(a) /\ InboxInv(a) /\ LossInv(a) /\ AckInv(a) /\ FailInv(a)
      /\ PlaceInv(b) /\ InboxInv(b) /\ LossInv(b) /\ AckInv(b) /\ FailInv(b)
  BY DEF PairInv, EndInv
<1>2. /\ pc[a] = "answer" /\ inbox' = [inbox EXCEPT ![b] = Append(@, p)]
      /\ answered' = [answered EXCEPT ![a] = @ \cup {n}]
      /\ owed' = [owed EXCEPT ![a] = 0]
      /\ pc' = [pc EXCEPT ![a] = "read"]
      /\ UNCHANGED <<key, sent, acked, closed, hungUp>>
  BY <1>1 DEF M!Answer, M!Write, TwoEnds
<1>3. /\ n # 0 /\ n \in (1..sent[b]) \ answered[a] /\ acked[a] = {} /\ sent[a] = Rounds
      /\ n \in 1..Rounds /\ acked[a] # M!Challenges
  <2>1. /\ n # 0 /\ n \in (1..sent[b]) \ answered[a] /\ acked[a] = {} /\ sent[a] = Rounds
    BY <1>1, <1>2 DEF PlaceInv, AckInv, TwoEnds
  <2>2. sent[b] \in 0..Rounds /\ Rounds \in Nat \ {0}
    BY <1>1, CountsAssumption DEF MsgTypes
  <2> QED
    BY <2>1, <2>2 DEF M!Challenges
<1>4. p \in M!Packets /\ p.kind = "ack" /\ p.n = n
  BY <1>3, PacketFacts
<1>5. /\ inbox'[a] = inbox[a] /\ inbox'[b] = Append(inbox[b], p)
      /\ inbox[b] \in Seq(M!Packets) /\ inbox[a] \in Seq(M!Packets)
      /\ answered'[a] = answered[a] \cup {n} /\ answered'[b] = answered[b]
      /\ owed'[a] = 0 /\ owed'[b] = owed[b] /\ pc'[a] = "read" /\ pc'[b] = pc[b]
  BY <1>1, <1>2 DEF MsgTypes, TwoEnds
<1>6. MsgTypes'
  <2>1. inbox' \in [Ends -> Seq(M!Packets)]
    BY <1>1, <1>2, <1>4, <1>5, AppendItems DEF MsgTypes
  <2>2. answered' \in [Ends -> SUBSET M!Challenges] /\ owed' \in [Ends -> 0..Rounds]
    <3>1. n \in M!Challenges /\ 0 \in 0..Rounds
      BY <1>3, CountsAssumption DEF M!Challenges
    <3> QED
      BY <1>1, <1>2, <3>1 DEF MsgTypes
  <2> QED
    BY <1>1, <1>2, <2>1, <2>2 DEF MsgTypes, M!Places
\* no traffic is on its way to b, and not this answer
<1>7. \A q \in PacketsIn(inbox[b]) : q \in M!Packets /\ q.kind \in {"handshake", "ack"} /\ q # p
  <2> SUFFICES ASSUME NEW q \in PacketsIn(inbox[b])
               PROVE  q \in M!Packets /\ q.kind \in {"handshake", "ack"} /\ q # p
    OBVIOUS
  <2>1. q \in M!Packets
    BY <1>5 DEF PacketsIn
  <2>2. q.kind # "traffic"
    BY <1>1, <1>2 DEF InboxInv, TwoEnds
  <2>3. q # p
    BY <1>1, <1>3, <1>4 DEF InboxInv, TwoEnds
  <2> QED
    BY <2>1, <2>2, <2>3, PacketFacts
<1>8. Sorted(inbox'[b]) /\ PacketsIn(inbox'[b]) = PacketsIn(inbox[b]) \cup {p}
  <2>1. \A q \in PacketsIn(inbox[b]) : Rank[q.kind] <= Rank[p.kind]
    BY <1>4, <1>7 DEF Rank
  <2> QED
    BY <1>1, <1>4, <1>5, <1>7, <2>1, AppendItems DEF InboxInv
<1>9. EndInv(a)'
  <2>1. PlaceInv(a)' /\ FailInv(a)'
    BY <1>1, <1>2, <1>3, <1>5 DEF PlaceInv, FailInv, M!Through, Open, TwoEnds
  <2>2. InboxInv(a)'
    <3>1. \A q \in PacketsIn(inbox[a]) : q.kind = "handshake" =>
             q.n \in (1..sent[b]) \ ((answered[a] \cup {n}) \cup {0})
      <4>1. 0 \notin 1..sent[b]
        BY <1>1 DEF MsgTypes
      <4> QED
        BY <1>1, <4>1 DEF InboxInv, TwoEnds
    <3> QED
      BY <1>1, <1>2, <1>5, <3>1 DEF InboxInv, TwoEnds
  <2>3. LossInv(a)'
    BY <1>1, <1>2, <1>5 DEF LossInv, Open, TwoEnds
  <2>4. AckInv(a)'
    BY <1>1, <1>2, <1>3, <1>5 DEF AckInv, TwoEnds
  <2> QED
    BY <2>1, <2>2, <2>3, <2>4 DEF EndInv
<1>10. EndInv(b)'
  <2>1. PlaceInv(b)' /\ FailInv(b)'
    BY <1>1, <1>2, <1>5 DEF PlaceInv, FailInv, M!Through, Open, TwoEnds
  <2>2. InboxInv(b)'
    <3>1. n \notin acked[b]
      BY <1>1, <1>3 DEF AckInv, TwoEnds
    <3>2. \A q \in PacketsIn(inbox[b]) : q.kind # "traffic"
      BY <1>7
    <3> QED
      BY <1>1, <1>2, <1>3, <1>4, <1>5, <1>8, <3>1, <3>2 DEF InboxInv, TwoEnds
  <2>3. LossInv(b)'
    BY <1>1, <1>2, <1>4, <1>5, <1>8 DEF LossInv, Open, TwoEnds
  <2>4. AckInv(b)'
    BY <1>1, <1>2, <1>4, <1>5, <1>8 DEF AckInv, TwoEnds
  <2> QED
    BY <2>1, <2>2, <2>3, <2>4 DEF EndInv
<1> QED
  BY <1>6, <1>9, <1>10

\* An end that has read all its answers has answered everything.
LEMMA ThroughFacts ==
    ASSUME NEW a \in Ends, NEW b \in Ends, PairInv(a, b), M!Through(a)
    PROVE  /\ answered[a] = M!Challenges /\ acked[a] = M!Challenges
           /\ key[a] = key[b] /\ Rounds \in M!Challenges
           /\ \A p \in PacketsIn(inbox[a]) : p \in M!Packets /\ p.kind = "traffic"
<1>1. /\ TwoEnds(a, b) /\ MsgTypes
      /\ PlaceInv(a) /\ InboxInv(a) /\ LossInv(a) /\ AckInv(a) /\ FailInv(a)
      /\ PlaceInv(b) /\ InboxInv(b) /\ LossInv(b) /\ AckInv(b) /\ FailInv(b)
  BY DEF PairInv, EndInv
<1>2. /\ acked[a] = M!Challenges /\ owed[a] = 0 /\ Rounds \in M!Challenges
      /\ Rounds \in Nat \ {0}
  BY <1>1, CountsAssumption DEF PlaceInv, M!Challenges
<1>3. sent[b] = Rounds /\ key[a] = key[b] /\ \A p \in PacketsIn(inbox[a]) : p.kind # "handshake"
  BY <1>1, <1>2 DEF AckInv, TwoEnds
<1>4. \A n \in 1..Rounds : n \in answered[a]
  <2> SUFFICES ASSUME NEW n \in 1..Rounds
               PROVE  M!Packet("handshake", n) \notin PacketsIn(inbox[a]) /\ owed[a] # n
    BY <1>1, <1>3 DEF LossInv, TwoEnds
  <2>1. n \in 0..Rounds /\ n # 0
    BY <1>2
  <2> QED
    BY <1>2, <1>3, <2>1, PacketFacts
<1>5. \A p \in PacketsIn(inbox[a]) : p \in M!Packets /\ p.kind = "traffic"
  <2> SUFFICES ASSUME NEW p \in PacketsIn(inbox[a])
               PROVE  p \in M!Packets /\ p.kind = "traffic"
    OBVIOUS
  <2>1. p \in M!Packets
    BY <1>1 DEF MsgTypes, PacketsIn
  <2>2. p.kind # "ack"
    BY <1>1, <1>2 DEF InboxInv, MsgTypes, TwoEnds
  <2> QED
    BY <1>3, <2>1, <2>2, PacketFacts
<1> QED
  BY <1>1, <1>2, <1>3, <1>4, <1>5 DEF MsgTypes, M!Challenges

\* What an end in the handshake reads next.
LEMMA ReadFacts ==
    ASSUME NEW a \in Ends, NEW b \in Ends, PairInv(a, b), pc[a] = "read", inbox[a] # <<>>
    PROVE  Head(inbox[a]).kind # "traffic"
<1> DEFINE h == Head(inbox[a])
<1>1. /\ TwoEnds(a, b) /\ MsgTypes
      /\ PlaceInv(a) /\ InboxInv(a) /\ LossInv(a) /\ AckInv(a) /\ FailInv(a)
      /\ PlaceInv(b) /\ InboxInv(b) /\ LossInv(b) /\ AckInv(b) /\ FailInv(b)
  BY DEF PairInv, EndInv
<1>2. h \in PacketsIn(inbox[a]) /\ \A p \in PacketsIn(inbox[a]) : Rank[h.kind] <= Rank[p.kind]
  BY <1>1, HeadItems DEF MsgTypes, InboxInv
<1> SUFFICES ASSUME h.kind = "traffic" PROVE FALSE
  OBVIOUS
<1>3. answered[b] = M!Challenges
  BY <1>1, <1>2 DEF InboxInv, TwoEnds
<1>4. \A n \in M!Challenges : M!Packet("ack", n) \notin PacketsIn(inbox[a])
  <2> SUFFICES ASSUME NEW n \in M!Challenges, M!Packet("ack", n) \in PacketsIn(inbox[a]) PROVE FALSE
    OBVIOUS
  <2>1. n \in 0..Rounds
    BY CountsAssumption DEF M!Challenges
  <2>2. Rank[M!Packet("ack", n).kind] = 2 /\ Rank[h.kind] = 3
    BY <2>1, PacketFacts DEF Rank
  <2> QED
    BY <1>2, <2>2
<1>5. M!Challenges \subseteq acked[a]
  BY <1>1, <1>3, <1>4 DEF LossInv, Open, TwoEnds
<1> QED
  BY <1>1, <1>5 DEF PlaceInv, MsgTypes

LEMMA ReadAckStep ==
    ASSUME NEW a \in Ends, NEW b \in Ends, PairInv(a, b), M!ReadAck(a)
    PROVE  MsgTypes' /\ EndInv(a)' /\ EndInv(b)'
<1> DEFINE h == Head(inbox[a])
           n == h.n
<1>1. /\ TwoEnds(a, b) /\ MsgTypes
      /\ PlaceInv(a) /\ InboxInv(a) /\ LossInv(a) /\ AckInv(a) /\ FailInv(a)
      /\ PlaceInv(b) /\ InboxInv(b) /\ LossInv(b) /\ AckInv(b) /\ FailInv(b)
  BY DEF PairInv, EndInv
<1>2. /\ pc[a] = "read" /\ inbox[a] # <<>> /\ h.kind \in {"ack", "traffic"}
      /\ M!Readable(a)
      /\ inbox' = [inbox EXCEPT ![a] = Tail(@)]
      /\ UNCHANGED <<key, sent, owed, answered, hungUp>>
  BY DEF M!ReadAck, M!Reads, M!hist
<1>3. /\ inbox[a] \in Seq(M!Packets) /\ h \in PacketsIn(inbox[a]) /\ h \in M!Packets
      /\ Tail(inbox[a]) \in Seq(M!Packets) /\ Sorted(Tail(inbox[a]))
      /\ PacketsIn(Tail(inbox[a])) = PacketsIn(inbox[a]) \ {h}
      /\ \A q \in PacketsIn(inbox[a]) : Rank[h.kind] <= Rank[q.kind]
  BY <1>1, <1>2, HeadItems DEF MsgTypes, InboxInv
<1>4. h.kind = "ack" /\ n \in answered[b] \ acked[a] /\ sent[b] = Rounds
  <2>1. h.kind = "ack"
    BY <1>2, ReadFacts
  <2> QED
    BY <1>1, <1>3, <2>1 DEF InboxInv, TwoEnds
<1>5. n \in M!Challenges \ acked[a] /\ h = M!Packet("ack", n)
  BY <1>1, <1>3, <1>4, PacketFacts DEF MsgTypes
<1>6. /\ acked' = [acked EXCEPT ![a] = @ \cup {n}]
      /\ pc' = [pc EXCEPT ![a] = IF acked'[a] = M!Challenges THEN "trusted" ELSE "read"]
      /\ UNCHANGED closed
  BY <1>4, <1>5 DEF M!ReadAck
<1>7. /\ inbox'[a] = Tail(inbox[a]) /\ inbox'[b] = inbox[b]
      /\ acked'[a] = acked[a] \cup {n} /\ acked'[b] = acked[b] /\ pc'[b] = pc[b]
      /\ pc'[a] = IF acked'[a] = M!Challenges THEN "trusted" ELSE "read"
  BY <1>1, <1>2, <1>6 DEF MsgTypes, TwoEnds
<1>8. MsgTypes'
  BY <1>1, <1>2, <1>3, <1>5, <1>6 DEF MsgTypes, M!Places
<1>9. \A q \in PacketsIn(inbox[a]) : q \in M!Packets /\ q.kind \in {"ack", "traffic"}
  <2> SUFFICES ASSUME NEW q \in PacketsIn(inbox[a])
               PROVE  q \in M!Packets /\ q.kind \in {"ack", "traffic"}
    OBVIOUS
  <2>1. q \in M!Packets
    BY <1>3 DEF PacketsIn
  <2>2. Rank[h.kind] = 2 /\ Rank[h.kind] <= Rank[q.kind]
    BY <1>3, <1>4 DEF Rank
  <2>3. q.kind # "handshake"
    BY <2>2 DEF Rank
  <2> QED
    BY <2>1, <2>3, PacketFacts
<1>10. EndInv(a)'
  <2>1. PlaceInv(a)' /\ FailInv(a)'
    <3>1. sent[a] = Rounds /\ owed[a] = 0
      BY <1>1, <1>2 DEF PlaceInv
    <3> QED
      BY <1>1, <1>2, <1>6, <1>7, <3>1 DEF PlaceInv, FailInv, M!Through, Open, TwoEnds
  <2>2. InboxInv(a)'
    <3>1. \A q \in PacketsIn(Tail(inbox[a])) : q.kind = "ack" =>
             q.n \in answered[b] \ (acked[a] \cup {n})
      <4> SUFFICES ASSUME NEW q \in PacketsIn(inbox[a]), q # h, q.kind = "ack"
                   PROVE  q.n \in answered[b] \ (acked[a] \cup {n})
        BY <1>3
      <4>1. q.n # n
        BY <1>5, <1>9, PacketFacts
      <4> QED
        BY <1>1, <4>1 DEF InboxInv, TwoEnds
    <3> QED
      BY <1>1, <1>2, <1>3, <1>4, <1>7, <3>1 DEF InboxInv, TwoEnds
  <2>3. LossInv(a)'
    <3>1. \A m \in 1..sent[b] : M!Packet("handshake", m) # h
      <4> SUFFICES ASSUME NEW m \in 1..sent[b] PROVE M!Packet("handshake", m) # h
        OBVIOUS
      <4>1. m \in 0..Rounds
        BY <1>4, CountsAssumption
      <4> QED
        BY <1>4, <4>1, PacketFacts
    <3>2. \A m \in answered[b] : M!Packet("ack", m) = h => m = n
      <4> SUFFICES ASSUME NEW m \in answered[b], M!Packet("ack", m) = h PROVE m = n
        OBVIOUS
      <4>1. m \in 0..Rounds
        BY <1>1, CountsAssumption DEF MsgTypes, M!Challenges
      <4> QED
        BY <4>1, PacketFacts
    <3> QED
      BY <1>1, <1>2, <1>3, <1>6, <1>7, <3>1, <3>2 DEF LossInv, Open, TwoEnds
  <2>4. AckInv(a)'
    <3>1. owed[a] = 0 /\ key[a] = key[b]
      BY <1>1, <1>2 DEF PlaceInv, M!Readable, TwoEnds
    <3>2. \A q \in PacketsIn(Tail(inbox[a])) : q.kind # "handshake"
      BY <1>3, <1>9
    <3> QED
      BY <1>1, <1>2, <1>4, <1>7, <3>1, <3>2 DEF AckInv, TwoEnds
  <2> QED
    BY <2>1, <2>2, <2>3, <2>4 DEF EndInv
<1>11. EndInv(b)'
  <2>1. PlaceInv(b)' /\ AckInv(b)' /\ LossInv(b)' /\ FailInv(b)'
    BY <1>1, <1>2, <1>6, <1>7 DEF PlaceInv, AckInv, LossInv, FailInv, M!Through, Open, TwoEnds
  <2>2. InboxInv(b)'
    BY <1>1, <1>2, <1>7 DEF InboxInv, TwoEnds
  <2> QED
    BY <2>1, <2>2 DEF EndInv
<1> QED
  BY <1>8, <1>10, <1>11

LEMMA GreetStep ==
    ASSUME NEW a \in Ends, NEW b \in Ends, PairInv(a, b), M!Greet(a)
    PROVE  MsgTypes' /\ EndInv(a)' /\ EndInv(b)'
<1> DEFINE p == M!Packet("traffic", 0)
<1>1. /\ TwoEnds(a, b) /\ MsgTypes
      /\ PlaceInv(a) /\ InboxInv(a) /\ LossInv(a) /\ AckInv(a) /\ FailInv(a)
      /\ PlaceInv(b) /\ InboxInv(b) /\ LossInv(b) /\ AckInv(b) /\ FailInv(b)
  BY DEF PairInv, EndInv
<1>2. pc[a] = "trusted" /\ UNCHANGED <<key, sent, owed, acked, answered, hungUp>>
  BY DEF M!Greet, M!hist
<1>3. CASE b \in closed /\ M!Fail(a) /\ UNCHANGED inbox
  BY <1>1, <1>2, <1>3, FailStep DEF PlaceInv, Open
<1>4. CASE M!Write(a, p) /\ pc' = [pc EXCEPT ![a] = "serving"] /\ UNCHANGED closed
  <2>1. inbox' = [inbox EXCEPT ![b] = Append(@, p)]
    BY <1>1, <1>4 DEF M!Write, TwoEnds
  <2>2. p \in M!Packets /\ p.kind = "traffic"
    BY PacketFacts, CountsAssumption
  <2>3. /\ inbox'[a] = inbox[a] /\ inbox'[b] = Append(inbox[b], p) /\ inbox[b] \in Seq(M!Packets)
        /\ pc'[a] = "serving" /\ pc'[b] = pc[b]
    BY <1>1, <1>4, <2>1 DEF MsgTypes, TwoEnds
  <2>4. answered[a] = M!Challenges /\ sent[a] = Rounds
    BY <1>1, <1>2, ThroughFacts DEF M!Through, PlaceInv
  <2>5. MsgTypes'
    BY <1>1, <1>2, <1>4, <2>1, <2>2, <2>3, AppendItems DEF MsgTypes, M!Places
  <2>6. \A q \in PacketsIn(inbox[b]) : q \in M!Packets /\ q.kind \in {"handshake", "ack"}
    <3> SUFFICES ASSUME NEW q \in PacketsIn(inbox[b])
                 PROVE  q \in M!Packets /\ q.kind \in {"handshake", "ack"}
      OBVIOUS
    <3>1. q \in M!Packets
      BY <2>3 DEF PacketsIn
    <3>2. q.kind # "traffic"
      BY <1>1, <1>2 DEF InboxInv, TwoEnds
    <3> QED
      BY <3>1, <3>2, PacketFacts
  <2>7. Sorted(inbox'[b]) /\ PacketsIn(inbox'[b]) = PacketsIn(inbox[b]) \cup {p}
    <3>1. \A q \in PacketsIn(inbox[b]) : Rank[q.kind] <= Rank[p.kind] /\ q # p
      BY <2>2, <2>6 DEF Rank
    <3> QED
      BY <1>1, <2>2, <2>3, <3>1, AppendItems DEF InboxInv
  <2>8. EndInv(a)'
    <3>1. PlaceInv(a)' /\ FailInv(a)'
      BY <1>1, <1>2, <1>4, <2>3 DEF PlaceInv, FailInv, M!Through, Open, TwoEnds
    <3>2. InboxInv(a)' /\ LossInv(a)' /\ AckInv(a)'
      BY <1>1, <1>2, <1>4, <2>3 DEF InboxInv, LossInv, AckInv, Open, TwoEnds
    <3> QED
      BY <3>1, <3>2 DEF EndInv
  <2>9. EndInv(b)'
    <3>1. PlaceInv(b)' /\ FailInv(b)'
      BY <1>1, <1>2, <1>4, <2>3 DEF PlaceInv, FailInv, M!Through, Open, TwoEnds
    <3>2. InboxInv(b)'
      BY <1>1, <1>2, <2>2, <2>3, <2>4, <2>6, <2>7 DEF InboxInv, TwoEnds
    <3>3. LossInv(b)' /\ AckInv(b)'
      BY <1>1, <1>2, <1>4, <2>2, <2>3, <2>7 DEF LossInv, AckInv, Open, TwoEnds
    <3> QED
      BY <3>1, <3>2, <3>3 DEF EndInv
  <2> QED
    BY <2>5, <2>8, <2>9
<1> QED
  BY <1>1, <1>3, <1>4 DEF M!Greet, TwoEnds

LEMMA ServeStep ==
    ASSUME NEW a \in Ends, NEW b \in Ends, PairInv(a, b), M!Serve(a)
    PROVE  MsgTypes' /\ EndInv(a)' /\ EndInv(b)'
<1>1. /\ TwoEnds(a, b) /\ MsgTypes
      /\ PlaceInv(a) /\ InboxInv(a) /\ LossInv(a) /\ AckInv(a) /\ FailInv(a)
      /\ PlaceInv(b) /\ InboxInv(b) /\ LossInv(b) /\ AckInv(b) /\ FailInv(b)
  BY DEF PairInv, EndInv
<1>2. pc[a] = "serving" /\ UNCHANGED <<key, sent, owed, acked, answered, hungUp>>
  BY DEF M!Serve, M!hist
<1>3. CASE b \in closed /\ M!Fail(a) /\ UNCHANGED inbox
  BY <1>1, <1>2, <1>3, FailStep DEF PlaceInv, Open
<1>4. CASE inbox[a] # <<>> /\ inbox' = [inbox EXCEPT ![a] = Tail(@)] /\ UNCHANGED <<pc, closed>>
  <2>1. /\ Tail(inbox[a]) \in Seq(M!Packets) /\ Sorted(Tail(inbox[a]))
        /\ PacketsIn(Tail(inbox[a])) \subseteq PacketsIn(inbox[a])
    BY <1>1, <1>4, HeadItems DEF MsgTypes, InboxInv
  <2>2. inbox'[a] = Tail(inbox[a]) /\ inbox'[b] = inbox[b]
    BY <1>1, <1>4 DEF MsgTypes, TwoEnds
  <2>3. MsgTypes'
    BY <1>1, <1>2, <1>4, <2>1 DEF MsgTypes
  <2>4. /\ answered[a] = M!Challenges /\ acked[a] = M!Challenges /\ sent[b] = Rounds
    <3>1. answered[a] = M!Challenges /\ acked[a] = M!Challenges /\ Rounds \in M!Challenges
      BY <1>2, ThroughFacts DEF M!Through
    <3> QED
      BY <1>1, <3>1 DEF AckInv, TwoEnds
  <2>5. EndInv(a)'
    <3>1. PlaceInv(a)' /\ FailInv(a)' /\ AckInv(a)'
      BY <1>1, <1>2, <1>4, <2>1, <2>2 DEF PlaceInv, FailInv, AckInv, M!Through, Open, TwoEnds
    <3>2. InboxInv(a)'
      BY <1>1, <1>2, <1>4, <2>1, <2>2 DEF InboxInv, TwoEnds
    <3>3. LossInv(a)'
      <4>1. \A n \in answered[b] : n \in acked[a]
        BY <1>1, <2>4 DEF MsgTypes
      <4> QED
        BY <1>1, <1>2, <1>4, <2>4, <4>1 DEF LossInv, TwoEnds, M!Challenges
    <3> QED
      BY <3>1, <3>2, <3>3 DEF EndInv
  <2>6. EndInv(b)'
    <3>1. PlaceInv(b)' /\ FailInv(b)' /\ AckInv(b)'
      BY <1>1, <1>2, <1>4, <2>2 DEF PlaceInv, FailInv, AckInv, M!Through, Open, TwoEnds
    <3>2. InboxInv(b)' /\ LossInv(b)'
      BY <1>1, <1>2, <1>4, <2>2 DEF InboxInv, LossInv, Open, TwoEnds
    <3> QED
      BY <3>1, <3>2 DEF EndInv
  <2> QED
    BY <2>3, <2>5, <2>6
<1> QED
  BY <1>1, <1>3, <1>4 DEF M!Serve, TwoEnds

LEMMA PairIntro ==
    ASSUME MsgInv, NEW a \in Ends
    PROVE  Peer(a) \in Ends /\ PairInv(a, Peer(a)) /\ Peer(Peer(a)) = a
<1>1. Ends = {a, Peer(a)} /\ Peer(a) \in Ends /\ a # Peer(a) /\ Peer(Peer(a)) = a
  BY PeerFacts
<1> QED
  BY <1>1 DEF PairInv, TwoEnds, MsgInv, Peer

LEMMA MsgInvInit ==
    M!Init => MsgInv
<1> SUFFICES ASSUME M!Init PROVE MsgInv
  OBVIOUS
<1>1. Rounds \in Nat \ {0} /\ M!Challenges # {}
  <2>1. 1 \in M!Challenges
    BY CountsAssumption DEF M!Challenges
  <2> QED
    BY <2>1, CountsAssumption
<1>2. MsgTypes
  <2>1. sent \in [Ends -> 0..Rounds] /\ owed \in [Ends -> 0..Rounds]
    BY <1>1 DEF M!Init
  <2>2. inbox \in [Ends -> Seq(M!Packets)]
    BY DEF M!Init
  <2> QED
    BY <2>1, <2>2 DEF M!Init, MsgTypes, M!Places
<1>3. ASSUME NEW e \in Ends PROVE EndInv(e)
  <2>1. /\ Peer(e) \in Ends /\ PacketsIn(<<>>) = {} /\ Sorted(<<>>)
        /\ \A f \in Ends : /\ inbox[f] = <<>> /\ sent[f] = 0 /\ owed[f] = 0 /\ acked[f] = {}
                             /\ answered[f] = {} /\ pc[f] = "send"
        /\ closed = {} /\ hungUp = {}
    BY PeerFacts DEF M!Init, PacketsIn, Sorted
  <2>2. PlaceInv(e) /\ FailInv(e)
    BY <1>1, <2>1 DEF PlaceInv, FailInv, M!Through, Open
  <2>3. InboxInv(e) /\ AckInv(e)
    BY <2>1 DEF InboxInv, AckInv
  <2>4. LossInv(e)
    BY <2>1 DEF LossInv
  <2> QED
    BY <2>2, <2>3, <2>4 DEF EndInv
<1> QED
  BY <1>2, <1>3 DEF MsgInv

\* Every step of an end, and its hanging up, keeps the invariant of both.
LEMMA MsgInvNext ==
    MsgInv /\ M!Next => MsgInv'
<1> SUFFICES ASSUME MsgInv, M!Next PROVE MsgInv'
  OBVIOUS
<1>1. CASE UNCHANGED M!vars
  BY <1>1 DEF M!vars, MsgInv, MsgTypes, EndInv, PlaceInv, InboxInv, LossInv, AckInv, FailInv,
              M!Through, Open
<1>2. ASSUME NEW a \in Ends, M!Step(a) \/ M!HangUp(a)
      PROVE  MsgInv'
  <2> DEFINE b == Peer(a)
  <2>1. b \in Ends /\ PairInv(a, b)
    BY PairIntro
  <2>2. PlaceInv(a) /\ PlaceInv(b) /\ TwoEnds(a, b)
    BY <2>1 DEF PairInv, EndInv
  <2> HIDE DEF b
  <2>3. SUFFICES MsgTypes' /\ EndInv(a)' /\ EndInv(b)'
    BY <2>2 DEF MsgInv, TwoEnds
  <2>4. CASE M!SendChallenge(a)
    BY <2>1, <2>4, SendChallengeStep
  <2>5. CASE M!WriteFails(a)
    <3>1. pc[a] \in {"send", "answer"} /\ b \in closed /\ M!Fail(a)
          /\ UNCHANGED <<key, sent, owed, acked, inbox, answered, hungUp>>
      BY <2>2, <2>5 DEF M!WriteFails, M!hist, TwoEnds
    <3> QED
      BY <2>1, <2>2, <3>1, FailStep DEF PlaceInv, Open
  <2>6. CASE M!ReadChallenge(a)
    BY <2>1, <2>6, ReadChallengeStep
  <2>7. CASE M!Answer(a)
    BY <2>1, <2>7, AnswerStep
  <2>8. CASE M!ReadAck(a)
    BY <2>1, <2>8, ReadAckStep
  <2>9. CASE M!ReadGarbage(a)
    <3>1. pc[a] = "read" /\ key[a] # key[b] /\ M!Fail(a)
          /\ UNCHANGED <<key, sent, owed, acked, inbox, answered, hungUp>>
      BY <2>2, <2>9 DEF M!ReadGarbage, M!Readable, M!hist, TwoEnds
    <3> QED
      BY <2>1, <3>1, FailStep DEF Open
  <2>10. CASE M!ReadClosed(a)
    <3>1. pc[a] = "read" /\ b \in closed /\ M!Fail(a)
          /\ UNCHANGED <<key, sent, owed, acked, inbox, answered, hungUp>>
      BY <2>2, <2>10 DEF M!ReadClosed, M!hist, TwoEnds
    <3> QED
      BY <2>1, <2>2, <3>1, FailStep DEF PlaceInv, Open
  <2>11. CASE M!Greet(a)
    BY <2>1, <2>11, GreetStep
  <2>12. CASE M!Serve(a)
    BY <2>1, <2>12, ServeStep
  <2>13. CASE M!HangUp(a)
    BY <2>1, <2>13, FailStep DEF M!HangUp, Open
  <2> QED
    BY <1>2, <2>4, <2>5, <2>6, <2>7, <2>8, <2>9, <2>10, <2>11, <2>12, <2>13 DEF M!Step
<1> QED
  BY <1>1, <1>2 DEF M!Next, M!AtRest

LEMMA HandshakeInvariance ==
    InboundSpec => []MsgInv
<1>1. InboundInit => MsgInv
  BY MsgInvInit DEF InboundInit
<1>2. MsgInv /\ [InboundNext]_<<vars, mport, port>> => MsgInv'
  <2> SUFFICES ASSUME MsgInv, [InboundNext]_<<vars, mport, port>> PROVE MsgInv'
    OBVIOUS
  <2>1. CASE M!Next
    BY <2>1, MsgInvNext
  <2>2. CASE UNCHANGED mport
    BY <2>2 DEF mport, MsgInv, MsgTypes, EndInv, PlaceInv, InboxInv, LossInv, AckInv, FailInv,
                M!Through, Open
  <2> QED
    BY <2>1, <2>2 DEF InboundNext
<1> QED
  BY <1>1, <1>2, PTL DEF InboundSpec

\* An end that trusts its peer has answered all the peer's challenges, for any
\* number of rounds and any buffers: the loop that counts only the answers it
\* receives (handshake.go:93) need not count the ones it sends.
THEOREM TrustIsEarned ==
    InboundSpec => []AnsweredBeforeTrust
<1>1. MsgInv => AnsweredBeforeTrust
  <2> SUFFICES ASSUME MsgInv, NEW a \in Ends, M!Through(a)
               PROVE  answered[a] = M!Challenges
    BY DEF AnsweredBeforeTrust, M!AnsweredBeforeTrust
  <2>1. Peer(a) \in Ends /\ PairInv(a, Peer(a))
    BY PairIntro
  <2> QED
    BY <2>1, ThroughFacts
<1> QED
  BY <1>1, HandshakeInvariance, PTL

\* The first end through starts its traffic at once, and the other never meets
\* it inside its handshake, which would abort it (handshake.go:132-133).
THEOREM TrafficWaits ==
    InboundSpec => []NoEarlyTraffic
<1>1. MsgInv => NoEarlyTraffic
  <2> SUFFICES ASSUME MsgInv, NEW a \in Ends, pc[a] = "read", inbox[a] # <<>>
               PROVE  Head(inbox[a]).kind # "traffic"
    BY DEF NoEarlyTraffic, M!NoEarlyTraffic
  <2>1. Peer(a) \in Ends /\ PairInv(a, Peer(a))
    BY PairIntro
  <2> QED
    BY <2>1, ReadFacts
<1> QED
  BY <1>1, HandshakeInvariance, PTL

\* While nobody hangs up, no end rejects a peer that trusts it: of two ends, the
\* one that fails first must see another key, and then neither was ever trusted.
THEOREM NoOneSidedTrust ==
    InboundSpec => []TrustIsMutual
<1>1. MsgInv => TrustIsMutual
  <2> SUFFICES ASSUME MsgInv, NEW a \in Ends, hungUp = {}, M!Through(a), pc[Peer(a)] = "failed"
               PROVE  FALSE
    BY DEF TrustIsMutual, M!TrustIsMutual, Peer
  <2>1. Peer(a) \in Ends /\ PairInv(a, Peer(a)) /\ Peer(Peer(a)) = a
    BY PairIntro
  <2>2. key[a] = key[Peer(a)] /\ Open(a)
    BY <2>1, ThroughFacts DEF M!Through, Open
  <2>3. FailInv(Peer(a))
    BY <2>1 DEF MsgInv, EndInv
  <2> QED
    BY <2>1, <2>2, <2>3 DEF FailInv, Open
<1> QED
  BY <1>1, HandshakeInvariance, PTL

\* A write waits for room: no direction holds more than its buffer, and nobody
\* changes its key.
BufferInv == /\ key \in [Ends -> Keys]
             /\ \A e \in Ends : Len(inbox[e]) <= Buffer

LEMMA BufferStep == MsgInv /\ BufferInv /\ M!Next => BufferInv'
<1> SUFFICES ASSUME MsgInv, BufferInv, M!Next, NEW f \in Ends
             PROVE  key' = key /\ Len(inbox'[f]) <= Buffer
  BY EndsAssumption DEF BufferInv
<1>1. /\ inbox \in [Ends -> Seq(M!Packets)] /\ inbox[f] \in Seq(M!Packets)
      /\ Len(inbox[f]) \in Nat /\ Len(inbox[f]) <= Buffer /\ Buffer \in Nat
  BY CountsAssumption DEF MsgInv, MsgTypes, BufferInv
<1>2. ASSUME NEW a \in Ends, NEW p, M!Room(a), M!Write(a, p)
      PROVE  Len(inbox'[f]) <= Buffer
  <2>1. CASE f = M!Other(a)
    <3>1. Len(inbox[f]) < Buffer /\ inbox'[f] = Append(inbox[f], p)
      BY <1>1, <1>2, <2>1 DEF M!Room, M!Write
    <3>2. Len(Append(inbox[f], p)) = Len(inbox[f]) + 1
      BY <1>1
    <3> QED
      BY <1>1, <3>1, <3>2
  <2>2. CASE f # M!Other(a)
    BY <1>1, <1>2, <2>2 DEF M!Write
  <2> QED
    BY <2>1, <2>2
<1>3. ASSUME NEW a \in Ends, inbox[a] # <<>>, inbox' = [inbox EXCEPT ![a] = Tail(@)]
      PROVE  Len(inbox'[f]) <= Buffer
  <2>1. CASE f = a
    <3>1. inbox'[f] = Tail(inbox[f]) /\ Len(Tail(inbox[f])) = Len(inbox[f]) - 1
      BY <1>1, <1>3, <2>1
    <3> QED
      BY <1>1, <3>1
  <2>2. CASE f # a
    BY <1>1, <1>3, <2>2
  <2> QED
    BY <2>1, <2>2
<1>4. CASE UNCHANGED <<key, inbox>>
  BY <1>1, <1>4
<1>5. ASSUME NEW a \in Ends, M!Step(a) \/ M!HangUp(a)
      PROVE  key' = key /\ Len(inbox'[f]) <= Buffer
  <2>1. CASE M!SendChallenge(a) \/ M!Answer(a)
    BY <1>2, <2>1 DEF M!SendChallenge, M!Answer
  <2>2. CASE M!Greet(a)
    BY <1>2, <1>4, <2>2 DEF M!Greet
  <2>3. CASE M!ReadChallenge(a) \/ M!ReadAck(a)
    BY <1>3, <2>3 DEF M!ReadChallenge, M!ReadAck, M!Reads
  <2>4. CASE M!Serve(a)
    BY <1>3, <1>4, <2>4 DEF M!Serve
  <2>5. CASE M!WriteFails(a) \/ M!ReadGarbage(a) \/ M!ReadClosed(a) \/ M!HangUp(a)
    BY <1>4, <2>5 DEF M!WriteFails, M!ReadGarbage, M!ReadClosed, M!HangUp
  <2> QED
    BY <1>5, <2>1, <2>2, <2>3, <2>4, <2>5 DEF M!Step
<1> QED
  BY <1>4, <1>5 DEF M!Next, M!AtRest, M!vars

\* The types of Handshake, with the buffers never exceeded: for any number of
\* rounds and any keys.
THEOREM HandshakeTyped ==
    InboundSpec => []M!TypeOK
<1>1. InboundInit => BufferInv
  BY CountsAssumption DEF InboundInit, M!Init, BufferInv
<1>2. MsgInv /\ BufferInv /\ [InboundNext]_<<vars, mport, port>> => BufferInv'
  <2>1. UNCHANGED mport /\ BufferInv => BufferInv'
    BY DEF mport, BufferInv
  <2> QED
    BY <2>1, BufferStep DEF InboundNext
<1>3. MsgInv /\ BufferInv => M!TypeOK
  BY DEF MsgInv, MsgTypes, BufferInv, M!TypeOK
<1> QED
  BY <1>1, <1>2, <1>3, HandshakeInvariance, PTL DEF InboundSpec

-----------------------------------------------------------------------------
(* The clipboard port. *)

\* A connection of either port leaves the clipboard as transfers would: what holds
\* of every transfer holds of an inbound connection (handleInbound and
\* handleClipboardLeg of net/server.go).
THEOREM InboundTransfers ==
    InboundSpec => Spec /\ []ProvideLatest /\ []NoPartialFile /\ SoundReceipt
                        /\ []DirectPullDelivers
<1>1. InboundInit => Init
  BY DEF InboundInit
<1>2. [InboundNext]_<<vars, mport, port>> => [Next]_vars
  BY DEF InboundNext
<1>3. InboundSpec => Spec
  BY <1>1, <1>2, PTL DEF InboundSpec, Spec
<1> QED
  BY <1>3, ProvideServesLatest, FilesAreWhole, ReceiptIsSound, PullsAreServed
=============================================================================
