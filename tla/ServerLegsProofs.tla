-------------------------- MODULE ServerLegsProofs --------------------------
(***************************************************************************)
(* Proofs about the leg table, for any peers and any number of             *)
(* connections: its entries are open connections, and a peer has one       *)
(* dial-back.  The invariant says at which places of its goroutine a       *)
(* connection may be in the table, and that s.dialing reserves the peer's  *)
(* outbound key until the dial-back is in it.                              *)
(***************************************************************************)
EXTENDS ServerLegs, TLAPS

\* Listed inbound connections: theirs is the peer's key, their reader has not
\* dropped it yet, and nobody closed them.
InInv == /\ \A p \in Peers : inLegs[p] # NoLeg =>
               /\ peer[inLegs[p]] = p /\ inLink[inLegs[p]] # "down"
               /\ pc[inLegs[p]] \in {"greet", "dialback", "serve", "drop"}
         /\ \A c \in Conns : pc[c] = "handshake" => inLink[c] # "down"

\* A connection dials once, after it has been greeted.
Fresh(c) == pc[c] \in {"none", "handshake", "greet", "dialback"}

\* A dial-back under way holds its peer's place in s.dialing, alone, and finds
\* the peer's outbound key free; afterwards the connection is in the table.
OutInv == /\ \A c \in Conns : Fresh(c) => dial[c] = "idle" /\ outLink[c] = "down"
          /\ \A c \in Conns : dial[c] # "idle" => peer[c] \in dialing
          /\ \A c, d \in Conns :
               dial[c] # "idle" /\ dial[d] # "idle" /\ peer[c] = peer[d] => c = d
          /\ \A c \in Conns : dial[c] \in {"dial", "handshake"} => outLegs[peer[c]] = NoLeg
          /\ \A c \in Conns :
               outLink[c] # "down" => outLegs[peer[c]] = c \/ dial[c] = "handshake"
          /\ \A c \in Conns : dial[c] = "handshake" => outLink[c] # "down"
          /\ \A p \in Peers : outLegs[p] # NoLeg =>
               peer[outLegs[p]] = p /\ outLink[outLegs[p]] # "down"

Inv == TypeOK /\ InInv /\ OutInv

LEMMA NoLegFact == NoLeg \notin Conns
  BY ConnsAssumption DEF NoLeg, Conns

\* The invariant holds before anything is accepted.
LEMMA InitInv == Init => Inv
<1> SUFFICES ASSUME Init PROVE Inv
  OBVIOUS
<1>1. TypeOK
  BY DEF Init, TypeOK, Places, DialPlaces, Links
<1>2. InInv
  BY DEF Init, InInv
<1>3. OutInv
  BY DEF Init, OutInv, Fresh
<1> QED
  BY <1>1, <1>2, <1>3 DEF Inv

\* Every step keeps the types.
LEMMA TypeStep == TypeOK /\ [Next]_vars => TypeOK'
<1> SUFFICES ASSUME TypeOK, [Next]_vars PROVE TypeOK'
  OBVIOUS
<1>1. ASSUME NEW c \in Conns,
             \/ Accept(c) \/ HandshakeFails(c) \/ Trust(c) \/ Greet(c) \/ ReadFails(c) \/ Bye(c)
             \/ DropLeg(c) \/ CloseLeg(c)
      PROVE  TypeOK'
  BY <1>1 DEF TypeOK, Accept, HandshakeFails, Trust, Greet, ReadFails, Bye, DropLeg, CloseLeg,
              GoTo, dialVars, Places, Links
<1>2. ASSUME NEW c \in Conns, MaybeDialBack(c) \/ DialStep(c) \/ PeerGoes(c)
      PROVE  TypeOK'
  BY <1>2 DEF TypeOK, MaybeDialBack, DialStep, DialConnects, DialFails, RegisterDial, Undial,
              PeerGoes, GoTo, DialTo, Places, DialPlaces, Links
<1>3. CASE Stop
  BY <1>3 DEF TypeOK, Stop, CloseListed, Links
<1>4. CASE UNCHANGED vars
  BY <1>4 DEF TypeOK, vars
<1> QED
  BY <1>1, <1>2, <1>3, <1>4 DEF Next, LegStep

\* Every step keeps the inbound half of the invariant.
LEMMA InStep == Inv /\ [Next]_vars => InInv'
<1> SUFFICES ASSUME Inv, [Next]_vars PROVE InInv'
  OBVIOUS
<1> USE NoLegFact
<1>1. ASSUME NEW c \in Conns, Accept(c) \/ HandshakeFails(c) PROVE InInv'
  BY <1>1 DEF Inv, TypeOK, InInv, Accept, HandshakeFails, GoTo, dialVars
<1>2. ASSUME NEW c \in Conns, Trust(c) PROVE InInv'
  BY <1>2 DEF Inv, TypeOK, InInv, Trust, GoTo, dialVars
<1>3. ASSUME NEW c \in Conns, Greet(c) \/ ReadFails(c) \/ Bye(c) PROVE InInv'
  BY <1>3 DEF Inv, TypeOK, InInv, Greet, ReadFails, Bye, GoTo, dialVars
<1>4. ASSUME NEW c \in Conns, DropLeg(c) PROVE InInv'
  BY <1>4 DEF Inv, TypeOK, InInv, DropLeg, GoTo, dialVars
<1>5. ASSUME NEW c \in Conns, CloseLeg(c) PROVE InInv'
  BY <1>5 DEF Inv, TypeOK, InInv, CloseLeg, GoTo, dialVars
<1>6. ASSUME NEW c \in Conns, MaybeDialBack(c) \/ DialStep(c) PROVE InInv'
  BY <1>6 DEF Inv, TypeOK, InInv, MaybeDialBack, DialStep, DialConnects, DialFails, RegisterDial,
              Undial, GoTo
<1>7. ASSUME NEW c \in Conns, PeerGoes(c) PROVE InInv'
  BY <1>7 DEF Inv, TypeOK, InInv, PeerGoes
<1>8. CASE Stop
  BY <1>8 DEF Inv, TypeOK, InInv, Stop, CloseListed
<1>9. CASE UNCHANGED vars
  BY <1>9 DEF Inv, InInv, vars
<1> QED
  BY <1>1, <1>2, <1>3, <1>4, <1>5, <1>6, <1>7, <1>8, <1>9 DEF Next, LegStep

\* Every step keeps the outbound half of the invariant.
LEMMA OutStep == Inv /\ [Next]_vars => OutInv'
<1> SUFFICES ASSUME Inv, [Next]_vars PROVE OutInv'
  OBVIOUS
<1> USE NoLegFact
<1>1. ASSUME NEW c \in Conns,
             \/ Accept(c) \/ HandshakeFails(c) \/ Trust(c) \/ Greet(c) \/ ReadFails(c) \/ Bye(c)
             \/ DropLeg(c) \/ CloseLeg(c)
      PROVE  OutInv'
  BY <1>1 DEF Inv, TypeOK, OutInv, Fresh, Accept, HandshakeFails, Trust, Greet, ReadFails, Bye,
              DropLeg, CloseLeg, GoTo, dialVars
<1>2. ASSUME NEW c \in Conns, MaybeDialBack(c) PROVE OutInv'
  BY <1>2 DEF Inv, TypeOK, OutInv, Fresh, MaybeDialBack, GoTo
<1>3. ASSUME NEW c \in Conns, DialConnects(c) PROVE OutInv'
  BY <1>3 DEF Inv, TypeOK, OutInv, Fresh, DialConnects, DialTo
<1>4. ASSUME NEW c \in Conns, DialFails(c) PROVE OutInv'
  BY <1>4 DEF Inv, TypeOK, OutInv, Fresh, DialFails, DialTo
<1>5. ASSUME NEW c \in Conns, RegisterDial(c) PROVE OutInv'
  <2>1. /\ dial[c] = "handshake" /\ dial' = [dial EXCEPT ![c] = "undial"]
        /\ outLegs' = [outLegs EXCEPT ![peer[c]] = c]
        /\ UNCHANGED <<peer, pc, dialing, outLink>>
    BY <1>5 DEF RegisterDial, DialTo
  <2>2. c \in Conns /\ peer[c] \in Peers /\ outLegs[peer[c]] = NoLeg /\ ~Fresh(c) /\ outLink[c] # "down"
    BY <2>1 DEF Inv, TypeOK, OutInv
  <2>3. \A d \in Conns : Fresh(d)' => dial'[d] = "idle" /\ outLink'[d] = "down"
    BY <2>1, <2>2 DEF Inv, TypeOK, OutInv, Fresh
  <2>4. \A d \in Conns : dial'[d] # "idle" <=> dial[d] # "idle"
    BY <2>1 DEF Inv, TypeOK
  <2>5. \A d \in Conns : dial'[d] \in {"dial", "handshake"} => outLegs'[peer'[d]] = NoLeg
    BY <2>1, <2>2 DEF Inv, TypeOK, OutInv
  <2>6. \A d \in Conns :
          outLink'[d] # "down" => outLegs'[peer'[d]] = d \/ dial'[d] = "handshake"
    BY <2>1, <2>2 DEF Inv, TypeOK, OutInv
  <2>7. \A p \in Peers : outLegs'[p] # NoLeg =>
          peer'[outLegs'[p]] = p /\ outLink'[outLegs'[p]] # "down"
    BY <2>1, <2>2 DEF Inv, TypeOK, OutInv
  <2>8. \A d \in Conns : dial'[d] = "handshake" => outLink'[d] # "down"
    BY <2>1 DEF Inv, TypeOK, OutInv
  <2> QED
    BY <2>1, <2>3, <2>4, <2>5, <2>6, <2>7, <2>8 DEF Inv, OutInv
<1>6. ASSUME NEW c \in Conns, Undial(c) PROVE OutInv'
  BY <1>6 DEF Inv, TypeOK, OutInv, Fresh, Undial, DialTo
<1>7. ASSUME NEW c \in Conns, PeerGoes(c) PROVE OutInv'
  BY <1>7 DEF Inv, TypeOK, OutInv, Fresh, PeerGoes
<1>8. CASE Stop
  BY <1>8 DEF Inv, TypeOK, OutInv, Fresh, Stop, CloseListed
<1>9. CASE UNCHANGED vars
  BY <1>9 DEF Inv, OutInv, Fresh, vars
<1> QED
  BY <1>1, <1>2, <1>3, <1>4, <1>5, <1>6, <1>7, <1>8, <1>9 DEF Next, LegStep, DialStep

LEMMA LegTableInvariant == Spec => []Inv
<1>1. Inv /\ [Next]_vars => Inv'
  BY TypeStep, InStep, OutStep DEF Inv
<1> QED
  BY InitInv, <1>1, PTL DEF Spec

\* The types of ServerLegs.
THEOREM TypeCorrect == Spec => []TypeOK
<1>1. Inv => TypeOK
  BY DEF Inv
<1> QED
  BY LegTableInvariant, <1>1, PTL

\* A broadcast finds only connections in the table that this station has not
\* closed, however many goroutines come and go (server.go:335-356).
THEOREM TableListsOpen == Spec => []ListedIsOpen
<1>1. Inv => ListedIsOpen
  BY DEF Inv, InInv, OutInv, ListedIsOpen
<1> QED
  BY LegTableInvariant, <1>1, PTL

\* No peer is ever dialled back while a dial-back to it is open
\* (server.go:291-333).
THEOREM DialsBackOnce == Spec => []OneDialBack
<1>1. Inv => OneDialBack
  BY NoLegFact DEF Inv, TypeOK, OutInv, OneDialBack
<1> QED
  BY LegTableInvariant, <1>1, PTL
=============================================================================
