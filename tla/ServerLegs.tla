----------------------------- MODULE ServerLegs -----------------------------
(***************************************************************************)
(* The leg table of internal/net/server.go: which connection a peer's name *)
(* stands for.  Every inbound connection has a goroutine that runs         *)
(* handleInbound, trustPeer and serveLeg to the end of the leg; every      *)
(* dial-back has one that runs dialBack.  They share s.legs and s.dialing  *)
(* under s.mu, one short section at a time, and Stop takes the table away  *)
(* from all of them.  The section bodies are the actions.                  *)
(*                                                                         *)
(* s.legs has two keys for a peer: its name (inLegs) and name + "#out"     *)
(* (outLegs).  An inbound connection is an element of Conns; the dial-back *)
(* its goroutine may start is named after it.  Clipboard legs are owned by *)
(* OnClipboardConn and are not in the table.  What trustPeer does to the   *)
(* layout and the pool is left out.                                        *)
(***************************************************************************)
EXTENDS Naturals

CONSTANTS Peers,      \* names of other stations
          MaxConns    \* bound: inbound connections accepted in all

ASSUME ConnsAssumption == MaxConns \in Nat

Conns == 1..MaxConns  \* in the order of acceptance
NoLeg == 0            \* a key that is not in the table

VARIABLES peer,      \* inbound connection -> the peer at its other end
          pc,        \* inbound connection -> its goroutine's place
          dial,      \* inbound connection -> the place of the dial-back it started
          inLegs,    \* s.legs[name]
          outLegs,   \* s.legs[name + "#out"]
          dialing,   \* s.dialing
          inLink,    \* inbound connection -> "up", "gone" (its other end is), "down"
          outLink,   \* the same of the dial-back its goroutine started
          stopped    \* Stop has run

vars == <<peer, pc, dial, inLegs, outLegs, dialing, inLink, outLink, stopped>>
dialVars == <<dial, outLegs, dialing, outLink>>

Places == {"none", "handshake", "greet", "dialback", "serve", "drop", "close", "done"}
DialPlaces == {"idle", "dial", "handshake", "undial"}
Links == {"up", "gone", "down"}

Init == /\ peer \in [Conns -> Peers]
        /\ pc = [c \in Conns |-> "none"] /\ dial = [c \in Conns |-> "idle"]
        /\ inLegs = [p \in Peers |-> NoLeg] /\ outLegs = [p \in Peers |-> NoLeg]
        /\ inLink = [c \in Conns |-> "down"] /\ outLink = [c \in Conns |-> "down"]
        /\ dialing = {} /\ stopped = FALSE

GoTo(c, place) == pc' = [pc EXCEPT ![c] = place]
Dead(c) == inLink[c] # "up"

(***************************************************************************)
(* The goroutine of an inbound connection.                                 *)
(***************************************************************************)

\* acceptLoop: nothing is accepted once the listener is closed.
Accept(c) ==
    /\ pc[c] = "none" /\ (\A d \in Conns : d < c => pc[d] # "none") /\ ~stopped
    /\ GoTo(c, "handshake")
    /\ inLink' = [inLink EXCEPT ![c] = "up"]
    /\ UNCHANGED <<peer, inLegs, dialVars, stopped>>

\* A failed handshake closes the connection; it never was in the table.
HandshakeFails(c) ==
    /\ pc[c] = "handshake"
    /\ GoTo(c, "done")
    /\ inLink' = [inLink EXCEPT ![c] = "down"]
    /\ UNCHANGED <<peer, inLegs, dialVars, stopped>>

\* trustPeer: the connection takes the peer's key, whatever held it before.
Trust(c) ==
    /\ pc[c] = "handshake"
    /\ GoTo(c, "greet")
    /\ inLegs' = [inLegs EXCEPT ![peer[c]] = c]
    /\ UNCHANGED <<peer, dialVars, inLink, stopped>>

\* Presence and layout are written; a write may still succeed on a connection
\* whose other end is gone, but not on one we closed.
Greet(c) ==
    /\ pc[c] = "greet"
    /\ \/ inLink[c] # "down" /\ GoTo(c, "dialback")
       \/ Dead(c) /\ GoTo(c, "drop")
    /\ UNCHANGED <<peer, inLegs, dialVars, inLink, stopped>>

\* Mutant of MaybeDialBack: dials under way do not count.
DialAgain(c) ==
    /\ pc[c] = "dialback"
    /\ GoTo(c, "serve")
    /\ IF outLegs[peer[c]] # NoLeg
       THEN UNCHANGED <<dialing, dial>>
       ELSE dialing' = dialing \cup {peer[c]} /\ dial' = [dial EXCEPT ![c] = "dial"]
    /\ UNCHANGED <<peer, inLegs, outLegs, inLink, outLink, stopped>>

\* maybeDialBack: one outbound leg per peer, or one attempt at it.  (Peers have
\* a name that is not ours and an address; others are not dialled.)
MaybeDialBack(c) ==
    /\ pc[c] = "dialback"
    /\ GoTo(c, "serve")
    /\ IF outLegs[peer[c]] # NoLeg \/ peer[c] \in dialing
       THEN UNCHANGED <<dialing, dial>>
       ELSE dialing' = dialing \cup {peer[c]} /\ dial' = [dial EXCEPT ![c] = "dial"]
    /\ UNCHANGED <<peer, inLegs, outLegs, inLink, outLink, stopped>>

\* serveLeg: a read fails.
ReadFails(c) ==
    /\ pc[c] = "serve" /\ Dead(c)
    /\ GoTo(c, "drop")
    /\ UNCHANGED <<peer, inLegs, dialVars, inLink, stopped>>

\* serveLeg: the peer says bye, or sends a packet that does not decode.
Bye(c) ==
    /\ pc[c] = "serve"
    /\ GoTo(c, "drop")
    /\ UNCHANGED <<peer, inLegs, dialVars, inLink, stopped>>

\* Mutant of DropLeg: the name stays in the table.
ForgetToDrop(c) ==
    /\ pc[c] = "drop"
    /\ GoTo(c, "close")
    /\ UNCHANGED <<peer, inLegs, dialVars, inLink, stopped>>

\* dropLeg removes the peer's key, whatever connection it stands for by now.
DropLeg(c) ==
    /\ pc[c] = "drop"
    /\ GoTo(c, "close")
    /\ inLegs' = [inLegs EXCEPT ![peer[c]] = NoLeg]
    /\ UNCHANGED <<peer, dialVars, inLink, stopped>>

\* The deferred Close comes after the deferred dropLeg.
CloseLeg(c) ==
    /\ pc[c] = "close"
    /\ GoTo(c, "done")
    /\ inLink' = [inLink EXCEPT ![c] = "down"]
    /\ UNCHANGED <<peer, inLegs, dialVars, stopped>>

(***************************************************************************)
(* The goroutine of a dial-back.                                           *)
(***************************************************************************)
DialTo(c, place) == dial' = [dial EXCEPT ![c] = place]

DialConnects(c) ==
    /\ dial[c] = "dial"
    /\ DialTo(c, "handshake")
    /\ outLink' = [outLink EXCEPT ![c] = "up"]
    /\ UNCHANGED <<peer, pc, inLegs, outLegs, dialing, inLink, stopped>>

\* The dial or its handshake fails.
DialFails(c) ==
    /\ dial[c] \in {"dial", "handshake"}
    /\ DialTo(c, "undial")
    /\ outLink' = [outLink EXCEPT ![c] = "down"]
    /\ UNCHANGED <<peer, pc, inLegs, outLegs, dialing, inLink, stopped>>

RegisterDial(c) ==
    /\ dial[c] = "handshake"
    /\ DialTo(c, "undial")
    /\ outLegs' = [outLegs EXCEPT ![peer[c]] = c]
    /\ UNCHANGED <<peer, pc, inLegs, dialing, inLink, outLink, stopped>>

\* The deferred delete, after the leg is in the table.
Undial(c) ==
    /\ dial[c] = "undial"
    /\ DialTo(c, "idle")
    /\ dialing' = dialing \ {peer[c]}
    /\ UNCHANGED <<peer, pc, inLegs, outLegs, inLink, outLink, stopped>>

(***************************************************************************)
(* The rest of the world.                                                  *)
(***************************************************************************)

\* The other end of a connection goes: it closes, crashes or is cut off.
PeerGoes(c) ==
    /\ \/ inLink[c] = "up" /\ inLink' = [inLink EXCEPT ![c] = "gone"] /\ UNCHANGED outLink
       \/ outLink[c] = "up" /\ outLink' = [outLink EXCEPT ![c] = "gone"] /\ UNCHANGED inLink
    /\ UNCHANGED <<peer, pc, dial, inLegs, outLegs, dialing, stopped>>

\* The connections of one direction, after the listed ones are closed.
CloseListed(link, legs) ==
    [c \in Conns |-> IF \E p \in Peers : legs[p] = c THEN "down" ELSE link[c]]

\* Mutant of Stop: the legs are closed and stay in the table.
StopKeepsTable ==
    /\ ~stopped
    /\ stopped' = TRUE
    /\ inLink' = CloseListed(inLink, inLegs) /\ outLink' = CloseListed(outLink, outLegs)
    /\ UNCHANGED <<peer, pc, dial, inLegs, outLegs, dialing>>

\* Stop closes what the table lists, under the lock.
Stop ==
    /\ ~stopped
    /\ stopped' = TRUE
    /\ inLink' = CloseListed(inLink, inLegs) /\ outLink' = CloseListed(outLink, outLegs)
    /\ inLegs' = [p \in Peers |-> NoLeg] /\ outLegs' = [p \in Peers |-> NoLeg]
    /\ UNCHANGED <<peer, pc, dial, dialing>>

LegStep(c) == \/ Trust(c) \/ Greet(c) \/ MaybeDialBack(c) \/ ReadFails(c)
              \/ DropLeg(c) \/ CloseLeg(c)

DialStep(c) == DialConnects(c) \/ DialFails(c) \/ RegisterDial(c) \/ Undial(c)

Next == \/ \E c \in Conns : \/ Accept(c) \/ HandshakeFails(c) \/ LegStep(c) \/ Bye(c)
                            \/ DialStep(c) \/ PeerGoes(c)
        \/ Stop

Spec == Init /\ [][Next]_vars

\* A goroutine of a leg runs on (none of its steps waits on the user, and the
\* operating system reports a connection whose other end is gone).
FairSpec == Spec /\ \A c \in Conns : WF_vars(LegStep(c))

-----------------------------------------------------------------------------
TypeOK == /\ peer \in [Conns -> Peers]
          /\ pc \in [Conns -> Places] /\ dial \in [Conns -> DialPlaces]
          /\ inLegs \in [Peers -> Conns \cup {NoLeg}]
          /\ outLegs \in [Peers -> Conns \cup {NoLeg}]
          /\ dialing \subseteq Peers
          /\ inLink \in [Conns -> Links] /\ outLink \in [Conns -> Links]
          /\ stopped \in BOOLEAN

\* The table never lists a connection this station has closed, so a broadcast
\* never writes to one it gave up itself: every end of a leg drops its key
\* before it closes, and Stop empties the table under the lock
\* (server.go:238-241, 342-356, dispatch.go:79-80).
ListedIsOpen == \A p \in Peers : /\ inLegs[p] # NoLeg => inLink[inLegs[p]] # "down"
                                 /\ outLegs[p] # NoLeg => outLink[outLegs[p]] # "down"

\* One outbound leg per peer (server.go:250): at most one dial-back is open,
\* however often the peer reconnects and whenever Stop comes.
OneDialBack ==
    \A c, d \in Conns : outLink[c] # "down" /\ outLink[d] # "down" /\ peer[c] = peer[d] => c = d

\* The legs of a peer that is gone leave the table, so that a broadcast which
\* reaches nobody fails (server.go:335-339).
DeadLegLeaves ==
    \A c \in Conns : inLink[c] = "gone" ~> \A p \in Peers : inLegs[p] # c

\* A peer with a leg in service can be reached: the table has a leg to it that
\* works, one way or the other.  After the network is cut and comes back,
\* switching works again (docs/05-verify.md:24).
ServedIsReachable ==
    \A c \in Conns : pc[c] = "serve" /\ inLink[c] = "up" /\ ~stopped =>
        \E d \in Conns : \/ inLegs[peer[c]] = d /\ inLink[d] = "up"
                         \/ outLegs[peer[c]] = d /\ outLink[d] = "up"
=============================================================================
