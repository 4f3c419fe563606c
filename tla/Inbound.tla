------------------------------ MODULE Inbound ------------------------------
(***************************************************************************)
(* A connection the server accepts (handleInbound in                       *)
(* internal/net/server.go): on the message port the two ends challenge     *)
(* each other (Handshake), on the clipboard port they transfer at once     *)
(* (ClipTransfer).  The port decides, and the two share nothing but what   *)
(* ServerLegs and MatrixSync say of legs and names.                        *)
(***************************************************************************)
EXTENDS ClipTransfer

CONSTANTS Ends, Rounds, Buffer, Keys    \* of Handshake; Buffer is its Cap

VARIABLES port,     \* "msg" or "clip"
          key, pc, sent, owed, acked, inbox, closed, answered, hungUp

M == INSTANCE Handshake WITH Cap <- Buffer

ASSUME EndsAssumption == \E a, b \in Ends : a # b /\ Ends = {a, b}
ASSUME CountsAssumption == Rounds \in Nat \ {0} /\ Buffer \in Nat \ {0}

mport == <<key, pc, sent, owed, acked, inbox, closed, answered, hungUp>>

InboundInit == /\ port \in {"msg", "clip"}
               /\ Init /\ M!Init
               /\ port = "clip" => key = [e \in Ends |-> CHOOSE k \in Keys : TRUE]

InboundNext == /\ \/ port = "msg" /\ M!Next /\ UNCHANGED vars
                  \/ port = "clip" /\ Next /\ UNCHANGED mport
               /\ UNCHANGED port

InboundSpec == /\ InboundInit /\ [][InboundNext]_<<vars, mport, port>>
               /\ port = "msg" => M!Fairness
               /\ port = "clip" => Fairness

-----------------------------------------------------------------------------
\* An end that trusts its peer has answered all the peer's challenges, although
\* its loop counts acknowledgements only (handshake.go:93).
AnsweredBeforeTrust == M!AnsweredBeforeTrust

\* The traffic of the first end through never aborts the other's handshake
\* (handshake.go:132-133).
NoEarlyTraffic == M!NoEarlyTraffic

\* While nobody hangs up, no end rejects a peer that trusts it.
TrustIsMutual == M!TrustIsMutual

\* A handshake on the message port ends, in trust or in failure, when the peer
\* hangs up, has another key, or plays along (handshake.go:93-136).
Settles == port = "msg" => M!Settles

\* Two ends with the same key that stay on the line come to trust each other.
KeyHoldersMeet == port = "msg" => M!KeyHoldersMeet
=============================================================================
