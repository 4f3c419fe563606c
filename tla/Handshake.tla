----------------------------- MODULE Handshake -----------------------------
(***************************************************************************)
(* The mutual challenge and response that opens every message leg          *)
(* (internal/net/handshake.go).  The two ends run the same code: send all  *)
(* the challenges, then read until every one of ours is acknowledged,      *)
(* answering the peer's on the way.  An end that is through starts the     *)
(* leg's ordinary traffic at once (server.go trustPeer, presence first).   *)
(*                                                                         *)
(* Each direction of the connection is a FIFO of at most Cap packets; a    *)
(* write waits for room.  A challenge is its number: the 16 random bytes   *)
(* make it unlike any other, and its answer fits no other.                 *)
(***************************************************************************)
EXTENDS Integers, Sequences

CONSTANTS Ends,      \* the dialer and the acceptor
          Rounds,    \* HandshakeRounds (10 in the code)
          Cap,       \* packets a direction holds before a write blocks
          Keys       \* security keys an end may be configured with

Other(e) == CHOOSE f \in Ends : f # e

Challenges == 1..Rounds
Packet(kind, n) == [kind |-> kind, n |-> n]
Packets == [kind : {"handshake", "ack", "traffic"}, n : 0..Rounds]

VARIABLES key,       \* end -> its key
          pc,        \* end -> its place in ClientHandshake, or how it left it
          sent,      \* end -> challenges sent
          owed,      \* end -> the challenge being answered, 0 if none
          acked,     \* end -> its challenges the peer has answered
          inbox,     \* end -> packets on their way to it
          closed,    \* ends that have closed the connection
          answered,  \* history: end -> the peer's challenges it answered
          hungUp     \* history: ends that gave up on their own

vars == <<key, pc, sent, owed, acked, inbox, closed, answered, hungUp>>
hist == <<answered, hungUp>>

Places == {"send", "read", "answer", "trusted", "serving", "failed"}

Init == /\ key \in [Ends -> Keys]
        /\ pc = [e \in Ends |-> "send"]
        /\ sent = [e \in Ends |-> 0]
        /\ owed = [e \in Ends |-> 0]
        /\ acked = [e \in Ends |-> {}]
        /\ inbox = [e \in Ends |-> <<>>]
        /\ closed = {}
        /\ answered = [e \in Ends |-> {}] /\ hungUp = {}

Room(e) == Other(e) \notin closed /\ Len(inbox[Other(e)]) < Cap

Write(e, p) == inbox' = [inbox EXCEPT ![Other(e)] = Append(@, p)]

\* The handshake returns an error and its caller closes the connection.
Fail(e) == /\ pc' = [pc EXCEPT ![e] = "failed"]
           /\ closed' = closed \cup {e}

\* Decode accepts a packet only under the key it was encoded with (the magic
\* is derived from it, the stream cipher too).
Readable(e) == key[e] = key[Other(e)]

\* Mutant of SendChallenge: the next challenge waits for the last one's answer.
SendInLockstep(e) ==
    /\ pc[e] \in {"send", "read"} /\ sent[e] < Rounds /\ acked[e] = 1..sent[e] /\ Room(e)
    /\ Write(e, Packet("handshake", sent[e] + 1))
    /\ sent' = [sent EXCEPT ![e] = @ + 1]
    /\ pc' = [pc EXCEPT ![e] = "read"]
    /\ UNCHANGED <<key, owed, acked, closed, hist>>

SendChallenge(e) ==
    /\ pc[e] = "send" /\ Room(e)
    /\ Write(e, Packet("handshake", sent[e] + 1))
    /\ sent' = [sent EXCEPT ![e] = @ + 1]
    /\ pc' = [pc EXCEPT ![e] = IF sent[e] + 1 = Rounds THEN "read" ELSE "send"]
    /\ UNCHANGED <<key, owed, acked, closed, hist>>

\* A write on a connection the peer has closed fails.
WriteFails(e) ==
    /\ pc[e] \in {"send", "answer"} /\ Other(e) \in closed
    /\ Fail(e)
    /\ UNCHANGED <<key, sent, owed, acked, inbox, hist>>

\* The next packet in the read loop.
Reads(e, kind) == /\ pc[e] = "read" /\ inbox[e] # <<>> /\ Readable(e)
                  /\ Head(inbox[e]).kind = kind
                  /\ inbox' = [inbox EXCEPT ![e] = Tail(@)]

ReadChallenge(e) ==
    /\ Reads(e, "handshake")
    /\ owed' = [owed EXCEPT ![e] = Head(inbox[e]).n]
    /\ pc' = [pc EXCEPT ![e] = "answer"]
    /\ UNCHANGED <<key, sent, acked, closed, hist>>

Answer(e) ==
    /\ pc[e] = "answer" /\ Room(e)
    /\ Write(e, Packet("ack", owed[e]))
    /\ answered' = [answered EXCEPT ![e] = @ \cup {owed[e]}]
    /\ owed' = [owed EXCEPT ![e] = 0]
    /\ pc' = [pc EXCEPT ![e] = "read"]
    /\ UNCHANGED <<key, sent, acked, closed, hungUp>>

\* Mutant of ReadAck: the loop does not end at the last acknowledgement.
AwaitForever(e) ==
    /\ Reads(e, "ack")
    /\ acked' = [acked EXCEPT ![e] = @ \cup {Head(inbox[e]).n}]
    /\ UNCHANGED <<key, pc, sent, owed, closed, hist>>

\* An acknowledgement must fit a challenge still open; after the last one the
\* peer is trusted.  Any other packet aborts the handshake.
ReadAck(e) ==
    /\ \E kind \in {"ack", "traffic"} : Reads(e, kind)
    /\ LET p == Head(inbox[e])
       IN  IF p.kind = "ack" /\ p.n \in Challenges \ acked[e]
           THEN /\ acked' = [acked EXCEPT ![e] = @ \cup {p.n}]
                /\ pc' = [pc EXCEPT ![e] = IF acked'[e] = Challenges THEN "trusted" ELSE "read"]
                /\ UNCHANGED closed
           ELSE Fail(e) /\ UNCHANGED acked
    /\ UNCHANGED <<key, sent, owed, hist>>

\* A packet under another key does not decode.
ReadGarbage(e) == /\ pc[e] = "read" /\ inbox[e] # <<>> /\ ~Readable(e)
                  /\ Fail(e)
                  /\ UNCHANGED <<key, sent, owed, acked, inbox, hist>>

\* Mutant of ReadClosed: the read is tried again.
RetryRead(e) == /\ pc[e] = "read" /\ Other(e) \in closed
                /\ UNCHANGED vars

\* A read fails once the peer has closed, whether or not packets are left: a
\* reset overtakes them.
ReadClosed(e) == /\ pc[e] = "read" /\ Other(e) \in closed
                 /\ Fail(e)
                 /\ UNCHANGED <<key, sent, owed, acked, inbox, hist>>

\* Mutant of Greet: traffic starts before the answers are in.
GreetEarly(e) ==
    /\ pc[e] \in {"read", "trusted"} /\ Room(e)
    /\ Write(e, Packet("traffic", 0))
    /\ pc' = [pc EXCEPT ![e] = "serving"]
    /\ UNCHANGED <<key, sent, owed, acked, closed, hist>>

\* trustPeer: the first ordinary packet; a failed write closes the leg.
Greet(e) ==
    /\ pc[e] = "trusted"
    /\ \/ /\ Room(e)
          /\ Write(e, Packet("traffic", 0))
          /\ pc' = [pc EXCEPT ![e] = "serving"]
          /\ UNCHANGED closed
       \/ /\ Other(e) \in closed
          /\ Fail(e) /\ UNCHANGED inbox
    /\ UNCHANGED <<key, sent, owed, acked, hist>>

\* serveLeg: from here on any packet is taken, or the leg ends.
Serve(e) ==
    /\ pc[e] = "serving"
    /\ \/ /\ inbox[e] # <<>>
          /\ inbox' = [inbox EXCEPT ![e] = Tail(@)]
          /\ UNCHANGED <<pc, closed>>
       \/ /\ Other(e) \in closed
          /\ Fail(e) /\ UNCHANGED inbox
    /\ UNCHANGED <<key, sent, owed, acked, hist>>

\* An end gives up on its own: the dialer's 8 s attempt runs out
\* (client.go:63-66), or the program ends.
HangUp(e) == /\ pc[e] # "failed"
             /\ Fail(e)
             /\ hungUp' = hungUp \cup {e}
             /\ UNCHANGED <<key, sent, owed, acked, inbox, answered>>

\* Both ends are through: a leg in service with nothing to read, or closed.
AtRest == /\ \A e \in Ends : pc[e] = "failed" \/ (pc[e] = "serving" /\ inbox[e] = <<>>)
          /\ UNCHANGED vars

Step(e) == \/ SendChallenge(e) \/ WriteFails(e) \/ ReadChallenge(e) \/ Answer(e)
           \/ ReadAck(e)
           \/ ReadGarbage(e) \/ ReadClosed(e) \/ Greet(e) \/ Serve(e)

Next == (\E e \in Ends : Step(e) \/ HangUp(e)) \/ AtRest

\* Each end is a goroutine that runs whenever it can; nobody has to hang up.
Fairness == \A e \in Ends : WF_vars(Step(e))

Spec == Init /\ [][Next]_vars /\ Fairness

-----------------------------------------------------------------------------
TypeOK ==
    /\ key \in [Ends -> Keys] /\ pc \in [Ends -> Places]
    /\ sent \in [Ends -> 0..Rounds] /\ owed \in [Ends -> 0..Rounds]
    /\ acked \in [Ends -> SUBSET Challenges] /\ answered \in [Ends -> SUBSET Challenges]
    /\ \A e \in Ends : inbox[e] \in Seq(Packets) /\ Len(inbox[e]) <= Cap
    /\ closed \subseteq Ends /\ hungUp \subseteq Ends

Through(e) == pc[e] \in {"trusted", "serving"}

\* The loop counts only the acknowledgements it receives (handshake.go:93), yet
\* an end that leaves it has answered every challenge of its peer: the peer
\* sends all its challenges before its first acknowledgement.
AnsweredBeforeTrust == \A e \in Ends : Through(e) => answered[e] = Challenges

\* Traffic never reaches an end still in the handshake, which would abort it
\* ("unexpected %d during handshake", handshake.go:132-133), although the first
\* end through starts it at once.
NoEarlyTraffic ==
    \A e \in Ends : pc[e] = "read" /\ inbox[e] # <<>> => Head(inbox[e]).kind # "traffic"

\* Trust is mutual: while nobody hangs up, no end rejects a peer that trusts it.
TrustIsMutual == \A e \in Ends : hungUp = {} /\ Through(e) => pc[Other(e)] # "failed"

\* The handshake ends, in trust or in failure, when the peer hangs up, has
\* another key, or plays along (handshake.go:93-136).
Settles == \A e \in Ends : <>(Through(e) \/ pc[e] = "failed")

\* Two ends with the same key that stay on the line come to trust each other.
KeyHoldersMeet ==
    (\A e \in Ends : key[e] = key[Other(e)]) => <>(hungUp # {} \/ \A e \in Ends : Through(e))
=============================================================================
