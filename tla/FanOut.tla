------------------------------ MODULE FanOut -------------------------------
(***************************************************************************)
(* One ID per packet, fanned out over every message leg, and one window of *)
(* recent IDs at the receiver for all of them (net/ids.go,                 *)
(* net/server_send.go broadcast, net/dispatch.go serveLeg).  Each peer     *)
(* numbers its own packets from 1 and writes each to its legs to us one    *)
(* after another; several goroutines broadcast at once.  A leg is a FIFO   *)
(* of at most LaneCap packets, the one in its reader's hands included.     *)
(*                                                                         *)
(* A packet is the count of IDs its sender had drawn; on the wire it       *)
(* carries that count truncated, int32 in the code, % IdSpace here.        *)
(***************************************************************************)
EXTENDS Dedup

CONSTANTS Peers,       \* stations that send to us
          Lanes,       \* legs from each of them to us
          LaneCap,     \* packets a leg holds before a write blocks
          Writers,     \* goroutines of a peer that broadcast at once
          IdSpace,     \* IDs before the counter wraps (2^32 in the code)
          MaxIssued    \* bound: packets each peer sends, fewer than IdSpace

ASSUME FanOutAssumption == /\ LaneCap \in Nat \ {0} /\ IdSpace \in Nat \ {0}
                           /\ Writers \in Nat \ {0} /\ MaxIssued \in 1..IdSpace - 1
                           /\ Ids = 0..IdSpace - 1

Packets == 1..MaxIssued

VARIABLES next,        \* peer -> Sender.next
          writing,     \* peer -> broadcasts under way: packet -> legs left
          lane,        \* peer -> leg -> packets in it
          processed    \* history: peer -> packet -> times handled (saturates at 2)

vars == <<dedupVars, next, writing, lane, processed>>

\* Mutant of IdOf: IDs are truncated to one bit less.
HalfIdOf(n) == n % (IdSpace \div 2)

\* The ID that Sender.Next returns at its n-th call.
IdOf(n) == n % IdSpace

Init == /\ DedupInit
        /\ next = [p \in Peers |-> 0]
        /\ writing = [p \in Peers |-> [w \in 1..Writers |-> [n |-> 0, todo |-> {}]]]
        /\ lane = [p \in Peers |-> [l \in Lanes |-> <<>>]]
        /\ processed = [p \in Peers |-> [n \in Packets |-> 0]]

\* broadcast draws the ID and takes a snapshot of the legs.
Broadcast(p, w) ==
    /\ writing[p][w].todo = {} /\ next[p] < MaxIssued
    /\ next' = [next EXCEPT ![p] = @ + 1]
    /\ writing' = [writing EXCEPT ![p][w] = [n |-> next[p] + 1, todo |-> Lanes]]
    /\ UNCHANGED <<dedupVars, lane, processed>>

\* One write to a leg; it waits for room.
WriteLane(p, w, l) ==
    /\ l \in writing[p][w].todo /\ Len(lane[p][l]) < LaneCap
    /\ writing' = [writing EXCEPT ![p][w].todo = @ \ {l}]
    /\ lane' = [lane EXCEPT ![p][l] = Append(@, writing[p][w].n)]
    /\ UNCHANGED <<dedupVars, next, processed>>

\* serveLeg takes the next packet and handles it unless its ID was seen.
Deliver(p, l) ==
    /\ lane[p][l] # <<>>
    /\ lane' = [lane EXCEPT ![p][l] = Tail(@)]
    /\ LET n == Head(lane[p][l])
       IN  /\ Seen(IdOf(n))
           /\ processed' = IF answer'.dup \/ processed[p][n] = 2 THEN processed
                           ELSE [processed EXCEPT ![p][n] = @ + 1]
    /\ UNCHANGED <<next, writing>>

\* A leg breaks: what it held is lost, the broadcasts under way skip it (its
\* write fails, the others go on), and a new leg takes its place.
LoseLane(p, l) ==
    /\ lane' = [lane EXCEPT ![p][l] = <<>>]
    /\ writing' = [writing EXCEPT ![p] =
                      [w \in 1..Writers |-> [writing[p][w] EXCEPT !.todo = @ \ {l}]]]
    /\ UNCHANGED <<dedupVars, next, processed>>

\* Every packet the bound allows has been sent and received.
Finished == /\ \A p \in Peers : next[p] = MaxIssued
            /\ \A p \in Peers, w \in 1..Writers : writing[p][w].todo = {}
            /\ \A p \in Peers, l \in Lanes : lane[p][l] = <<>>
            /\ UNCHANGED vars

Next == \/ \E p \in Peers, w \in 1..Writers : \/ Broadcast(p, w)
                                              \/ \E l \in Lanes : WriteLane(p, w, l)
        \/ \E p \in Peers, l \in Lanes : Deliver(p, l) \/ LoseLane(p, l)
        \/ Finished

Spec == Init /\ [][Next]_vars

-----------------------------------------------------------------------------
TypeOK == /\ ids \in [0..Window - 1 -> Ids] /\ pos \in 0..Window - 1 /\ seen \in 0..Window
          /\ next \in [Peers -> 0..MaxIssued]
          /\ \A p \in Peers : /\ \A l \in Lanes : /\ lane[p][l] \in Seq(Packets)
                                                  /\ Len(lane[p][l]) <= LaneCap
                              /\ processed[p] \in [Packets -> 0..2]

\* A packet fanned out over several legs is handled at most once, however far
\* one leg lags behind another and whatever legs break (dispatch.go:79-96), as
\* long as broadcasts come one at a time and Window > 2 * LaneCap: a leg that
\* buffers more, or a broadcast overtaken by others between two of its writes,
\* outlives the window.
ProcessedOnce == \A p \in Peers, n \in Packets : processed[p][n] <= 1

\* A packet that arrives for the first time is handled, never swallowed as a
\* duplicate of another one: packet IDs are unique (docs/01-audit.md:111).
FreshIsProcessed ==
    [][\A p \in Peers, l \in Lanes :
         Deliver(p, l) /\ processed[p][Head(lane[p][l])] = 0
           => processed'[p][Head(lane[p][l])] = 1]_vars
=============================================================================
