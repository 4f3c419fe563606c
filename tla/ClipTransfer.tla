----------------------------- MODULE ClipTransfer -----------------------------
(***************************************************************************)
(* Clipboard transfers between two stations (internal/clipboard/           *)
(* transfer.go, pullOnReturn and pushTo of cmd/mwb-client/serve.go,        *)
(* handleClipboardLeg of internal/net/server.go), one connection at a      *)
(* time.  The dialer pulls or pushes; the acceptor runs Serve, either      *)
(* "direct"ly on the accepted stream or through the "server", which checks *)
(* the dialer's name in the first header packet.                           *)
(*                                                                         *)
(* The stream carries header packets, the secondary header (info) and      *)
(* cipher blocks.  The two ends know the key: see Handshake.               *)
(***************************************************************************)
EXTENDS ClipManager

CONSTANTS Block,      \* units in a cipher block (16 bytes)
          Stride,     \* units written or read at a time (1 MB)
          Cap,        \* items a socket buffer takes before writers wait
          Vias,       \* ways a connection reaches Serve
          MaxConns,   \* bound on the connections of a behaviour
          MaxSets     \* bound on the local copies of a behaviour

ASSUME StrideAssumption == /\ Block \in Nat \ {0}
                           /\ Stride \in Nat \ {0}
                           /\ Stride % Block = 0
ASSUME CapAssumption == Cap \in Nat \ {0}

VARIABLES conn,     \* the connection: who dialed, pushing or not, by which way
          at,       \* station -> where its end of the connection is
          wire,     \* station -> items on their way to it
          job,      \* station -> the transfer: name, size, bytes got or left to send
          part,     \* station -> the temporary file, None without one
          disk,     \* station -> the file in the receive directory
          link,     \* "up", "silent" (nothing arrives any more) or "cut"
          given,    \* what Provide returned for this connection (history)
          fault,    \* the network, a slow peer or a refusal interfered (history)
          conns, sets

tvars == <<conn, at, wire, job, part, disk, link, given, fault, conns, sets>>
vars == <<mvars, tvars>>

Reading == {"leg", "awaitHdr", "awaitInfo", "payload"}
Writing == {"sendHdr", "answerPush", "answerPull", "sendInfo", "sendBlocks"}
Ended   == {"ok", "failed"}
NoJob   == [name |-> None, size |-> 0, data |-> <<>>]

Least(a, b) == IF a < b THEN a ELSE b
Header(push) == [tag |-> "header", push |-> push]
Info(size, name) == [tag |-> "info", size |-> size, name |-> name]

Init == /\ ManagerInit
        /\ conn = [dialer |-> None, push |-> FALSE, via |-> "direct"]
        /\ at = [s \in Stations |-> "ok"]
        /\ wire = [s \in Stations |-> <<>>]
        /\ job = [s \in Stations |-> NoJob]
        /\ part = [s \in Stations |-> None]
        /\ disk = [s \in Stations |-> None]
        /\ link = "up"
        /\ given = None
        /\ fault = FALSE
        /\ conns = 0
        /\ sets = 0

-----------------------------------------------------------------------------
(* Starting a connection. *)

Dial(s, push, via) ==
    /\ \A t \in Stations : at[t] \in Ended
    /\ conns < MaxConns
    /\ conns' = conns + 1
    /\ conn' = [dialer |-> s, push |-> push, via |-> via]
    /\ at' = [t \in Stations |-> IF t = s THEN "sendHdr"
                                 ELSE IF via = "server" THEN "leg" ELSE "awaitHdr"]
    /\ wire' = [t \in Stations |-> <<>>]
    /\ link' = "up"
    /\ fault' = FALSE
    /\ UNCHANGED <<mvars, part, disk, sets>>

\* The focus came back and the last machine has a known address.
PullOnReturn(s, via) == /\ source[s] = Other(s)
                        /\ Dial(s, FALSE, via)
                        /\ job' = [t \in Stations |-> NoJob]
                        /\ given' = None

\* The other station asked, and there is something to give.
PushTo(s, via) ==
    LET p == Provide(store[s])
    IN  /\ p # NoData
        /\ Dial(s, TRUE, via)
        /\ job' = [t \in Stations |-> IF t # s THEN NoJob
                    ELSE [name |-> p.name, size |-> Len(p.data), data |-> p.data]]
        /\ given' = p

-----------------------------------------------------------------------------
(* The stream. *)

Arrived(s, n) == link = "up" /\ Len(wire[s]) >= n
HasRoom(s) == link # "cut" /\ Len(wire[Other(s)]) < Cap

GoTo(s, place) == at' = [at EXCEPT ![s] = place]

Write(s, items) == /\ HasRoom(s)
                   /\ wire' = [wire EXCEPT ![Other(s)] = @ \o items]
Take(s, n) == /\ Arrived(s, n)
              /\ wire' = [wire EXCEPT ![s] = SubSeq(@, n + 1, Len(@))]

\* Cipher blocks of a chunk; only the tail of the last one is padding.
Blocks(chunk) ==
    [b \in 1..((Len(chunk) + Block - 1) \div Block) |->
        [tag |-> "block",
         units |-> [i \in 1..Block |-> LET u == (b - 1) * Block + i
                                       IN  IF u <= Len(chunk) THEN chunk[u] ELSE 0]]]

\* Mutant of NextRead: one block more than whole ones, for a tail that may be none.
NextReadAndTail(left) == (Least(left, Stride) \div Block) + 1

\* How many blocks the next read asks for: whole ones up to a stride, or the tail.
NextRead(left) == LET take == Least(left, Stride)
                  IN  IF take >= Block THEN take \div Block ELSE 1

UnitAt(blocks, i) == blocks[((i - 1) \div Block) + 1].units[((i - 1) % Block) + 1]

\* The units of the blocks read, without the padding.
UnitsOf(blocks, left) ==
    [i \in 1..Least(left, Len(blocks) * Block) |->
        UnitAt(blocks, i)]

BlocksDue(s) == IF at[s] = "payload" THEN NextRead(job[s].size - Len(job[s].data)) ELSE 1

-----------------------------------------------------------------------------
(* Pull, pushTo and Serve. *)

\* WriteHeaderPacket of the dialer.
SendHeader(s) ==
    /\ at[s] = "sendHdr"
    /\ Write(s, <<Header(conn.push)>>)
    /\ GoTo(s, IF conn.push THEN "sendInfo" ELSE "awaitHdr")
    /\ UNCHANGED <<mvars, conn, job, part, disk, link, given, fault, conns, sets>>

\* handleClipboardLeg: the header packet is read here, and a station without a
\* message leg or a learned slot is refused.
LegHeader(s) ==
    /\ at[s] = "leg"
    /\ Take(s, 1)
    /\ \/ GoTo(s, "awaitHdr") /\ UNCHANGED fault
       \/ GoTo(s, "failed") /\ fault' = TRUE
    /\ UNCHANGED <<mvars, conn, job, part, disk, link, given, conns, sets>>

\* ReadHeaderPacket: anything else does not decode.
ReadHeader(s) ==
    /\ at[s] = "awaitHdr"
    /\ Take(s, 1)
    /\ LET item == Head(wire[s])
       IN  GoTo(s, IF item.tag # "header" THEN "failed"
                   ELSE IF s = conn.dialer THEN (IF item.push THEN "awaitInfo" ELSE "failed")
                   ELSE IF item.push THEN "answerPush" ELSE "answerPull")
    /\ UNCHANGED <<mvars, conn, job, part, disk, link, given, fault, conns, sets>>

\* Serve writes its own header, then receives, or takes what Provide has now.
Answer(s) ==
    /\ at[s] \in {"answerPush", "answerPull"}
    /\ Write(s, <<Header(TRUE)>>)
    /\ IF at[s] = "answerPush"
       THEN /\ GoTo(s, "awaitInfo")
            /\ UNCHANGED <<job, given>>
       ELSE LET p == Provide(store[s])
            IN  /\ GoTo(s, "sendInfo")
                /\ job' = [job EXCEPT ![s] = [name |-> p.name, size |-> Len(p.data), data |-> p.data]]
                /\ given' = p
    /\ UNCHANGED <<mvars, conn, part, disk, link, fault, conns, sets>>

\* Mutant of SendInfo: the size announced counts the padding.
SendPaddedInfo(s) ==
    /\ at[s] = "sendInfo"
    /\ Write(s, <<Info(Block * Len(Blocks(job[s].data)), job[s].name)>>)
    /\ GoTo(s, IF job[s].size = 0 THEN "ok" ELSE "sendBlocks")
    /\ UNCHANGED <<mvars, conn, job, part, disk, link, given, fault, conns, sets>>

\* SendTransfer: the secondary header, then the chunks.
SendInfo(s) ==
    /\ at[s] = "sendInfo"
    /\ Write(s, <<Info(job[s].size, job[s].name)>>)
    /\ GoTo(s, IF job[s].size = 0 THEN "ok" ELSE "sendBlocks")
    /\ UNCHANGED <<mvars, conn, job, part, disk, link, given, fault, conns, sets>>

SendChunk(s) ==
    /\ at[s] = "sendBlocks"
    /\ LET n == Least(Stride, Len(job[s].data))
       IN  /\ Write(s, Blocks(SubSeq(job[s].data, 1, n)))
           /\ job' = [job EXCEPT ![s].data = SubSeq(@, n + 1, Len(@))]
           /\ GoTo(s, IF n = Len(job[s].data) THEN "ok" ELSE "sendBlocks")
    /\ UNCHANGED <<mvars, conn, part, disk, link, given, fault, conns, sets>>

\* ReceiveTransfer reads the secondary header; a file opens a temporary one.
ReadInfo(s) ==
    /\ at[s] = "awaitInfo"
    /\ Take(s, 1)
    /\ LET item == Head(wire[s])
       IN  IF item.tag = "info"
           THEN /\ job' = [job EXCEPT ![s] = [name |-> item.name, size |-> item.size, data |-> <<>>]]
                /\ GoTo(s, "payload")
                /\ part' = [part EXCEPT ![s] =
                              IF item.name = "file" /\ item.size > 0 THEN <<>> ELSE None]
           ELSE GoTo(s, "failed") /\ UNCHANGED <<job, part>>
    /\ UNCHANGED <<mvars, conn, disk, link, given, fault, conns, sets>>

\* readExact and readStream.
ReadBlocks(s) ==
    LET left == job[s].size - Len(job[s].data)
    IN  /\ at[s] = "payload"
        /\ left > 0
        /\ Take(s, NextRead(left))
        /\ LET got == job[s].data \o UnitsOf(SubSeq(wire[s], 1, NextRead(left)), left)
           IN  /\ job' = [job EXCEPT ![s].data = got]
               /\ part' = [part EXCEPT ![s] = IF @ = None THEN None ELSE got]
        /\ UNCHANGED <<mvars, conn, at, disk, link, given, fault, conns, sets>>

\* All there: the temporary file gets its name, and Sink stores the transfer.
Deliver(s) ==
    /\ at[s] = "payload"
    /\ Len(job[s].data) >= job[s].size
    /\ Sink(s, [name |-> job[s].name, data |-> job[s].data])
    /\ GoTo(s, "ok")
    /\ disk' = [disk EXCEPT ![s] = IF part[s] = None THEN @ ELSE part[s]]
    /\ part' = [part EXCEPT ![s] = None]
    /\ UNCHANGED <<conn, wire, job, link, given, fault, conns, sets>>

-----------------------------------------------------------------------------
(* What goes wrong. *)

\* Mutant of Fail: the temporary file of a failed transfer stays.
FailAndKeep(s) == /\ GoTo(s, "failed")
                  /\ UNCHANGED <<mvars, conn, wire, job, part, disk, link, given, conns, sets>>

Fail(s) == /\ GoTo(s, "failed")
           /\ part' = [part EXCEPT ![s] = None]
           /\ UNCHANGED <<mvars, conn, wire, job, disk, link, given, conns, sets>>

\* Nothing to do for this end until the other one or the network moves.
Blocked(s) == \/ at[s] \in Reading /\ ~Arrived(s, BlocksDue(s))
                 /\ ~(at[s] = "payload" /\ Len(job[s].data) >= job[s].size)
              \/ at[s] \in Writing /\ ~HasRoom(s)

\* The connection was cut, or the other end closed it.
Broken(s) == /\ \/ link = "cut" /\ at[s] \in Reading \cup Writing
                \/ link = "up" /\ at[Other(s)] \in Ended
                   /\ (Blocked(s) \/ at[s] \in Writing)
             /\ Fail(s)
             /\ UNCHANGED fault

\* Serve and Pull set deadlines; the check of the header packet and pushTo do not.
HasDeadline(s) == IF s = conn.dialer THEN ~conn.push ELSE at[s] # "leg"

\* Mutant of Timeout: only reads have a deadline.
ReadTimeout(s) == /\ at[s] \in Reading
                  /\ HasDeadline(s)
                  /\ Blocked(s)
                  /\ Fail(s)
                  /\ fault' = (fault \/ ~(Blocked(Other(s)) \/ at[Other(s)] \in Ended))

\* A timeout is nobody's fault when the other end waits as well.
Timeout(s) == /\ at[s] \notin Ended
              /\ HasDeadline(s)
              /\ Blocked(s)
              /\ Fail(s)
              /\ fault' = (fault \/ ~(Blocked(Other(s)) \/ at[Other(s)] \in Ended))

\* Closing a socket with unread input resets it: what the other end has not
\* read yet may be lost from the tail.
Reset(s) == /\ at[Other(s)] \in Ended
            /\ wire[Other(s)] # <<>>
            /\ \E k \in 0..Len(wire[s]) - 1 : wire' = [wire EXCEPT ![s] = SubSeq(@, 1, k)]
            /\ UNCHANGED <<mvars, conn, at, job, part, disk, link, given, fault, conns, sets>>

NetworkFails == /\ link = "up"
                /\ \E s \in Stations : at[s] \notin Ended
                /\ link' \in {"silent", "cut"}
                /\ fault' = TRUE
                /\ UNCHANGED <<mvars, conn, at, wire, job, part, disk, given, conns, sets>>

-----------------------------------------------------------------------------
End(s) == \/ SendHeader(s) \/ LegHeader(s) \/ ReadHeader(s) \/ Answer(s)
          \/ SendInfo(s) \/ SendChunk(s) \/ ReadInfo(s) \/ ReadBlocks(s)
          \/ Deliver(s) \/ Broken(s)

Copy(s, c) == /\ sets < MaxSets
              /\ sets' = sets + 1
              /\ Set(s, c)
              /\ UNCHANGED <<conn, at, wire, job, part, disk, link, given, fault, conns>>

News(s) == /\ GateOpens(s) \/ OnBeat(s)
           /\ UNCHANGED tvars

Next == \/ \E s \in Stations : End(s) \/ Timeout(s) \/ Reset(s) \/ News(s)
        \/ \E s \in Stations, v \in Vias : PullOnReturn(s, v) \/ PushTo(s, v)
        \/ \E s \in Stations, c \in Copies : Copy(s, c)
        \/ NetworkFails

Spec == Init /\ [][Next]_vars

\* The goroutine of an end runs when it can, and the deadlines expire.
Fairness == \A s \in Stations : WF_vars(End(s)) /\ WF_vars(Timeout(s))

-----------------------------------------------------------------------------
\* Types; a transfer never holds more than was announced.
ClipTypeOK ==
    /\ \A s \in Stations :
          /\ store[s] \in [Kinds -> Contents \cup {None}]
          /\ source[s] \in Stations \cup Kinds \cup {None, NoData.name}
          /\ at[s] \in Reading \cup Writing \cup Ended
          /\ Len(job[s].data) <= job[s].size
          /\ part[s] # None => at[s] = "payload" /\ job[s].name = "file"
    /\ gate \in [Stations -> BOOLEAN] /\ beat \in [Stations -> BOOLEAN]
    /\ link \in {"up", "silent", "cut"} /\ fault \in BOOLEAN

\* What a station stores from a transfer is, byte for byte, what Provide returned
\* on the other side, whatever was copied, cut or timed out meanwhile: sizes that
\* are no multiple of the block or of the stride included (transfer.go:164-198,
\* 297-327).
SoundReceipt ==
    [][\A s \in Stations : Deliver(s) =>
           given # None /\ job[s].name = given.name /\ job[s].data = given.data]_vars

\* The receive directory shows complete files only, and a connection that ended
\* in any way leaves no temporary file (transfer.go:254-295).
NoPartialFile == \A s \in Stations : /\ disk[s] \in (Contents \ {<<>>}) \cup {None}
                                     /\ at[s] \in Ended => part[s] = None

\* A pull that meets Serve directly, as the tests do, succeeds unless the network
\* failed or an end was too slow: the dialogue itself never leaves both ends
\* waiting, nor one of them closing too early (transfer.go:329-388).
Served(via) == /\ conn.via = via /\ ~conn.push /\ ~fault
               /\ \A s \in Stations : at[s] \in Ended
               => \A s \in Stations : at[s] = "ok"
DirectPullDelivers == Served("direct")

\* The same where a pull really arrives: through the server, whose
\* handleClipboardLeg hands the stream to Serve, "stream handshake done, peer
\* header not yet read" (transfer.go:329-330).
ServedPullDelivers == Served("server")

\* A puller, and a holder once its Serve runs, come to an end even when the other
\* side falls silent: the deadlines cover every read and write of theirs.
EndsByDeadline ==
    \A s \in Stations : (at[s] \notin Ended /\ HasDeadline(s)) ~> (at[s] \in Ended)

=============================================================================
