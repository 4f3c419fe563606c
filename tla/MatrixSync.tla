----------------------------- MODULE MatrixSync -----------------------------
(***************************************************************************)
(* How a server comes by its layout and who hears of it (trustPeer in      *)
(* internal/net/server.go, mergeMatrix in dispatch.go, SetMatrix in        *)
(* server_send.go, Pool in pool.go): it guesses one for its first peer,    *)
(* fits later peers into vacancies, takes whatever layout packets the      *)
(* peers send, and shares a layout that is not its own guess.  The pool    *)
(* that clipboard legs are checked against learns a name and a slot from   *)
(* every named packet.                                                     *)
(*                                                                         *)
(* The readers of the legs and the trustPeer goroutines interleave at      *)
(* every lock; the layout and the pool have one lock each.                 *)
(***************************************************************************)
EXTENDS MatrixLayout, Sequences

CONSTANTS Self,       \* our machine name
          Peers,      \* the Windows machines
          Layouts,    \* layouts a peer or the configuration may hold
          MaxJoins,   \* bound on the connections of a behaviour
          MaxBursts   \* bound on the layout bursts of a behaviour

ASSUME PeersAssumption == Peers \subseteq Names /\ Self \in Names \ Peers
ASSUME LayoutsAssumption == Layouts \subseteq Matrices

NoMatrix == [slots |-> [s \in Slots |-> Vacant], wrap |-> FALSE, twoRow |-> FALSE]

VARIABLES adopted,    \* the layout is a guess
          pool,       \* name -> the slot learned for it, NoSlot if none
          at,         \* peer -> where the goroutine of its leg is
          given,      \* peer -> its slot when it was trusted, until it is learned
          snap,       \* peer -> the copy of the layout being sent to it
          sent,       \* peer -> what it has been sent of it
          burst,      \* peer -> the layout it is sending us
          turn,       \* peer -> the next slot of it, 0 when it sends none
          named,      \* peer -> the pool has learned the packet being handled
          stated,     \* slot -> a peer or the configuration filled it in (history)
          whole,      \* the last word on it was a burst left alone, or none (history)
          lone,       \* peer -> nobody interfered with its burst (history)
          configured, joins, bursts

svars == <<matrix, adopted, pool, at, given, snap, sent, burst, turn, named, stated, whole, lone,
           configured, joins, bursts>>

Nothing == [s \in Slots |-> FALSE]

Places == {"out", "learn", "greet", "share", "burst", "in"}

IsEmpty(m) == Occupied(m) = {}

\* SlotOf: the first slot that holds the name.
SlotOf(m, name) == LET at_ == {s \in Slots : m.slots[s] = name}
                   IN  IF at_ = {} THEN NoSlot ELSE Least(at_)

FirstVacant(m) == Least({s \in Slots : m.slots[s] = Vacant})

AdoptFresh(peer) == [NoMatrix EXCEPT !.slots[1] = Self, !.slots[2] = peer]

\* Mutant of Learn: a slot keeps the names it had.
LearnBeside(p, name, s) == [p EXCEPT ![name] = s]

\* Mutant of Learn: the name's old slot loses its holders, not the new one.
LearnEvictsOld(p, name, s) ==
    [n \in Names |-> IF n = name THEN s ELSE IF p[n] = p[name] THEN NoSlot ELSE p[n]]

\* One name has one slot and one slot one name.
Learn(p, name, s) ==
    [n \in Names |-> IF n = name THEN s ELSE IF p[n] = s THEN NoSlot ELSE p[n]]

SyncInit == /\ matrix = NoMatrix /\ focus = 1
            /\ adopted = FALSE
            /\ pool = [n \in Names |-> NoSlot]
            /\ at = [p \in Peers |-> "out"]
            /\ given = [p \in Peers |-> NoSlot]
            /\ snap = [p \in Peers |-> NoMatrix]
            /\ sent = [p \in Peers |-> <<>>]
            /\ burst = [p \in Peers |-> NoMatrix]
            /\ turn = [p \in Peers |-> 0]
            /\ named = [p \in Peers |-> FALSE]
            /\ stated = Nothing /\ whole = TRUE /\ configured = FALSE
            /\ lone = [p \in Peers |-> TRUE]
            /\ joins = 0 /\ bursts = 0

\* Everybody else's burst now meets a layout or pool changed in between.
Interferes(p) == lone' = [q \in Peers |-> lone[q] /\ q = p]

-----------------------------------------------------------------------------
(* trustPeer, one action per locked section or write. *)

\* The layout a new peer finds: a guess when there is none, and a vacancy for a
\* peer that is not in it.
Seated(m, p) ==
    LET base == IF IsEmpty(m) THEN AdoptFresh(p) ELSE m
    IN  IF SlotOf(base, p) = NoSlot /\ \E s \in Slots : base.slots[s] = Vacant
        THEN [base EXCEPT !.slots[FirstVacant(base)] = p]
        ELSE base

Trust(p) ==
    /\ at[p] = "out" /\ joins < MaxJoins
    /\ joins' = joins + 1
    /\ matrix' = Seated(matrix, p)
    /\ adopted' = (adopted \/ IsEmpty(matrix))
    /\ stated' = [s \in Slots |-> stated[s] /\ matrix'.slots[s] = matrix.slots[s]]
    /\ whole' = (whole \/ IsEmpty(matrix))
    /\ given' = [given EXCEPT ![p] = SlotOf(matrix', p)]
    /\ at' = [at EXCEPT ![p] = IF SlotOf(matrix', p) = NoSlot THEN "greet" ELSE "learn"]
    /\ lone' = [q \in Peers |-> lone[q] /\ matrix' = matrix]
    /\ UNCHANGED <<focus, pool, snap, sent, burst, turn, named, configured, bursts>>

LearnPeer(p) ==
    /\ at[p] = "learn"
    /\ pool' = Learn(pool, p, given[p])
    /\ at' = [at EXCEPT ![p] = "greet"]
    /\ given' = [given EXCEPT ![p] = NoSlot]
    /\ Interferes(p)
    /\ UNCHANGED <<focus, matrix, adopted, snap, sent, burst, turn, named, stated, whole,
                   configured, joins, bursts>>

\* dropLeg: the leg is closed; the layout and the pool stay.
Drop(p) == /\ at' = [at EXCEPT ![p] = "out"]
           /\ turn' = [turn EXCEPT ![p] = 0] /\ burst' = [burst EXCEPT ![p] = NoMatrix]
           /\ named' = [named EXCEPT ![p] = FALSE]
           /\ sent' = [sent EXCEPT ![p] = <<>>] /\ snap' = [snap EXCEPT ![p] = NoMatrix]

\* sendPresence; a failed write closes the leg.
Greet(p) ==
    /\ at[p] = "greet"
    /\ \/ at' = [at EXCEPT ![p] = "share"] /\ UNCHANGED <<turn, burst, named, sent, snap>>
       \/ Drop(p)
    /\ UNCHANGED <<focus, matrix, adopted, pool, given, stated, whole, lone,
                   configured, joins, bursts>>

\* Mutant of Share: guesses are shared too.
ShareGuess(p) ==
    /\ at[p] = "share"
    /\ snap' = [snap EXCEPT ![p] = matrix]
    /\ at' = [at EXCEPT ![p] = IF ~IsEmpty(matrix) THEN "burst" ELSE "in"]
    /\ UNCHANGED <<focus, matrix, adopted, pool, given, sent, burst, turn, named, stated, whole, lone,
                   configured, joins, bursts>>

\* The layout goes out unless it is blank or guessed.
Share(p) ==
    /\ at[p] = "share"
    /\ LET share == ~IsEmpty(matrix) /\ ~adopted
       IN  /\ snap' = [snap EXCEPT ![p] = IF share THEN matrix ELSE @]
           /\ at' = [at EXCEPT ![p] = IF share THEN "burst" ELSE "in"]
    /\ UNCHANGED <<focus, matrix, adopted, pool, given, sent, burst, turn, named, stated, whole, lone,
                   configured, joins, bursts>>

\* Mutant of SendSlot: the layout is read again for every packet.
SendLiveSlot(p) ==
    /\ at[p] = "burst"
    /\ sent' = [sent EXCEPT ![p] = Append(@, matrix.slots[Len(@) + 1])]
    /\ at' = [at EXCEPT ![p] = IF Len(sent[p]) + 1 = MaxMachine THEN "in" ELSE "burst"]
    /\ UNCHANGED <<focus, matrix, adopted, pool, given, snap, burst, turn, named, stated, whole, lone,
                   configured, joins, bursts>>

\* sendMatrixBurst: one packet per slot, from the copy.
SendSlot(p) ==
    /\ at[p] = "burst"
    /\ \/ /\ sent' = [sent EXCEPT ![p] = Append(@, snap[p].slots[Len(@) + 1])]
          /\ at' = [at EXCEPT ![p] = IF Len(sent[p]) + 1 = MaxMachine THEN "in" ELSE "burst"]
          /\ UNCHANGED <<turn, burst, named, snap>>
       \/ Drop(p)
    /\ UNCHANGED <<focus, matrix, adopted, pool, given, stated, whole, lone,
                   configured, joins, bursts>>

-----------------------------------------------------------------------------
(* The peer's packets, and the reader of its leg. *)

\* A peer sends its layout; the reader finds the packets once it runs.
StartBurst(p, m) ==
    /\ at[p] \notin {"out"} /\ turn[p] = 0 /\ bursts < MaxBursts
    /\ burst' = [burst EXCEPT ![p] = m]
    /\ turn' = [turn EXCEPT ![p] = 1]
    /\ bursts' = bursts + 1
    /\ lone' = [lone EXCEPT ![p] = TRUE]
    /\ UNCHANGED <<focus, matrix, adopted, pool, at, given, snap, sent, named, stated, whole,
                   configured, joins>>

\* handlePacket: a named packet of slot 1..4 is learned first ...
LearnSlot(p) ==
    LET name == burst[p].slots[turn[p]]
    IN  /\ at[p] = "in" /\ turn[p] # 0 /\ ~named[p]
        /\ pool' = IF name = Vacant THEN pool ELSE Learn(pool, name, turn[p])
        /\ named' = [named EXCEPT ![p] = TRUE]
        /\ Interferes(p)
        /\ UNCHANGED <<focus, matrix, adopted, at, given, snap, sent, burst, turn, stated, whole,
                       configured, joins, bursts>>

\* The layout after packet s of burst b; the last packet brings the flags.
Merged(m, b, s) ==
    [slots |-> [m.slots EXCEPT ![s] = b.slots[s]],
     wrap  |-> IF s = MaxMachine THEN b.wrap ELSE m.wrap,
     twoRow |-> IF s = MaxMachine THEN b.twoRow ELSE m.twoRow]

\* mergeMatrix: ... and then merged; the guess is over.
MergeSlot(p) ==
    /\ at[p] = "in" /\ turn[p] # 0 /\ named[p]
    /\ matrix' = Merged(matrix, burst[p], turn[p])
    /\ adopted' = (adopted /\ IsEmpty(matrix'))
    /\ stated' = [stated EXCEPT ![turn[p]] = TRUE]
    /\ whole' = (turn[p] = MaxMachine /\ lone[p])
    /\ named' = [named EXCEPT ![p] = FALSE]
    /\ turn' = [turn EXCEPT ![p] = (@ + 1) % (MaxMachine + 1)]
    /\ burst' = [burst EXCEPT ![p] = IF turn[p] = MaxMachine THEN NoMatrix ELSE @]
    /\ Interferes(p)
    /\ UNCHANGED <<focus, pool, at, given, snap, sent, configured, joins, bursts>>

\* Any other named packet of a peer that goes by layout m.
NamedPacket(p, m) ==
    /\ at[p] = "in" /\ ~named[p] /\ SlotOf(m, p) # NoSlot
    /\ pool' = Learn(pool, p, SlotOf(m, p))
    /\ lone' = [q \in Peers |-> FALSE]
    /\ UNCHANGED <<focus, matrix, adopted, at, given, snap, sent, burst, turn, named, stated, whole,
                   configured, joins, bursts>>

Leave(p) == /\ at[p] = "in"
            /\ Drop(p)
            /\ UNCHANGED <<focus, matrix, adopted, pool, given, stated, whole, lone,
                           configured, joins, bursts>>

\* runStack installs the configured layout after the server began to listen.
SetMatrix(m) ==
    /\ ~configured
    /\ configured' = TRUE
    /\ matrix' = m
    /\ adopted' = (adopted /\ IsEmpty(m))
    /\ stated' = [s \in Slots |-> TRUE]
    /\ whole' = \A p \in Peers : turn[p] <= 1
    /\ lone' = [q \in Peers |-> FALSE]
    /\ UNCHANGED <<focus, pool, at, given, snap, sent, burst, turn, named, joins, bursts>>

SyncNext == \/ \E p \in Peers : \/ Trust(p) \/ LearnPeer(p) \/ Greet(p) \/ Share(p)
                                \/ SendSlot(p) \/ LearnSlot(p) \/ MergeSlot(p) \/ Leave(p)
            \/ \E p \in Peers, m \in Layouts : StartBurst(p, m) \/ NamedPacket(p, m)
            \/ \E m \in Layouts : SetMatrix(m)

SyncSpec == SyncInit /\ [][SyncNext]_<<svars, focus>>

-----------------------------------------------------------------------------
\* One slot has one name: the readers of all legs learn into one pool, and a
\* burst renames slots packet by packet (pool.go:26-41).
PoolOneToOne == \A n, o \in Names : pool[n] = pool[o] /\ pool[n] # NoSlot => n = o

\* A guess is never shared, it "would clobber the peer UI holding user truth"
\* (server.go:237-238): unless a burst is half merged or was interfered with, a
\* layout that goes out has a name where a peer or the configuration put it.
GuessNeverShared ==
    [][\A p \in Peers : Share(p) /\ at'[p] = "burst" /\ whole
           => \E s \in Occupied(matrix) : stated[s]]_svars

\* What a joiner receives is the layout of one moment, and never a blank one,
\* though it changes while the four packets go out (matrix.go:33-34,
\* server.go:244-254).
BurstIsSnapshot ==
    \A p \in Peers : Len(sent[p]) = MaxMachine
        => (\A s \in Slots : sent[p][s] = snap[p].slots[s])
           /\ \E s \in Slots : sent[p][s] # Vacant

\* A burst nobody interferes with arrives whole: at its last packet, which
\* commits it, the layout is the sender's, flags included, and every name of it
\* resolves to its slot, whatever the pool held before (dispatch.go:170-190,
\* pool.go:32-39).
BurstArrivesWhole ==
    [][\A p \in Peers : MergeSlot(p) /\ turn[p] = MaxMachine /\ lone[p]
           => /\ matrix' = burst[p]
              /\ \A s \in Occupied(burst[p]) : pool[burst[p].slots[s]] = s]_svars
=============================================================================
