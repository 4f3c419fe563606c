------------------------------- MODULE Dedup -------------------------------
(***************************************************************************)
(* internal/protocol/dedup.go: the ring of the last Window packet IDs that *)
(* drops duplicates.  Seen runs under d.mu, so it is one step.  It scans   *)
(* only the entries already written: a fresh ring holds zeros, and 0 is a  *)
(* possible ID.                                                            *)
(***************************************************************************)
EXTENDS Integers, Sequences

CONSTANTS Ids,      \* packet IDs (int32 in the code)
          Window    \* DedupWindow (50 in the code)

ASSUME WindowAssumption == Window \in Nat \ {0}
ASSUME ZeroAssumption == 0 \in Ids

VARIABLES ids,      \* d.ids
          pos,      \* d.pos, where the next ID goes
          seen,     \* d.seen, how many entries hold an ID
          answer    \* what the last call returned, and for which ID

dedupVars == <<ids, pos, seen, answer>>

NoAnswer == [asked |-> FALSE]
Answer(id, dup) == [asked |-> TRUE, id |-> id, dup |-> dup]

DedupInit == /\ ids = [i \in 0..Window - 1 |-> 0]
             /\ pos = 0 /\ seen = 0
             /\ answer = NoAnswer

\* Mutant of Scanned: the scan stops one entry early.
ScanShort == {ids[i] : i \in 0..seen - 2}

Scanned == {ids[i] : i \in 0..seen - 1}

\* Mutant of Record: a ring one entry too short.
RecordShort(id) ==
    /\ ids' = [ids EXCEPT ![pos] = id]
    /\ pos' = (pos + 1) % (Window - 1)
    /\ seen' = IF seen < Window THEN seen + 1 ELSE seen

Record(id) ==
    /\ ids' = [ids EXCEPT ![pos] = id]
    /\ pos' = (pos + 1) % Window
    /\ seen' = IF seen < Window THEN seen + 1 ELSE seen

\* Seen: TRUE for an ID in the ring, else the ID is recorded.
Seen(id) ==
    \/ id \in Scanned /\ answer' = Answer(id, TRUE) /\ UNCHANGED <<ids, pos, seen>>
    \/ id \notin Scanned /\ answer' = Answer(id, FALSE) /\ Record(id)

DedupNext == \E id \in Ids : Seen(id)

DedupSpec == DedupInit /\ [][DedupNext]_dedupVars

-----------------------------------------------------------------------------
\* The k-th oldest ID in the ring lies seen - k + 1 places behind pos.
Place(k) == IF pos - seen + k - 1 >= 0 THEN pos - seen + k - 1
                                       ELSE pos - seen + k - 1 + Window

Recent == INSTANCE RecentIDs
              WITH recent <- [k \in 1..seen |-> ids[Place(k)]], verdict <- answer

\* The ring implements the abstract window: it refuses exactly the last Window
\* IDs accepted, from the first call on and across every wrap of pos
\* (dedup.go:20-36, "50-entry circular window").
RecentSpec == Recent!Spec
=============================================================================
