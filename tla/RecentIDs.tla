----------------------------- MODULE RecentIDs -----------------------------
(***************************************************************************)
(* What duplicate suppression promises, with no ring buffer in sight: an   *)
(* ID is refused exactly when it is one of the last Window IDs accepted.   *)
(***************************************************************************)
EXTENDS Naturals, Sequences

CONSTANTS Ids, Window

VARIABLES recent,     \* the last Window accepted IDs, oldest first
          verdict     \* the last answer given

recentVars == <<recent, verdict>>

NoVerdict == [asked |-> FALSE]
Verdict(id, dup) == [asked |-> TRUE, id |-> id, dup |-> dup]

Known == {recent[k] : k \in 1..Len(recent)}

Init == recent = <<>> /\ verdict = NoVerdict

Refuse(id) == /\ id \in Known
              /\ verdict' = Verdict(id, TRUE)
              /\ UNCHANGED recent

Accept(id) == /\ id \notin Known
              /\ verdict' = Verdict(id, FALSE)
              /\ recent' = IF Len(recent) < Window THEN Append(recent, id)
                                                   ELSE Append(Tail(recent), id)

Next == \E id \in Ids : Refuse(id) \/ Accept(id)

Spec == Init /\ [][Next]_recentVars
=============================================================================
