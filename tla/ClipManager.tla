----------------------------- MODULE ClipManager -----------------------------
(***************************************************************************)
(* The clipboard a station keeps (internal/clipboard/manager.go) and the   *)
(* beats by which stations tell each other that there is something new.    *)
(*                                                                         *)
(* A content is a sequence of units, <<>> being an empty file or image;    *)
(* text always has content, as even the empty text deflates to some bytes. *)
(* The three kinds are fields of their own, as in the code: that at most   *)
(* one of them is set is the work of the setters.                          *)
(***************************************************************************)
EXTENDS Naturals, Sequences

CONSTANTS Stations,   \* the two machines
          Copies,     \* what may be copied: the kind as header name, the data
          None

Kinds == {"text", "image", "file"}
Contents == {c.data : c \in Copies}
Empty == [k \in Kinds |-> None]

\* What Provide returns: the header name and the bytes.
NoData == [name |-> "No data available", data |-> <<>>]
Gifts == [name : Kinds \cup {NoData.name}, data : Seq(Nat)]

ASSUME StationsAssumption == \E a, b \in Stations : a # b /\ Stations = {a, b}
ASSUME CopiesAssumption == Copies \subseteq [name : Kinds, data : Seq(Nat)]
ASSUME NoneAssumption == None \notin Seq(Nat) \cup Gifts \cup Stations

Other(s) == CHOOSE t \in Stations : t # s

VARIABLES store,     \* station -> text, image and filePath
          source,    \* station -> lastMachine, None before any
          gate,      \* station -> TRUE when the last beat is a second old
          beat,      \* station -> a beat of it is on its way to the other one
          latest     \* station -> what was stored last (history)

mvars == <<store, source, gate, beat, latest>>

ManagerInit == /\ store = [s \in Stations |-> Empty]
               /\ source = [s \in Stations |-> None]
               /\ gate = [s \in Stations |-> TRUE]
               /\ beat = [s \in Stations |-> FALSE]
               /\ latest = [s \in Stations |-> NoData]

\* Mutant of Put: the other kinds keep what they have.
PutBeside(st, kind, data) == [st EXCEPT ![kind] = data]

Put(st, kind, data) == [k \in Kinds |-> IF k = kind THEN data ELSE None]

\* Files come before images, images before text; empty ones are no data.
Provide(st) ==
    LET kind == IF st["file"] # None THEN "file"
                ELSE IF st["image"] \notin {None, <<>>} THEN "image" ELSE "text"
    IN  IF st[kind] \in {None, <<>>} THEN NoData
        ELSE [name |-> kind, data |-> st[kind]]

\* SetText, SetImage and SetFile: store, then a beat unless one was just sent.
Set(s, c) ==
    /\ store' = [store EXCEPT ![s] = Put(@, c.name, c.data)]
    /\ latest' = [latest EXCEPT ![s] = c]
    /\ gate' = [gate EXCEPT ![s] = FALSE]
    /\ beat' = [beat EXCEPT ![s] = @ \/ gate[s]]
    /\ UNCHANGED source

GateOpens(s) == /\ ~gate[s]
                /\ gate' = [gate EXCEPT ![s] = TRUE]
                /\ UNCHANGED <<store, source, beat, latest>>

\* The other station's beat arrives; one that no leg took stays on its way.
OnBeat(s) == /\ beat[Other(s)]
             /\ beat' = [beat EXCEPT ![Other(s)] = FALSE]
             /\ source' = [source EXCEPT ![s] = Other(s)]
             /\ UNCHANGED <<store, gate, latest>>

\* A received transfer is stored; an error report only leaves its text as the
\* name of the last machine, as any other transfer leaves its own.
Sink(s, r) ==
    /\ IF r.name \in Kinds
       THEN /\ store' = [store EXCEPT ![s] = Put(@, r.name, r.data)]
            /\ latest' = [latest EXCEPT ![s] = r]
       ELSE UNCHANGED <<store, latest>>
    /\ source' = [source EXCEPT ![s] = r.name]
    /\ UNCHANGED <<gate, beat>>

\* One kind is held, and Provide serves what was stored last.
ProvideLatest ==
    \A s \in Stations :
        Provide(store[s]) = IF latest[s].data = <<>> THEN NoData ELSE latest[s]
=============================================================================
