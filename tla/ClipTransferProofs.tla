------------------------- MODULE ClipTransferProofs -------------------------
(***************************************************************************)
(* What holds of every transfer, for contents of any length, any block and *)
(* any stride made of blocks: the stream that reaches the receiving end is *)
(* a piece of one fixed sequence of items, and each end knows its place in *)
(* it.                                                                     *)
(***************************************************************************)
EXTENDS ClipTransfer, TLAPS, SequenceTheorems

LEMMA NoneIs ==
    /\ None # <<>> /\ None \notin Seq(Nat) /\ None \notin Contents
    /\ None \notin Gifts /\ None \notin Stations
<1>1. <<>> \in Seq(Nat)
  OBVIOUS
<1> QED
  BY <1>1, NoneAssumption, CopiesAssumption DEF Contents

LEMMA Pair ==
    ASSUME NEW s \in Stations
    PROVE  /\ Other(s) \in Stations /\ Other(s) # s /\ Other(Other(s)) = s
           /\ Stations = {s, Other(s)}
<1>1. PICK a \in Stations, b \in Stations : a # b /\ Stations = {a, b}
  BY StationsAssumption
<1>2. \A x \in Stations : Other(x) \in Stations /\ Other(x) # x
  <2>1. ASSUME NEW x \in Stations PROVE \E t \in Stations : t # x
    BY <1>1
  <2> QED
    BY <2>1 DEF Other
<1> QED
  BY <1>1, <1>2

-----------------------------------------------------------------------------
(* Streams. *)

LEMMA Appended ==
    ASSUME NEW T, NEW w \in Seq(T), NEW x \in Seq(T)
    PROVE  /\ w \o x \in Seq(T) /\ Len(w \o x) = Len(w) + Len(x)
           /\ \A i \in 1..Len(w) : (w \o x)[i] = w[i]
           /\ \A i \in 1..Len(x) : (w \o x)[Len(w) + i] = x[i]
<1> DEFINE v == w \o x
<1>1. Len(w) \in Nat /\ Len(x) \in Nat
  OBVIOUS
<1>2. \A i \in 1..Len(w) + Len(x) : v[i] = IF i <= Len(w) THEN w[i] ELSE x[i - Len(w)]
  BY ConcatProperties
<1> HIDE DEF v
<1>3. ASSUME NEW i \in 1..Len(x) PROVE v[Len(w) + i] = x[i]
  <2>1. /\ Len(w) + i \in 1..Len(w) + Len(x) /\ ~(Len(w) + i <= Len(w))
        /\ Len(w) + i - Len(w) = i
    BY <1>1
  <2> QED
    BY <1>2, <2>1
<1>4. \A i \in 1..Len(w) : i \in 1..Len(w) + Len(x) /\ i <= Len(w)
  BY <1>1
<1>5. \A i \in 1..Len(w) : v[i] = w[i]
  BY <1>2, <1>4
<1> QED
  BY <1>3, <1>5, ConcatProperties DEF v

LEMMA Dropped ==
    ASSUME NEW T, NEW w \in Seq(T), NEW n \in 0..Len(w)
    PROVE  /\ SubSeq(w, n + 1, Len(w)) \in Seq(T)
           /\ Len(SubSeq(w, n + 1, Len(w))) = Len(w) - n
           /\ \A i \in 1..Len(w) - n : SubSeq(w, n + 1, Len(w))[i] = w[n + i]
<1> DEFINE v == SubSeq(w, n + 1, Len(w))
<1>1. Len(w) \in Nat
  OBVIOUS
<1>2. n + 1 \in Int /\ Len(w) \in Int /\ \A i \in n + 1..Len(w) : w[i] \in T
  BY <1>1
<1>3. /\ v \in Seq(T)
      /\ Len(v) = IF n + 1 <= Len(w) THEN Len(w) - (n + 1) + 1 ELSE 0
      /\ \A i \in 1..Len(w) - (n + 1) + 1 : v[i] = w[n + 1 + i - 1]
  BY <1>2, SubSeqProperties
<1> HIDE DEF v
<1>4. Len(v) = Len(w) - n /\ Len(w) - (n + 1) + 1 = Len(w) - n
  BY <1>1, <1>3
<1>5. ASSUME NEW i \in 1..Len(w) - n PROVE v[i] = w[n + i]
  <2>2. i \in 1..Len(w) - (n + 1) + 1 /\ n + 1 + i - 1 = n + i
    BY <1>1
  <2> QED
    BY <1>3, <2>2
<1> QED
  BY <1>3, <1>4, <1>5 DEF v

LEMMA Kept ==
    ASSUME NEW T, NEW w \in Seq(T), NEW n \in 0..Len(w)
    PROVE  /\ SubSeq(w, 1, n) \in Seq(T) /\ Len(SubSeq(w, 1, n)) = n
           /\ \A i \in 1..n : SubSeq(w, 1, n)[i] = w[i]
<1> DEFINE v == SubSeq(w, 1, n)
<1>1. Len(w) \in Nat /\ n \in Int /\ 1 \in Int /\ \A i \in 1..n : w[i] \in T
  OBVIOUS
<1>2. /\ v \in Seq(T) /\ Len(v) = (IF 1 <= n THEN n - 1 + 1 ELSE 0)
      /\ \A i \in 1..n - 1 + 1 : v[i] = w[1 + i - 1]
  BY <1>1, SubSeqProperties
<1>3. \A i \in 1..n : i \in 1..n - 1 + 1 /\ 1 + i - 1 = i
  BY <1>1
<1> QED
  BY <1>1, <1>2, <1>3

LEMMA HeadIs ==
    ASSUME NEW T, NEW w \in Seq(T), Len(w) >= 1
    PROVE  Head(w) = w[1] /\ w[1] \in T
  OBVIOUS

-----------------------------------------------------------------------------
(* Blocks. *)

LEMMA BlockIs == Block \in Nat \ {0}
  BY StrideAssumption

LEMMA Times == ASSUME NEW x \in Nat PROVE x * Block \in Nat
  BY BlockIs

LEMMA TimesSum ==
    ASSUME NEW x \in Int, NEW y \in Int
    PROVE  (x + y) * Block = x * Block + y * Block
  BY BlockIs

LEMMA MultiplyBy ==
    ASSUME NEW x \in Int, NEW y \in Int, NEW c \in Nat, x <= y
    PROVE  x * c <= y * c
  OBVIOUS

LEMMA TimesLess ==
    ASSUME NEW x \in Int, NEW y \in Int, x <= y
    PROVE  x * Block <= y * Block
  BY BlockIs, MultiplyBy

\* A number cut into whole blocks and a rest.
LEMMA InBlocks ==
    ASSUME NEW a \in Nat
    PROVE  /\ a \div Block \in Nat /\ a % Block \in 0..Block - 1
           /\ a = (a \div Block) * Block + (a % Block)
  BY BlockIs

\* The stride is whole blocks, and the count rounds up to them.
LEMMA StrideIs == \E r \in Nat \ {0} : Stride = r * Block
<1>1. Stride = (Stride \div Block) * Block + (Stride % Block) /\ Stride \div Block \in Nat
  BY InBlocks, StrideAssumption
<1>2. Stride % Block = 0 /\ Stride \in Nat \ {0}
  BY StrideAssumption
<1>3. Stride = (Stride \div Block) * Block
  BY <1>1, <1>2, BlockIs, Times
<1>4. Stride \div Block # 0
  BY <1>2, <1>3, BlockIs
<1> QED
  BY <1>1, <1>3, <1>4

LEMMA CountIs ==
    ASSUME NEW n \in Nat, NEW q \in Int, q = (n + Block - 1) \div Block
    PROVE  /\ q \in Nat /\ n <= q * Block /\ q * Block < n + Block
           /\ n > 0 => q > 0
<1> DEFINE a == n + Block - 1
           p == q * Block
<1>1. a \in Nat
  BY BlockIs
<1>2. q \in Nat /\ a % Block \in 0..Block - 1 /\ a = p + (a % Block)
  BY <1>1, InBlocks
<1>3. p \in Nat
  BY <1>2, Times
<1>4. q = 0 => p = 0
  BY BlockIs
<1> HIDE DEF p
<1>5. n <= p /\ p < n + Block /\ (n > 0 => q > 0)
  BY <1>2, <1>3, <1>4, BlockIs
<1> QED
  BY <1>2, <1>5 DEF p

\* Whole blocks are counted exactly.
LEMMA WholeCount ==
    ASSUME NEW r \in Nat, NEW q \in Nat,
           r * Block <= q * Block, q * Block < r * Block + Block
    PROVE  q = r
<1>1. CASE q > r
  <2>1. (r + 1) * Block <= q * Block
    BY <1>1, TimesLess
  <2>2. (r + 1) * Block = r * Block + Block
    BY TimesSum, BlockIs
  <2> QED
    BY <2>1, <2>2, Times, BlockIs
<1>2. CASE q < r
  <2>1. (q + 1) * Block <= r * Block
    BY <1>2, TimesLess
  <2>2. (q + 1) * Block = q * Block + Block
    BY TimesSum, BlockIs
  <2> QED
    BY <2>1, <2>2, Times, BlockIs
<1> QED
  BY <1>1, <1>2

-----------------------------------------------------------------------------
(* The invariant. *)

\* What Provide may return.
Offers == {NoData} \cup [name : Kinds, data : Contents \ {<<>>}]
Names == Kinds \cup {NoData.name}

Items == [tag : {"header"}, push : BOOLEAN]
    \cup [tag : {"info"}, size : Nat, name : Names \cup {None}]
    \cup [tag : {"block"}, units : [1..Block -> Nat]]
Jobs == [name : Names \cup {None}, size : Nat, data : Seq(Nat)]

ManagerTypes ==
    /\ store \in [Stations -> [Kinds -> Contents \cup {None}]]
    /\ source \in [Stations -> Stations \cup Names \cup {None}]
    /\ gate \in [Stations -> BOOLEAN] /\ beat \in [Stations -> BOOLEAN]
    /\ latest \in [Stations -> {NoData} \cup [name : Kinds, data : Contents]]

TransferTypes ==
    /\ at \in [Stations -> Reading \cup Writing \cup Ended]
    /\ wire \in [Stations -> Seq(Items)]
    /\ job \in [Stations -> Jobs]
    /\ part \in [Stations -> Seq(Nat) \cup {None}]
    /\ disk \in [Stations -> (Contents \ {<<>>}) \cup {None}]
    /\ conn.push \in BOOLEAN /\ given \in Offers \cup {None}
    /\ link \in {"up", "silent", "cut"} /\ fault \in BOOLEAN

\* One kind at a time, and it is what was stored last.
StoreInv ==
    \A s \in Stations :
        \/ store[s] = Empty /\ latest[s] = NoData
        \/ \E kind \in Kinds, data \in Contents :
              store[s] = Put(Empty, kind, data) /\ latest[s] = [name |-> kind, data |-> data]

\* A temporary file holds what its transfer has got so far.
PartInv ==
    \A s \in Stations :
        /\ Len(job[s].data) <= job[s].size
        /\ part[s] # None => /\ at[s] = "payload" /\ job[s].name = "file"
                             /\ job[s].size > 0 /\ part[s] = job[s].data

Live == \E s \in Stations : at[s] \notin Ended
Src == IF conn.push THEN conn.dialer ELSE Other(conn.dialer)
Dst == Other(Src)

SrcPlaces == (IF conn.push THEN {"sendHdr"} ELSE {"leg", "awaitHdr", "answerPull"})
             \cup {"sendInfo", "sendBlocks"} \cup Ended
DstPlaces == (IF conn.push THEN {"leg", "answerPush"} ELSE {"sendHdr"})
             \cup {"awaitHdr", "awaitInfo", "payload"} \cup Ended

RoleInv == Live => /\ conn.dialer \in Stations
                   /\ at[Src] \in SrcPlaces /\ at[Dst] \in DstPlaces
                   /\ ~conn.push => \A i \in 1..Len(wire[Src]) :
                                       wire[Src][i] = Header(FALSE)

\* What the source sends, from the first item to the last and beyond.
Unit(u) == IF u <= Len(given.data) THEN given.data[u] ELSE 0
BlockItem(b) == [tag |-> "block", units |-> [i \in 1..Block |-> Unit((b - 1) * Block + i)]]
Item(n) == IF n = 1 THEN Header(TRUE)
           ELSE IF n = 2 THEN Info(Len(given.data), given.name) ELSE BlockItem(n - 2)

Whole == [name |-> given.name, size |-> Len(given.data), data |-> given.data]

\* What is left of the data after n items.
Left(n, data) ==
    /\ n >= 2 /\ (n - 2) * Block < Len(given.data)
    /\ data = SubSeq(given.data, (n - 2) * Block + 1, Len(given.data))

\* The source has written n items.
Written(n) ==
    /\ at[Src] \in {"leg", "sendHdr", "awaitHdr", "answerPull"} => n = 0
    /\ at[Src] = "sendHdr" => given \in Offers /\ job[Src] = Whole
    /\ at[Src] = "sendInfo" => n = 1 /\ job[Src] = Whole
    /\ at[Src] = "sendBlocks" => Left(n, job[Src].data)
    /\ n >= 1 => given \in Offers

\* The receiving end has read k items.
Got(k) ==
    /\ at[Dst] \in {"leg", "sendHdr"} => k = 0
    /\ at[Dst] = "awaitHdr" => k = 0 \/ (k = 1 /\ conn.push)
    /\ at[Dst] \in {"answerPush", "awaitInfo"} => k = 1
    /\ at[Dst] = "payload" =>
         /\ k >= 2 /\ job[Dst].name = given.name /\ job[Dst].size = Len(given.data)
         /\ Len(job[Dst].data) <= Len(given.data)
         /\ \A i \in 1..Len(job[Dst].data) : job[Dst].data[i] = given.data[i]
         /\ \/ Len(job[Dst].data) = (k - 2) * Block
            \/ /\ Len(job[Dst].data) = Len(given.data)
               /\ Len(given.data) <= (k - 2) * Block

Stream(k) == /\ Got(k) /\ Written(k + Len(wire[Dst]))
             /\ \A i \in 1..Len(wire[Dst]) : wire[Dst][i] = Item(k + i)

StreamInv == Live /\ at[Dst] \notin Ended => \E k \in Nat : Stream(k)

-----------------------------------------------------------------------------
(* The manager. *)

\* Provide returns what was stored last, or that there is nothing.
LEMMA ProvideIs ==
    ASSUME ManagerTypes, StoreInv, NEW s \in Stations
    PROVE  /\ Provide(store[s]) = IF latest[s].data = <<>> THEN NoData ELSE latest[s]
           /\ Provide(store[s]) \in Offers
<1>1. CASE store[s] = Empty /\ latest[s] = NoData
  <2>1. store[s]["file"] = None /\ store[s]["image"] = None /\ store[s]["text"] = None
    BY <1>1 DEF Empty, Kinds
  <2> QED
    BY <1>1, <2>1 DEF Provide, Offers, NoData
<1>2. CASE \E kind \in Kinds, data \in Contents :
             store[s] = Put(Empty, kind, data) /\ latest[s] = [name |-> kind, data |-> data]
  <2>1. PICK kind \in Kinds, data \in Contents :
             store[s] = Put(Empty, kind, data) /\ latest[s] = [name |-> kind, data |-> data]
    BY <1>2
  <2>2. data # None
    BY NoneIs
  <2>3. \A k \in Kinds : store[s][k] = IF k = kind THEN data ELSE None
    BY <2>1 DEF Put
  <2>4. "file" \in Kinds /\ "image" \in Kinds /\ "text" \in Kinds
    BY DEF Kinds
  <2>5. latest[s].data = data
    BY <2>1
  <2>6. Provide(store[s]) = IF data = <<>> THEN NoData ELSE [name |-> kind, data |-> data]
    <3>1. CASE kind = "file"
      BY <2>2, <2>3, <2>4, <3>1, NoneIs DEF Provide
    <3>2. CASE kind = "image"
      BY <2>2, <2>3, <2>4, <3>2, NoneIs DEF Provide
    <3>3. CASE kind = "text"
      BY <2>2, <2>3, <2>4, <3>3, NoneIs DEF Provide
    <3> QED
      BY <3>1, <3>2, <3>3 DEF Kinds
  <2> QED
    BY <2>1, <2>5, <2>6 DEF Offers
<1> QED
  BY <1>1, <1>2 DEF StoreInv

LEMMA StoredIs ==
    ASSUME ManagerTypes, StoreInv, NEW s \in Stations,
           NEW kind \in Kinds, NEW data \in Contents,
           store' = [store EXCEPT ![s] = Put(@, kind, data)],
           latest' = [latest EXCEPT ![s] = [name |-> kind, data |-> data]]
    PROVE  /\ store' \in [Stations -> [Kinds -> Contents \cup {None}]]
           /\ latest' \in [Stations -> {NoData} \cup [name : Kinds, data : Contents]]
           /\ StoreInv'
<1>1. Put(store[s], kind, data) = Put(Empty, kind, data)
  BY DEF Put
<1>2. Put(Empty, kind, data) \in [Kinds -> Contents \cup {None}]
  BY DEF Put
<1>3. /\ store' = [store EXCEPT ![s] = Put(Empty, kind, data)]
      /\ store \in [Stations -> [Kinds -> Contents \cup {None}]]
      /\ latest \in [Stations -> {NoData} \cup [name : Kinds, data : Contents]]
  BY <1>1 DEF ManagerTypes
<1>4. [name |-> kind, data |-> data] \in [name : Kinds, data : Contents]
  OBVIOUS
<1> DEFINE st == Put(Empty, kind, data)
           lt == [name |-> kind, data |-> data]
<1>5. \E k \in Kinds, d \in Contents : st = Put(Empty, k, d) /\ lt = [name |-> k, data |-> d]
  OBVIOUS
<1> HIDE DEF st, lt
<1>6. /\ store' = [store EXCEPT ![s] = st] /\ latest' = [latest EXCEPT ![s] = lt]
      /\ st \in [Kinds -> Contents \cup {None}] /\ lt \in [name : Kinds, data : Contents]
  BY <1>2, <1>3, <1>4 DEF st, lt
<1>7. /\ store' \in [Stations -> [Kinds -> Contents \cup {None}]]
      /\ latest' \in [Stations -> {NoData} \cup [name : Kinds, data : Contents]]
  BY <1>3, <1>6
<1>8. ASSUME NEW t \in Stations
      PROVE  \/ store'[t] = Empty /\ latest'[t] = NoData
             \/ \E k \in Kinds, d \in Contents :
                  store'[t] = Put(Empty, k, d) /\ latest'[t] = [name |-> k, data |-> d]
  <2>1. CASE t = s
    <3>1. store'[t] = st /\ latest'[t] = lt
      BY <1>3, <1>6, <2>1
    <3> QED
      BY <1>5, <3>1
  <2>2. CASE t # s
    <3>1. store'[t] = store[t] /\ latest'[t] = latest[t]
      BY <1>3, <1>6, <2>2
    <3> QED
      BY <3>1 DEF StoreInv
  <2> QED
    BY <2>1, <2>2
<1>9. StoreInv'
  BY <1>8 DEF StoreInv, Empty, Put
<1> QED
  BY <1>7, <1>9

-----------------------------------------------------------------------------
(* The two ends. *)

LEMMA EndsAre ==
    ASSUME RoleInv, NEW s \in Stations, at[s] \notin Ended
    PROVE  /\ conn.dialer \in Stations /\ Src \in Stations /\ Dst \in Stations
           /\ Src # Dst /\ Stations = {Src, Dst} /\ Other(Src) = Dst /\ Other(Dst) = Src
           /\ Live /\ at[Src] \in SrcPlaces /\ at[Dst] \in DstPlaces
           /\ conn.push => Src = conn.dialer
           /\ ~conn.push => Dst = conn.dialer
<1>1. Live
  BY DEF Live
<1>2. conn.dialer \in Stations /\ at[Src] \in SrcPlaces /\ at[Dst] \in DstPlaces
  BY <1>1 DEF RoleInv
<1>3. Src \in Stations
  BY <1>2, Pair DEF Src
<1>4. /\ Dst \in Stations /\ Src # Dst /\ Stations = {Src, Dst} /\ Other(Src) = Dst
      /\ Other(Dst) = Src
  BY <1>3, Pair DEF Dst
<1>5. ASSUME ~conn.push PROVE Dst = conn.dialer
  BY <1>2, <1>5, Pair DEF Src, Dst
<1> QED
  BY <1>1, <1>2, <1>3, <1>4, <1>5 DEF Src

\* Where an end is tells which end it is.
LEMMA SideOf ==
    ASSUME RoleInv, conn.push \in BOOLEAN, NEW s \in Stations
    PROVE  /\ at[s] \in {"leg", "sendHdr", "awaitHdr", "answerPush", "answerPull"} => s \in {Src, Dst}
           /\ at[s] \in {"answerPull", "sendInfo", "sendBlocks"} => s = Src
           /\ at[s] = "answerPull" => ~conn.push
           /\ at[s] \in {"answerPush", "awaitInfo", "payload"} => s = Dst
           /\ at[s] = "answerPush" => conn.push
           /\ at[s] = "leg" => (s = Src <=> ~conn.push)
           /\ at[s] = "sendHdr" => (s = Src <=> conn.push)
           /\ at[s] = "awaitHdr" /\ s = Src => ~conn.push
<1>1. CASE at[s] \in Ended
  BY <1>1 DEF Ended
<1>2. CASE at[s] \notin Ended
  <2>1. /\ Src # Dst /\ (s = Src \/ s = Dst)
        /\ at[Src] \in SrcPlaces /\ at[Dst] \in DstPlaces
    BY <1>2, EndsAre
  <2>2. CASE s = Src
    BY <1>2, <2>1, <2>2 DEF SrcPlaces, Ended
  <2>3. CASE s = Dst
    BY <1>2, <2>1, <2>3 DEF DstPlaces, Ended
  <2> QED
    BY <2>1, <2>2, <2>3
<1> QED
  BY <1>1, <1>2

LEMMA SameEnds == ASSUME conn' = conn PROVE Src' = Src /\ Dst' = Dst
  BY DEF Src, Dst

LEMMA SameItems ==
    ASSUME given' = given, NEW n
    PROVE  Item(n)' = Item(n)
  BY DEF Item, BlockItem, Unit

\* The roles stay while the connection does.
LEMMA RolesStay ==
    ASSUME TransferTypes, RoleInv, conn' = conn, NEW s \in Stations, at[s] \notin Ended,
           at'[Src] \in SrcPlaces, at'[Dst] \in DstPlaces,
           ~conn.push => \A i \in 1..Len(wire'[Src]) : wire'[Src][i] = Header(FALSE)
    PROVE  RoleInv'
<1>1. Src' = Src /\ Dst' = Dst /\ conn.dialer \in Stations
  BY SameEnds, EndsAre
<1>2. SrcPlaces' = SrcPlaces /\ DstPlaces' = DstPlaces /\ conn.push' = conn.push
  BY DEF SrcPlaces, DstPlaces
<1> QED
  BY <1>1, <1>2 DEF RoleInv, Header

LEMMA GotStays ==
    ASSUME conn' = conn, given' = given, NEW k, Got(k),
           at'[Dst] = at[Dst], job'[Dst] = job[Dst]
    PROVE  Got(k)'
  BY SameEnds DEF Got

LEMMA WrittenStays ==
    ASSUME conn' = conn, given' = given, NEW k, Written(k),
           at'[Src] = at[Src], job'[Src] = job[Src]
    PROVE  Written(k)'
  BY SameEnds DEF Written, Whole, Offers, Contents, Left

\* An end that gives up makes no more claims.
LEMMA WrittenEnds ==
    ASSUME conn' = conn, given' = given, NEW k, Written(k), at'[Src] \in Ended
    PROVE  Written(k)'
  BY SameEnds DEF Written, Whole, Offers, Contents, Ended

LEMMA ItemsKept ==
    ASSUME conn' = conn, given' = given, NEW k \in Nat, Stream(k),
           NEW n, n = k + Len(wire[Dst]),
           wire'[Dst] = wire[Dst], Got(k)', Written(n)'
    PROVE  Stream(k)'
<1>1. Dst' = Dst
  BY SameEnds
<1>2. \A i \in 1..Len(wire[Dst]) : wire[Dst][i] = Item(k + i)
  BY DEF Stream
<1>3. \A i \in 1..Len(wire[Dst]) : Item(k + i)' = Item(k + i)
  BY SameItems
<1>4. Written(k + Len(wire[Dst]))'
  BY <1>1 DEF Written
<1> QED
  BY <1>1, <1>2, <1>3, <1>4 DEF Stream

LEMMA ItemsAdded ==
    ASSUME conn' = conn, given' = given, NEW k \in Nat, Stream(k), wire[Dst] \in Seq(Items),
           NEW x \in Seq(Items), wire'[Dst] = wire[Dst] \o x,
           \A i \in 1..Len(x) : x[i] = Item(k + Len(wire[Dst]) + i),
           NEW n, n = k + Len(wire[Dst]) + Len(x), Got(k)', Written(n)'
    PROVE  Stream(k)'
<1> DEFINE w == wire[Dst]
           v == wire'[Dst]
<1>1. Dst' = Dst
  BY SameEnds
<1>a. w \in Seq(Items) /\ x \in Seq(Items) /\ v = w \o x
  OBVIOUS
<1>b. Len(w) \in Nat /\ Len(x) \in Nat
  OBVIOUS
<1>c. /\ Len(v) = Len(w) + Len(x)
      /\ \A i \in 1..Len(w) : v[i] = w[i]
      /\ \A i \in 1..Len(x) : v[Len(w) + i] = x[i]
  <2> HIDE DEF w, v
  <2> QED
    BY <1>a, Appended
<1>2. /\ Len(w) \in Nat /\ Len(x) \in Nat /\ Len(v) = Len(w) + Len(x)
      /\ \A i \in 1..Len(w) : v[i] = w[i]
      /\ \A i \in 1..Len(x) : v[Len(w) + i] = x[i]
  BY <1>b, <1>c
<1>3. \A i \in 1..Len(w) : w[i] = Item(k + i)
  BY DEF Stream
<1> HIDE DEF w, v
<1>4. ASSUME NEW i \in 1..Len(v) PROVE v[i] = Item(k + i)
  <2>1. CASE i <= Len(w)
    BY <1>2, <1>3, <2>1
  <2>2. CASE i > Len(w)
    <3> DEFINE j == i - Len(w)
    <3>0. i \in Len(w) + 1..Len(w) + Len(x)
      BY <1>2, <2>2
    <3>1. j \in 1..Len(x) /\ Len(w) + j = i /\ k + Len(w) + j = k + i
      BY <1>2, <3>0
    <3>2. x[j] = Item(k + Len(w) + j)
      BY <3>1 DEF w
    <3> QED
      BY <1>2, <3>1, <3>2
  <2> QED
    BY <1>2, <2>1, <2>2
<1>5. \A i \in 1..Len(v) : Item(k + i)' = Item(k + i)
  BY SameItems
<1>6. Len(wire[Dst])' = Len(v) /\ k + Len(v) = n
  <2>1. Len(wire[Dst])' = Len(v) /\ n = k + Len(w) + Len(x)
    BY <1>1 DEF w, v
  <2> QED
    BY <1>2, <2>1
<1>7. Written(k + Len(wire[Dst]))'
  BY <1>6 DEF Written
<1> QED
  BY <1>1, <1>4, <1>5, <1>7 DEF Stream, v

LEMMA ItemsTaken ==
    ASSUME conn' = conn, given' = given, NEW k \in Nat, Stream(k), wire[Dst] \in Seq(Items),
           NEW c \in 0..Len(wire[Dst]),
           wire'[Dst] = SubSeq(wire[Dst], c + 1, Len(wire[Dst])),
           NEW j, j = k + c, NEW n, n = k + Len(wire[Dst]), Got(j)', Written(n)'
    PROVE  Stream(j)'
<1> DEFINE w == wire[Dst]
           v == wire'[Dst]
<1>1. Dst' = Dst
  BY SameEnds
<1>2. /\ Len(w) \in Nat /\ Len(v) = Len(w) - c
      /\ \A i \in 1..Len(v) : v[i] = w[c + i]
  BY Dropped
<1>3. \A i \in 1..Len(w) : w[i] = Item(k + i)
  BY DEF Stream
<1>4. c \in 0..Len(w)
  OBVIOUS
<1> HIDE DEF w, v
<1>5. ASSUME NEW i \in 1..Len(v) PROVE v[i] = Item(j + i)
  <2>1. i \in 1..Len(w) - c
    BY <1>2
  <2>2. c + i \in 1..Len(w) /\ k + (c + i) = j + i
    BY <1>2, <1>4, <2>1
  <2> QED
    BY <1>2, <1>3, <2>2
<1>6. \A i \in 1..Len(v) : Item(j + i)' = Item(j + i)
  BY SameItems
<1>7. Len(wire[Dst])' = Len(v) /\ j + Len(v) = n
  BY <1>1, <1>2, <1>4 DEF w, v
<1>8. Written(j + Len(wire[Dst]))'
  BY <1>7 DEF Written
<1> QED
  BY <1>1, <1>5, <1>6, <1>8 DEF Stream, v

\* What a reset leaves of the stream is its beginning.
LEMMA ItemsCut ==
    ASSUME conn' = conn, given' = given, NEW k \in Nat, Stream(k), wire[Dst] \in Seq(Items),
           NEW c \in 0..Len(wire[Dst]), wire'[Dst] = SubSeq(wire[Dst], 1, c),
           at' = at, job' = job, at[Src] \in Ended
    PROVE  Stream(k)'
<1> DEFINE w == wire[Dst]
           v == wire'[Dst]
<1>1. Dst' = Dst /\ Src' = Src
  BY SameEnds
<1>2. Len(w) \in Nat /\ Len(v) = c /\ \A i \in 1..c : v[i] = w[i]
  BY Kept
<1>3. \A i \in 1..Len(w) : w[i] = Item(k + i)
  BY DEF Stream
<1>4. \A i \in 1..c : v[i] = Item(k + i) /\ Item(k + i)' = Item(k + i)
  BY <1>2, <1>3, SameItems
<1>5. Got(k)'
  BY GotStays DEF Stream
<1>6. k + c >= 1 => k + Len(w) >= 1
  BY <1>2
<1>7. Written(k + Len(wire[Dst]))'
  <2>1. k + Len(wire[Dst]) >= 1 => given \in Offers
    BY DEF Stream, Written
  <2>2. Len(wire[Dst])' = c /\ at'[Src'] \in Ended
    BY <1>1, <1>2
  <2>3. k + c >= 1 => given' \in Offers'
    BY <1>6, <2>1 DEF w, Offers, Contents
  <2> QED
    BY <2>2, <2>3 DEF Written, Ended
<1> QED
  BY <1>1, <1>2, <1>4, <1>5, <1>7 DEF Stream

TransferInv == TransferTypes /\ PartInv /\ RoleInv /\ StreamInv

\* A step of one end: what the other one has is as before.
LEMMA AtMoved ==
    ASSUME TransferTypes, NEW s \in Stations, NEW place, GoTo(s, place)
    PROVE  at'[s] = place /\ \A t \in Stations \ {s} : at'[t] = at[t]
  BY DEF TransferTypes, GoTo

LEMMA WireWritten ==
    ASSUME TransferTypes, NEW s \in Stations, NEW x, Write(s, x), x \in Seq(Items)
    PROVE  /\ wire'[Other(s)] = wire[Other(s)] \o x /\ wire'[s] = wire[s]
           /\ wire' \in [Stations -> Seq(Items)]
           /\ Len(wire'[Other(s)]) = Len(wire[Other(s)]) + Len(x)
           /\ \A i \in 1..Len(wire[Other(s)]) : wire'[Other(s)][i] = wire[Other(s)][i]
           /\ \A i \in 1..Len(x) : wire'[Other(s)][Len(wire[Other(s)]) + i] = x[i]
<1>1. Other(s) \in Stations /\ Other(s) # s
  BY Pair
<1>2. wire \in [Stations -> Seq(Items)] /\ wire' = [wire EXCEPT ![Other(s)] = @ \o x]
  BY DEF TransferTypes, Write
<1> DEFINE w == wire[Other(s)]
           v == w \o x
<1>3. w \in Seq(Items)
  BY <1>1, <1>2
<1>4. wire'[Other(s)] = v
  BY <1>1, <1>2
<1> HIDE DEF w
<1>5. /\ v \in Seq(Items) /\ Len(v) = Len(w) + Len(x)
      /\ \A i \in 1..Len(w) : v[i] = w[i]
      /\ \A i \in 1..Len(x) : v[Len(w) + i] = x[i]
  BY <1>3, Appended
<1> HIDE DEF v
<1>6. wire' = [wire EXCEPT ![Other(s)] = v]
  BY <1>2 DEF v, w
<1>7. wire' \in [Stations -> Seq(Items)] /\ wire'[s] = wire[s]
  BY <1>1, <1>2, <1>5, <1>6
<1> QED
  BY <1>4, <1>5, <1>7 DEF v, w

LEMMA WireTaken ==
    ASSUME TransferTypes, NEW s \in Stations, NEW n \in Nat, Take(s, n)
    PROVE  /\ n \in 0..Len(wire[s]) /\ wire[s] \in Seq(Items)
           /\ wire'[s] = SubSeq(wire[s], n + 1, Len(wire[s])) /\ wire'[Other(s)] = wire[Other(s)]
           /\ wire' \in [Stations -> Seq(Items)]
           /\ Len(wire'[s]) = Len(wire[s]) - n
           /\ \A i \in 1..Len(wire'[s]) : wire'[s][i] = wire[s][n + i]
<1>1. Other(s) \in Stations /\ Other(s) # s
  BY Pair
<1>2. wire \in [Stations -> Seq(Items)] /\ wire[s] \in Seq(Items)
  BY DEF TransferTypes
<1>3. wire' = [wire EXCEPT ![s] = SubSeq(@, n + 1, Len(@))] /\ Len(wire[s]) >= n
  BY DEF Take, Arrived
<1>4. n \in 0..Len(wire[s])
  BY <1>2, <1>3
<1> DEFINE w == wire[s]
           v == SubSeq(w, n + 1, Len(w))
<1>5. w \in Seq(Items) /\ n \in 0..Len(w)
  BY <1>2, <1>4
<1>6. wire' = [wire EXCEPT ![s] = v]
  BY <1>3
<1> HIDE DEF w
<1>7. /\ v \in Seq(Items) /\ Len(v) = Len(w) - n
      /\ \A i \in 1..Len(v) : v[i] = w[n + i]
  BY <1>5, Dropped DEF v
<1> HIDE DEF v
<1>8. wire'[s] = v /\ wire'[Other(s)] = wire[Other(s)] /\ wire' \in [Stations -> Seq(Items)]
  BY <1>1, <1>2, <1>6, <1>7
<1> QED
  BY <1>2, <1>4, <1>7, <1>8 DEF v, w

LEMMA HeaderIs == \A b \in BOOLEAN : Header(b) \in Items /\ <<Header(b)>> \in Seq(Items)
                                     /\ Len(<<Header(b)>>) = 1 /\ <<Header(b)>>[1] = Header(b)
  BY DEF Header, Items

\* A step that moves one end within its side and leaves the conversation and
\* the jobs: types, temporary files and roles.
LEMMA MoveKeeps ==
    ASSUME TransferTypes, PartInv, RoleInv, NEW s \in Stations, at[s] \notin Ended \cup {"payload"},
           NEW place, GoTo(s, place),
           IF s = Src THEN place \in SrcPlaces ELSE place \in DstPlaces,
           wire' \in [Stations -> Seq(Items)],
           ~conn.push => \A i \in 1..Len(wire'[Src]) : wire'[Src][i] = Header(FALSE),
           conn' = conn, job' = job, part' = part, disk' = disk, link' = link, given' = given,
           fault' \in BOOLEAN
    PROVE  TransferTypes' /\ PartInv' /\ RoleInv'
<1>1. /\ Src \in Stations /\ Dst \in Stations /\ Src # Dst /\ Stations = {Src, Dst}
      /\ at[Src] \in SrcPlaces /\ at[Dst] \in DstPlaces
  BY EndsAre
<1>2. at'[s] = place /\ \A t \in Stations \ {s} : at'[t] = at[t]
  BY AtMoved
<1>3. at'[Src] \in SrcPlaces /\ at'[Dst] \in DstPlaces
  BY <1>1, <1>2
<1>4. place \in Reading \cup Writing \cup Ended
  BY DEF SrcPlaces, DstPlaces, Reading, Writing, Ended
<1>5. TransferTypes'
  <2>1. at' \in [Stations -> Reading \cup Writing \cup Ended]
    BY <1>4 DEF GoTo, TransferTypes
  <2>2. given' \in Offers' \cup {None} /\ conn'.push \in BOOLEAN /\ link' \in {"up", "silent", "cut"}
    BY DEF TransferTypes, Offers, Contents
  <2> QED
    BY <2>1, <2>2 DEF TransferTypes, Contents, Offers
<1>6. PartInv'
  BY <1>2 DEF PartInv
<1>7. RoleInv'
  BY <1>3, RolesStay
<1> QED
  BY <1>5, <1>6, <1>7

LEMMA SendHeaderKeeps ==
    ASSUME TransferInv, NEW s \in Stations, SendHeader(s)
    PROVE  TransferInv'
<1>0. TransferTypes /\ PartInv /\ RoleInv /\ StreamInv /\ conn.push \in BOOLEAN
  BY DEF TransferInv, TransferTypes
<1>1. at[s] = "sendHdr" /\ at[s] \notin Ended \cup {"payload"}
  BY DEF SendHeader, Ended
<1>2. /\ Src \in Stations /\ Dst \in Stations /\ Src # Dst /\ Stations = {Src, Dst}
      /\ Other(Src) = Dst /\ Other(Dst) = Src /\ Live
  BY <1>0, <1>1, EndsAre
<1>3. s = Src <=> conn.push
  BY <1>0, <1>1, SideOf
<1> DEFINE x == <<Header(conn.push)>>
           place == IF conn.push THEN "sendInfo" ELSE "awaitHdr"
<1>4. x \in Seq(Items) /\ Len(x) = 1 /\ x[1] = Header(conn.push)
  BY <1>0, HeaderIs
<1>5. /\ Write(s, x) /\ GoTo(s, place)
      /\ conn' = conn /\ job' = job /\ part' = part /\ disk' = disk /\ link' = link
      /\ given' = given /\ fault' = fault
  BY DEF SendHeader, mvars
<1> HIDE DEF x
<1>6. /\ wire'[Other(s)] = wire[Other(s)] \o x /\ wire'[s] = wire[s]
      /\ wire' \in [Stations -> Seq(Items)]
  BY <1>0, <1>4, <1>5, WireWritten
<1>7. at'[s] = place /\ \A t \in Stations \ {s} : at'[t] = at[t]
  BY <1>0, <1>5, AtMoved
<1>8. ASSUME ~conn.push, NEW i \in 1..Len(wire'[Src]) PROVE wire'[Src][i] = Header(FALSE)
  <2>1. wire[Src] \in Seq(Items) /\ wire'[Src] = wire[Src] \o x
    BY <1>0, <1>2, <1>3, <1>6, <1>8 DEF TransferTypes
  <2>2. \A j \in 1..Len(wire[Src]) : wire[Src][j] = Header(FALSE)
    BY <1>0, <1>2, <1>8 DEF RoleInv
  <2>3. /\ Len(wire'[Src]) = Len(wire[Src]) + 1
        /\ \A j \in 1..Len(wire[Src]) : wire'[Src][j] = wire[Src][j]
        /\ wire'[Src][Len(wire[Src]) + 1] = x[1]
    <3>1. /\ Len(wire'[Src]) = Len(wire[Src]) + Len(x)
          /\ \A j \in 1..Len(wire[Src]) : wire'[Src][j] = wire[Src][j]
          /\ \A j \in 1..Len(x) : wire'[Src][Len(wire[Src]) + j] = x[j]
      <4>1. Other(s) = Src
        BY <1>2, <1>3, <1>8
      <4>2. /\ Len(wire'[Other(s)]) = Len(wire[Other(s)]) + Len(x)
            /\ \A j \in 1..Len(wire[Other(s)]) : wire'[Other(s)][j] = wire[Other(s)][j]
            /\ \A j \in 1..Len(x) : wire'[Other(s)][Len(wire[Other(s)]) + j] = x[j]
        BY <1>0, <1>4, <1>5, WireWritten
      <4> QED
        BY <4>1, <4>2
    <3> QED
      BY <1>4, <3>1
  <2>4. x[1] = Header(FALSE)
    BY <1>0, <1>4, <1>8
  <2>5. Len(wire[Src]) \in Nat
    BY <2>1
  <2>6. i \in 1..Len(wire[Src]) \/ i = Len(wire[Src]) + 1
    BY <2>3, <2>5
  <2> QED
    BY <2>2, <2>3, <2>4, <2>6
<1>9. TransferTypes' /\ PartInv' /\ RoleInv'
  <2>1. IF s = Src THEN place \in SrcPlaces ELSE place \in DstPlaces
    BY <1>3 DEF SrcPlaces, DstPlaces
  <2>2. fault' \in BOOLEAN
    BY <1>0, <1>5 DEF TransferTypes
  <2> HIDE DEF place
  <2> QED
    BY <1>0, <1>1, <1>5, <1>6, <1>8, <2>1, <2>2, MoveKeeps
<1>10. ASSUME at'[Dst] \notin Ended PROVE \E k \in Nat : Stream(k)'
  <2>1. at[Dst] \notin Ended
    BY <1>1, <1>2, <1>7, <1>10
  <2>2. PICK k \in Nat : Stream(k)
    BY <1>0, <1>2, <2>1 DEF StreamInv
  <2>3. wire[Dst] \in Seq(Items) /\ Len(wire[Dst]) \in Nat
    BY <1>0, <1>2 DEF TransferTypes
  <2>4. CASE conn.push
    <3>1. s = Src
      BY <1>3, <2>4
    <3>2. k + Len(wire[Dst]) = 0 /\ given \in Offers /\ job[Src] = Whole
      BY <1>1, <2>2, <3>1 DEF Stream, Written
    <3>3. k = 0 /\ Len(wire[Dst]) = 0
      BY <2>3, <3>2
    <3>4. x[1] = Item(1)
      BY <1>4, <2>4 DEF Item
    <3>5. Got(0)'
      BY <1>2, <1>5, <1>7, <2>2, <3>1, <3>3, GotStays DEF Stream
    <3>6. Written(1)'
      <4>1. at'[Src'] = "sendInfo" /\ job'[Src'] = Whole'
        BY <1>5, <1>7, <2>4, <3>1, <3>2, SameEnds DEF Whole
      <4> QED
        BY <1>5, <3>2, <4>1 DEF Written, Offers, Contents
    <3>7. \A i \in 1..Len(x) : x[i] = Item(0 + Len(wire[Dst]) + i)
      BY <1>4, <3>3, <3>4
    <3>8. Stream(0)'
      <4>1. Stream(0) /\ 0 \in Nat /\ 1 = 0 + Len(wire[Dst]) + Len(x)
        BY <1>4, <2>2, <3>3
      <4>2. wire'[Dst] = wire[Dst] \o x
        BY <1>2, <1>6, <3>1
      <4> QED
        BY <1>4, <1>5, <2>3, <3>5, <3>6, <3>7, <4>1, <4>2, ItemsAdded
    <3> QED
      BY <3>8
  <2>5. CASE ~conn.push
    <3>1. s = Dst
      BY <1>2, <1>3, <2>5
    <3>2. k = 0
      BY <1>1, <2>2, <3>1 DEF Stream, Got
    <3>3. Got(k)'
      BY <1>5, <1>7, <2>5, <3>1, <3>2, SameEnds DEF Got
    <3>4. Written(k + Len(wire[Dst]))
      BY <2>2 DEF Stream
    <3> DEFINE n == k + Len(wire[Dst])
    <3>5. PICK m : m = k + Len(wire[Dst])
      OBVIOUS
    <3>6. Written(m)'
      BY <1>2, <1>5, <1>7, <3>1, <3>4, <3>5, WrittenStays
    <3>7. Stream(k)'
      BY <1>5, <1>6, <2>2, <3>1, <3>3, <3>5, <3>6, ItemsKept
    <3> QED
      BY <3>7
  <2> QED
    BY <1>0, <2>4, <2>5
<1>11. StreamInv'
  <2>1. Dst' = Dst
    BY <1>5, SameEnds
  <2> QED
    BY <1>10, <2>1 DEF StreamInv
<1> QED
  BY <1>9, <1>11 DEF TransferInv

\* A step of the receiving end that reads c items.
LEMMA ReceiverReads ==
    ASSUME TransferTypes, RoleInv, StreamInv, at[Dst] \notin Ended, Dst \in Stations,
           conn' = conn, given' = given, at'[Src] = at[Src], job'[Src] = job[Src],
           NEW c \in Nat, Take(Dst, c),
           \A k \in Nat : Stream(k) => \E j : j = k + c /\ (at'[Dst] \notin Ended => Got(j)')
    PROVE  StreamInv'
<1>1. Live /\ Src \in Stations /\ Dst' = Dst
  BY EndsAre, SameEnds
<1>2. /\ c \in 0..Len(wire[Dst]) /\ wire[Dst] \in Seq(Items)
      /\ wire'[Dst] = SubSeq(wire[Dst], c + 1, Len(wire[Dst]))
  BY WireTaken
<1>3. PICK k \in Nat : Stream(k)
  BY <1>1 DEF StreamInv
<1>4. PICK j : j = k + c /\ (at'[Dst] \notin Ended => Got(j)')
  BY <1>3
<1>5. PICK n : n = k + Len(wire[Dst])
  OBVIOUS
<1>6. Written(n)'
  BY <1>3, <1>5, WrittenStays DEF Stream
<1>7. ASSUME at'[Dst] \notin Ended PROVE Stream(j)'
  BY <1>2, <1>3, <1>4, <1>5, <1>6, <1>7, ItemsTaken
<1>8. j \in Nat
  BY <1>4
<1> QED
  BY <1>1, <1>7, <1>8 DEF StreamInv

\* A step of the source that writes to nobody.
LEMMA SourceMoves ==
    ASSUME TransferTypes, RoleInv, StreamInv, NEW s \in Stations, s = Src, at[s] \notin Ended,
           conn' = conn, given' = given, at'[Dst] = at[Dst], job'[Dst] = job[Dst],
           wire'[Dst] = wire[Dst],
           \A k \in Nat : Stream(k) => \E n : n = k + Len(wire[Dst]) /\ Written(n)'
    PROVE  StreamInv'
<1>1. Live /\ Dst \in Stations /\ Dst' = Dst
  BY EndsAre, SameEnds
<1>2. ASSUME at[Dst] \notin Ended PROVE \E k \in Nat : Stream(k)'
  <2>1. PICK k \in Nat : Stream(k)
    BY <1>1, <1>2 DEF StreamInv
  <2>2. PICK n : n = k + Len(wire[Dst]) /\ Written(n)'
    BY <2>1
  <2>3. Got(k)'
    BY <2>1, GotStays DEF Stream
  <2> QED
    BY <2>1, <2>2, <2>3, ItemsKept
<1> QED
  BY <1>1, <1>2 DEF StreamInv

\* A reader of the header: in the pull it is the source, in the push the other.
LEMMA HeaderRead ==
    ASSUME TransferInv, NEW s \in Stations, at[s] \in {"leg", "awaitHdr"}, Take(s, 1),
           NEW place, GoTo(s, place),
           IF s = Src
           THEN place \in {"awaitHdr", "failed"} \/ (place = "answerPull" /\ ~conn.push)
           ELSE \/ place = "failed"
                \/ place = "awaitHdr" /\ at[s] = "leg"
                \/ place = "answerPush" /\ conn.push /\ at[s] = "awaitHdr"
                     /\ wire[s][1].tag = "header"
                \/ place = "awaitInfo" /\ ~conn.push /\ at[s] = "awaitHdr"
                     /\ wire[s][1].tag = "header",
           conn' = conn, job' = job, part' = part, disk' = disk, link' = link, given' = given,
           fault' \in BOOLEAN
    PROVE  TransferInv'
<1>0. TransferTypes /\ PartInv /\ RoleInv /\ StreamInv /\ conn.push \in BOOLEAN
  BY DEF TransferInv, TransferTypes
<1>1. at[s] \notin Ended \cup {"payload"}
  BY DEF Ended
<1>2. /\ Src \in Stations /\ Dst \in Stations /\ Src # Dst /\ Stations = {Src, Dst}
      /\ Other(Src) = Dst /\ Other(Dst) = Src /\ Live
      /\ at[Src] \in SrcPlaces /\ at[Dst] \in DstPlaces
  BY <1>0, <1>1, EndsAre
<1>3. s = Src => ~conn.push
  BY <1>0, SideOf
<1>4. /\ 1 \in 0..Len(wire[s]) /\ wire[s] \in Seq(Items)
      /\ wire'[s] = SubSeq(wire[s], 1 + 1, Len(wire[s])) /\ wire'[Other(s)] = wire[Other(s)]
      /\ wire' \in [Stations -> Seq(Items)]
  BY <1>0, WireTaken
<1>5. at'[s] = place /\ \A t \in Stations \ {s} : at'[t] = at[t]
  BY <1>0, AtMoved
<1>6. ASSUME ~conn.push, NEW i \in 1..Len(wire'[Src]) PROVE wire'[Src][i] = Header(FALSE)
  <2>1. \A j \in 1..Len(wire[Src]) : wire[Src][j] = Header(FALSE)
    BY <1>0, <1>2, <1>6 DEF RoleInv
  <2>2. CASE s = Src
    <3>1. /\ Len(wire'[Src]) = Len(wire[Src]) - 1
          /\ \A j \in 1..Len(wire'[Src]) : wire'[Src][j] = wire[Src][1 + j]
      BY <1>0, <2>2, WireTaken
    <3>2. Len(wire[Src]) \in Nat
      BY <1>4, <2>2
    <3>3. 1 + i \in 1..Len(wire[Src])
      BY <3>1, <3>2
    <3> QED
      BY <2>1, <3>1, <3>3
  <2>3. CASE s = Dst
    BY <1>2, <1>4, <1>6, <2>1, <2>3
  <2> QED
    BY <1>2, <2>2, <2>3
<1>7. TransferTypes' /\ PartInv' /\ RoleInv'
  <2>1. IF s = Src THEN place \in SrcPlaces ELSE place \in DstPlaces
    <3>1. CASE s = Src
      BY <1>3, <3>1 DEF SrcPlaces, Ended
    <3>2. CASE s # Src
      BY <1>0, <3>2 DEF DstPlaces, Ended
    <3> QED
      BY <3>1, <3>2
  <2> QED
    BY <1>0, <1>1, <1>4, <1>6, <2>1, MoveKeeps
<1>8. ASSUME s = Dst PROVE StreamInv'
  <2>1. ASSUME NEW k \in Nat, Stream(k)
        PROVE  \E j : j = k + 1 /\ (at'[Dst] \notin Ended => Got(j)')
    <3>1. Got(k) /\ \A i \in 1..Len(wire[Dst]) : wire[Dst][i] = Item(k + i)
      BY <2>1 DEF Stream
    <3>2. wire[Dst][1] = Item(k + 1)
      BY <1>4, <1>8, <3>1
    <3>3. CASE at[Dst] = "leg"
      <4>1. k = 0
        BY <3>1, <3>3 DEF Got
      <4>2. place \in {"failed", "awaitHdr"} /\ conn.push
        BY <1>0, <1>2, <1>8, <3>3, SideOf
      <4>3. Got(1)'
        BY <1>1, <1>5, <1>8, <4>2, SameEnds DEF Got
      <4> QED
        BY <4>1, <4>3
    <3>4. CASE at[Dst] = "awaitHdr"
      <4>1. k \in {0, 1}
        BY <3>1, <3>4 DEF Got
      <4>2. CASE place = "failed"
        BY <1>5, <1>8, <4>2 DEF Ended
      <4>3. CASE place # "failed"
        <5>1. place \in {"answerPush", "awaitInfo"} /\ wire[Dst][1].tag = "header"
          BY <1>2, <1>8, <3>4, <4>3
        <5>2. k # 1
          <6>1. Item(1 + 1).tag = "info"
            BY DEF Item, Info
          <6> QED
            BY <3>2, <5>1, <6>1
        <5>3. Got(1)'
          BY <1>5, <1>8, <5>1, SameEnds DEF Got
        <5> QED
          BY <4>1, <5>2, <5>3
      <4> QED
        BY <4>2, <4>3
    <3> QED
      BY <1>8, <3>3, <3>4
  <2>2. at'[Src] = at[Src] /\ job'[Src] = job[Src] /\ at[Dst] \notin Ended
    BY <1>1, <1>2, <1>5, <1>8
  <2> QED
    BY <1>0, <1>2, <1>8, <2>1, <2>2, ReceiverReads
<1>9. ASSUME s = Src PROVE StreamInv'
  <2>1. ASSUME NEW k \in Nat, Stream(k)
        PROVE  \E n : n = k + Len(wire[Dst]) /\ Written(n)'
    <3>1. PICK n : n = k + Len(wire[Dst])
      OBVIOUS
    <3>2. Written(n) /\ n = 0
      BY <1>9, <2>1, <3>1 DEF Stream, Written
    <3>3. Written(0)'
      BY <1>5, <1>9, SameEnds DEF Written
    <3> QED
      BY <3>1, <3>2, <3>3
  <2>2. at'[Dst] = at[Dst] /\ job'[Dst] = job[Dst] /\ wire'[Dst] = wire[Dst]
    BY <1>2, <1>4, <1>5, <1>9
  <2> QED
    BY <1>0, <1>1, <1>9, <2>1, <2>2, SourceMoves
<1> QED
  BY <1>0, <1>2, <1>7, <1>8, <1>9 DEF TransferInv

LEMMA LegHeaderKeeps ==
    ASSUME TransferInv, NEW s \in Stations, LegHeader(s)
    PROVE  TransferInv'
<1>1. /\ at[s] = "leg" /\ Take(s, 1)
      /\ conn' = conn /\ job' = job /\ part' = part /\ disk' = disk /\ link' = link
      /\ given' = given
  BY DEF LegHeader
<1>2. fault' \in BOOLEAN
  BY DEF LegHeader, TransferInv, TransferTypes
<1>3. CASE GoTo(s, "awaitHdr")
  BY <1>1, <1>2, <1>3, HeaderRead
<1>4. CASE GoTo(s, "failed")
  BY <1>1, <1>2, <1>4, HeaderRead
<1> QED
  BY <1>3, <1>4 DEF LegHeader

LEMMA ReadHeaderKeeps ==
    ASSUME TransferInv, NEW s \in Stations, ReadHeader(s)
    PROVE  TransferInv'
<1>0. TransferTypes /\ RoleInv /\ StreamInv /\ conn.push \in BOOLEAN /\ fault \in BOOLEAN
  BY DEF TransferInv, TransferTypes
<1>1. /\ at[s] = "awaitHdr" /\ Take(s, 1)
      /\ conn' = conn /\ job' = job /\ part' = part /\ disk' = disk /\ link' = link
      /\ given' = given /\ fault' = fault
  BY DEF ReadHeader
<1>2. /\ Src \in Stations /\ Dst \in Stations /\ Src # Dst /\ Stations = {Src, Dst} /\ Live
      /\ conn.push => Src = conn.dialer
      /\ ~conn.push => Dst = conn.dialer
  BY <1>0, <1>1, EndsAre DEF Ended
<1>3. 1 \in 0..Len(wire[s]) /\ wire[s] \in Seq(Items)
  BY <1>0, <1>1, WireTaken
<1> DEFINE item == wire[s][1]
           place == IF item.tag # "header" THEN "failed"
                    ELSE IF s = conn.dialer THEN (IF item.push THEN "awaitInfo" ELSE "failed")
                    ELSE IF item.push THEN "answerPush" ELSE "answerPull"
<1>4. GoTo(s, place) /\ item \in Items
  BY <1>3, HeadIs DEF ReadHeader
<1>5. CASE s = Src
  <2>1. ~conn.push
    BY <1>0, <1>1, <1>5, SideOf
  <2>2. item = Header(FALSE)
    <3>1. \A i \in 1..Len(wire[Src]) : wire[Src][i] = Header(FALSE)
      BY <1>0, <1>2, <2>1 DEF RoleInv
    <3>2. 1 \in 1..Len(wire[Src])
      BY <1>3, <1>5
    <3> QED
      BY <1>5, <3>1, <3>2
  <2>3. place = "answerPull"
    BY <1>2, <1>5, <2>1, <2>2 DEF Header
  <2>4. GoTo(s, "answerPull")
    BY <1>4, <2>3
  <2> QED
    BY <1>0, <1>1, <1>5, <2>1, <2>4, HeaderRead
<1>6. CASE s = Dst /\ place # "failed"
  <2>1. item.tag = "header"
    BY <1>6
  <2>2. PICK k \in Nat : Stream(k)
    BY <1>0, <1>1, <1>2, <1>6 DEF StreamInv, Ended
  <2>3. item = Item(k + 1) /\ k \in {0, 1}
    <3>1. \A i \in 1..Len(wire[Dst]) : wire[Dst][i] = Item(k + i)
      BY <2>2 DEF Stream
    <3> QED
      BY <1>1, <1>3, <1>6, <2>2, <3>1 DEF Stream, Got
  <2>4. item.push = TRUE
    BY <2>1, <2>3 DEF Item, Header, Info
  <2>5. place = IF conn.push THEN "answerPush" ELSE "awaitInfo"
    BY <1>2, <1>6, <2>1, <2>4
  <2>6. CASE conn.push
    <3>1. GoTo(s, "answerPush")
      BY <1>4, <2>5, <2>6
    <3> QED
      BY <1>0, <1>1, <1>2, <1>6, <2>1, <2>6, <3>1, HeaderRead
  <2>7. CASE ~conn.push
    <3>1. GoTo(s, "awaitInfo")
      BY <1>4, <2>5, <2>7
    <3> QED
      BY <1>0, <1>1, <1>2, <1>6, <2>1, <2>7, <3>1, HeaderRead
  <2> QED
    BY <1>0, <2>6, <2>7
<1>7. CASE s = Dst /\ place = "failed"
  <2>1. GoTo(s, "failed")
    BY <1>4, <1>7
  <2> QED
    BY <1>0, <1>1, <1>2, <1>7, <2>1, HeaderRead
<1> QED
  BY <1>2, <1>5, <1>6, <1>7

\* A step of the source that writes.
LEMMA SourceWrites ==
    ASSUME TransferTypes, RoleInv, StreamInv, NEW s \in Stations, s = Src, at[s] \notin Ended,
           conn' = conn, given' = given, at'[Dst] = at[Dst], job'[Dst] = job[Dst],
           NEW x \in Seq(Items), Write(s, x),
           \A k \in Nat : Stream(k) =>
               /\ \A i \in 1..Len(x) : x[i] = Item(k + Len(wire[Dst]) + i)
               /\ \E n : n = k + Len(wire[Dst]) + Len(x) /\ Written(n)'
    PROVE  StreamInv'
<1>1. Live /\ Dst \in Stations /\ Dst' = Dst /\ Other(Src) = Dst
  BY EndsAre, SameEnds
<1>2. wire'[Dst] = wire[Dst] \o x /\ wire[Dst] \in Seq(Items)
  <2>1. wire'[Other(s)] = wire[Other(s)] \o x
    BY WireWritten
  <2> QED
    BY <1>1, <2>1 DEF TransferTypes
<1>3. ASSUME at[Dst] \notin Ended PROVE \E k \in Nat : Stream(k)'
  <2>1. PICK k \in Nat : Stream(k)
    BY <1>1, <1>3 DEF StreamInv
  <2>2. \A i \in 1..Len(x) : x[i] = Item(k + Len(wire[Dst]) + i)
    BY <2>1
  <2>3. PICK n : n = k + Len(wire[Dst]) + Len(x) /\ Written(n)'
    BY <2>1
  <2>4. Got(k)'
    BY <2>1, GotStays DEF Stream
  <2>5. Stream(k)'
    BY <1>2, <2>1, <2>2, <2>3, <2>4, ItemsAdded
  <2> QED
    BY <2>5
<1> QED
  BY <1>1, <1>3 DEF StreamInv

\* A step of the receiving end that takes nothing from the stream.
LEMMA ReceiverMoves ==
    ASSUME TransferTypes, RoleInv, StreamInv, NEW s \in Stations, s = Dst, at[s] \notin Ended,
           conn' = conn, given' = given, at'[Src] = at[Src], job'[Src] = job[Src],
           wire'[Dst] = wire[Dst],
           \A k \in Nat : Stream(k) => (at'[Dst] \in Ended \/ Got(k)')
    PROVE  StreamInv'
<1>1. Live /\ Src \in Stations /\ Dst' = Dst
  BY EndsAre, SameEnds
<1>2. PICK k \in Nat : Stream(k)
  BY <1>1 DEF StreamInv
<1>3. PICK n : n = k + Len(wire[Dst])
  OBVIOUS
<1>4. Written(n)'
  BY <1>2, <1>3, WrittenStays DEF Stream
<1>5. ASSUME at'[Dst] \notin Ended PROVE Stream(k)'
  BY <1>2, <1>3, <1>4, <1>5, ItemsKept
<1> QED
  BY <1>1, <1>5 DEF StreamInv

\* A step that gives one end a new transfer: types, temporary files and roles.
LEMMA JobKeeps ==
    ASSUME TransferTypes, PartInv, RoleInv, NEW s \in Stations, at[s] \notin Ended \cup {"payload"},
           NEW place, GoTo(s, place),
           IF s = Src THEN place \in SrcPlaces ELSE place \in DstPlaces,
           wire' \in [Stations -> Seq(Items)],
           ~conn.push => \A i \in 1..Len(wire'[Src]) : wire'[Src][i] = Header(FALSE),
           NEW j \in Jobs, job' = [job EXCEPT ![s] = j], Len(j.data) <= j.size,
           part' = [part EXCEPT ![s] = None]
             \/ (part' = [part EXCEPT ![s] = <<>>] /\ j.data = <<>> /\ place = "payload"
                   /\ j.name = "file" /\ j.size > 0),
           conn' = conn, disk' = disk, link' = link, given' \in Offers \cup {None}, fault' = fault
    PROVE  TransferTypes' /\ PartInv' /\ RoleInv'
<1>1. /\ Src \in Stations /\ Dst \in Stations /\ Src # Dst /\ Stations = {Src, Dst}
      /\ at[Src] \in SrcPlaces /\ at[Dst] \in DstPlaces
  BY EndsAre
<1>2. at'[s] = place /\ \A t \in Stations \ {s} : at'[t] = at[t]
  BY AtMoved
<1>3. at'[Src] \in SrcPlaces /\ at'[Dst] \in DstPlaces
  BY <1>1, <1>2
<1>4. place \in Reading \cup Writing \cup Ended
  BY DEF SrcPlaces, DstPlaces, Reading, Writing, Ended
<1>5. /\ job \in [Stations -> Jobs] /\ job' \in [Stations -> Jobs] /\ job'[s] = j
      /\ \A t \in Stations \ {s} : job'[t] = job[t]
  BY DEF TransferTypes
<1>6. /\ part' \in [Stations -> Seq(Nat) \cup {None}]
      /\ \A t \in Stations \ {s} : part'[t] = part[t]
      /\ part'[s] # None => /\ part'[s] = j.data /\ place = "payload"
                            /\ j.name = "file" /\ j.size > 0
  <2>1. part \in [Stations -> Seq(Nat) \cup {None}] /\ <<>> \in Seq(Nat) /\ part[s] = None
    BY DEF TransferTypes, PartInv
  <2> QED
    BY <2>1, NoneIs
<1>7. TransferTypes'
  <2>1. at' \in [Stations -> Reading \cup Writing \cup Ended]
    BY <1>4 DEF GoTo, TransferTypes
  <2>2. given' \in Offers' \cup {None} /\ conn'.push \in BOOLEAN /\ link' \in {"up", "silent", "cut"}
    BY DEF TransferTypes, Offers, Contents
  <2> QED
    BY <1>5, <1>6, <2>1, <2>2 DEF TransferTypes, Contents, Offers
<1>8. PartInv'
  <2>1. ASSUME NEW t \in Stations
        PROVE  /\ Len(job'[t].data) <= job'[t].size
               /\ part'[t] # None => /\ at'[t] = "payload" /\ job'[t].name = "file"
                                     /\ job'[t].size > 0 /\ part'[t] = job'[t].data
    <3>1. CASE t = s
      BY <1>2, <1>5, <1>6, <3>1
    <3>2. CASE t # s
      <4>1. at'[t] = at[t] /\ job'[t] = job[t] /\ part'[t] = part[t]
        BY <1>2, <1>5, <1>6, <3>2
      <4> QED
        BY <4>1 DEF PartInv
    <3> QED
      BY <3>1, <3>2
  <2> QED
    BY <2>1 DEF PartInv
<1>9. RoleInv'
  BY <1>3, RolesStay
<1> QED
  BY <1>7, <1>8, <1>9

LEMMA OfferIs ==
    ASSUME NEW p \in Offers
    PROVE  /\ p \in Gifts /\ p # None /\ p.name \in Names /\ p.data \in Seq(Nat)
           /\ Len(p.data) \in Nat
           /\ p.name \in Kinds => p = [name |-> p.name, data |-> p.data]
                                  /\ p.data \in Contents \ {<<>>}
           /\ p.data # <<>> => p.name \in Kinds
<1>1. Contents \subseteq Seq(Nat) /\ <<>> \in Seq(Nat)
  BY CopiesAssumption DEF Contents
<1>2. CASE p = NoData
  <2>1. p.name = NoData.name /\ p.data = <<>> /\ NoData.name \notin Kinds
    BY <1>2 DEF NoData, Kinds
  <2>2. NoData \in Gifts
    BY <1>1 DEF Gifts, NoData
  <2>3. Len(p.data) = 0
    BY <2>1
  <2> QED
    BY <1>1, <1>2, <2>1, <2>2, <2>3, NoneIs DEF Names
<1>3. CASE p \in [name : Kinds, data : Contents \ {<<>>}]
  <2>1. p \in Gifts
    BY <1>1, <1>3 DEF Gifts
  <2> QED
    BY <1>1, <1>3, <2>1, NoneIs DEF Names
<1> QED
  BY <1>2, <1>3 DEF Offers

LEMMA AnswerKeeps ==
    ASSUME ManagerTypes, StoreInv, TransferInv, NEW s \in Stations, Answer(s)
    PROVE  TransferInv'
<1>0. TransferTypes /\ PartInv /\ RoleInv /\ StreamInv /\ conn.push \in BOOLEAN
  BY DEF TransferInv, TransferTypes
<1>1. at[s] \in {"answerPush", "answerPull"} /\ at[s] \notin Ended \cup {"payload"}
  BY DEF Answer, Ended
<1>2. /\ Src \in Stations /\ Dst \in Stations /\ Src # Dst /\ Stations = {Src, Dst}
      /\ Other(Src) = Dst /\ Other(Dst) = Src /\ Live
  BY <1>0, <1>1, EndsAre
<1> DEFINE x == <<Header(TRUE)>>
<1>3. x \in Seq(Items) /\ Len(x) = 1 /\ x[1] = Header(TRUE)
  BY HeaderIs
<1>4. /\ Write(s, x) /\ conn' = conn /\ part' = part /\ disk' = disk /\ link' = link
      /\ fault' = fault
  BY DEF Answer, mvars
<1> HIDE DEF x
<1>5. /\ wire'[Other(s)] = wire[Other(s)] \o x /\ wire'[s] = wire[s]
      /\ wire' \in [Stations -> Seq(Items)]
  BY <1>0, <1>3, <1>4, WireWritten
<1>6. CASE at[s] = "answerPush"
  <2>1. GoTo(s, "awaitInfo") /\ job' = job /\ given' = given
    BY <1>6 DEF Answer
  <2>2. s = Dst /\ conn.push
    BY <1>0, <1>6, SideOf
  <2>3. at'[s] = "awaitInfo" /\ \A t \in Stations \ {s} : at'[t] = at[t]
    BY <1>0, <2>1, AtMoved
  <2>4. TransferTypes' /\ PartInv' /\ RoleInv'
    <3>1. IF s = Src THEN "awaitInfo" \in SrcPlaces ELSE "awaitInfo" \in DstPlaces
      BY <1>2, <2>2 DEF DstPlaces
    <3>2. fault' \in BOOLEAN
      BY <1>0, <1>4 DEF TransferTypes
    <3> QED
      BY <1>0, <1>1, <1>4, <1>5, <2>1, <2>2, <3>1, <3>2, MoveKeeps
  <2>5. ASSUME NEW k \in Nat, Stream(k) PROVE Got(k)'
    <3>1. k = 1
      BY <1>6, <2>2, <2>5 DEF Stream, Got
    <3> QED
      BY <1>4, <2>2, <2>3, <3>1, SameEnds DEF Got
  <2>6. at'[Src] = at[Src] /\ job'[Src] = job[Src] /\ wire'[Dst] = wire[Dst]
    BY <1>2, <1>5, <2>1, <2>2, <2>3
  <2>7. StreamInv'
    BY <1>0, <1>1, <1>4, <2>1, <2>2, <2>5, <2>6, ReceiverMoves
  <2> QED
    BY <2>4, <2>7 DEF TransferInv
<1>7. CASE at[s] = "answerPull"
  <2> DEFINE p == Provide(store[s])
             j == [name |-> p.name, size |-> Len(p.data), data |-> p.data]
  <2>1. GoTo(s, "sendInfo") /\ job' = [job EXCEPT ![s] = j] /\ given' = p
    BY <1>7 DEF Answer
  <2>2. s = Src /\ ~conn.push
    BY <1>0, <1>7, SideOf
  <2>3. at'[s] = "sendInfo" /\ \A t \in Stations \ {s} : at'[t] = at[t]
    BY <1>0, <2>1, AtMoved
  <2>4. p \in Offers /\ p.name \in Names /\ p.data \in Seq(Nat) /\ Len(p.data) \in Nat
    BY ProvideIs, OfferIs
  <2> HIDE DEF p
  <2>5. j \in Jobs /\ Len(j.data) <= j.size
    BY <2>4 DEF Jobs
  <2>6. TransferTypes' /\ PartInv' /\ RoleInv'
    <3>1. IF s = Src THEN "sendInfo" \in SrcPlaces ELSE "sendInfo" \in DstPlaces
      BY <2>2 DEF SrcPlaces
    <3>2. wire'[Src] = wire[Src]
      BY <1>5, <2>2
    <3>3. part' = [part EXCEPT ![s] = None]
      BY <1>0, <1>1, <1>4 DEF TransferTypes, PartInv
    <3>4. \A i \in 1..Len(wire'[Src]) : wire'[Src][i] = Header(FALSE)
      BY <1>0, <1>2, <2>2, <3>2 DEF RoleInv
    <3>5. given' \in Offers \cup {None}
      BY <2>1, <2>4
    <3> HIDE DEF j
    <3> QED
      BY <1>0, <1>1, <1>4, <1>5, <2>1, <2>5, <3>1, <3>3, <3>4, <3>5, JobKeeps
  <2>7. Dst' = Dst /\ Src' = Src
    BY <1>4, SameEnds
  <2>8. ASSUME at'[Dst] \notin Ended PROVE Stream(0)'
    <3>1. at[Dst] = at'[Dst] /\ wire'[Dst] = wire[Dst] \o x /\ wire[Dst] \in Seq(Items)
      BY <1>0, <1>2, <1>5, <2>2, <2>3 DEF TransferTypes
    <3>2. PICK k \in Nat : Stream(k)
      BY <1>0, <1>2, <2>8, <3>1 DEF StreamInv
    <3>3. k + Len(wire[Dst]) = 0
      BY <1>7, <2>2, <3>2 DEF Stream, Written
    <3>4. Len(wire[Dst]) \in Nat
      BY <3>1
    <3>5. k = 0 /\ Len(wire[Dst]) = 0
      BY <3>3, <3>4
    <3>6. at'[Dst] \notin {"answerPush", "awaitInfo", "payload"}
      BY <3>1, <3>2, <3>5 DEF Stream, Got
    <3>7. Got(0)'
      BY <2>7, <3>6 DEF Got
    <3>8. Written(1)'
      <4>1. at'[Src'] = "sendInfo" /\ given' \in Offers' /\ job'[Src'] = Whole'
        BY <1>0, <2>1, <2>2, <2>3, <2>4, <2>7 DEF Whole, Offers, Contents, TransferTypes
      <4> QED
        BY <4>1 DEF Written
    <3>9. Len(wire'[Dst]) = 1 /\ wire'[Dst][1] = Header(TRUE)
      <4>1. Other(s) = Dst
        BY <1>2, <2>2
      <4>2. /\ Len(wire'[Other(s)]) = Len(wire[Other(s)]) + Len(x)
            /\ \A i \in 1..Len(x) : wire'[Other(s)][Len(wire[Other(s)]) + i] = x[i]
        BY <1>0, <1>3, <1>4, WireWritten
      <4>3. /\ Len(wire'[Dst]) = Len(wire[Dst]) + Len(x)
            /\ \A i \in 1..Len(x) : wire'[Dst][Len(wire[Dst]) + i] = x[i]
        BY <4>1, <4>2
      <4>4. Len(wire[Dst]) = 0
        BY <3>5
      <4>5. 1 \in 1..Len(x) /\ 0 + 1 = 1
        BY <1>3
      <4>6. wire'[Dst][0 + 1] = x[1]
        BY <4>3, <4>4, <4>5
      <4> QED
        BY <1>3, <4>3, <4>4, <4>5, <4>6
    <3>10. \A i \in 1..Len(wire'[Dst]) : wire'[Dst][i] = Item(0 + i)'
      BY <3>9 DEF Item, Header
    <3>11. Written(0 + Len(wire[Dst]))'
      <4>1. (0 + Len(wire[Dst]))' = 1
        BY <2>7, <3>9
      <4> QED
        BY <3>8, <4>1 DEF Written
    <3> QED
      BY <2>7, <3>7, <3>10, <3>11 DEF Stream
  <2>9. StreamInv'
    BY <2>7, <2>8 DEF StreamInv
  <2> QED
    BY <2>6, <2>9 DEF TransferInv
<1> QED
  BY <1>1, <1>6, <1>7

-----------------------------------------------------------------------------
(* The transfer: what is sent. *)

LEMMA SendInfoKeeps ==
    ASSUME TransferInv, NEW s \in Stations, SendInfo(s)
    PROVE  TransferInv'
<1>0. TransferTypes /\ PartInv /\ RoleInv /\ StreamInv /\ conn.push \in BOOLEAN
  BY DEF TransferInv, TransferTypes
<1>1. at[s] = "sendInfo" /\ at[s] \notin Ended \cup {"payload"} /\ s = Src
  <2>1. at[s] = "sendInfo"
    BY DEF SendInfo
  <2> QED
    BY <1>0, <2>1, SideOf DEF Ended
<1>2. /\ Src \in Stations /\ Dst \in Stations /\ Src # Dst /\ Live
  BY <1>0, <1>1, EndsAre
<1> DEFINE x == <<Info(job[s].size, job[s].name)>>
           place == IF job[s].size = 0 THEN "ok" ELSE "sendBlocks"
<1>3. x \in Seq(Items) /\ Len(x) = 1 /\ x[1] = Info(job[s].size, job[s].name)
  <2>1. job[s] \in Jobs
    BY <1>0 DEF TransferTypes
  <2>2. Info(job[s].size, job[s].name) \in Items
    BY <2>1 DEF Jobs, Info, Items
  <2> QED
    BY <2>2
<1>4. /\ Write(s, x) /\ GoTo(s, place)
      /\ conn' = conn /\ job' = job /\ part' = part /\ disk' = disk /\ link' = link
      /\ given' = given /\ fault' = fault
  BY DEF SendInfo, mvars
<1> HIDE DEF x
<1>5. wire'[s] = wire[s] /\ wire' \in [Stations -> Seq(Items)]
  BY <1>0, <1>3, <1>4, WireWritten
<1>6. at'[s] = place /\ \A t \in Stations \ {s} : at'[t] = at[t]
  BY <1>0, <1>4, AtMoved
<1>7. TransferTypes' /\ PartInv' /\ RoleInv'
  <2>1. IF s = Src THEN place \in SrcPlaces ELSE place \in DstPlaces
    BY <1>1 DEF SrcPlaces, Ended
  <2>2. fault' \in BOOLEAN
    BY <1>0, <1>4 DEF TransferTypes
  <2>3. ASSUME ~conn.push, NEW i \in 1..Len(wire'[Src]) PROVE wire'[Src][i] = Header(FALSE)
    BY <1>0, <1>1, <1>2, <1>5, <2>3 DEF RoleInv
  <2> HIDE DEF place
  <2> QED
    BY <1>0, <1>1, <1>4, <1>5, <2>1, <2>2, <2>3, MoveKeeps
<1>8. ASSUME NEW k \in Nat, Stream(k)
      PROVE  /\ \A i \in 1..Len(x) : x[i] = Item(k + Len(wire[Dst]) + i)
             /\ \E n : n = k + Len(wire[Dst]) + Len(x) /\ Written(n)'
  <2>1. k + Len(wire[Dst]) = 1 /\ job[s] = Whole /\ given \in Offers
    BY <1>1, <1>8 DEF Stream, Written
  <2>2. x[1] = Item(2)
    BY <1>3, <2>1 DEF Item, Whole
  <2>3. given.data \in Seq(Nat) /\ Len(given.data) \in Nat /\ given' \in Offers'
    BY <1>4, <2>1, OfferIs DEF Offers, Contents
  <2>4. Written(2)'
    <3>1. CASE place = "ok"
      BY <1>1, <1>4, <1>6, <2>3, <3>1, SameEnds DEF Written
    <3>2. CASE place = "sendBlocks"
      <4>1. job[s].size # 0 /\ job[s].size = Len(given.data) /\ job[s].data = given.data
        BY <2>1, <3>2 DEF Whole
      <4>2. (2 - 2) * Block = 0
        BY BlockIs
      <4>3. given.data = SubSeq(given.data, (2 - 2) * Block + 1, Len(given.data))
        BY <2>3, <4>2, SubSeqFull
      <4>4. (2 - 2) * Block < Len(given.data)
        BY <2>3, <4>1, <4>2
      <4>5. at'[Src'] = "sendBlocks" /\ job'[Src'].data = given.data
        BY <1>1, <1>4, <1>6, <3>2, <4>1, SameEnds
      <4> QED
        BY <1>4, <2>3, <4>3, <4>4, <4>5 DEF Written, Left
    <3> QED
      BY <3>1, <3>2
  <2>5. PICK n : n = k + Len(wire[Dst]) + Len(x)
    OBVIOUS
  <2>6. n = 2
    BY <1>3, <2>1, <2>5
  <2>7. \A i \in 1..Len(x) : x[i] = Item(k + Len(wire[Dst]) + i)
    BY <1>3, <2>1, <2>2
  <2> QED
    BY <2>4, <2>5, <2>6, <2>7
<1>9. at'[Dst] = at[Dst] /\ job'[Dst] = job[Dst]
  BY <1>1, <1>2, <1>4, <1>6
<1>10. StreamInv'
  BY <1>0, <1>1, <1>3, <1>4, <1>8, <1>9, SourceWrites
<1> QED
  BY <1>7, <1>10 DEF TransferInv

LEMMA BlocksAre ==
    ASSUME NEW chunk \in Seq(Nat)
    PROVE  /\ Blocks(chunk) \in Seq(Items)
           /\ Len(Blocks(chunk)) = (Len(chunk) + Block - 1) \div Block
           /\ Len(Blocks(chunk)) \in Nat
           /\ \A b \in 1..Len(Blocks(chunk)) :
                Blocks(chunk)[b] = [tag |-> "block",
                         units |-> [i \in 1..Block |-> IF (b - 1) * Block + i <= Len(chunk)
                                                       THEN chunk[(b - 1) * Block + i] ELSE 0]]
<1> DEFINE bs == Blocks(chunk)
           q == (Len(chunk) + Block - 1) \div Block
<1>1. Len(chunk) \in Nat /\ q \in Nat
  <2>1. Len(chunk) \in Nat
    OBVIOUS
  <2>2. Len(chunk) + Block - 1 \in Nat
    BY <2>1, BlockIs
  <2> QED
    BY <2>1, <2>2, InBlocks
<1>2. ASSUME NEW b \in 1..q, NEW i \in 1..Block, NEW u, u = (b - 1) * Block + i
      PROVE  (IF u <= Len(chunk) THEN chunk[u] ELSE 0) \in Nat
  <2>1. (b - 1) * Block \in Nat
    <3>1. b - 1 \in Nat
      BY <1>1
    <3> QED
      BY <3>1, Times
  <2>2. u \in Nat \ {0}
    BY <1>2, <2>1, BlockIs
  <2> QED
    BY <1>1, <2>2
<1> DEFINE B(b) == [tag |-> "block",
                    units |-> [i \in 1..Block |-> IF (b - 1) * Block + i <= Len(chunk)
                                                  THEN chunk[(b - 1) * Block + i] ELSE 0]]
<1>3. ASSUME NEW b \in 1..q PROVE B(b) \in Items
  <2>1. [i \in 1..Block |-> IF (b - 1) * Block + i <= Len(chunk)
                            THEN chunk[(b - 1) * Block + i] ELSE 0] \in [1..Block -> Nat]
    BY <1>2
  <2> QED
    BY <2>1 DEF Items
<1>4. bs = [b \in 1..q |-> B(b)]
  BY DEF Blocks
<1> HIDE DEF q, B, bs
<1>5. bs \in [1..q -> Items]
  BY <1>3, <1>4
<1>6. bs \in Seq(Items) /\ Len(bs) = q
  BY <1>1, <1>5
<1> QED
  BY <1>1, <1>4, <1>6 DEF q, B, bs

\* A unit of block b of those that follow the first k ones.
LEMMA UnitPlace ==
    ASSUME NEW k \in Int, NEW b \in Int, NEW i \in Int
    PROVE  (k + b - 1) * Block + i = k * Block + ((b - 1) * Block + i)
<1>1. (k + (b - 1)) * Block = k * Block + (b - 1) * Block
  BY TimesSum
<1>2. k + b - 1 = k + (b - 1)
  OBVIOUS
<1>3. k * Block \in Int /\ (b - 1) * Block \in Int
  BY BlockIs
<1> DEFINE p == k * Block
           r == (b - 1) * Block
<1> HIDE DEF p, r
<1>4. (k + b - 1) * Block = p + r /\ p \in Int /\ r \in Int
  BY <1>1, <1>2, <1>3 DEF p, r
<1>5. p + r + i = p + (r + i)
  BY <1>4
<1> QED
  BY <1>4, <1>5 DEF p, r

\* What is left to send.
LEMMA RestIs ==
    ASSUME given \in Offers, NEW n \in Nat, NEW data, Left(n, data)
    PROVE  /\ (n - 2) * Block \in Nat /\ Len(given.data) \in Nat
           /\ data \in Seq(Nat) /\ Len(data) \in Nat \ {0}
           /\ Len(data) = Len(given.data) - (n - 2) * Block
           /\ \A i \in 1..Len(data) : data[i] = given.data[(n - 2) * Block + i]
<1> DEFINE w == given.data
<1>1. w \in Seq(Nat) /\ Len(w) \in Nat
  BY OfferIs
<1>2. (n - 2) * Block \in Nat
  <2>1. n - 2 \in Nat
    BY DEF Left
  <2> QED
    BY <2>1, Times
<1>3. PICK o \in Nat : o = (n - 2) * Block
  BY <1>2
<1>4. o < Len(w) /\ data = SubSeq(w, o + 1, Len(w))
  BY <1>3 DEF Left
<1> HIDE DEF w
<1>5. o \in 0..Len(w)
  BY <1>1, <1>4
<1>6. /\ SubSeq(w, o + 1, Len(w)) \in Seq(Nat)
      /\ Len(SubSeq(w, o + 1, Len(w))) = Len(w) - o
      /\ \A i \in 1..Len(w) - o : SubSeq(w, o + 1, Len(w))[i] = w[o + i]
  BY <1>1, <1>5, Dropped
<1>7. Len(w) - o \in Nat \ {0}
  BY <1>1, <1>4
<1>8. /\ data \in Seq(Nat) /\ Len(data) = Len(w) - o
      /\ \A i \in 1..Len(w) - o : data[i] = w[o + i]
  BY <1>4, <1>6
<1> QED
  BY <1>1, <1>2, <1>3, <1>7, <1>8 DEF w

LEMMA ChunkIs ==
    ASSUME NEW data \in Seq(Nat), Len(data) > 0
    PROVE  /\ Least(Stride, Len(data)) \in 1..Len(data)
           /\ SubSeq(data, 1, Least(Stride, Len(data))) \in Seq(Nat)
           /\ Len(SubSeq(data, 1, Least(Stride, Len(data)))) = Least(Stride, Len(data))
           /\ \A i \in 1..Least(Stride, Len(data)) :
                SubSeq(data, 1, Least(Stride, Len(data)))[i] = data[i]
<1> DEFINE m == Least(Stride, Len(data))
<1>1. m \in 1..Len(data)
  <2>1. Len(data) \in Nat /\ Stride \in Nat \ {0}
    BY StrideAssumption
  <2> QED
    BY <2>1 DEF Least
<1> HIDE DEF m
<1>2. m \in 0..Len(data)
  BY <1>1
<1>3. /\ SubSeq(data, 1, m) \in Seq(Nat) /\ Len(SubSeq(data, 1, m)) = m
      /\ \A i \in 1..m : SubSeq(data, 1, m)[i] = data[i]
  BY <1>2, Kept
<1> QED
  BY <1>1, <1>3 DEF m

\* What a chunk leaves to send is what follows it.
LEMMA RestOfRest ==
    ASSUME NEW w \in Seq(Nat), NEW o \in 0..Len(w), NEW m \in 0..Len(w), o + m < Len(w)
    PROVE  SubSeq(SubSeq(w, o + 1, Len(w)), m + 1, Len(w) - o) = SubSeq(w, o + m + 1, Len(w))
<1>1. Len(w) \in Nat
  OBVIOUS
<1>2. /\ o + 1 \in 1..Len(w) /\ Len(w) \in 1..Len(w)
      /\ m + 1 \in 1..Len(w) - (o + 1) + 1 /\ Len(w) - o \in 1..Len(w) - (o + 1) + 1
  BY <1>1
<1>3. SubSeq(SubSeq(w, o + 1, Len(w)), m + 1, Len(w) - o)
        = SubSeq(w, o + 1 + (m + 1) - 1, o + 1 + (Len(w) - o) - 1)
  BY <1>2, SubSeqOfSubSeq
<1>4. o + 1 + (m + 1) - 1 = o + m + 1 /\ o + 1 + (Len(w) - o) - 1 = Len(w)
  BY <1>1
<1> QED
  BY <1>3, <1>4

\* The next chunk of the source is the next items of the stream, and leaves the
\* rest to send.
LEMMA ChunkIsNext ==
    ASSUME given \in Offers, NEW n \in Nat, NEW data \in Seq(Nat), Left(n, data)
    PROVE  LET m == Least(Stride, Len(data))
               bs == Blocks(SubSeq(data, 1, m))
           IN  /\ bs \in Seq(Items) /\ Len(bs) \in Nat \ {0}
               /\ \A b \in 1..Len(bs) : bs[b] = Item(n + b)
               /\ m # Len(data) => Left(n + Len(bs), SubSeq(data, m + 1, Len(data)))
<1> DEFINE o == (n - 2) * Block
           N == Len(given.data)
           m == Least(Stride, Len(data))
           bs == Blocks(SubSeq(data, 1, m))
<1>0. /\ n >= 2 /\ o < N /\ data = SubSeq(given.data, o + 1, N)
      /\ o = (n - 2) * Block /\ N = Len(given.data) /\ m = Least(Stride, Len(data))
      /\ bs = Blocks(SubSeq(data, 1, m))
  BY DEF Left
<1> HIDE DEF o, N, m, bs
<1>1. given.data \in Seq(Nat) /\ N \in Nat
  BY <1>0, OfferIs
<1>2. o \in Nat
  <2>1. n - 2 \in Nat
    BY <1>0
  <2> QED
    BY <1>0, <2>1, Times
<1>4. /\ data \in Seq(Nat) /\ Len(data) = N - o
      /\ \A i \in 1..Len(data) : data[i] = given.data[o + i]
  <2>1. /\ data \in Seq(Nat) /\ Len(data) = Len(given.data) - (n - 2) * Block
        /\ \A i \in 1..Len(data) : data[i] = given.data[(n - 2) * Block + i]
    BY RestIs
  <2> QED
    BY <2>1 DEF o, N
<1>5. Stride \in Nat \ {0}
  BY StrideAssumption
<1>6. m \in Nat \ {0} /\ m <= Len(data) /\ m <= Stride /\ (m # Len(data) => m = Stride)
  <2>1. Len(data) \in Nat
    OBVIOUS
  <2> QED
    <3>1. Len(data) > 0
      BY <1>0, <1>1, <1>2, <1>4
    <3>2. m = IF Stride < Len(data) THEN Stride ELSE Len(data)
      BY <1>0 DEF Least
    <3> QED
      BY <1>5, <2>1, <3>1, <3>2
<1>7. PICK chunk : chunk = SubSeq(data, 1, m)
  OBVIOUS
<1>8. chunk \in Seq(Nat) /\ Len(chunk) = m /\ \A i \in 1..m : chunk[i] = data[i]
  <2>1. Len(data) > 0
    BY <1>0, <1>1, <1>2, <1>4
  <2> QED
    BY <1>0, <1>7, <2>1, ChunkIs
<1>9. PICK q \in Nat : q = Len(bs)
  BY <1>0, <1>7, <1>8, BlocksAre
<1>10. /\ bs \in Seq(Items) /\ q = (m + Block - 1) \div Block
       /\ \A b \in 1..q :
            bs[b] = [tag |-> "block",
                     units |-> [i \in 1..Block |-> IF (b - 1) * Block + i <= m
                                                   THEN chunk[(b - 1) * Block + i] ELSE 0]]
  <2>1. bs = Blocks(chunk)
    BY <1>0, <1>7
  <2>2. /\ bs \in Seq(Items) /\ Len(bs) = (Len(chunk) + Block - 1) \div Block
        /\ \A b \in 1..Len(bs) :
             bs[b] = [tag |-> "block",
                      units |-> [i \in 1..Block |-> IF (b - 1) * Block + i <= Len(chunk)
                                                    THEN chunk[(b - 1) * Block + i] ELSE 0]]
    <3>1. chunk \in Seq(Nat)
      BY <1>8
    <3> QED
      BY <2>1, <3>1, BlocksAre
  <2> QED
    BY <1>8, <1>9, <2>2
<1>11. q \in Nat \ {0} /\ m <= q * Block /\ q * Block < m + Block
  <2>1. m \in Nat /\ q \in Int /\ m > 0
    BY <1>6
  <2> QED
    BY <1>10, <2>1, CountIs
<1>12. ASSUME m # Len(data) PROVE q * Block = m
  <2>1. PICK r \in Nat \ {0} : Stride = r * Block
    BY StrideIs
  <2>2. m = r * Block
    BY <1>6, <1>12, <2>1
  <2>3. q = r
    BY <1>11, <2>2, WholeCount
  <2> QED
    BY <2>2, <2>3
<1>13. ASSUME m # Len(data) PROVE o + m = (n + q - 2) * Block /\ o + m < N
  <2>1. (n - 2 + q) * Block = (n - 2) * Block + q * Block
    BY <1>11, TimesSum
  <2>2. n - 2 + q = n + q - 2
    BY <1>11
  <2>3. o + m < N
    <3>1. m < Len(data) /\ Len(data) = N - o /\ Len(data) \in Nat
      BY <1>4, <1>6, <1>13
    <3> QED
      BY <1>1, <1>2, <1>6, <3>1
  <2> QED
    BY <1>0, <1>12, <1>13, <2>1, <2>2, <2>3
<1>15. ASSUME m # Len(data) PROVE Left(n + q, SubSeq(data, m + 1, Len(data)))
  <2> DEFINE w == given.data
  <2>1. o \in 0..N /\ m \in 0..N /\ o + m < N
    BY <1>1, <1>2, <1>6, <1>13, <1>15
  <2>2. w \in Seq(Nat) /\ o \in 0..Len(w) /\ m \in 0..Len(w) /\ o + m < Len(w)
    BY <1>0, <1>1, <2>1
  <2> HIDE DEF w
  <2>3. SubSeq(SubSeq(w, o + 1, Len(w)), m + 1, Len(w) - o) = SubSeq(w, o + m + 1, Len(w))
    BY <2>2, RestOfRest
  <2>4. data = SubSeq(w, o + 1, Len(w)) /\ Len(data) = Len(w) - o /\ Len(w) = N
    BY <1>0, <1>4 DEF w
  <2>5. SubSeq(data, m + 1, Len(data)) = SubSeq(w, o + m + 1, Len(w))
    BY <2>3, <2>4
  <2>6. o + m = (n + q - 2) * Block /\ o + m < Len(w)
    BY <1>13, <1>15, <2>4
  <2>7. n + q >= 2
    BY <1>0, <1>11
  <2> DEFINE r == SubSeq(data, m + 1, Len(data))
             a == (n + q - 2) * Block
  <2>8. n + q >= 2 /\ a < Len(given.data) /\ r = SubSeq(given.data, a + 1, Len(given.data))
    BY <2>5, <2>6, <2>7 DEF w
  <2> HIDE DEF r
  <2>9. Left(n + q, r)
    BY <2>8 DEF Left
  <2> QED
    BY <2>9 DEF r
<1>14. ASSUME NEW b \in 1..q PROVE bs[b] = Item(n + b)
  <2>1. ASSUME NEW i \in 1..Block, NEW u, u = (b - 1) * Block + i
        PROVE  Unit(o + u) = IF u <= m THEN chunk[u] ELSE 0
    <3>1. b \in Int /\ i \in Int /\ i <= Block /\ i >= 1
      BY <1>11, BlockIs
    <3>2. (b - 1) * Block \in Nat
      <4>1. b - 1 \in Nat
        BY <1>11
      <4> QED
        BY <4>1, Times
    <3>3. u \in Nat \ {0}
      BY <2>1, <3>1, <3>2
    <3>4. u <= q * Block
      <4>1. b * Block <= q * Block
        BY <1>11, TimesLess
      <4>2. (b - 1 + 1) * Block = (b - 1) * Block + 1 * Block
        BY <3>1, TimesSum
      <4>3. b - 1 + 1 = b /\ 1 * Block = Block
        BY <3>1, BlockIs
      <4>4. b * Block \in Nat /\ q * Block \in Nat
        <5>1. b \in Nat
          BY <1>11
        <5> QED
          BY <1>11, <5>1, Times
      <4>5. b * Block = (b - 1) * Block + Block
        BY <4>2, <4>3
      <4> DEFINE p == (b - 1) * Block
                 pb == b * Block
                 pq == q * Block
      <4> HIDE DEF p, pb, pq
      <4>6. p \in Nat /\ pb \in Nat /\ pq \in Nat /\ pb = p + Block /\ pb <= pq /\ u = p + i
        BY <2>1, <3>2, <4>1, <4>4, <4>5 DEF p, pb, pq
      <4>7. u <= pq
        BY <3>1, <4>6, BlockIs
      <4> QED
        BY <4>7 DEF pq
    <3>5. u <= m => /\ o + u <= N /\ chunk[u] = given.data[o + u]
      <4>1. ASSUME u <= m PROVE u \in 1..m /\ u \in 1..Len(data)
        BY <1>4, <1>6, <3>3, <4>1
      <4>2. Len(data) = N - o
        BY <1>4
      <4>3. ASSUME u <= m PROVE o + u <= N
        BY <1>1, <1>2, <1>6, <3>3, <4>2, <4>3
      <4>4. ASSUME u <= m PROVE chunk[u] = given.data[o + u]
        BY <1>4, <1>8, <4>1, <4>4
      <4> QED
        BY <4>3, <4>4
    <3>6. u > m => ~(o + u <= N)
      <4>1. CASE m = Len(data)
        BY <1>1, <1>2, <1>4, <3>3, <4>1
      <4>2. CASE m # Len(data)
        BY <1>6, <1>12, <3>3, <3>4, <4>2
      <4> QED
        BY <4>1, <4>2
    <3>7. u <= m \/ u > m
      BY <1>6, <3>3
    <3>8. Unit(o + u) = IF o + u <= N THEN given.data[o + u] ELSE 0
      BY <1>0 DEF Unit
    <3> QED
      BY <1>6, <3>3, <3>5, <3>6, <3>7, <3>8
  <2>2. ASSUME NEW i \in 1..Block
        PROVE  Unit((n + b - 2 - 1) * Block + i)
                 = IF (b - 1) * Block + i <= m THEN chunk[(b - 1) * Block + i] ELSE 0
    <3>1. b \in Int /\ i \in Int /\ n - 2 \in Int
      BY <1>11, BlockIs
    <3>2. (n - 2 + b - 1) * Block + i = (n - 2) * Block + ((b - 1) * Block + i)
      BY <3>1, UnitPlace
    <3>3. n - 2 + b - 1 = n + b - 2 - 1
      BY <3>1
    <3>4. PICK u : u = (b - 1) * Block + i
      OBVIOUS
    <3>5. (n + b - 2 - 1) * Block + i = o + u
      BY <1>0, <3>2, <3>3, <3>4
    <3> QED
      BY <2>1, <3>4, <3>5
  <2>3. Item(n + b) = BlockItem(n + b - 2)
    <3>1. n + b # 1 /\ n + b # 2
      BY <1>0, <1>11
    <3> QED
      BY <3>1 DEF Item
  <2>4. BlockItem(n + b - 2) = [tag |-> "block",
          units |-> [i \in 1..Block |-> Unit((n + b - 2 - 1) * Block + i)]]
    BY DEF BlockItem
  <2>5. [i \in 1..Block |-> Unit((n + b - 2 - 1) * Block + i)]
          = [i \in 1..Block |-> IF (b - 1) * Block + i <= m
                                THEN chunk[(b - 1) * Block + i] ELSE 0]
    BY <2>2
  <2> QED
    BY <1>10, <2>3, <2>4, <2>5
<1> QED
  BY <1>9, <1>10, <1>11, <1>14, <1>15 DEF m, bs

LEMMA ChunkTypes ==
    ASSUME NEW data \in Seq(Nat)
    PROVE  LET n == Least(Stride, Len(data))
           IN  /\ SubSeq(data, 1, n) \in Seq(Nat)
               /\ SubSeq(data, n + 1, Len(data)) \in Seq(Nat)
               /\ Len(SubSeq(data, n + 1, Len(data))) <= Len(data)
<1> DEFINE n == Least(Stride, Len(data))
<1>1. n \in 0..Len(data)
  <2>1. Len(data) \in Nat /\ Stride \in Nat \ {0}
    BY StrideAssumption
  <2> QED
    BY <2>1 DEF Least
<1> HIDE DEF n
<1>2. SubSeq(data, 1, n) \in Seq(Nat)
  BY <1>1, Kept
<1> DEFINE v == SubSeq(data, n + 1, Len(data))
<1>3. v \in Seq(Nat) /\ Len(v) = Len(data) - n
  BY <1>1, Dropped
<1>4. Len(v) <= Len(data)
  <2>1. Len(data) \in Nat
    OBVIOUS
  <2> QED
    BY <1>1, <1>3, <2>1
<1> QED
  BY <1>2, <1>3, <1>4 DEF n

LEMMA SendChunkKeeps ==
    ASSUME TransferInv, NEW s \in Stations, SendChunk(s)
    PROVE  TransferInv'
<1>0. TransferTypes /\ PartInv /\ RoleInv /\ StreamInv /\ conn.push \in BOOLEAN
  BY DEF TransferInv, TransferTypes
<1>1. at[s] = "sendBlocks" /\ at[s] \notin Ended \cup {"payload"} /\ s = Src
  <2>1. at[s] = "sendBlocks"
    BY DEF SendChunk
  <2> QED
    BY <1>0, <2>1, SideOf DEF Ended
<1>2. /\ Src \in Stations /\ Dst \in Stations /\ Src # Dst /\ Live
  BY <1>0, <1>1, EndsAre
<1> DEFINE data == job[s].data
           m == Least(Stride, Len(data))
           x == Blocks(SubSeq(data, 1, m))
           rest == SubSeq(data, m + 1, Len(data))
           j == [job[s] EXCEPT !.data = rest]
           place == IF m = Len(data) THEN "ok" ELSE "sendBlocks"
<1>3. /\ job[s] \in Jobs /\ data \in Seq(Nat) /\ Len(data) <= job[s].size
  BY <1>0 DEF TransferTypes, Jobs, PartInv
<1>4. SubSeq(data, 1, m) \in Seq(Nat) /\ rest \in Seq(Nat) /\ Len(rest) <= Len(data)
  <2> HIDE DEF data
  <2> QED
    BY <1>3, ChunkTypes
<1>5. x \in Seq(Items)
  BY <1>4, BlocksAre
<1>6. /\ Write(s, x) /\ GoTo(s, place)
      /\ conn' = conn /\ part' = part /\ disk' = disk /\ link' = link
      /\ given' = given /\ fault' = fault
      /\ job' = [job EXCEPT ![s].data = SubSeq(@, m + 1, Len(@))]
  BY DEF SendChunk, mvars
<1>7. job' = [job EXCEPT ![s] = j]
  BY <1>0, <1>6 DEF TransferTypes
<1>8. j \in Jobs /\ Len(j.data) <= j.size /\ j.data = rest
  <2>1. j \in Jobs /\ j.data = rest /\ j.size = job[s].size
    BY <1>3, <1>4 DEF Jobs
  <2>2. Len(rest) \in Nat /\ Len(data) \in Nat /\ job[s].size \in Nat
    BY <1>3, <1>4 DEF Jobs
  <2> HIDE DEF rest, data, j
  <2> QED
    BY <1>3, <1>4, <2>1, <2>2
<1> HIDE DEF x, j
<1>9. wire'[s] = wire[s] /\ wire' \in [Stations -> Seq(Items)]
  BY <1>0, <1>5, <1>6, WireWritten
<1>10. at'[s] = place /\ \A t \in Stations \ {s} : at'[t] = at[t]
  <2> HIDE DEF place
  <2> QED
    BY <1>0, <1>6, AtMoved
<1>11. TransferTypes' /\ PartInv' /\ RoleInv'
  <2>1. IF s = Src THEN place \in SrcPlaces ELSE place \in DstPlaces
    BY <1>1 DEF SrcPlaces, Ended
  <2>2. given' \in Offers \cup {None}
    BY <1>0, <1>6 DEF TransferTypes
  <2>3. ASSUME ~conn.push, NEW i \in 1..Len(wire'[Src]) PROVE wire'[Src][i] = Header(FALSE)
    BY <1>0, <1>1, <1>2, <1>9, <2>3 DEF RoleInv
  <2>4. part' = [part EXCEPT ![s] = None]
    BY <1>0, <1>1, <1>6 DEF TransferTypes, PartInv
  <2> HIDE DEF place
  <2> QED
    BY <1>0, <1>1, <1>6, <1>7, <1>8, <1>9, <2>1, <2>2, <2>3, <2>4, JobKeeps
<1>12. ASSUME NEW k \in Nat, Stream(k), at[Dst] \notin Ended
       PROVE  /\ \A i \in 1..Len(x) : x[i] = Item(k + Len(wire[Dst]) + i)
              /\ \E n : n = k + Len(wire[Dst]) + Len(x) /\ Written(n)'
  <2>1. Len(wire[Dst]) \in Nat
    BY <1>0, <1>2 DEF TransferTypes
  <2>2. PICK c \in Nat : c = k + Len(wire[Dst])
    BY <2>1
  <2>3. Left(c, data) /\ given \in Offers
    <3>1. Written(c)
      BY <1>12, <2>2 DEF Stream
    <3>2. Left(c, data)
      BY <1>1, <3>1 DEF Written
    <3>3. c >= 1
      BY <3>2 DEF Left
    <3> QED
      BY <3>1, <3>2, <3>3 DEF Written
  <2> HIDE DEF data, m, rest
  <2>4. data \in Seq(Nat) /\ m = Least(Stride, Len(data)) /\ x = Blocks(SubSeq(data, 1, m))
        /\ rest = SubSeq(data, m + 1, Len(data))
    BY <1>3 DEF m, x, rest
  <2>5. /\ Len(x) \in Nat \ {0} /\ \A b \in 1..Len(x) : x[b] = Item(c + b)
        /\ m # Len(data) => Left(c + Len(x), rest)
    BY <2>3, <2>4, ChunkIsNext
  <2>9. PICK n \in Nat : n = c + Len(x)
    BY <2>5
  <2>10. given' \in Offers' /\ given' = given
    BY <1>6, <2>3 DEF Offers, Contents
  <2>11. Written(n)'
    <3>1. CASE m = Len(data)
      <4>1. at'[Src'] = "ok"
        BY <1>1, <1>6, <1>10, <3>1, SameEnds
      <4> QED
        BY <2>10, <4>1 DEF Written
    <3>2. CASE m # Len(data)
      <4>1. at'[Src'] = "sendBlocks"
        BY <1>1, <1>6, <1>10, <3>2, SameEnds
      <4>2. Left(n, rest)
        BY <2>5, <2>9, <3>2
      <4>3. job'[Src'].data = rest
        BY <1>0, <1>1, <1>6, <1>7, <1>8, SameEnds DEF TransferTypes
      <4>4. Left(n, job[Src].data)'
        BY <2>10, <4>2, <4>3 DEF Left
      <4> QED
        BY <2>10, <4>1, <4>4 DEF Written
    <3> QED
      BY <3>1, <3>2
  <2>12. \A i \in 1..Len(x) : x[i] = Item(k + Len(wire[Dst]) + i)
    BY <2>2, <2>5
  <2> QED
    BY <2>2, <2>9, <2>11, <2>12
<1>13. at'[Dst] = at[Dst] /\ job'[Dst] = job[Dst]
  BY <1>0, <1>1, <1>2, <1>7, <1>10 DEF TransferTypes
<1>14. StreamInv'
  <2>1. CASE at[Dst] \in Ended
    BY <1>6, <1>13, <2>1, SameEnds DEF StreamInv
  <2>2. CASE at[Dst] \notin Ended
    BY <1>0, <1>1, <1>5, <1>6, <1>12, <1>13, <2>2, SourceWrites
  <2> QED
    BY <2>1, <2>2
<1> QED
  BY <1>11, <1>14 DEF TransferInv

-----------------------------------------------------------------------------
(* The transfer: what is received. *)

\* An end in the payload is the receiving one, and knows what it receives.
LEMMA InPayload ==
    ASSUME TransferInv, NEW s \in Stations, at[s] = "payload"
    PROVE  /\ s = Dst /\ at[s] \notin Ended /\ given \in Offers
           /\ \E k \in Nat : Stream(k)
           /\ \A k \in Nat : Stream(k) => k >= 2
           /\ job[s].name = given.name /\ job[s].size = Len(given.data)
           /\ job[s].data \in Seq(Nat) /\ Len(job[s].data) <= Len(given.data)
           /\ \A i \in 1..Len(job[s].data) : job[s].data[i] = given.data[i]
<1>0. TransferTypes /\ PartInv /\ RoleInv /\ StreamInv /\ conn.push \in BOOLEAN
  BY DEF TransferInv, TransferTypes
<1>1. s = Dst /\ at[s] \notin Ended
  BY <1>0, SideOf DEF Ended
<1>2. Live
  BY <1>1 DEF Live
<1>3. PICK k \in Nat : Stream(k)
  BY <1>0, <1>1, <1>2 DEF StreamInv
<1>4. ASSUME NEW j \in Nat, Stream(j) PROVE j >= 2
  BY <1>1, <1>4 DEF Stream, Got
<1>5. wire[Dst] \in Seq(Items)
  BY <1>0, <1>1 DEF TransferTypes
<1>6. k + Len(wire[Dst]) >= 1
  <2>1. Len(wire[Dst]) \in Nat /\ k >= 2
    BY <1>3, <1>4, <1>5
  <2> QED
    BY <2>1
<1>7. given \in Offers
  BY <1>3, <1>6 DEF Stream, Written
<1>8. job[s].data \in Seq(Nat)
  BY <1>0 DEF TransferTypes, Jobs
<1> QED
  BY <1>1, <1>3, <1>4, <1>7, <1>8 DEF Stream, Got

LEMMA ReadInfoKeeps ==
    ASSUME TransferInv, NEW s \in Stations, ReadInfo(s)
    PROVE  TransferInv'
<1>0. TransferTypes /\ PartInv /\ RoleInv /\ StreamInv /\ conn.push \in BOOLEAN
  BY DEF TransferInv, TransferTypes
<1>1. at[s] = "awaitInfo" /\ at[s] \notin Ended \cup {"payload"} /\ s = Dst
  <2>1. at[s] = "awaitInfo"
    BY DEF ReadInfo
  <2> QED
    BY <1>0, <2>1, SideOf DEF Ended
<1>2. Src \in Stations /\ Dst \in Stations /\ Src # Dst /\ Live /\ Other(Dst) = Src
  BY <1>0, <1>1, EndsAre
<1>3. Take(s, 1) /\ conn' = conn /\ disk' = disk /\ link' = link /\ given' = given /\ fault' = fault
  BY DEF ReadInfo, mvars
<1>4. /\ 1 \in 0..Len(wire[s]) /\ wire[s] \in Seq(Items)
      /\ wire'[Other(s)] = wire[Other(s)] /\ wire' \in [Stations -> Seq(Items)]
  BY <1>0, <1>3, WireTaken
<1>5. PICK k \in Nat : Stream(k)
  BY <1>0, <1>1, <1>2 DEF StreamInv
<1>6. k = 1
  BY <1>1, <1>5 DEF Stream, Got
<1>7. given \in Offers
  <2>1. k + Len(wire[Dst]) >= 1
    BY <1>1, <1>4, <1>6
  <2> QED
    BY <1>5, <2>1 DEF Stream, Written
<1> DEFINE j == [name |-> given.name, size |-> Len(given.data), data |-> <<>>]
<1>8. wire[s][1] = Info(Len(given.data), given.name)
  <2>1. \A i \in 1..Len(wire[Dst]) : wire[Dst][i] = Item(k + i)
    BY <1>5 DEF Stream
  <2>2. wire[s][1] = Item(2)
    BY <1>1, <1>4, <1>6, <2>1
  <2> QED
    BY <2>2 DEF Item
<1>9. /\ Head(wire[s]).tag = "info"
      /\ [name |-> Head(wire[s]).name, size |-> Head(wire[s]).size, data |-> <<>>] = j
  BY <1>4, <1>8, HeadIs DEF Info
<1>10. /\ job' = [job EXCEPT ![s] = j] /\ GoTo(s, "payload")
       /\ part' = [part EXCEPT ![s] = IF given.name = "file" /\ Len(given.data) > 0 THEN <<>> ELSE None]
  BY <1>8, <1>9 DEF ReadInfo, Info
<1>11. j \in Jobs /\ Len(j.data) = 0 /\ Len(given.data) \in Nat
  BY <1>7, OfferIs DEF Jobs
<1>12. TransferTypes' /\ PartInv' /\ RoleInv'
  <2>1. IF s = Src THEN "payload" \in SrcPlaces ELSE "payload" \in DstPlaces
    BY <1>1, <1>2 DEF DstPlaces
  <2>2. ASSUME ~conn.push, NEW i \in 1..Len(wire'[Src]) PROVE wire'[Src][i] = Header(FALSE)
    BY <1>0, <1>1, <1>2, <1>4, <2>2 DEF RoleInv
  <2>3. given' \in Offers \cup {None} /\ Len(j.data) <= j.size
    BY <1>3, <1>7, <1>11
  <2>4. \/ part' = [part EXCEPT ![s] = None]
        \/ part' = [part EXCEPT ![s] = <<>>] /\ j.data = <<>> /\ j.name = "file" /\ j.size > 0
    BY <1>10
  <2> HIDE DEF j
  <2> QED
    BY <1>0, <1>1, <1>3, <1>4, <1>10, <1>11, <2>1, <2>2, <2>3, <2>4, JobKeeps
<1>13. at'[s] = "payload" /\ \A t \in Stations \ {s} : at'[t] = at[t]
  BY <1>0, <1>10, AtMoved
<1>14. job'[s] = j /\ job'[Src] = job[Src]
  BY <1>0, <1>1, <1>2, <1>10 DEF TransferTypes
<1>15. Got(2)'
  <2>1. /\ at'[Dst'] = "payload" /\ job'[Dst'].name = given'.name
        /\ job'[Dst'].size = Len(given'.data) /\ Len(job'[Dst'].data) = 0
        /\ Len(given'.data) \in Nat
    BY <1>1, <1>3, <1>11, <1>13, <1>14, SameEnds
  <2>2. (2 - 2) * Block = 0
    BY BlockIs
  <2> QED
    BY <2>1, <2>2 DEF Got
<1>16. ASSUME NEW h \in Nat, Stream(h)
       PROVE  \E i : i = h + 1 /\ (at'[Dst] \notin Ended => Got(i)')
  <2>1. h = 1
    BY <1>1, <1>16 DEF Stream, Got
  <2> QED
    BY <1>15, <2>1
<1>17. StreamInv'
  <2>1. at'[Src] = at[Src] /\ at[Dst] \notin Ended /\ Take(Dst, 1)
    BY <1>1, <1>2, <1>3, <1>13
  <2> QED
    BY <1>0, <1>2, <1>3, <1>14, <1>16, <2>1, ReceiverReads
<1> QED
  BY <1>12, <1>17 DEF TransferInv

\* The blocks that follow the first k items hold what follows in the data.
LEMMA UnitsAre ==
    ASSUME given \in Offers, NEW k \in Nat, k >= 2, (k - 2) * Block <= Len(given.data),
           NEW blocks, NEW c \in Nat, Len(blocks) = c,
           \A b \in 1..c : blocks[b] = Item(k + b)
    PROVE  LET left == Len(given.data) - (k - 2) * Block
               got == UnitsOf(blocks, left)
           IN  /\ got \in Seq(Nat) /\ Len(got) = Least(left, c * Block)
               /\ \A i \in 1..Len(got) : got[i] = given.data[(k - 2) * Block + i]
<1> DEFINE o == (k - 2) * Block
           N == Len(given.data)
           left == N - o
           most == c * Block
           L == Least(left, most)
<1>1. given.data \in Seq(Nat) /\ N \in Nat
  BY OfferIs
<1>2. o \in Nat /\ o <= N /\ left \in Nat
  <2>1. k - 2 \in Nat
    OBVIOUS
  <2>2. o \in Nat
    BY <2>1, Times
  <2> QED
    BY <1>1, <2>2
<1>3. most \in Nat
  BY Times
<1>4. L \in Nat /\ L <= left /\ L <= most
  <2> HIDE DEF left, most
  <2> QED
    BY <1>2, <1>3 DEF Least
<1>5. ASSUME NEW i \in 1..L PROVE UnitAt(blocks, i) = given.data[o + i] /\ given.data[o + i] \in Nat
  <2>1. PICK a \in Nat : a = i - 1
    BY <1>4
  <2>2. PICK d \in Nat : d = a \div Block
    BY <2>1, InBlocks
  <2>3. PICK r \in 0..Block - 1 : r = a % Block
    BY <2>1, InBlocks
  <2>4. a = d * Block + r
    BY <2>1, <2>2, <2>3, InBlocks
  <2>5. i = d * Block + (r + 1) /\ r + 1 \in 1..Block
    <3>1. d * Block \in Nat
      BY Times
    <3> DEFINE p == d * Block
    <3> HIDE DEF p
    <3>2. p \in Nat /\ a = p + r /\ i = a + 1 /\ Block \in Nat
      BY <2>1, <2>4, <3>1, <1>4, BlockIs DEF p
    <3>3. i = p + (r + 1) /\ r + 1 \in 1..Block
      BY <3>2
    <3> QED
      BY <3>3 DEF p
  <2>6. d + 1 \in 1..c
    <3>1. CASE d >= c
      <4>1. c * Block <= d * Block
        BY <3>1, TimesLess
      <4>2. d * Block \in Nat /\ most \in Nat
        BY <1>3, Times
      <4> DEFINE p == d * Block
      <4> HIDE DEF p, most, L
      <4>3. most <= p /\ p \in Nat /\ most \in Nat /\ i = p + (r + 1) /\ i <= L /\ L <= most /\ L \in Nat
        BY <1>4, <2>5, <4>1, <4>2 DEF p, most
      <4> QED
        BY <4>3
    <3>2. CASE d < c
      BY <3>2
    <3> QED
      BY <3>1, <3>2
  <2>7. UnitAt(blocks, i) = blocks[d + 1].units[r + 1]
    BY <2>1, <2>2, <2>3 DEF UnitAt
  <2>8. blocks[d + 1] = Item(k + (d + 1))
    BY <2>6
  <2>9. Item(k + (d + 1)) = BlockItem(k + (d + 1) - 2)
    <3>1. k + (d + 1) # 1 /\ k + (d + 1) # 2
      OBVIOUS
    <3> QED
      BY <3>1 DEF Item
  <2>10. BlockItem(k + (d + 1) - 2).units[r + 1] = Unit((k + (d + 1) - 2 - 1) * Block + (r + 1))
    BY <2>5 DEF BlockItem
  <2>11. (k + (d + 1) - 2 - 1) * Block + (r + 1) = o + i
    <3>1. ((k - 2) + d) * Block = (k - 2) * Block + d * Block
      BY TimesSum
    <3>2. k + (d + 1) - 2 - 1 = (k - 2) + d
      OBVIOUS
    <3>3. d * Block \in Nat
      BY Times
    <3> DEFINE p == d * Block
    <3> HIDE DEF p, o
    <3>4. (k + (d + 1) - 2 - 1) * Block = o + p
      BY <3>1, <3>2 DEF o, p
    <3>5. i = p + (r + 1) /\ p \in Nat /\ o \in Nat
      BY <1>2, <2>5, <3>3 DEF p
    <3>6. o + p + (r + 1) = o + i
      BY <3>5
    <3> QED
      BY <3>4, <3>6
  <2>12. Unit(o + i) = given.data[o + i] /\ given.data[o + i] \in Nat
    <3> HIDE DEF o, N, L
    <3>1. o + i <= N /\ o + i >= 1
      BY <1>1, <1>2, <1>4 DEF left
    <3>2. o + i \in 1..N
      BY <1>1, <1>2, <1>4, <3>1
    <3> QED
      BY <1>1, <3>1, <3>2 DEF Unit, N
  <2> HIDE DEF o
  <2> QED
    BY <2>7, <2>8, <2>9, <2>10, <2>11, <2>12
<1>6. UnitsOf(blocks, left) = [i \in 1..L |-> UnitAt(blocks, i)]
  BY DEF UnitsOf
<1> HIDE DEF L, left, o, most
<1>7. /\ UnitsOf(blocks, left) \in Seq(Nat) /\ Len(UnitsOf(blocks, left)) = L
      /\ \A i \in 1..L : UnitsOf(blocks, left)[i] = given.data[o + i]
  BY <1>4, <1>5, <1>6
<1> QED
  BY <1>7 DEF L, left, o, most

LEMMA NextReadIs ==
    ASSUME NEW left \in Nat
    PROVE  NextRead(left) \in Nat
<1>1. Least(left, Stride) \in Nat
  BY StrideAssumption DEF Least
<1>2. Least(left, Stride) \div Block \in Nat
  BY <1>1, InBlocks
<1> QED
  BY <1>2 DEF NextRead

\* What a reader has: the first k items, and in them the beginning of the data.
ReadInBlocks(k, data) ==
    /\ k >= 2 /\ Len(data) = (k - 2) * Block /\ Len(data) <= Len(given.data)
    /\ \A i \in 1..Len(data) : data[i] = given.data[i]
Follow(k, blocks) == \A b \in 1..Len(blocks) : blocks[b] = Item(k + b)

\* With the n blocks it reads it has a longer beginning: of whole blocks, or all.
ReadOn(k, data, n, got) ==
    /\ got \in Seq(Nat) /\ Len(got) <= Len(given.data)
    /\ Len(got) = Len(data) + Least(Len(given.data) - Len(data), n * Block)
    /\ \/ Len(got) = (k + n - 2) * Block
       \/ Len(got) = Len(given.data) /\ Len(got) <= (k + n - 2) * Block
    /\ \A i \in 1..Len(got) : got[i] = given.data[i]

LEMMA ReadMore ==
    ASSUME given \in Offers, NEW k \in Nat, NEW data \in Seq(Nat), ReadInBlocks(k, data),
           NEW blocks, Len(blocks) \in Nat, Follow(k, blocks)
    PROVE  ReadOn(k, data, Len(blocks), data \o UnitsOf(blocks, Len(given.data) - Len(data)))
<1> DEFINE c == Len(blocks)
<1>0. /\ k >= 2 /\ Len(data) = (k - 2) * Block /\ Len(data) <= Len(given.data)
      /\ \A i \in 1..Len(data) : data[i] = given.data[i]
      /\ c \in Nat /\ \A b \in 1..c : blocks[b] = Item(k + b)
  BY DEF ReadInBlocks, Follow
<1> DEFINE N == Len(given.data)
           left == N - Len(data)
           u == UnitsOf(blocks, left)
           got == data \o u
           most == c * Block
<1>1. N \in Nat /\ Len(data) \in Nat /\ most \in Nat /\ Len(data) <= N
  BY <1>0, OfferIs, Times
<1>2. /\ u \in Seq(Nat) /\ Len(u) = Least(left, most)
      /\ \A i \in 1..Len(u) : u[i] = given.data[Len(data) + i]
  <2>1. left = N - (k - 2) * Block /\ (k - 2) * Block <= N
    BY <1>0
  <2>2. /\ UnitsOf(blocks, N - (k - 2) * Block) \in Seq(Nat)
        /\ Len(UnitsOf(blocks, N - (k - 2) * Block)) = Least(N - (k - 2) * Block, most)
        /\ \A i \in 1..Len(UnitsOf(blocks, N - (k - 2) * Block)) :
             UnitsOf(blocks, N - (k - 2) * Block)[i] = given.data[(k - 2) * Block + i]
    <3>1. /\ k >= 2 /\ (k - 2) * Block <= Len(given.data) /\ c \in Nat /\ Len(blocks) = c
          /\ \A b \in 1..c : blocks[b] = Item(k + b)
      BY <1>0, <2>1
    <3> HIDE DEF c
    <3> QED
      BY <3>1, UnitsAre
  <2> HIDE DEF N, most, left
  <2> QED
    BY <1>0, <2>1, <2>2
<1> HIDE DEF u
<1> HIDE DEF c
<1>3. /\ got \in Seq(Nat) /\ Len(got) = Len(data) + Len(u)
      /\ \A i \in 1..Len(data) : got[i] = data[i]
      /\ \A i \in 1..Len(u) : got[Len(data) + i] = u[i]
  <2>1. u \in Seq(Nat)
    BY <1>2
  <2>2. /\ data \o u \in Seq(Nat) /\ Len(data \o u) = Len(data) + Len(u)
        /\ \A i \in 1..Len(data) : (data \o u)[i] = data[i]
        /\ \A i \in 1..Len(u) : (data \o u)[Len(data) + i] = u[i]
    BY <2>1, Appended
  <2> QED
    BY <2>2
<1>11. Len(got) = Len(data) + Least(left, most)
  BY <1>2, <1>3
<1>4. Len(u) = left \/ Len(u) = most
  BY <1>2 DEF Least
<1>5. Len(u) <= left /\ Len(u) <= most /\ Len(u) \in Nat
  <2>1. left \in Nat
    BY <1>1
  <2> HIDE DEF left, most
  <2> QED
    BY <1>1, <1>2, <2>1 DEF Least
<1>6. (k - 2 + c) * Block = (k - 2) * Block + c * Block
  BY <1>0, TimesSum
<1>7. Len(data) + most = (k + c - 2) * Block
  <2>1. k - 2 + c = k + c - 2
    BY <1>0
  <2> QED
    BY <1>0, <1>6, <2>1
<1> HIDE DEF got, most
<1>8. Len(got) = (k + c - 2) * Block \/ (Len(got) = N /\ Len(got) <= (k + c - 2) * Block)
  <2>1. CASE Len(u) = left
    <3>1. Len(got) = N
      BY <1>1, <1>3, <2>1
    <3>2. Len(got) <= Len(data) + most
      BY <1>1, <1>3, <1>5
    <3> QED
      BY <1>7, <3>1, <3>2
  <2>2. CASE Len(u) = most
    BY <1>3, <1>7, <2>2
  <2> QED
    BY <1>4, <2>1, <2>2
<1>9. ASSUME NEW i \in 1..Len(got) PROVE got[i] = given.data[i]
  <2>1. CASE i <= Len(data)
    <3>1. i \in 1..Len(data)
      BY <1>1, <2>1
    <3> QED
      BY <1>0, <1>3, <3>1
  <2>2. CASE i > Len(data)
    <3>1. PICK j \in Int : j = i - Len(data)
      BY <1>1
    <3>2. i \in 1..Len(data) + Len(u)
      BY <1>3
    <3>3. j \in 1..Len(u) /\ Len(data) + j = i
      BY <1>1, <1>5, <2>2, <3>1, <3>2
    <3> QED
      BY <1>2, <1>3, <3>3
  <2>3. i <= Len(data) \/ i > Len(data)
    BY <1>1, <1>3, <1>5
  <2> QED
    BY <2>1, <2>2, <2>3
<1>10. Len(got) <= N
  BY <1>1, <1>3, <1>5
<1> QED
  BY <1>3, <1>8, <1>9, <1>10, <1>11 DEF got, u, c, most, ReadOn

LEMMA ReadBlocksKeeps ==
    ASSUME TransferInv, NEW s \in Stations, ReadBlocks(s)
    PROVE  TransferInv'
<1>0. TransferTypes /\ PartInv /\ RoleInv /\ StreamInv /\ conn.push \in BOOLEAN
  BY DEF TransferInv, TransferTypes
<1> DEFINE data == job[s].data
           left == job[s].size - Len(data)
           c == NextRead(left)
           got == data \o UnitsOf(SubSeq(wire[s], 1, c), left)
<1>1. /\ at[s] = "payload" /\ left > 0 /\ Take(s, c)
      /\ job' = [job EXCEPT ![s].data = got]
      /\ part' = [part EXCEPT ![s] = IF @ = None THEN None ELSE got]
      /\ conn' = conn /\ at' = at /\ disk' = disk /\ link' = link /\ given' = given
      /\ fault' = fault
  BY DEF ReadBlocks, mvars
<1>2. /\ s = Dst /\ at[s] \notin Ended /\ given \in Offers
      /\ \A k \in Nat : Stream(k) => k >= 2
      /\ job[s].name = given.name /\ job[s].size = Len(given.data)
      /\ data \in Seq(Nat) /\ Len(data) <= Len(given.data)
      /\ \A i \in 1..Len(data) : data[i] = given.data[i]
  BY <1>1, InPayload
<1>3. Src \in Stations /\ Dst \in Stations /\ Src # Dst /\ Live /\ Other(Dst) = Src
  BY <1>0, <1>2, EndsAre
<1>4. Len(given.data) \in Nat /\ Len(data) \in Nat /\ left \in Nat /\ left = Len(given.data) - Len(data)
  BY <1>2, OfferIs
<1>a. Len(data) # Len(given.data)
  <2> HIDE DEF data, left
  <2> QED
    BY <1>1, <1>4
<1>5. c \in Nat
  BY <1>4, NextReadIs
<1>6. PICK k \in Nat : Stream(k)
  BY <1>0, <1>2, <1>3 DEF StreamInv
<1>7. k >= 2 /\ Len(data) = (k - 2) * Block
  BY <1>1, <1>2, <1>6, <1>a DEF Stream, Got
<1> DEFINE blocks == SubSeq(wire[s], 1, c)
<1>8. /\ c \in 0..Len(wire[s]) /\ wire[s] \in Seq(Items)
      /\ wire'[Other(s)] = wire[Other(s)] /\ wire' \in [Stations -> Seq(Items)]
  <2> HIDE DEF c
  <2> QED
    BY <1>0, <1>1, <1>5, WireTaken
<1>9. Len(blocks) = c /\ \A b \in 1..c : blocks[b] = Item(k + b)
  <2> DEFINE w == wire[s]
  <2>1. w \in Seq(Items) /\ c \in 0..Len(w)
    BY <1>8
  <2>2. \A b \in 1..Len(w) : w[b] = Item(k + b)
    BY <1>2, <1>6 DEF Stream
  <2> HIDE DEF w, c
  <2>3. Len(SubSeq(w, 1, c)) = c /\ \A b \in 1..c : SubSeq(w, 1, c)[b] = w[b]
    BY <2>1, Kept
  <2> QED
    BY <2>1, <2>2, <2>3 DEF w
<1> HIDE DEF c, blocks
<1>10. /\ got \in Seq(Nat) /\ Len(got) <= Len(given.data)
       /\ Len(got) = (k + c - 2) * Block
            \/ (Len(got) = Len(given.data) /\ Len(got) <= (k + c - 2) * Block)
       /\ \A i \in 1..Len(got) : got[i] = given.data[i]
  <2> HIDE DEF data
  <2>1. ReadOn(k, data, c, data \o UnitsOf(blocks, Len(given.data) - Len(data)))
    <3>1. ReadInBlocks(k, data) /\ Follow(k, blocks) /\ Len(blocks) \in Nat
      BY <1>2, <1>5, <1>7, <1>9 DEF ReadInBlocks, Follow
    <3>2. data \in Seq(Nat) /\ given \in Offers /\ Len(blocks) = c
      BY <1>2, <1>9
    <3>3. ReadOn(k, data, Len(blocks),
                 data \o UnitsOf(blocks, Len(given.data) - Len(data)))
      BY <3>1, <3>2, ReadMore
    <3> QED
      BY <3>2, <3>3
  <2>2. got = data \o UnitsOf(blocks, Len(given.data) - Len(data))
    BY <1>4 DEF blocks
  <2> HIDE DEF got
  <2> QED
    BY <2>1, <2>2 DEF ReadOn
<1>11. /\ job' = [job EXCEPT ![s].data = got]
       /\ part' = [part EXCEPT ![s] = IF @ = None THEN None ELSE got]
  BY <1>1
<1> HIDE DEF got, left, data
<1>12. /\ job' \in [Stations -> Jobs] /\ \A t \in Stations \ {s} : job'[t] = job[t]
       /\ job'[s].name = job[s].name /\ job'[s].size = job[s].size /\ job'[s].data = got
  BY <1>0, <1>10, <1>11 DEF TransferTypes, Jobs
<1>13. /\ part' \in [Stations -> Seq(Nat) \cup {None}]
       /\ \A t \in Stations \ {s} : part'[t] = part[t]
       /\ part'[s] # None => part[s] # None /\ part'[s] = got
  BY <1>0, <1>10, <1>11 DEF TransferTypes
<1>14. TransferTypes'
  <2>1. given' \in Offers' \cup {None} /\ conn'.push \in BOOLEAN
    BY <1>0, <1>1, <1>2 DEF Offers, Contents
  <2> QED
    BY <1>0, <1>1, <1>8, <1>12, <1>13, <2>1 DEF TransferTypes, Contents, Offers
<1>15. PartInv'
  <2>1. ASSUME NEW t \in Stations
        PROVE  /\ Len(job'[t].data) <= job'[t].size
               /\ part'[t] # None => /\ at'[t] = "payload" /\ job'[t].name = "file"
                                     /\ job'[t].size > 0 /\ part'[t] = job'[t].data
    <3>1. CASE t = s
      BY <1>0, <1>1, <1>2, <1>10, <1>12, <1>13, <3>1 DEF PartInv
    <3>2. CASE t # s
      BY <1>0, <1>1, <1>12, <1>13, <3>2 DEF PartInv
    <3> QED
      BY <3>1, <3>2
  <2> QED
    BY <2>1 DEF PartInv
<1>16. RoleInv'
  <2>1. ASSUME ~conn.push, NEW i \in 1..Len(wire'[Src]) PROVE wire'[Src][i] = Header(FALSE)
    BY <1>0, <1>2, <1>3, <1>8, <2>1 DEF RoleInv
  <2>2. at'[Src] \in SrcPlaces /\ at'[Dst] \in DstPlaces
    BY <1>0, <1>1, <1>3 DEF RoleInv
  <2> QED
    BY <1>0, <1>1, <1>2, <2>1, <2>2, RolesStay
<1>17. ASSUME NEW h \in Nat, Stream(h)
       PROVE  \E i : i = h + c /\ (at'[Dst] \notin Ended => Got(i)')
  <2>1. h >= 2 /\ Len(data) = (h - 2) * Block
    BY <1>1, <1>2, <1>17, <1>a DEF Stream, Got, data
  <2>2. h = k
    <3>1. CASE h > k
      <4>1. (k - 2 + 1) * Block <= (h - 2) * Block
        BY <3>1, TimesLess
      <4>2. (k - 2 + 1) * Block = (k - 2) * Block + 1 * Block
        BY TimesSum
      <4>3. (k - 2) * Block \in Nat
        BY <1>4, <1>7
      <4> QED
        BY <1>4, <1>7, <2>1, <4>1, <4>2, <4>3, BlockIs
    <3>2. CASE k > h
      <4>1. (h - 2 + 1) * Block <= (k - 2) * Block
        BY <3>2, TimesLess
      <4>2. (h - 2 + 1) * Block = (h - 2) * Block + 1 * Block
        BY TimesSum
      <4>3. (h - 2) * Block \in Nat
        BY <1>4, <2>1
      <4> QED
        BY <1>4, <1>7, <2>1, <4>1, <4>2, <4>3, BlockIs
    <3> QED
      BY <3>1, <3>2
  <2>3. PICK i \in Nat : i = k + c
    BY <1>5
  <2>4. Got(i)'
    <3>1. Len(got) = (i - 2) * Block
            \/ (Len(got) = Len(given.data) /\ Len(got) <= (i - 2) * Block)
      <4>1. k + c - 2 = i - 2
        BY <1>5, <2>3
      <4> QED
        BY <1>10, <4>1
    <3>2. i >= 2
      BY <1>5, <1>7, <2>3
    <3>3. /\ at'[Dst'] = "payload" /\ given' = given /\ job'[Dst'].data = got
          /\ job'[Dst'].name = given.name /\ job'[Dst'].size = Len(given.data)
      BY <1>1, <1>2, <1>12, SameEnds
    <3> QED
      BY <1>10, <3>1, <3>2, <3>3 DEF Got
  <2> QED
    BY <2>2, <2>3, <2>4
<1>18. StreamInv'
  <2>1. at'[Src] = at[Src] /\ at[Dst] \notin Ended /\ Take(Dst, c) /\ job'[Src] = job[Src]
    BY <1>1, <1>2, <1>3, <1>12 DEF c
  <2> QED
    BY <1>0, <1>1, <1>3, <1>5, <1>17, <2>1, ReceiverReads
<1> QED
  BY <1>14, <1>15, <1>16, <1>18 DEF TransferInv

\* Whoever has as much as was announced has what Provide returned.
LEMMA AllIsGiven ==
    ASSUME TransferInv, NEW s \in Stations, at[s] = "payload",
           Len(job[s].data) >= job[s].size
    PROVE  job[s].data = given.data /\ job[s].name = given.name /\ given \in Offers
<1> DEFINE d == job[s].data
           g == given.data
<1>1. /\ given \in Offers /\ job[s].name = given.name /\ job[s].size = Len(g)
      /\ d \in Seq(Nat) /\ Len(d) <= Len(g) /\ \A i \in 1..Len(d) : d[i] = g[i]
  BY InPayload
<1>2. g \in Seq(Nat) /\ Len(g) \in Nat /\ Len(d) \in Nat
  BY <1>1, OfferIs
<1>3. Len(d) >= Len(g)
  BY <1>1
<1> HIDE DEF d, g
<1>4. Len(d) = Len(g)
  BY <1>1, <1>2, <1>3
<1>5. d = g
  BY <1>1, <1>2, <1>4, SeqEqual
<1> QED
  BY <1>1, <1>5 DEF d, g

LEMMA DeliverKeeps ==
    ASSUME TransferInv, NEW s \in Stations, Deliver(s)
    PROVE  TransferInv'
<1>0. TransferTypes /\ PartInv /\ RoleInv /\ StreamInv /\ conn.push \in BOOLEAN
  BY DEF TransferInv, TransferTypes
<1>1. /\ at[s] = "payload" /\ GoTo(s, "ok") /\ Len(job[s].data) >= job[s].size
      /\ disk' = [disk EXCEPT ![s] = IF part[s] = None THEN @ ELSE part[s]]
      /\ part' = [part EXCEPT ![s] = None]
      /\ conn' = conn /\ wire' = wire /\ job' = job /\ link' = link /\ given' = given
      /\ fault' = fault
  BY DEF Deliver
<1>2. /\ job[s].data = given.data /\ job[s].name = given.name /\ given \in Offers
      /\ s = Dst /\ at[s] \notin Ended
  BY <1>1, AllIsGiven, InPayload
<1>3. Src \in Stations /\ Dst \in Stations /\ Src # Dst /\ Live
      /\ at[Src] \in SrcPlaces /\ at[Dst] \in DstPlaces
  BY <1>0, <1>2, EndsAre
<1>4. at'[s] = "ok" /\ \A t \in Stations \ {s} : at'[t] = at[t]
  BY <1>0, <1>1, AtMoved
<1>5. ASSUME part[s] # None PROVE part[s] \in Contents \ {<<>>}
  <2>1. part[s] = given.data /\ given.name \in Kinds
    BY <1>0, <1>2, <1>5 DEF PartInv, Kinds
  <2> QED
    BY <1>2, <2>1, OfferIs
<1>6. disk' \in [Stations -> (Contents \ {<<>>}) \cup {None}]
  BY <1>0, <1>1, <1>5 DEF TransferTypes
<1>7. TransferTypes'
  <2>1. at' \in [Stations -> Reading \cup Writing \cup Ended]
    BY <1>0, <1>1 DEF GoTo, TransferTypes, Ended
  <2>2. given' \in Offers' \cup {None} /\ conn'.push \in BOOLEAN
    BY <1>0, <1>1 DEF TransferTypes, Offers, Contents
  <2>3. part' \in [Stations -> Seq(Nat) \cup {None}]
    BY <1>0, <1>1 DEF TransferTypes
  <2> QED
    BY <1>0, <1>1, <1>6, <2>1, <2>2, <2>3 DEF TransferTypes, Contents, Offers
<1>8. PartInv'
  <2>1. part'[s] = None /\ \A t \in Stations \ {s} : part'[t] = part[t]
    BY <1>0, <1>1 DEF TransferTypes
  <2> QED
    BY <1>0, <1>1, <1>4, <2>1 DEF PartInv
<1>9. RoleInv'
  <2>1. at'[Src] \in SrcPlaces /\ at'[Dst] \in DstPlaces
    BY <1>2, <1>3, <1>4 DEF DstPlaces, Ended
  <2>2. ASSUME ~conn.push, NEW i \in 1..Len(wire'[Src]) PROVE wire'[Src][i] = Header(FALSE)
    BY <1>0, <1>1, <1>3, <2>2 DEF RoleInv
  <2> QED
    BY <1>0, <1>1, <1>2, <2>1, <2>2, RolesStay
<1>10. StreamInv'
  BY <1>1, <1>2, <1>4, SameEnds DEF StreamInv, Ended
<1> QED
  BY <1>7, <1>8, <1>9, <1>10 DEF TransferInv

\* An end that fails, for whatever reason.
LEMMA FailKeeps ==
    ASSUME TransferInv, NEW s \in Stations, at[s] \notin Ended, Fail(s), fault' \in BOOLEAN
    PROVE  TransferInv'
<1>0. TransferTypes /\ PartInv /\ RoleInv /\ StreamInv /\ conn.push \in BOOLEAN
  BY DEF TransferInv, TransferTypes
<1>1. /\ GoTo(s, "failed") /\ part' = [part EXCEPT ![s] = None]
      /\ conn' = conn /\ wire' = wire /\ job' = job /\ link' = link /\ given' = given
      /\ disk' = disk
  BY DEF Fail
<1>2. /\ Src \in Stations /\ Dst \in Stations /\ Src # Dst /\ Stations = {Src, Dst} /\ Live
      /\ at[Src] \in SrcPlaces /\ at[Dst] \in DstPlaces
  BY <1>0, EndsAre
<1>3. at'[s] = "failed" /\ \A t \in Stations \ {s} : at'[t] = at[t]
  BY <1>0, <1>1, AtMoved
<1>4. TransferTypes'
  <2>1. at' \in [Stations -> Reading \cup Writing \cup Ended]
    BY <1>0, <1>1 DEF GoTo, TransferTypes, Ended
  <2>2. given' \in Offers' \cup {None} /\ conn'.push \in BOOLEAN
    BY <1>0, <1>1 DEF TransferTypes, Offers, Contents
  <2>3. part' \in [Stations -> Seq(Nat) \cup {None}]
    BY <1>0, <1>1 DEF TransferTypes
  <2> QED
    BY <1>0, <1>1, <2>1, <2>2, <2>3 DEF TransferTypes, Contents, Offers
<1>5. PartInv'
  <2>1. part'[s] = None /\ \A t \in Stations \ {s} : part'[t] = part[t]
    BY <1>0, <1>1 DEF TransferTypes
  <2> QED
    BY <1>0, <1>1, <1>3, <2>1 DEF PartInv
<1>6. RoleInv'
  <2>1. at'[Src] \in SrcPlaces /\ at'[Dst] \in DstPlaces
    BY <1>2, <1>3 DEF SrcPlaces, DstPlaces, Ended
  <2>2. ASSUME ~conn.push, NEW i \in 1..Len(wire'[Src]) PROVE wire'[Src][i] = Header(FALSE)
    BY <1>0, <1>1, <1>2, <2>2 DEF RoleInv
  <2> QED
    BY <1>0, <1>1, <2>1, <2>2, RolesStay
<1>7. StreamInv'
  <2>1. CASE s = Dst
    BY <1>1, <1>3, <2>1, SameEnds DEF StreamInv, Ended
  <2>2. CASE s = Src
    <3>1. ASSUME NEW k \in Nat, Stream(k)
          PROVE  \E n : n = k + Len(wire[Dst]) /\ Written(n)'
      <4>1. PICK n : n = k + Len(wire[Dst])
        OBVIOUS
      <4>2. Written(n)'
        BY <1>1, <1>3, <2>2, <3>1, <4>1, WrittenEnds DEF Stream, Ended
      <4> QED
        BY <4>1, <4>2
    <3>2. at'[Dst] = at[Dst] /\ job'[Dst] = job[Dst] /\ wire'[Dst] = wire[Dst]
      BY <1>1, <1>2, <1>3, <2>2
    <3> QED
      BY <1>0, <1>1, <2>2, <3>1, <3>2, SourceMoves
  <2> QED
    BY <1>2, <2>1, <2>2
<1> QED
  BY <1>4, <1>5, <1>6, <1>7 DEF TransferInv

LEMMA ResetKeeps ==
    ASSUME TransferInv, NEW s \in Stations, Reset(s)
    PROVE  TransferInv'
<1>0. TransferTypes /\ PartInv /\ RoleInv /\ StreamInv /\ conn.push \in BOOLEAN
  BY DEF TransferInv, TransferTypes
<1>1. /\ at[Other(s)] \in Ended
      /\ conn' = conn /\ at' = at /\ job' = job /\ part' = part /\ disk' = disk
      /\ link' = link /\ given' = given /\ fault' = fault
  BY DEF Reset, mvars
<1>2. PICK c \in 0..Len(wire[s]) - 1 : wire' = [wire EXCEPT ![s] = SubSeq(@, 1, c)]
  BY DEF Reset
<1> DEFINE w == wire[s]
           v == SubSeq(w, 1, c)
<1>3. w \in Seq(Items) /\ Len(w) \in Nat
  BY <1>0 DEF TransferTypes
<1>4. c \in 0..Len(w)
  BY <1>3
<1>5. wire' = [wire EXCEPT ![s] = v]
  BY <1>2
<1> HIDE DEF w
<1>6. v \in Seq(Items) /\ Len(v) = c /\ \A i \in 1..c : v[i] = w[i]
  BY <1>3, <1>4, Kept
<1> HIDE DEF v
<1>7. /\ wire' \in [Stations -> Seq(Items)] /\ wire'[s] = v
      /\ \A t \in Stations \ {s} : wire'[t] = wire[t]
  BY <1>0, <1>5, <1>6 DEF TransferTypes
<1>8. TransferTypes' /\ PartInv'
  <2>1. given' \in Offers' \cup {None} /\ conn'.push \in BOOLEAN
    BY <1>0, <1>1 DEF TransferTypes, Offers, Contents
  <2> QED
    BY <1>0, <1>1, <1>7, <2>1 DEF TransferTypes, Contents, Offers, PartInv
<1>9. CASE ~Live
  <2>1. ~Live'
    BY <1>1, <1>9 DEF Live
  <2> QED
    BY <1>8, <2>1 DEF TransferInv, RoleInv, StreamInv
<1>10. CASE Live
  <2>1. PICK t \in Stations : at[t] \notin Ended
    BY <1>10 DEF Live
  <2>2. /\ Src \in Stations /\ Dst \in Stations /\ Src # Dst /\ Stations = {Src, Dst}
        /\ Other(Src) = Dst /\ Other(Dst) = Src
        /\ at[Src] \in SrcPlaces /\ at[Dst] \in DstPlaces
    BY <1>0, <2>1, EndsAre
  <2>3. RoleInv'
    <3>1. ASSUME ~conn.push, NEW i \in 1..Len(wire'[Src]) PROVE wire'[Src][i] = Header(FALSE)
      <4>1. \A j \in 1..Len(wire[Src]) : wire[Src][j] = Header(FALSE)
        BY <1>0, <1>10, <3>1 DEF RoleInv
      <4>2. CASE s = Src
        <5>1. i \in 1..c /\ wire'[Src] = v
          BY <1>6, <1>7, <4>2
        <5>2. i \in 1..Len(w)
          BY <1>3, <1>4, <5>1
        <5> QED
          BY <1>6, <4>1, <4>2, <5>1, <5>2 DEF w
      <4>3. CASE s = Dst
        BY <1>7, <2>2, <3>1, <4>1, <4>3
      <4> QED
        BY <2>2, <4>2, <4>3
    <3> QED
      BY <1>0, <1>1, <2>1, <2>2, <3>1, RolesStay
  <2>4. StreamInv'
    <3>1. CASE s = Src
      BY <1>1, <2>2, <3>1, SameEnds DEF StreamInv
    <3>2. CASE s = Dst /\ at[Dst] \notin Ended
      <4>1. PICK k \in Nat : Stream(k)
        BY <1>0, <1>10, <3>2 DEF StreamInv
      <4>2. /\ at[Src] \in Ended /\ wire[Dst] \in Seq(Items) /\ c \in 0..Len(wire[Dst])
            /\ wire'[Dst] = SubSeq(wire[Dst], 1, c)
        BY <1>1, <1>3, <1>4, <1>7, <2>2, <3>2 DEF v, w
      <4>3. Stream(k)'
        BY <1>1, <4>1, <4>2, ItemsCut
      <4> QED
        BY <4>3 DEF StreamInv
    <3>3. CASE at[Dst] \in Ended
      BY <1>1, <3>3, SameEnds DEF StreamInv
    <3> QED
      BY <2>2, <3>1, <3>2, <3>3
  <2> QED
    BY <1>8, <2>3, <2>4 DEF TransferInv
<1> QED
  BY <1>9, <1>10

\* A step that neither end notices.
LEMMA QuietKeeps ==
    ASSUME TransferInv, UNCHANGED <<conn, at, wire, job, part, disk, given>>,
           link' \in {"up", "silent", "cut"}, fault' \in BOOLEAN
    PROVE  TransferInv'
<1>0. TransferTypes /\ PartInv /\ RoleInv /\ StreamInv
  BY DEF TransferInv
<1>1. /\ conn' = conn /\ at' = at /\ wire' = wire /\ job' = job /\ part' = part
      /\ disk' = disk /\ given' = given
  OBVIOUS
<1>2. TransferTypes'
  <2>1. given' \in Offers' \cup {None} /\ conn'.push \in BOOLEAN
    BY <1>0, <1>1 DEF TransferTypes, Offers, Contents
  <2> QED
    BY <1>0, <1>1, <2>1 DEF TransferTypes, Contents, Offers
<1>3. PartInv'
  BY <1>0, <1>1 DEF PartInv
<1>4. RoleInv'
  BY <1>0, <1>1, SameEnds DEF RoleInv, Live, SrcPlaces, DstPlaces
<1>5. StreamInv'
  <2>1. ASSUME Live, at[Dst] \notin Ended PROVE \E k \in Nat : Stream(k)'
    <3>1. PICK k \in Nat : Stream(k)
      BY <1>0, <2>1 DEF StreamInv
    <3>2. Got(k)' /\ wire'[Dst] = wire[Dst]
      BY <1>1, <3>1, GotStays DEF Stream
    <3>3. PICK n : n = k + Len(wire[Dst])
      OBVIOUS
    <3>4. Written(n)'
      BY <1>1, <3>1, <3>3, WrittenStays DEF Stream
    <3>5. Stream(k)'
      BY <1>1, <3>1, <3>2, <3>3, <3>4, ItemsKept
    <3> QED
      BY <3>5
  <2>2. Live' <=> Live
    BY <1>1 DEF Live
  <2> QED
    BY <1>1, <2>1, <2>2, SameEnds DEF StreamInv
<1> QED
  BY <1>2, <1>3, <1>4, <1>5 DEF TransferInv

\* A new connection starts from two ends that are through with the last one.
LEMMA DialKeeps ==
    ASSUME TransferInv, NEW s \in Stations, NEW push \in BOOLEAN, NEW via, Dial(s, push, via),
           job' \in [Stations -> Jobs], \A t \in Stations : Len(job'[t].data) <= job'[t].size,
           given' \in Offers \cup {None},
           push => given' \in Offers /\ job'[s] = Whole'
    PROVE  TransferInv'
<1>0. TransferTypes /\ PartInv
  BY DEF TransferInv
<1>1. /\ \A t \in Stations : at[t] \in Ended
      /\ conn' = [dialer |-> s, push |-> push, via |-> via]
      /\ at' = [t \in Stations |-> IF t = s THEN "sendHdr"
                                   ELSE IF via = "server" THEN "leg" ELSE "awaitHdr"]
      /\ wire' = [t \in Stations |-> <<>>]
      /\ link' = "up" /\ fault' = FALSE /\ part' = part /\ disk' = disk
  BY DEF Dial
<1>2. /\ Other(s) \in Stations /\ Other(s) # s /\ Other(Other(s)) = s
      /\ Stations = {s, Other(s)}
  BY Pair
<1>3. /\ conn'.dialer = s /\ conn'.push = push
      /\ Src' = IF push THEN s ELSE Other(s)
      /\ Dst' = IF push THEN Other(s) ELSE s
  BY <1>1, <1>2 DEF Src, Dst
<1>4. at'[s] = "sendHdr" /\ at'[Other(s)] \in {"leg", "awaitHdr"}
  BY <1>1, <1>2
<1>5. wire'[Src'] = <<>> /\ wire'[Dst'] = <<>> /\ Len(<<>>) = 0
  BY <1>1, <1>2, <1>3
<1>6. TransferTypes'
  <2>1. at' \in [Stations -> Reading \cup Writing \cup Ended]
    BY <1>1 DEF Reading, Writing
  <2>2. given' \in Offers' \cup {None}
    BY DEF Offers, Contents
  <2>3. wire' \in [Stations -> Seq(Items)]
    BY <1>1
  <2> QED
    BY <1>0, <1>1, <1>3, <2>1, <2>2, <2>3 DEF TransferTypes, Contents, Offers
<1>7. PartInv'
  <2>1. \A t \in Stations : part'[t] = None
    BY <1>0, <1>1 DEF PartInv, Ended
  <2> QED
    BY <2>1 DEF PartInv
<1>8. RoleInv'
  BY <1>2, <1>3, <1>4, <1>5 DEF RoleInv, SrcPlaces, DstPlaces
<1>9. StreamInv'
  <2>1. Got(0)'
    BY <1>2, <1>3, <1>4 DEF Got
  <2>2. Written(0)'
    BY <1>2, <1>3, <1>4 DEF Written
  <2>3. (0 + Len(wire[Dst]))' = 0
    BY <1>5
  <2>4. (Written(0 + Len(wire[Dst])))'
    BY <2>2, <2>3 DEF Written
  <2>5. Stream(0)'
    BY <1>5, <2>1, <2>4 DEF Stream
  <2> QED
    BY <2>5 DEF StreamInv
<1> QED
  BY <1>6, <1>7, <1>8, <1>9 DEF TransferInv

LEMMA NoJobIs == NoJob \in Jobs /\ Len(NoJob.data) <= NoJob.size
  BY DEF NoJob, Jobs

LEMMA PullOnReturnKeeps ==
    ASSUME TransferInv, NEW s \in Stations, NEW v, PullOnReturn(s, v)
    PROVE  TransferInv'
<1>1. Dial(s, FALSE, v) /\ job' = [t \in Stations |-> NoJob] /\ given' = None
  BY DEF PullOnReturn
<1>2. job' \in [Stations -> Jobs] /\ \A t \in Stations : Len(job'[t].data) <= job'[t].size
  BY <1>1, NoJobIs
<1> QED
  BY <1>1, <1>2, DialKeeps

LEMMA PushToKeeps ==
    ASSUME ManagerTypes, StoreInv, TransferInv, NEW s \in Stations, NEW v, PushTo(s, v)
    PROVE  TransferInv'
<1> DEFINE p == Provide(store[s])
           j == [name |-> p.name, size |-> Len(p.data), data |-> p.data]
<1>1. /\ Dial(s, TRUE, v) /\ given' = p
      /\ job' = [t \in Stations |-> IF t # s THEN NoJob ELSE j]
  BY DEF PushTo
<1>2. p \in Offers
  BY ProvideIs
<1>3. p.name \in Names /\ p.data \in Seq(Nat) /\ Len(p.data) \in Nat
  BY <1>2, OfferIs
<1>4. j \in Jobs /\ Len(j.data) <= j.size
  BY <1>3 DEF Jobs
<1>5. job'[s] = Whole'
  BY <1>1 DEF Whole
<1> HIDE DEF p, j
<1>6. job' \in [Stations -> Jobs] /\ \A t \in Stations : Len(job'[t].data) <= job'[t].size
  BY <1>1, <1>4, NoJobIs
<1> QED
  BY <1>1, <1>2, <1>5, <1>6, DialKeeps

-----------------------------------------------------------------------------
(* The manager's steps, and all of them together. *)

ManagerInv == ManagerTypes /\ StoreInv

LEMMA ManagerStays ==
    ASSUME ManagerInv, UNCHANGED mvars
    PROVE  ManagerInv'
  BY DEF ManagerInv, ManagerTypes, StoreInv, mvars, Contents, Names, Empty, Put

LEMMA SetKeeps ==
    ASSUME ManagerInv, NEW s \in Stations, NEW c \in Copies, Set(s, c)
    PROVE  ManagerInv'
<1>1. /\ ManagerTypes /\ StoreInv
      /\ store' = [store EXCEPT ![s] = Put(@, c.name, c.data)]
      /\ latest' = [latest EXCEPT ![s] = c]
      /\ gate' = [gate EXCEPT ![s] = FALSE]
      /\ beat' = [beat EXCEPT ![s] = @ \/ gate[s]]
      /\ source' = source
  BY DEF Set, ManagerInv
<1>2. c.name \in Kinds /\ c.data \in Contents /\ c = [name |-> c.name, data |-> c.data]
  <2>1. c \in [name : Kinds, data : Seq(Nat)]
    BY CopiesAssumption
  <2> QED
    BY <2>1 DEF Contents
<1>3. latest' = [latest EXCEPT ![s] = [name |-> c.name, data |-> c.data]]
  BY <1>1, <1>2
<1>4. /\ store' \in [Stations -> [Kinds -> Contents \cup {None}]]
      /\ latest' \in [Stations -> {NoData} \cup [name : Kinds, data : Contents]]
      /\ StoreInv'
  BY <1>1, <1>2, <1>3, StoredIs
<1>5. gate' \in [Stations -> BOOLEAN] /\ beat' \in [Stations -> BOOLEAN]
  <2>1. beat[s] \in BOOLEAN /\ gate[s] \in BOOLEAN
    BY <1>1 DEF ManagerTypes
  <2>2. (beat[s] \/ gate[s]) \in BOOLEAN
    BY <2>1
  <2> QED
    BY <1>1, <2>2, Zenon DEF ManagerTypes
<1> QED
  BY <1>1, <1>4, <1>5 DEF ManagerInv, ManagerTypes, Contents, Names

LEMMA NewsKeeps ==
    ASSUME ManagerInv, NEW s \in Stations, News(s)
    PROVE  ManagerInv'
<1>1. store' = store /\ latest' = latest
  BY DEF News, GateOpens, OnBeat
<1>2. gate' \in [Stations -> BOOLEAN] /\ beat' \in [Stations -> BOOLEAN]
  BY DEF News, GateOpens, OnBeat, ManagerInv, ManagerTypes
<1>3. source' \in [Stations -> Stations \cup Names \cup {None}]
  BY Pair DEF News, GateOpens, OnBeat, ManagerInv, ManagerTypes
<1> QED
  BY <1>1, <1>2, <1>3 DEF ManagerInv, ManagerTypes, StoreInv, Contents, Names, Empty, Put

LEMMA SinkKeeps ==
    ASSUME ManagerInv, NEW s \in Stations, NEW name \in Names, NEW data,
           name \in Kinds => data \in Contents,
           Sink(s, [name |-> name, data |-> data])
    PROVE  ManagerInv'
<1>1. /\ ManagerTypes /\ StoreInv
      /\ source' = [source EXCEPT ![s] = name] /\ gate' = gate /\ beat' = beat
      /\ IF name \in Kinds
         THEN /\ store' = [store EXCEPT ![s] = Put(@, name, data)]
              /\ latest' = [latest EXCEPT ![s] = [name |-> name, data |-> data]]
         ELSE store' = store /\ latest' = latest
  BY DEF Sink, ManagerInv
<1>2. source' \in [Stations -> Stations \cup Names \cup {None}]
  BY <1>1 DEF ManagerTypes
<1>3. CASE name \in Kinds
  <2>1. /\ store' \in [Stations -> [Kinds -> Contents \cup {None}]]
        /\ latest' \in [Stations -> {NoData} \cup [name : Kinds, data : Contents]]
        /\ StoreInv'
    BY <1>1, <1>3, StoredIs
  <2> QED
    BY <1>1, <1>2, <2>1 DEF ManagerInv, ManagerTypes, Contents, Names
<1>4. CASE name \notin Kinds
  BY <1>1, <1>2, <1>4 DEF ManagerInv, ManagerTypes, StoreInv, Contents, Names, Empty, Put
<1> QED
  BY <1>3, <1>4

LEMMA DeliverStores ==
    ASSUME ManagerInv, TransferInv, NEW s \in Stations, Deliver(s)
    PROVE  ManagerInv'
<1> DEFINE name == job[s].name
           data == job[s].data
<1>1. /\ at[s] = "payload" /\ Len(job[s].data) >= job[s].size
      /\ Sink(s, [name |-> name, data |-> data])
  BY DEF Deliver
<1>2. data = given.data /\ name = given.name /\ given \in Offers
  BY <1>1, AllIsGiven
<1>3. name \in Names /\ (name \in Kinds => data \in Contents)
  BY <1>2, OfferIs
<1> HIDE DEF name, data
<1> QED
  BY <1>1, <1>3, SinkKeeps

LEMMA EndKeeps ==
    ASSUME ManagerInv, TransferInv, NEW s \in Stations, End(s)
    PROVE  ManagerInv' /\ TransferInv'
<1>0. ManagerTypes /\ StoreInv
  BY DEF ManagerInv
<1>1. CASE SendHeader(s)
  <2>1. UNCHANGED mvars
    BY <1>1 DEF SendHeader
  <2> QED
    BY <1>1, <2>1, SendHeaderKeeps, ManagerStays
<1>2. CASE LegHeader(s)
  <2>1. UNCHANGED mvars
    BY <1>2 DEF LegHeader
  <2> QED
    BY <1>2, <2>1, LegHeaderKeeps, ManagerStays
<1>3. CASE ReadHeader(s)
  <2>1. UNCHANGED mvars
    BY <1>3 DEF ReadHeader
  <2> QED
    BY <1>3, <2>1, ReadHeaderKeeps, ManagerStays
<1>4. CASE Answer(s)
  <2>1. UNCHANGED mvars
    BY <1>4 DEF Answer
  <2> QED
    BY <1>0, <1>4, <2>1, AnswerKeeps, ManagerStays
<1>5. CASE SendInfo(s)
  <2>1. UNCHANGED mvars
    BY <1>5 DEF SendInfo
  <2> QED
    BY <1>5, <2>1, SendInfoKeeps, ManagerStays
<1>6. CASE SendChunk(s)
  <2>1. UNCHANGED mvars
    BY <1>6 DEF SendChunk
  <2> QED
    BY <1>6, <2>1, SendChunkKeeps, ManagerStays
<1>7. CASE ReadInfo(s)
  <2>1. UNCHANGED mvars
    BY <1>7 DEF ReadInfo
  <2> QED
    BY <1>7, <2>1, ReadInfoKeeps, ManagerStays
<1>8. CASE ReadBlocks(s)
  <2>1. UNCHANGED mvars
    BY <1>8 DEF ReadBlocks
  <2> QED
    BY <1>8, <2>1, ReadBlocksKeeps, ManagerStays
<1>9. CASE Deliver(s)
  BY <1>9, DeliverStores, DeliverKeeps
<1>10. CASE Broken(s)
  <2>1. Fail(s) /\ fault' = fault /\ at[s] \notin Ended
    BY <1>10 DEF Broken, Blocked, Reading, Writing, Ended
  <2>2. UNCHANGED mvars
    BY <2>1 DEF Fail
  <2>3. fault' \in BOOLEAN
    BY <2>1 DEF TransferInv, TransferTypes
  <2> QED
    BY <2>1, <2>2, <2>3, FailKeeps, ManagerStays
<1> QED
  BY <1>1, <1>2, <1>3, <1>4, <1>5, <1>6, <1>7, <1>8, <1>9, <1>10 DEF End

LEMMA ClipStart == Init => ManagerInv /\ TransferInv
<1> SUFFICES ASSUME Init PROVE ManagerInv /\ TransferInv
  OBVIOUS
<1> USE DEF Init, ManagerInit
<1>1. ManagerInv
  BY DEF ManagerInv, ManagerTypes, StoreInv, Empty, Names
<1>2. TransferTypes
  <2>1. at \in [Stations -> Reading \cup Writing \cup Ended]
    BY DEF Ended
  <2>2. wire \in [Stations -> Seq(Items)]
    OBVIOUS
  <2>3. job \in [Stations -> Jobs]
    BY NoJobIs
  <2> QED
    BY <2>1, <2>2, <2>3 DEF TransferTypes
<1>3. PartInv
  <2>1. ASSUME NEW s \in Stations
        PROVE  Len(job[s].data) <= job[s].size /\ part[s] = None
    <3>1. job[s] = NoJob /\ part[s] = None
      OBVIOUS
    <3> QED
      BY <3>1, NoJobIs
  <2> QED
    BY <2>1 DEF PartInv
<1>4. ~Live
  BY DEF Live, Ended
<1> QED
  BY <1>1, <1>2, <1>3, <1>4 DEF TransferInv, RoleInv, StreamInv

LEMMA ClipStep == ManagerInv /\ TransferInv /\ [Next]_vars => ManagerInv' /\ TransferInv'
<1> SUFFICES ASSUME ManagerInv, TransferInv, [Next]_vars PROVE ManagerInv' /\ TransferInv'
  OBVIOUS
<1>0. ManagerTypes /\ StoreInv /\ link \in {"up", "silent", "cut"} /\ fault \in BOOLEAN
  BY DEF ManagerInv, TransferInv, TransferTypes
<1>1. ASSUME NEW s \in Stations, End(s) PROVE ManagerInv' /\ TransferInv'
  BY <1>1, EndKeeps
<1>2. ASSUME NEW s \in Stations, Timeout(s) PROVE ManagerInv' /\ TransferInv'
  <2>1. Fail(s) /\ at[s] \notin Ended /\ fault' \in BOOLEAN
    BY <1>2 DEF Timeout
  <2>2. UNCHANGED mvars
    BY <2>1 DEF Fail
  <2> QED
    BY <2>1, <2>2, FailKeeps, ManagerStays
<1>3. ASSUME NEW s \in Stations, Reset(s) PROVE ManagerInv' /\ TransferInv'
  <2>1. UNCHANGED mvars
    BY <1>3 DEF Reset
  <2> QED
    BY <1>3, <2>1, ResetKeeps, ManagerStays
<1>4. ASSUME NEW s \in Stations, News(s) PROVE ManagerInv' /\ TransferInv'
  <2>1. UNCHANGED tvars
    BY <1>4 DEF News
  <2>2. TransferInv'
    BY <1>0, <2>1, QuietKeeps DEF tvars
  <2> QED
    BY <1>4, <2>2, NewsKeeps
<1>5. ASSUME NEW s \in Stations, NEW v \in Vias, PullOnReturn(s, v)
      PROVE  ManagerInv' /\ TransferInv'
  <2>1. UNCHANGED mvars
    BY <1>5 DEF PullOnReturn, Dial
  <2> QED
    BY <1>5, <2>1, PullOnReturnKeeps, ManagerStays
<1>6. ASSUME NEW s \in Stations, NEW v \in Vias, PushTo(s, v)
      PROVE  ManagerInv' /\ TransferInv'
  <2>1. UNCHANGED mvars
    BY <1>6 DEF PushTo, Dial
  <2> QED
    BY <1>0, <1>6, <2>1, PushToKeeps, ManagerStays
<1>7. ASSUME NEW s \in Stations, NEW c \in Copies, Copy(s, c)
      PROVE  ManagerInv' /\ TransferInv'
  <2>1. Set(s, c) /\ UNCHANGED <<conn, at, wire, job, part, disk, link, given, fault>>
    BY <1>7 DEF Copy
  <2>2. TransferInv'
    BY <1>0, <2>1, QuietKeeps
  <2> QED
    BY <2>1, <2>2, SetKeeps
<1>8. ASSUME NetworkFails PROVE ManagerInv' /\ TransferInv'
  <2>1. /\ UNCHANGED <<conn, at, wire, job, part, disk, given>> /\ UNCHANGED mvars
        /\ link' \in {"up", "silent", "cut"} /\ fault' \in BOOLEAN
    BY <1>8 DEF NetworkFails
  <2>2. TransferInv'
    BY <2>1, QuietKeeps
  <2> QED
    BY <2>1, <2>2, ManagerStays
<1>9. ASSUME UNCHANGED vars PROVE ManagerInv' /\ TransferInv'
  <2>1. UNCHANGED mvars /\ UNCHANGED <<conn, at, wire, job, part, disk, link, given, fault>>
    BY <1>9 DEF vars, tvars
  <2>2. TransferInv'
    BY <1>0, <2>1, QuietKeeps
  <2> QED
    BY <2>1, <2>2, ManagerStays
<1> QED
  BY <1>1, <1>2, <1>3, <1>4, <1>5, <1>6, <1>7, <1>8, <1>9 DEF Next

-----------------------------------------------------------------------------
(* What holds of every transfer. *)

THEOREM ClipInvariance == Spec => [](ManagerInv /\ TransferInv)
<1>1. Init => ManagerInv /\ TransferInv
  BY ClipStart
<1>2. ManagerInv /\ TransferInv /\ [Next]_vars => (ManagerInv /\ TransferInv)'
  BY ClipStep
<1> QED
  BY <1>1, <1>2, PTL DEF Spec

\* Whatever is stored, by copying or from a transfer, replaces what was there:
\* Provide serves what was stored last (SetText, SetImage, SetFile and Provide of
\* clipboard/manager.go).
THEOREM ProvideServesLatest == Spec => []ProvideLatest
<1>1. ManagerInv /\ TransferInv => ProvideLatest
  BY ProvideIs DEF ManagerInv, ProvideLatest
<1> QED
  BY <1>1, ClipInvariance, PTL

\* The temporary file of a transfer lives as long as its connection and gets its
\* name with all the units in it (receiveFile and writeReceivedFile of
\* clipboard/transfer.go).
THEOREM FilesAreWhole == Spec => []NoPartialFile
<1>1. ManagerInv /\ TransferInv => NoPartialFile
  <2> SUFFICES ASSUME TransferInv, NEW s \in Stations
               PROVE  /\ disk[s] \in (Contents \ {<<>>}) \cup {None}
                      /\ at[s] \in Ended => part[s] = None
    BY DEF NoPartialFile
  <2>1. disk[s] \in (Contents \ {<<>>}) \cup {None}
    BY DEF TransferInv, TransferTypes
  <2>2. at[s] \in Ended => part[s] = None
    BY DEF TransferInv, PartInv, Ended
  <2> QED
    BY <2>1, <2>2
<1> QED
  BY <1>1, ClipInvariance, PTL

\* Types, and that a transfer never holds more than was announced.
THEOREM ClipTyped == Spec => []ClipTypeOK
<1>1. ManagerInv /\ TransferInv => ClipTypeOK
  <2> SUFFICES ASSUME ManagerInv, TransferInv PROVE ClipTypeOK
    OBVIOUS
  <2>1. ASSUME NEW s \in Stations
        PROVE  /\ store[s] \in [Kinds -> Contents \cup {None}]
               /\ source[s] \in Stations \cup Kinds \cup {None, NoData.name}
               /\ at[s] \in Reading \cup Writing \cup Ended
    BY DEF ManagerInv, ManagerTypes, TransferInv, TransferTypes, Names
  <2>2. ASSUME NEW s \in Stations
        PROVE  /\ Len(job[s].data) <= job[s].size
               /\ part[s] # None => at[s] = "payload" /\ job[s].name = "file"
    BY DEF TransferInv, PartInv
  <2>3. /\ gate \in [Stations -> BOOLEAN] /\ beat \in [Stations -> BOOLEAN]
        /\ link \in {"up", "silent", "cut"} /\ fault \in BOOLEAN
    BY DEF ManagerInv, ManagerTypes, TransferInv, TransferTypes
  <2> QED
    BY <2>1, <2>2, <2>3 DEF ClipTypeOK
<1> QED
  BY <1>1, ClipInvariance, PTL

\* A received transfer is what Provide returned on the other side, unit for unit:
\* whatever the block and the stride, wherever the network cut the stream and
\* whatever was copied meanwhile (SendTransfer, readExact and readStream of
\* clipboard/transfer.go).
THEOREM ReceiptIsSound == Spec => SoundReceipt
<1>1. ManagerInv /\ TransferInv /\ [Next]_vars
      => [\A s \in Stations : Deliver(s) =>
             given # None /\ job[s].name = given.name /\ job[s].data = given.data]_vars
  <2> SUFFICES ASSUME TransferInv, NEW s \in Stations, Deliver(s)
               PROVE  given # None /\ job[s].name = given.name /\ job[s].data = given.data
    OBVIOUS
  <2>1. at[s] = "payload" /\ Len(job[s].data) >= job[s].size
    BY DEF Deliver
  <2>2. job[s].data = given.data /\ job[s].name = given.name /\ given \in Offers
    BY <2>1, AllIsGiven
  <2> QED
    BY <2>2, OfferIs
<1> QED
  BY <1>1, ClipInvariance, PTL DEF Spec, SoundReceipt

-----------------------------------------------------------------------------
(* A pull that meets Serve directly: while nothing interferes, the source  *)
(* is a whole number of strides ahead, so that a reader that finds         *)
(* anything finds all it asked for, and what it still waits for when the   *)
(* source is through is on its way.                                        *)

Clean == conn.via = "direct" /\ ~conn.push /\ ~fault /\ conn.dialer \in Stations

InStrides(units) == \E n \in Nat : units = n * Stride

\* The source is through: the rest of what the reader needs is on the wire.
Enough ==
    /\ at[Dst] = "awaitHdr" => /\ Len(wire[Dst]) >= 2
                               /\ Len(given.data) <= (Len(wire[Dst]) - 2) * Block
    /\ at[Dst] = "awaitInfo" => /\ Len(wire[Dst]) >= 1
                                /\ Len(given.data) <= (Len(wire[Dst]) - 1) * Block
    /\ at[Dst] = "payload" =>
         Len(given.data) - Len(job[Dst].data) <= Len(wire[Dst]) * Block

PullPlaces ==
    /\ at[Src] \in {"awaitHdr", "answerPull", "sendInfo", "sendBlocks", "ok"}
    /\ at[Dst] \in {"sendHdr", "awaitHdr", "awaitInfo", "payload", "ok"}
    /\ at[Dst] = "sendHdr" => at[Src] = "awaitHdr"
    /\ at[Dst] = "ok" => at[Src] = "ok"

Request == wire[Src] = IF at[Src] = "awaitHdr" /\ at[Dst] # "sendHdr"
                       THEN <<Header(FALSE)>> ELSE <<>>

Ahead == at[Src] = "sendBlocks" =>
            /\ InStrides(Len(given.data) - Len(job[Src].data))
            /\ at[Dst] = "payload" => InStrides(Len(job[Dst].data))

PullInv == Clean => /\ link = "up" /\ PullPlaces /\ Request
                    /\ Ahead /\ (at[Src] = "ok" => Enough)

IdleInv == conn.dialer \notin Stations => \A s \in Stations : at[s] = "ok"

LEMMA PullEnds ==
    ASSUME Clean
    PROVE  /\ Src \in Stations /\ Dst \in Stations /\ Src # Dst /\ Stations = {Src, Dst}
           /\ Other(Src) = Dst /\ Other(Dst) = Src
           /\ Dst = conn.dialer /\ ~conn.push
<1>1. /\ conn.dialer \in Stations /\ ~conn.push /\ Src = Other(conn.dialer)
      /\ Dst = Other(Other(conn.dialer))
  BY DEF Clean, Src, Dst
<1> QED
  BY <1>1, Pair

\* A clean connection was clean before, unless it is new.
LEMMA CleanBefore ==
    ASSUME Clean', conn' = conn, fault' = fault \/ fault' = TRUE
    PROVE  Clean /\ fault' = fault
  BY DEF Clean

\* A step that neither end of a pull notices.
LEMMA PullStays ==
    ASSUME PullInv, UNCHANGED <<conn, at, wire, job, link, given>>,
           fault' = fault \/ fault' = TRUE
    PROVE  PullInv'
<1> SUFFICES ASSUME Clean'
             PROVE  /\ link' = "up" /\ PullPlaces' /\ Request'
                    /\ Ahead' /\ (at[Src] = "ok" => Enough)'
  BY DEF PullInv
<1>1. Clean
  <2>1. conn' = conn
    OBVIOUS
  <2> QED
    BY <2>1 DEF Clean
<1>2. /\ link = "up" /\ PullPlaces /\ Request
      /\ Ahead /\ (at[Src] = "ok" => Enough)
  BY <1>1 DEF PullInv
<1>3. Src' = Src /\ Dst' = Dst
  BY SameEnds
<1> QED
  BY <1>2, <1>3 DEF PullPlaces, Request, Ahead, Enough

-----------------------------------------------------------------------------
LEMMA StrideLess ==
    ASSUME NEW x \in Int, NEW y \in Int, x <= y
    PROVE  x * Stride <= y * Stride
  BY StrideAssumption, MultiplyBy

LEMMA StrideTimes ==
    ASSUME NEW n \in Nat
    PROVE  /\ n * Stride \in Nat /\ (n + 1) * Stride = n * Stride + Stride
           /\ 0 * Stride = 0 /\ 1 * Stride = Stride
  BY StrideAssumption

\* Two counts of whole strides are a stride apart.
LEMMA StrideApart ==
    ASSUME NEW x, InStrides(x), NEW y, InStrides(y), x < y
    PROVE  x \in Nat /\ y \in Nat /\ x + Stride <= y
<1>1. PICK n \in Nat : x = n * Stride
  BY DEF InStrides
<1>2. PICK m \in Nat : y = m * Stride
  BY DEF InStrides
<1>3. x \in Nat /\ y \in Nat
  BY <1>1, <1>2, StrideTimes
<1>4. n < m
  <2>1. m <= n => y <= x
    BY <1>1, <1>2, StrideLess
  <2> QED
    BY <1>3, <2>1
<1>5. (n + 1) * Stride <= m * Stride
  BY <1>4, StrideLess
<1>6. (n + 1) * Stride = x + Stride
  BY <1>1, StrideTimes
<1> QED
  BY <1>2, <1>3, <1>5, <1>6

LEMMA StrideMore ==
    ASSUME NEW x, InStrides(x)
    PROVE  InStrides(x + Stride) /\ InStrides(0)
<1>1. PICK n \in Nat : x = n * Stride
  BY DEF InStrides
<1>2. (n + 1) * Stride = x + Stride /\ n + 1 \in Nat
  BY <1>1, StrideTimes
<1>3. 0 * Stride = 0
  BY StrideTimes
<1> QED
  BY <1>2, <1>3 DEF InStrides

\* What the next read asks for: at most a stride, and no more than there is, save
\* for the tail of a block; a whole stride while more than that is left.
LEMMA NextReadFits ==
    ASSUME NEW left \in Nat, left > 0, NEW blocks \in Nat
    PROVE  /\ NextRead(left) \in Nat \ {0}
           /\ left <= blocks * Block => NextRead(left) <= blocks
           /\ Stride <= blocks * Block => NextRead(left) <= blocks
           /\ Stride <= left => NextRead(left) * Block = Stride
<1> DEFINE take == Least(left, Stride)
           q == take \div Block
<1>1. /\ take \in Nat \ {0} /\ take <= left /\ take <= Stride
      /\ Stride <= left => take = Stride
  BY StrideAssumption DEF Least
<1> HIDE DEF take
<1>2. q \in Nat /\ take % Block \in 0..Block - 1 /\ take = q * Block + (take % Block)
  BY <1>1, InBlocks
<1>3. q * Block \in Nat /\ blocks * Block \in Nat
  BY <1>2, Times
<1>4. NextRead(left) = IF take >= Block THEN q ELSE 1
  BY DEF NextRead, take
<1> HIDE DEF q
<1>5. q * Block <= take
  BY <1>1, <1>2, <1>3, BlockIs
<1>6. take >= Block => q # 0
  BY <1>1, <1>2, BlockIs
<1>7. ASSUME take <= blocks * Block PROVE NextRead(left) <= blocks
  <2>1. CASE take >= Block
    <3>1. q > blocks => (blocks + 1) * Block <= q * Block
      BY <1>2, TimesLess
    <3>2. (blocks + 1) * Block = blocks * Block + 1 * Block
      BY TimesSum
    <3>3. q <= blocks
      BY <1>1, <1>2, <1>3, <1>5, <1>7, <3>1, <3>2, BlockIs
    <3> QED
      BY <1>4, <2>1, <3>3
  <2>2. CASE ~(take >= Block)
    <3>1. blocks = 0 => blocks * Block = 0
      BY BlockIs
    <3>2. blocks # 0
      BY <1>1, <1>7, <3>1
    <3> QED
      BY <1>4, <2>2, <3>2
  <2> QED
    BY <2>1, <2>2
<1>8. left <= blocks * Block => NextRead(left) <= blocks
  BY <1>1, <1>3, <1>7
<1>9. Stride <= blocks * Block => NextRead(left) <= blocks
  BY <1>1, <1>3, <1>7, StrideAssumption
<1>10. ASSUME Stride <= left PROVE NextRead(left) * Block = Stride
  <2>1. take = Stride /\ take % Block = 0
    BY <1>1, <1>10, StrideAssumption
  <2>2. take = q * Block
    BY <1>2, <1>3, <2>1
  <2>3. q # 0
    BY <1>1, <2>2, BlockIs
  <2>4. 1 * Block <= q * Block
    BY <1>2, <2>3, TimesLess
  <2>5. take >= Block
    BY <2>2, <2>4, BlockIs
  <2> QED
    BY <1>4, <2>1, <2>2, <2>5
<1> QED
  BY <1>2, <1>4, <1>6, <1>8, <1>9, <1>10

-----------------------------------------------------------------------------
LEMMA PullFacts ==
    ASSUME PullInv, Clean
    PROVE  link = "up" /\ PullPlaces /\ Request /\ Ahead /\ (at[Src] = "ok" => Enough)
  BY DEF PullInv

\* What the wire holds while the source sends blocks: the units it has written
\* and the reader has not got, after the items before them.
LEMMA WireHolds ==
    ASSUME TransferInv, PullInv, Clean, at[Src] = "sendBlocks"
    PROVE  LET units == Len(given.data) - Len(job[Src].data)
               there == Len(wire[Dst])
           IN  /\ given \in Offers /\ job[Src].data \in Seq(Nat)
               /\ Len(job[Src].data) \in Nat \ {0} /\ units \in Nat /\ there \in Nat
               /\ at[Dst] \in {"awaitHdr", "awaitInfo", "payload"}
               /\ at[Dst] = "awaitHdr" => there >= 2 /\ (there - 2) * Block = units
               /\ at[Dst] = "awaitInfo" => there >= 1 /\ (there - 1) * Block = units
               /\ at[Dst] = "payload" =>
                    /\ Len(job[Dst].data) \in Nat /\ job[Dst].size = Len(given.data)
                    /\ units = Len(job[Dst].data) + there * Block
<1> DEFINE d == job[Src].data
           N == Len(given.data)
           w == Len(wire[Dst])
<1>1. /\ Src \in Stations /\ Dst \in Stations /\ Src # Dst /\ ~conn.push
  BY PullEnds
<1>2. at[Dst] \in {"awaitHdr", "awaitInfo", "payload"}
  BY PullFacts DEF PullPlaces
<1>3. at[Dst] \notin Ended /\ Live
  BY <1>1, <1>2 DEF Live, Ended
<1>4. PICK k \in Nat : Stream(k)
  BY <1>3 DEF TransferInv, StreamInv
<1>5. wire[Dst] \in Seq(Items) /\ w \in Nat /\ job[Dst].data \in Seq(Nat)
  BY <1>1 DEF TransferInv, TransferTypes, Jobs
<1>6. PICK n \in Nat : n = k + w
  BY <1>5
<1>7. Written(n) /\ Got(k)
  BY <1>4, <1>6 DEF Stream
<1>8. Left(n, d) /\ given \in Offers
  <2>1. Left(n, d)
    BY <1>7 DEF Written
  <2>2. n >= 1
    BY <2>1 DEF Left
  <2> QED
    BY <1>7, <2>1, <2>2 DEF Written
<1>9. /\ n >= 2 /\ (n - 2) * Block < N /\ (n - 2) * Block \in Nat /\ N \in Nat
      /\ d \in Seq(Nat) /\ Len(d) \in Nat \ {0} /\ Len(d) = N - (n - 2) * Block
  <2>1. n >= 2 /\ (n - 2) * Block < N
    BY <1>8 DEF Left
  <2> HIDE DEF d
  <2> QED
    BY <1>8, <2>1, RestIs
<1>10. N - Len(d) = (n - 2) * Block /\ N - Len(d) \in Nat
  <2> HIDE DEF N, d
  <2> QED
    BY <1>9
<1>11. ASSUME at[Dst] = "awaitHdr" PROVE w >= 2 /\ (w - 2) * Block = N - Len(d)
  <2>1. k = 0
    BY <1>1, <1>7, <1>11 DEF Got
  <2>2. n = w
    BY <1>5, <1>6, <2>1
  <2> QED
    BY <1>9, <1>10, <2>2
<1>12. ASSUME at[Dst] = "awaitInfo" PROVE w >= 1 /\ (w - 1) * Block = N - Len(d)
  <2>1. k = 1
    BY <1>7, <1>12 DEF Got
  <2>2. n - 2 = w - 1 /\ w >= 1
    BY <1>5, <1>6, <1>9, <2>1
  <2> QED
    BY <1>10, <2>2
<1>13. ASSUME at[Dst] = "payload"
       PROVE  /\ Len(job[Dst].data) \in Nat /\ job[Dst].size = N
              /\ N - Len(d) = Len(job[Dst].data) + w * Block
  <2> DEFINE g == Len(job[Dst].data)
  <2>1. /\ k >= 2 /\ job[Dst].size = N
        /\ g = (k - 2) * Block \/ (g = N /\ N <= (k - 2) * Block)
    BY <1>7, <1>13 DEF Got
  <2>2. (k - 2) * Block <= (n - 2) * Block
    <3>1. k - 2 <= n - 2
      BY <1>5, <1>6
    <3> QED
      BY <1>9, <2>1, <3>1, TimesLess
  <2>3. (k - 2) * Block \in Nat
    BY <2>1, Times
  <2> DEFINE behind == (k - 2) * Block
             ahead == (n - 2) * Block
  <2>4. behind \in Nat /\ ahead \in Nat /\ behind <= ahead /\ ahead < N /\ N \in Nat
    BY <1>9, <2>2, <2>3
  <2>5. g = behind \/ (g = N /\ N <= behind)
    BY <2>1
  <2> HIDE DEF behind, ahead, N, g
  <2>6. g = behind
    BY <2>4, <2>5
  <2> USE DEF behind, ahead
  <2>7. (k - 2 + w) * Block = (k - 2) * Block + w * Block
    <3>1. k - 2 \in Int /\ w \in Int
      BY <1>5
    <3> HIDE DEF w, behind, ahead
    <3> QED
      BY <3>1, TimesSum
  <2>8. k - 2 + w = n - 2
    BY <1>5, <1>6
  <2>9. ahead = behind + w * Block
    BY <2>7, <2>8
  <2> HIDE DEF behind, ahead
  <2>10. N - Len(d) = g + w * Block /\ g \in Nat
    BY <1>10, <2>4, <2>6, <2>9 DEF ahead
  <2> QED
    BY <2>1, <2>10 DEF g, N
<1> QED
  BY <1>2, <1>5, <1>8, <1>9, <1>10, <1>11, <1>12, <1>13

\* A reader of blocks that has not got all, and finds any while the source sends,
\* finds a whole stride; when the source is through, it finds the rest.
LEMMA FindsEnough ==
    ASSUME TransferInv, PullInv, Clean, at[Dst] = "payload", Len(job[Dst].data) < job[Dst].size,
           \/ at[Src] = "sendBlocks" /\ Len(wire[Dst]) >= 1
           \/ at[Src] = "ok"
    PROVE  NextRead(job[Dst].size - Len(job[Dst].data)) <= Len(wire[Dst])
<1> DEFINE N == Len(given.data)
           g == Len(job[Dst].data)
           w == Len(wire[Dst])
<1>1. Dst \in Stations
  BY PullEnds
<1>2. job[Dst].size = N /\ given \in Offers
  BY <1>1, InPayload
<1>3. wire[Dst] \in Seq(Items) /\ w \in Nat /\ job[Dst].data \in Seq(Nat) /\ g \in Nat
  BY <1>1 DEF TransferInv, TransferTypes, Jobs
<1>4. N \in Nat
  BY <1>2, OfferIs
<1>5. N - g \in Nat /\ N - g > 0 /\ w * Block \in Nat
  <2>1. g < N /\ w * Block \in Nat
    BY <1>2, <1>3, Times
  <2> HIDE DEF g, N, w
  <2> QED
    BY <1>3, <1>4, <2>1
<1>6. CASE at[Src] = "sendBlocks"
  <2> DEFINE units == N - Len(job[Src].data)
  <2>1. units \in Nat /\ units = g + w * Block
    BY <1>6, WireHolds
  <2>2. InStrides(units) /\ InStrides(g)
    BY <1>6, PullFacts DEF Ahead
  <2>3. 1 * Block <= w * Block /\ w >= 1
    <3>1. w >= 1
      BY <1>6
    <3> QED
      BY <1>3, <3>1, TimesLess
  <2> HIDE DEF units, g, w, N
  <2>4. g < units
    BY <1>3, <1>5, <2>1, <2>3, BlockIs
  <2>5. g + Stride <= units
    BY <2>2, <2>4, StrideApart
  <2>6. Stride <= w * Block
    BY <1>3, <1>5, <2>1, <2>5, StrideAssumption
  <2>7. NextRead(N - g) <= w
    BY <1>3, <1>5, <2>6, NextReadFits
  <2> QED
    BY <1>2, <2>7 DEF g, w
<1>7. CASE at[Src] = "ok"
  <2>1. N - g <= w * Block
    BY <1>7, PullFacts DEF Enough
  <2> HIDE DEF N, g, w
  <2>2. NextRead(N - g) <= w
    BY <1>3, <1>5, <2>1, NextReadFits
  <2> QED
    BY <1>2, <2>2 DEF g, w
<1> QED
  BY <1>6, <1>7

-----------------------------------------------------------------------------
(* The steps of a pull. *)

LEMMA SendHeaderPulls ==
    ASSUME TransferInv, PullInv, NEW s \in Stations, SendHeader(s)
    PROVE  PullInv'
<1> SUFFICES ASSUME Clean'
             PROVE  /\ link' = "up" /\ PullPlaces' /\ Request'
                    /\ Ahead' /\ (at[Src] = "ok" => Enough)'
  BY DEF PullInv
<1>1. /\ at[s] = "sendHdr" /\ Write(s, <<Header(conn.push)>>)
      /\ GoTo(s, IF conn.push THEN "sendInfo" ELSE "awaitHdr")
      /\ conn' = conn /\ link' = link /\ fault' = fault
  BY DEF SendHeader
<1>2. Clean
  BY <1>1, CleanBefore
<1>3. /\ link = "up" /\ PullPlaces /\ Request
      /\ Src \in Stations /\ Dst \in Stations /\ Src # Dst /\ Stations = {Src, Dst}
      /\ Other(Dst) = Src /\ ~conn.push /\ TransferTypes
  BY <1>2, PullFacts, PullEnds DEF TransferInv
<1>4. s = Dst
  BY <1>1, <1>3 DEF PullPlaces
<1>5. at[Src] = "awaitHdr" /\ wire[Src] = <<>>
  BY <1>1, <1>3, <1>4 DEF PullPlaces, Request
<1>6. wire'[Src] = <<Header(FALSE)>>
  <2>1. wire'[Src] = wire[Src] \o <<Header(FALSE)>>
    <3>1. conn.push = FALSE
      BY <1>3 DEF TransferTypes
    <3>2. Write(s, <<Header(FALSE)>>)
      BY <1>1, <3>1
    <3> QED
      BY <1>3, <1>4, <3>2, HeaderIs, WireWritten
  <2> QED
    BY <1>5, <2>1
<1>7. at'[Dst] = "awaitHdr" /\ at'[Src] = "awaitHdr"
  BY <1>1, <1>3, <1>4, <1>5, AtMoved
<1>8. Src' = Src /\ Dst' = Dst
  BY <1>1, SameEnds
<1> QED
  BY <1>1, <1>3, <1>6, <1>7, <1>8 DEF PullPlaces, Request, Ahead, Enough, Header

LEMMA ReadHeaderPulls ==
    ASSUME TransferInv, PullInv, NEW s \in Stations, ReadHeader(s)
    PROVE  PullInv'
<1> SUFFICES ASSUME Clean'
             PROVE  /\ link' = "up" /\ PullPlaces' /\ Request'
                    /\ Ahead' /\ (at[Src] = "ok" => Enough)'
  BY DEF PullInv
<1> DEFINE item == Head(wire[s])
           place == IF item.tag # "header" THEN "failed"
                    ELSE IF s = conn.dialer THEN (IF item.push THEN "awaitInfo" ELSE "failed")
                    ELSE IF item.push THEN "answerPush" ELSE "answerPull"
<1>1. /\ at[s] = "awaitHdr" /\ Take(s, 1) /\ GoTo(s, place)
      /\ conn' = conn /\ link' = link /\ fault' = fault /\ job' = job /\ given' = given
  BY DEF ReadHeader
<1>2. Clean
  BY <1>1, CleanBefore
<1>3. /\ link = "up" /\ PullPlaces /\ Request /\ Ahead /\ (at[Src] = "ok" => Enough)
      /\ Src \in Stations /\ Dst \in Stations /\ Src # Dst /\ Stations = {Src, Dst}
      /\ Other(Dst) = Src /\ Other(Src) = Dst /\ Dst = conn.dialer /\ ~conn.push /\ TransferTypes
  BY <1>2, PullFacts, PullEnds DEF TransferInv
<1>4. Src' = Src /\ Dst' = Dst
  BY <1>1, SameEnds
<1>5. /\ 1 \in 0..Len(wire[s]) /\ wire[s] \in Seq(Items)
      /\ wire'[s] = SubSeq(wire[s], 1 + 1, Len(wire[s])) /\ wire'[Other(s)] = wire[Other(s)]
      /\ Len(wire'[s]) = Len(wire[s]) - 1
  <2>1. Take(s, 1) /\ TransferTypes /\ 1 \in Nat
    BY <1>1, <1>3
  <2> HIDE DEF item, place
  <2> QED
    BY <2>1, WireTaken
<1>6. item = wire[s][1]
  BY <1>5, HeadIs
<1>7. CASE s = Src
  <2>1. wire[Src] = <<Header(FALSE)>> /\ at[Dst] # "sendHdr"
    <3>1. wire[Src] # <<>>
      BY <1>5, <1>7
    <3> QED
      BY <1>1, <1>3, <1>7, <3>1 DEF Request
  <2>2. item = Header(FALSE)
    BY <1>6, <1>7, <2>1
  <2>3. place = "answerPull"
    BY <1>3, <1>7, <2>2 DEF Header
  <2>4. wire'[Src] = <<>>
    <3>1. Len(wire[Src]) = 1
      BY <2>1
    <3>2. Len(wire'[Src]) = 0 /\ wire'[Src] \in Seq(Items)
      BY <1>3, <1>5, <1>7, <3>1, <1>1, WireTaken
    <3> QED
      BY <3>2
  <2> HIDE DEF place
  <2>5. at'[Src] = "answerPull" /\ at'[Dst] = at[Dst]
    BY <1>1, <1>3, <1>7, <2>3, AtMoved
  <2>6. at[Dst] # "ok"
    BY <1>1, <1>3, <1>7 DEF PullPlaces
  <2> QED
    BY <1>1, <1>3, <1>4, <2>1, <2>4, <2>5, <2>6 DEF PullPlaces, Request, Ahead, Enough
<1>8. CASE s = Dst
  <2>1. Live /\ at[Dst] \notin Ended
    BY <1>1, <1>3, <1>8 DEF Live, Ended
  <2>2. PICK k \in Nat : Stream(k)
    BY <2>1 DEF TransferInv, StreamInv
  <2>3. k = 0
    BY <1>1, <1>3, <1>8, <2>2 DEF Stream, Got
  <2>4. item = Item(1)
    BY <1>5, <1>6, <1>8, <2>2, <2>3 DEF Stream
  <2>5. item = Header(TRUE)
    BY <2>4 DEF Item
  <2>6. place = "awaitInfo"
    BY <1>3, <1>8, <2>5 DEF Header
  <2> HIDE DEF place
  <2>7. at'[Dst] = "awaitInfo" /\ at'[Src] = at[Src] /\ wire'[Src] = wire[Src]
    BY <1>1, <1>3, <1>5, <1>8, <2>6, AtMoved
  <2>8. at[Src] = "ok" => /\ Len(wire'[Dst]) >= 1
                          /\ Len(given.data) <= (Len(wire'[Dst]) - 1) * Block
    <3>1. ASSUME at[Src] = "ok" PROVE Len(wire[Dst]) >= 2
                                   /\ Len(given.data) <= (Len(wire[Dst]) - 2) * Block
      BY <1>1, <1>3, <1>8, <3>1 DEF Enough
    <3>2. PICK n \in Nat : n = Len(wire[Dst])
      BY <1>5, <1>8
    <3>3. n >= 1 /\ Len(wire'[Dst]) = n - 1 /\ n - 2 = n - 1 - 1
      BY <1>5, <1>8, <3>2
    <3>4. at[Src] = "ok" => Len(wire'[Dst]) >= 1
      BY <3>1, <3>2, <3>3
    <3> QED
      BY <3>1, <3>2, <3>3, <3>4
  <2> QED
    BY <1>1, <1>3, <1>4, <1>8, <2>7, <2>8 DEF PullPlaces, Request, Ahead, Enough
<1> QED
  BY <1>3, <1>7, <1>8

LEMMA AnswerPulls ==
    ASSUME TransferInv, PullInv, NEW s \in Stations, Answer(s)
    PROVE  PullInv'
<1> SUFFICES ASSUME Clean'
             PROVE  /\ link' = "up" /\ PullPlaces' /\ Request'
                    /\ Ahead' /\ (at[Src] = "ok" => Enough)'
  BY DEF PullInv
<1>1. /\ at[s] \in {"answerPush", "answerPull"} /\ Write(s, <<Header(TRUE)>>)
      /\ at[s] = "answerPull" => GoTo(s, "sendInfo")
      /\ conn' = conn /\ link' = link /\ fault' = fault
  BY DEF Answer
<1>2. Clean
  BY <1>1, CleanBefore
<1>3. /\ link = "up" /\ PullPlaces /\ Request
      /\ Src \in Stations /\ Dst \in Stations /\ Src # Dst /\ Stations = {Src, Dst}
      /\ Other(Src) = Dst /\ TransferTypes
  BY <1>2, PullFacts, PullEnds DEF TransferInv
<1>4. s = Src /\ at[Src] = "answerPull"
  BY <1>1, <1>3 DEF PullPlaces
<1>5. wire'[Src] = wire[Src]
  BY <1>1, <1>3, <1>4, HeaderIs, WireWritten
<1>6. at'[Src] = "sendInfo" /\ at'[Dst] = at[Dst]
  BY <1>1, <1>3, <1>4, AtMoved
<1>7. Src' = Src /\ Dst' = Dst
  BY <1>1, SameEnds
<1> QED
  BY <1>1, <1>3, <1>4, <1>5, <1>6, <1>7 DEF PullPlaces, Request, Ahead, Enough

LEMMA SendInfoPulls ==
    ASSUME TransferInv, PullInv, NEW s \in Stations, SendInfo(s)
    PROVE  PullInv'
<1> SUFFICES ASSUME Clean'
             PROVE  /\ link' = "up" /\ PullPlaces' /\ Request'
                    /\ Ahead' /\ (at[Src] = "ok" => Enough)'
  BY DEF PullInv
<1>1. /\ at[s] = "sendInfo" /\ Write(s, <<Info(job[s].size, job[s].name)>>)
      /\ GoTo(s, IF job[s].size = 0 THEN "ok" ELSE "sendBlocks")
      /\ conn' = conn /\ link' = link /\ fault' = fault /\ job' = job /\ given' = given
  BY DEF SendInfo
<1>2. Clean
  BY <1>1, CleanBefore
<1>3. /\ link = "up" /\ PullPlaces /\ Request
      /\ Src \in Stations /\ Dst \in Stations /\ Src # Dst /\ Stations = {Src, Dst}
      /\ Other(Src) = Dst /\ TransferTypes
  BY <1>2, PullFacts, PullEnds DEF TransferInv
<1>4. Src' = Src /\ Dst' = Dst
  BY <1>1, SameEnds
<1>5. s = Src /\ at[Src] = "sendInfo" /\ at[Dst] \in {"awaitHdr", "awaitInfo", "payload"}
  BY <1>1, <1>3 DEF PullPlaces
<1>6. Live /\ at[Dst] \notin Ended
  BY <1>3, <1>5 DEF Live, Ended
<1>7. PICK k \in Nat : Stream(k)
  BY <1>6 DEF TransferInv, StreamInv
<1>8. PICK w \in Nat : w = Len(wire[Dst])
  BY <1>3 DEF TransferTypes
<1>9. PICK n \in Nat : n = k + w
  OBVIOUS
<1>10. n = 1 /\ job[Src] = Whole /\ given \in Offers
  BY <1>5, <1>7, <1>8, <1>9 DEF Stream, Written
<1>11. /\ at[Dst] = "awaitHdr" => w = 1
       /\ at[Dst] = "awaitInfo" => w = 0
       /\ at[Dst] # "payload"
  <2>1. /\ at[Dst] = "awaitHdr" => k = 0
        /\ at[Dst] = "awaitInfo" => k = 1
        /\ at[Dst] = "payload" => k >= 2
    BY <1>2, <1>7 DEF Stream, Got, Clean
  <2> QED
    BY <1>9, <1>10, <2>1
<1>12. Len(given.data) \in Nat /\ given.name \in Names
  BY <1>10, OfferIs
<1>13. /\ wire'[Src] = wire[Src] /\ Len(wire'[Dst]) = w + 1
  <2> DEFINE x == <<Info(job[s].size, job[s].name)>>
  <2>1. x \in Seq(Items) /\ Len(x) = 1
    BY <1>5, <1>10, <1>12 DEF Whole, Info, Items
  <2> HIDE DEF x
  <2>2. Write(s, x)
    BY <1>1 DEF x
  <2>3. Write(Src, x)
    BY <1>5, <2>2
  <2>4. wire'[Other(Src)] = wire[Other(Src)] \o x /\ wire'[Src] = wire[Src]
        /\ Len(wire'[Other(Src)]) = Len(wire[Other(Src)]) + Len(x)
    BY <1>3, <2>1, <2>3, WireWritten
  <2> QED
    BY <1>3, <1>8, <2>1, <2>4
<1>14. /\ at'[Dst] = at[Dst]
       /\ at'[Src] = IF Len(given.data) = 0 THEN "ok" ELSE "sendBlocks"
  <2>1. job[s].size = Len(given.data)
    BY <1>5, <1>10 DEF Whole
  <2> QED
    BY <1>1, <1>3, <1>5, <2>1, AtMoved
<1>15. InStrides(Len(given.data) - Len(job[Src].data))
  <2>1. Len(given.data) - Len(job[Src].data) = 0
    BY <1>10, <1>12 DEF Whole
  <2>2. InStrides(0)
    <3>1. 0 * Stride = 0
      BY StrideTimes
    <3> QED
      BY <3>1 DEF InStrides
  <2> QED
    BY <2>1, <2>2
<1>16. Request' /\ PullPlaces'
  BY <1>3, <1>4, <1>5, <1>13, <1>14 DEF Request, PullPlaces
<1>17. Ahead'
  BY <1>1, <1>4, <1>5, <1>11, <1>14, <1>15 DEF Ahead, InStrides
<1>18. ASSUME at'[Src] = "ok" PROVE Enough'
  <2>1. Len(given.data) = 0
    BY <1>14, <1>18
  <2>2. 0 * Block = 0
    BY BlockIs
  <2>3. at[Dst] = "awaitHdr" => Len(wire'[Dst]) >= 2 /\ 0 <= (Len(wire'[Dst]) - 2) * Block
    BY <1>11, <1>13, <2>2
  <2>4. at[Dst] = "awaitInfo" => Len(wire'[Dst]) >= 1 /\ 0 <= (Len(wire'[Dst]) - 1) * Block
    BY <1>11, <1>13, <2>2
  <2> QED
    BY <1>1, <1>4, <1>11, <1>14, <2>1, <2>3, <2>4 DEF Enough
<1> QED
  BY <1>1, <1>3, <1>4, <1>16, <1>17, <1>18

\* A reader of blocks is behind a source that sends blocks, or is through.
LEMMA InBlocksBehind ==
    ASSUME TransferInv, PullInv, Clean, at[Dst] = "payload"
    PROVE  at[Src] \in {"sendBlocks", "ok"}
<1>1. PullPlaces /\ Dst \in Stations
  BY PullFacts, PullEnds
<1>2. PICK k \in Nat : Stream(k) /\ k >= 2
  BY <1>1, InPayload
<1>3. wire[Dst] \in Seq(Items) /\ Len(wire[Dst]) \in Nat
  BY <1>1 DEF TransferInv, TransferTypes
<1>4. PICK n \in Nat : n = k + Len(wire[Dst])
  BY <1>3
<1>5. n >= 2 /\ Written(n)
  BY <1>2, <1>3, <1>4 DEF Stream
<1> QED
  BY <1>1, <1>5 DEF PullPlaces, Written

LEMMA DeliverPulls ==
    ASSUME TransferInv, PullInv, NEW s \in Stations, Deliver(s)
    PROVE  PullInv'
<1> SUFFICES ASSUME Clean'
             PROVE  /\ link' = "up" /\ PullPlaces' /\ Request'
                    /\ Ahead' /\ (at[Src] = "ok" => Enough)'
  BY DEF PullInv
<1>1. /\ at[s] = "payload" /\ Len(job[s].data) >= job[s].size /\ GoTo(s, "ok")
      /\ conn' = conn /\ link' = link /\ fault' = fault /\ job' = job /\ given' = given
      /\ wire' = wire
  BY DEF Deliver
<1>2. Clean
  BY <1>1, CleanBefore
<1>3. /\ link = "up" /\ PullPlaces /\ Request
      /\ Src \in Stations /\ Dst \in Stations /\ Src # Dst /\ Stations = {Src, Dst}
      /\ TransferTypes
  BY <1>2, PullFacts, PullEnds DEF TransferInv
<1>4. s = Dst
  BY <1>1, <1>3 DEF PullPlaces
<1>5. at[Src] # "sendBlocks"
  <2> SUFFICES ASSUME at[Src] = "sendBlocks" PROVE FALSE
    OBVIOUS
  <2> DEFINE N == Len(given.data)
             g == Len(job[Dst].data)
             d == Len(job[Src].data)
             w == Len(wire[Dst])
  <2>1. /\ d \in Nat \ {0} /\ N - d \in Nat /\ w \in Nat /\ g \in Nat
        /\ job[Dst].size = N /\ N - d = g + w * Block /\ given \in Offers
    BY <1>1, <1>2, <1>4, WireHolds
  <2>2. w * Block \in Nat /\ N \in Nat /\ g >= N
    BY <1>1, <1>4, <2>1, Times, OfferIs
  <2> HIDE DEF N, g, d, w
  <2> QED
    BY <2>1, <2>2
<1>6. at[Src] = "ok"
  BY <1>1, <1>2, <1>4, <1>5, InBlocksBehind
<1>7. at'[Dst] = "ok" /\ at'[Src] = "ok"
  BY <1>1, <1>3, <1>4, <1>6, AtMoved
<1>8. Src' = Src /\ Dst' = Dst
  BY <1>1, SameEnds
<1> QED
  BY <1>1, <1>3, <1>6, <1>7, <1>8 DEF PullPlaces, Request, Ahead, Enough

LEMMA ReadInfoPulls ==
    ASSUME TransferInv, PullInv, NEW s \in Stations, ReadInfo(s)
    PROVE  PullInv'
<1> SUFFICES ASSUME Clean'
             PROVE  /\ link' = "up" /\ PullPlaces' /\ Request'
                    /\ Ahead' /\ (at[Src] = "ok" => Enough)'
  BY DEF PullInv
<1> DEFINE item == Head(wire[s])
<1>1. /\ at[s] = "awaitInfo" /\ Take(s, 1)
      /\ item.tag = "info" =>
           /\ job' = [job EXCEPT ![s] = [name |-> item.name, size |-> item.size, data |-> <<>>]]
           /\ GoTo(s, "payload")
      /\ conn' = conn /\ link' = link /\ fault' = fault /\ given' = given
  BY DEF ReadInfo
<1>2. Clean
  BY <1>1, CleanBefore
<1>3. /\ link = "up" /\ PullPlaces /\ Request /\ Ahead /\ (at[Src] = "ok" => Enough)
      /\ Src \in Stations /\ Dst \in Stations /\ Src # Dst /\ Stations = {Src, Dst}
      /\ Other(Dst) = Src /\ TransferTypes
  BY <1>2, PullFacts, PullEnds DEF TransferInv
<1>4. Src' = Src /\ Dst' = Dst
  BY <1>1, SameEnds
<1>5. s = Dst /\ at[Dst] \notin Ended /\ Live
  BY <1>1, <1>3 DEF PullPlaces, Live, Ended
<1>6. PICK k \in Nat : Stream(k)
  BY <1>5 DEF TransferInv, StreamInv
<1>7. /\ 1 \in 0..Len(wire[s]) /\ wire[s] \in Seq(Items) /\ wire'[Src] = wire[Src]
      /\ Len(wire'[Dst]) = Len(wire[Dst]) - 1
  BY <1>1, <1>3, <1>5, WireTaken
<1>8. item.tag = "info"
  <2>1. k = 1
    BY <1>1, <1>5, <1>6 DEF Stream, Got
  <2>2. item = wire[Dst][1]
    BY <1>5, <1>7, HeadIs
  <2>3. item = Item(1 + 1)
    BY <1>5, <1>6, <1>7, <2>1, <2>2 DEF Stream
  <2> QED
    BY <2>3 DEF Item, Info
<1> HIDE DEF item
<1>9. /\ at'[Dst] = "payload" /\ at'[Src] = at[Src]
      /\ job'[Dst].data = <<>> /\ job'[Src] = job[Src] /\ Len(<<>>) = 0
  BY <1>1, <1>3, <1>5, <1>8, AtMoved DEF TransferTypes
<1>10. InStrides(0)
  <2>1. 0 * Stride = 0
    BY StrideTimes
  <2> QED
    BY <2>1 DEF InStrides
<1>11. Request' /\ PullPlaces'
  BY <1>1, <1>3, <1>4, <1>5, <1>7, <1>9 DEF Request, PullPlaces
<1>12. Ahead'
  BY <1>1, <1>3, <1>4, <1>9, <1>10 DEF Ahead, InStrides
<1>13. ASSUME at[Src] = "ok"
       PROVE  Len(given.data) - 0 <= Len(wire'[Dst]) * Block
  <2>1. Len(given.data) <= (Len(wire[Dst]) - 1) * Block
    BY <1>1, <1>3, <1>5, <1>13 DEF Enough
  <2>2. Len(given.data) \in Nat
    <3>1. Got(k) /\ Written(k + Len(wire[Dst])) /\ k = 1 /\ Len(wire[Dst]) \in Nat
      BY <1>1, <1>5, <1>6, <1>7 DEF Stream, Got
    <3>2. PICK n \in Nat : n = k + Len(wire[Dst])
      BY <3>1
    <3>3. Written(n) /\ n >= 1
      BY <3>1, <3>2
    <3> QED
      BY <3>3, OfferIs DEF Written
  <2> QED
    BY <1>7, <2>1, <2>2
<1>14. at'[Src] = "ok" => Enough'
  BY <1>1, <1>4, <1>9, <1>13 DEF Enough
<1> QED
  BY <1>1, <1>3, <1>4, <1>11, <1>12, <1>14

LEMMA SendChunkPulls ==
    ASSUME TransferInv, PullInv, NEW s \in Stations, SendChunk(s)
    PROVE  PullInv'
<1> SUFFICES ASSUME Clean'
             PROVE  /\ link' = "up" /\ PullPlaces' /\ Request'
                    /\ Ahead' /\ (at[Src] = "ok" => Enough)'
  BY DEF PullInv
<1> DEFINE d == job[s].data
           m == Least(Stride, Len(d))
           bs == Blocks(SubSeq(d, 1, m))
<1>1. /\ at[s] = "sendBlocks" /\ Write(s, bs)
      /\ job' = [job EXCEPT ![s].data = SubSeq(d, m + 1, Len(d))]
      /\ GoTo(s, IF m = Len(d) THEN "ok" ELSE "sendBlocks")
      /\ conn' = conn /\ link' = link /\ fault' = fault /\ given' = given
  BY DEF SendChunk
<1>2. Clean
  BY <1>1, CleanBefore
<1>3. /\ link = "up" /\ PullPlaces /\ Request /\ Ahead
      /\ Src \in Stations /\ Dst \in Stations /\ Src # Dst /\ Stations = {Src, Dst}
      /\ Other(Src) = Dst /\ TransferTypes
  BY <1>2, PullFacts, PullEnds DEF TransferInv
<1>4. Src' = Src /\ Dst' = Dst
  BY <1>1, SameEnds
<1>5. s = Src /\ at[Src] = "sendBlocks"
  BY <1>1, <1>3 DEF PullPlaces
<1> DEFINE N == Len(given.data)
           w == Len(wire[Dst])
           g == Len(job[Dst].data)
<1>6. /\ d \in Seq(Nat) /\ Len(d) \in Nat \ {0} /\ N - Len(d) \in Nat /\ w \in Nat
      /\ at[Dst] \in {"awaitHdr", "awaitInfo", "payload"} /\ given \in Offers
      /\ at[Dst] = "awaitHdr" => w >= 2 /\ (w - 2) * Block = N - Len(d)
      /\ at[Dst] = "awaitInfo" => w >= 1 /\ (w - 1) * Block = N - Len(d)
      /\ at[Dst] = "payload" => g \in Nat /\ N - Len(d) = g + w * Block
  BY <1>2, <1>5, WireHolds
<1>7. N \in Nat
  BY <1>6, OfferIs
<1>8. m \in 1..Len(d) /\ SubSeq(d, 1, m) \in Seq(Nat) /\ Len(SubSeq(d, 1, m)) = m
  <2> HIDE DEF d
  <2> QED
    BY <1>6, ChunkIs
<1>9. bs \in Seq(Items) /\ Len(bs) = (m + Block - 1) \div Block /\ Len(bs) \in Nat
  <2> HIDE DEF d, m
  <2> QED
    BY <1>8, BlocksAre
<1>10. m <= Len(bs) * Block /\ Len(bs) * Block \in Nat
  <2>1. m \in Nat /\ Len(bs) \in Int
    BY <1>6, <1>8, <1>9
  <2> HIDE DEF bs, m
  <2> QED
    BY <1>9, <2>1, CountIs, Times
<1>11. m # Len(d) => m = Stride /\ Stride <= Len(d)
  BY <1>6, StrideAssumption DEF Least
<1> HIDE DEF bs, m
<1>12. /\ wire'[Src] = wire[Src] /\ Len(wire'[Dst]) = w + Len(bs)
  <2>1. Write(Src, bs)
    BY <1>1, <1>5
  <2> QED
    BY <1>3, <1>9, <2>1, WireWritten
<1>13. /\ at'[Dst] = at[Dst] /\ at'[Src] = IF m = Len(d) THEN "ok" ELSE "sendBlocks"
  BY <1>1, <1>3, <1>5, AtMoved
<1>14. job'[Dst] = job[Dst] /\ job'[Src].data = SubSeq(d, m + 1, Len(d))
  BY <1>1, <1>3, <1>5 DEF TransferTypes, Jobs
<1>15. Request' /\ PullPlaces'
  BY <1>1, <1>3, <1>4, <1>5, <1>6, <1>12, <1>13 DEF Request, PullPlaces
<1>16. Len(SubSeq(d, m + 1, Len(d))) = Len(d) - m
  <2> HIDE DEF d
  <2>1. m \in 0..Len(d)
    BY <1>6, <1>8
  <2> QED
    BY <1>6, <2>1, Dropped
<1>17. Ahead'
  <2> SUFFICES ASSUME at'[Src] = "sendBlocks"
               PROVE  /\ InStrides(N - Len(job'[Src].data))
                      /\ at[Dst] = "payload" => InStrides(g)
    BY <1>1, <1>4, <1>13, <1>14 DEF Ahead, InStrides
  <2>1. InStrides(N - Len(d)) /\ (at[Dst] = "payload" => InStrides(g))
    BY <1>3, <1>5 DEF Ahead
  <2>2. m = Stride
    BY <1>11, <1>13
  <2>3. N - (Len(d) - Stride) = N - Len(d) + Stride
    <3> HIDE DEF N, d
    <3> QED
      BY <1>6, <1>7, StrideAssumption
  <2>4. Len(job'[Src].data) = Len(d) - Stride
    BY <1>14, <1>16, <2>2
  <2>5. InStrides(N - Len(d) + Stride)
    BY <2>1, StrideMore
  <2>6. N - Len(job'[Src].data) = N - Len(d) + Stride
    BY <2>3, <2>4
  <2> QED
    BY <2>1, <2>5, <2>6
<1>18. ASSUME at'[Src] = "ok" PROVE Enough'
  <2>1. m = Len(d)
    BY <1>13, <1>18
  <2> DEFINE b == Len(bs)
  <2>2. b \in Nat /\ b * Block \in Nat /\ Len(d) <= b * Block
    BY <1>9, <1>10, <2>1
  <2> HIDE DEF b, d, N, g, w
  <2>11. PICK v \in Nat : v = w + b
    BY <1>6, <2>2
  <2>3. ASSUME at[Dst] = "awaitHdr" PROVE v >= 2 /\ N <= (v - 2) * Block
    <3>1. w >= 2 /\ (w - 2) * Block = N - Len(d)
      BY <1>6, <2>3
    <3>2. (w - 2 + b) * Block = (w - 2) * Block + b * Block
      BY <1>6, <2>2, TimesSum
    <3>3. w - 2 + b = v - 2
      BY <1>6, <2>2, <2>11
    <3>4. (v - 2) * Block = N - Len(d) + b * Block
      BY <3>1, <3>2, <3>3
    <3>5. v >= 2
      BY <1>6, <2>2, <2>11, <3>1
    <3> QED
      BY <1>6, <1>7, <2>2, <3>4, <3>5
  <2>4. ASSUME at[Dst] = "awaitInfo" PROVE v >= 1 /\ N <= (v - 1) * Block
    <3>1. w >= 1 /\ (w - 1) * Block = N - Len(d)
      BY <1>6, <2>4
    <3>2. (w - 1 + b) * Block = (w - 1) * Block + b * Block
      BY <1>6, <2>2, TimesSum
    <3>3. w - 1 + b = v - 1
      BY <1>6, <2>2, <2>11
    <3>4. (v - 1) * Block = N - Len(d) + b * Block
      BY <3>1, <3>2, <3>3
    <3>5. v >= 1
      BY <1>6, <2>2, <2>11, <3>1
    <3> QED
      BY <1>6, <1>7, <2>2, <3>4, <3>5
  <2>5. ASSUME at[Dst] = "payload" PROVE N - g <= v * Block
    <3>1. g \in Nat /\ N - Len(d) = g + w * Block
      BY <1>6, <2>5
    <3>2. w \in Int /\ b \in Int /\ w \in Nat
      BY <1>6, <2>2
    <3>3. v * Block = w * Block + b * Block
      <4>1. (w + b) * Block = w * Block + b * Block
        BY <3>2, TimesSum
      <4> QED
        BY <2>11, <4>1
    <3>4. w * Block \in Nat
      BY <3>2, Times
    <3> QED
      BY <1>6, <1>7, <2>2, <3>1, <3>3, <3>4
  <2>6. Len(wire'[Dst]) = w + b
    BY <1>12 DEF b, w
  <2>7. N' = N /\ at'[Dst'] = at[Dst] /\ Len(wire'[Dst']) = w + b /\ Len(job'[Dst'].data) = g
    BY <1>1, <1>4, <1>13, <1>14, <2>6 DEF N, g
  <2>8. Len(given'.data) = N
    BY <1>1 DEF N
  <2>9. Len(wire'[Dst']) = v
    BY <2>7, <2>11
  <2> QED
    BY <2>3, <2>4, <2>5, <2>7, <2>8, <2>9 DEF Enough
<1> QED
  BY <1>1, <1>3, <1>4, <1>15, <1>17, <1>18

LEMMA ReadBlocksPulls ==
    ASSUME TransferInv, PullInv, NEW s \in Stations, ReadBlocks(s)
    PROVE  PullInv'
<1> SUFFICES ASSUME Clean'
             PROVE  /\ link' = "up" /\ PullPlaces' /\ Request'
                    /\ Ahead' /\ (at[Src] = "ok" => Enough)'
  BY DEF PullInv
<1> DEFINE data == job[s].data
           left == job[s].size - Len(data)
           c == NextRead(left)
           blocks == SubSeq(wire[s], 1, c)
           got == data \o UnitsOf(blocks, left)
           N == Len(given.data)
           g == Len(data)
           w == Len(wire[Dst])
<1>1. /\ at[s] = "payload" /\ left > 0 /\ Take(s, c)
      /\ job' = [job EXCEPT ![s].data = got]
      /\ conn' = conn /\ at' = at /\ link' = link /\ given' = given /\ fault' = fault
  BY DEF ReadBlocks
<1>2. Clean
  BY <1>1, CleanBefore
<1>3. /\ link = "up" /\ PullPlaces /\ Request /\ Ahead /\ (at[Src] = "ok" => Enough)
      /\ Src \in Stations /\ Dst \in Stations /\ Src # Dst /\ Stations = {Src, Dst}
      /\ Other(Dst) = Src /\ TransferTypes
  BY <1>2, PullFacts, PullEnds DEF TransferInv
<1>4. Src' = Src /\ Dst' = Dst
  BY <1>1, SameEnds
<1>5. /\ s = Dst /\ given \in Offers /\ job[s].size = N /\ data \in Seq(Nat) /\ g <= N
      /\ \A i \in 1..g : data[i] = given.data[i]
  BY <1>1, InPayload
<1>6. N \in Nat /\ g \in Nat /\ left = N - g
  BY <1>5, OfferIs
<1>7. left \in Nat /\ left > 0
  <2> HIDE DEF left, N, g
  <2> QED
    BY <1>1, <1>6
<1>8. c \in Nat \ {0}
  <2> HIDE DEF left
  <2>1. NextRead(left) \in Nat \ {0}
    BY <1>7, NextReadFits
  <2> QED
    BY <2>1
<1>9. /\ c \in 0..w /\ wire[Dst] \in Seq(Items) /\ w \in Nat
      /\ wire'[Src] = wire[Src] /\ Len(wire'[Dst]) = w - c
  <2>1. Take(Dst, c)
    BY <1>1, <1>5
  <2> HIDE DEF c
  <2> QED
    BY <1>3, <1>8, <2>1, WireTaken
<1>10. PICK k \in Nat : Stream(k) /\ k >= 2
  BY <1>1, InPayload
<1>11. Len(blocks) = c /\ Follow(k, blocks)
  <2> DEFINE v == wire[s]
  <2>1. v \in Seq(Items) /\ c \in 0..Len(v)
    BY <1>5, <1>9
  <2>2. \A b \in 1..Len(v) : v[b] = Item(k + b)
    BY <1>5, <1>10 DEF Stream
  <2> HIDE DEF v, c
  <2>3. Len(SubSeq(v, 1, c)) = c /\ \A b \in 1..c : SubSeq(v, 1, c)[b] = v[b]
    BY <2>1, Kept
  <2>4. \A b \in 1..c : b \in 1..Len(v)
    BY <2>1, <1>8
  <2> QED
    BY <2>1, <2>2, <2>3, <2>4 DEF v, Follow
<1>12. g = (k - 2) * Block
  <2>1. g = (k - 2) * Block \/ g = N
    BY <1>1, <1>5, <1>10 DEF Stream, Got
  <2>2. g # N
    <3> HIDE DEF g, N, left
    <3> QED
      BY <1>6, <1>7
  <2> QED
    BY <2>1, <2>2
<1> HIDE DEF c, blocks
<1>13. Len(got) = g + Least(left, c * Block)
  <2>1. ReadInBlocks(k, data) /\ Len(blocks) \in Nat
    BY <1>5, <1>8, <1>10, <1>11, <1>12 DEF ReadInBlocks
  <2> HIDE DEF data
  <2>2. Len(data \o UnitsOf(blocks, N - g)) = g + Least(N - g, Len(blocks) * Block)
    BY <1>5, <1>10, <1>11, <2>1, ReadMore DEF ReadOn
  <2> QED
    BY <1>6, <1>11, <2>2
<1>14. job'[Src] = job[Src] /\ job'[Dst].data = got
  <2> HIDE DEF got
  <2> QED
    BY <1>1, <1>3, <1>5 DEF TransferTypes, Jobs
<1>15. Request' /\ PullPlaces'
  BY <1>1, <1>3, <1>4, <1>9 DEF Request, PullPlaces
<1>16. c * Block \in Nat /\ w * Block \in Nat
  BY <1>8, <1>9, Times
<1>17. Ahead'
  <2> SUFFICES ASSUME at[Src] = "sendBlocks"
               PROVE  InStrides(N - Len(job[Src].data)) /\ InStrides(Len(got))
    BY <1>1, <1>4, <1>14 DEF Ahead, InStrides
  <2> DEFINE units == N - Len(job[Src].data)
             d == Len(job[Src].data)
  <2>1. units \in Nat /\ d \in Nat \ {0} /\ units = g + w * Block
    BY <1>1, <1>2, <1>5, WireHolds
  <2>2. InStrides(units) /\ InStrides(g)
    BY <1>1, <1>3, <1>5 DEF Ahead
  <2>3. 1 * Block <= w * Block
    <3>1. 1 <= w
      BY <1>8, <1>9
    <3> QED
      BY <1>9, <3>1, TimesLess
  <2>4. units = N - d
    OBVIOUS
  <2> HIDE DEF units, d, got, g, w, N
  <2>5. g < units
    BY <1>6, <1>16, <2>1, <2>3, BlockIs
  <2>6. g + Stride <= units
    BY <2>2, <2>5, StrideApart
  <2>7. Stride <= left
    <3> HIDE DEF left
    <3> QED
      BY <1>6, <2>1, <2>4, <2>6, StrideAssumption
  <2>8. c * Block = Stride
    <3> HIDE DEF left
    <3>1. NextRead(left) * Block = Stride
      BY <1>7, <2>7, NextReadFits
    <3> QED
      BY <3>1 DEF c, left
  <2>9. Len(got) = g + Stride
    <3> HIDE DEF left
    <3> QED
      BY <1>6, <1>7, <1>13, <2>7, <2>8, StrideAssumption DEF Least
  <2>10. InStrides(g + Stride)
    BY <2>2, StrideMore
  <2> QED
    BY <2>2, <2>9, <2>10 DEF units
<1>18. ASSUME at[Src] = "ok" PROVE N - Len(got) <= (w - c) * Block
  <2>1. N - g <= w * Block
    BY <1>1, <1>3, <1>5, <1>18 DEF Enough
  <2>2. (w - c + c) * Block = (w - c) * Block + c * Block
    <3>1. w - c \in Int /\ c \in Int
      BY <1>8, <1>9
    <3> HIDE DEF w
    <3> QED
      BY <3>1, TimesSum
  <2>3. w - c + c = w /\ w - c \in Nat
    BY <1>8, <1>9
  <2>4. (w - c) * Block \in Nat
    BY <2>3, Times
  <2>5. w * Block = (w - c) * Block + c * Block
    BY <2>2, <2>3
  <2> HIDE DEF got, g, w, N, left
  <2>6. CASE left <= c * Block
    <3>1. Len(got) = N
      BY <1>6, <1>7, <1>13, <1>16, <2>6 DEF Least
    <3> QED
      BY <1>6, <2>4, <3>1
  <2>7. CASE ~(left <= c * Block)
    <3>1. Len(got) = g + c * Block
      BY <1>6, <1>7, <1>13, <1>16, <2>7 DEF Least
    <3> QED
      BY <1>6, <1>16, <2>1, <2>4, <2>5, <3>1
  <2> QED
    BY <2>6, <2>7
<1>19. at'[Src] = "ok" => Enough'
  BY <1>1, <1>4, <1>5, <1>9, <1>14, <1>18 DEF Enough
<1> QED
  BY <1>1, <1>3, <1>4, <1>15, <1>17, <1>19

\* The two ends of a pull never wait for each other, and neither waits for one
\* that is through.
LEMMA OneGoesOn ==
    ASSUME TransferInv, PullInv, Clean, Blocked(Dst)
    PROVE  at[Src] \notin Ended /\ ~Blocked(Src)
<1> DEFINE w == Len(wire[Dst])
<1>1. /\ link = "up" /\ PullPlaces /\ Request /\ (at[Src] = "ok" => Enough)
      /\ Src \in Stations /\ Dst \in Stations /\ Other(Dst) = Src /\ Other(Src) = Dst
      /\ TransferTypes
  BY PullFacts, PullEnds DEF TransferInv
<1>2. w \in Nat /\ Len(<<>>) = 0 /\ Len(<<Header(FALSE)>>) = 1 /\ 0 < Cap
  BY <1>1, CapAssumption DEF TransferTypes
<1>3. at[Dst] # "sendHdr"
  <2> SUFFICES ASSUME at[Dst] = "sendHdr" PROVE FALSE
    OBVIOUS
  <2>1. wire[Src] = <<>>
    BY <1>1 DEF Request
  <2>2. HasRoom(Dst)
    BY <1>1, <1>2, <2>1 DEF HasRoom
  <2> QED
    BY <2>2 DEF Blocked, Reading
<1>4. at[Dst] \in {"awaitHdr", "awaitInfo", "payload"} /\ ~Arrived(Dst, BlocksDue(Dst))
  <2>1. at[Dst] \in {"awaitHdr", "awaitInfo", "payload"}
    BY <1>1, <1>3 DEF PullPlaces, Blocked, Reading, Writing
  <2> QED
    BY <2>1 DEF Blocked, Writing
<1>5. at[Dst] = "payload" => Len(job[Dst].data) < job[Dst].size
  <2> SUFFICES ASSUME at[Dst] = "payload" PROVE Len(job[Dst].data) < job[Dst].size
    OBVIOUS
  <2>1. ~(Len(job[Dst].data) >= job[Dst].size)
    BY DEF Blocked, Writing
  <2>2. Len(job[Dst].data) \in Nat /\ job[Dst].size \in Nat
    BY <1>1 DEF TransferTypes, Jobs
  <2> QED
    BY <2>1, <2>2
<1>6. at[Dst] # "payload" => w = 0
  BY <1>1, <1>2, <1>4 DEF Arrived, BlocksDue
<1>7. ~(at[Dst] = "payload" /\ (at[Src] = "ok" \/ (at[Src] = "sendBlocks" /\ w >= 1)))
  <2> SUFFICES ASSUME at[Dst] = "payload", at[Src] = "ok" \/ (at[Src] = "sendBlocks" /\ w >= 1)
               PROVE  FALSE
    OBVIOUS
  <2>1. NextRead(job[Dst].size - Len(job[Dst].data)) <= w
    BY <1>5, FindsEnough
  <2>2. BlocksDue(Dst) <= w
    BY <2>1 DEF BlocksDue
  <2>3. BlocksDue(Dst) \in Nat
    <3>1. job[Dst].size - Len(job[Dst].data) \in Nat
      <4>1. Len(job[Dst].data) \in Nat /\ job[Dst].size \in Nat
        BY <1>1 DEF TransferTypes, Jobs
      <4> QED
        BY <1>5, <4>1
    <3> QED
      BY <3>1, NextReadIs DEF BlocksDue
  <2> QED
    BY <1>1, <1>2, <1>4, <2>2, <2>3 DEF Arrived
<1>8. at[Src] # "ok"
  <2>1. at[Src] = "ok" => at[Dst] = "payload"
    BY <1>1, <1>2, <1>4, <1>6 DEF Enough
  <2> QED
    BY <1>7, <2>1
<1>9. CASE at[Src] = "awaitHdr"
  <2>1. wire[Src] = <<Header(FALSE)>>
    BY <1>1, <1>4, <1>9 DEF Request
  <2>2. Arrived(Src, 1)
    BY <1>1, <1>2, <2>1 DEF Arrived
  <2> QED
    BY <1>9, <2>2 DEF Blocked, BlocksDue, Writing, Ended
<1>10. CASE at[Src] \in {"answerPull", "sendInfo", "sendBlocks"}
  <2>1. w = 0
    <3>1. ASSUME at[Dst] = "payload" PROVE w = 0
      <4>1. at[Src] = "sendBlocks"
        BY <1>8, <3>1, InBlocksBehind
      <4> QED
        BY <1>2, <1>7, <3>1, <4>1
    <3> QED
      BY <1>6, <3>1
  <2>2. HasRoom(Src)
    BY <1>1, <1>2, <2>1 DEF HasRoom
  <2> QED
    BY <1>10, <2>2 DEF Blocked, Reading, Ended
<1> QED
  BY <1>1, <1>8, <1>9, <1>10 DEF PullPlaces

\* Neither end of a clean pull fails.
LEMMA NobodyBreaks ==
    ASSUME TransferInv, PullInv, Clean, NEW s \in Stations
    PROVE  /\ ~Broken(s)
           /\ ~(Blocked(s) /\ (Blocked(Other(s)) \/ at[Other(s)] \in Ended))
<1>1. /\ link = "up" /\ PullPlaces
      /\ Stations = {Src, Dst} /\ Other(Dst) = Src /\ Other(Src) = Dst
  BY PullFacts, PullEnds
<1>2. ~(Blocked(Src) /\ (Blocked(Dst) \/ at[Dst] \in Ended))
  <2>1. ASSUME Blocked(Src), at[Dst] \in Ended PROVE FALSE
    <3>1. at[Src] = "ok"
      BY <1>1, <2>1 DEF PullPlaces, Ended
    <3> QED
      BY <2>1, <3>1 DEF Blocked, Reading, Writing
  <2> QED
    BY <2>1, OneGoesOn
<1>3. ~(Blocked(Dst) /\ (Blocked(Src) \/ at[Src] \in Ended))
  BY OneGoesOn
<1>4. ~Broken(Src)
  <2> SUFFICES ASSUME Broken(Src) PROVE FALSE
    OBVIOUS
  <2>1. at[Dst] \in Ended /\ (Blocked(Src) \/ at[Src] \in Writing)
    BY <1>1 DEF Broken
  <2>2. at[Src] = "ok"
    BY <1>1, <2>1 DEF PullPlaces, Ended
  <2> QED
    BY <1>2, <2>1, <2>2 DEF Writing
<1>5. ~Broken(Dst)
  <2> SUFFICES ASSUME Broken(Dst) PROVE FALSE
    OBVIOUS
  <2>1. at[Src] \in Ended /\ (Blocked(Dst) \/ at[Dst] \in Writing)
    BY <1>1 DEF Broken
  <2>2. at[Dst] = "sendHdr"
    BY <1>1, <1>3, <2>1 DEF PullPlaces, Writing
  <2> QED
    BY <1>1, <2>1, <2>2 DEF PullPlaces, Ended
<1> QED
  BY <1>1, <1>2, <1>3, <1>4, <1>5

LEMMA ResetPulls ==
    ASSUME TransferInv, PullInv, NEW s \in Stations, Reset(s)
    PROVE  ~Clean /\ ~Clean'
<1>1. /\ at[Other(s)] \in Ended /\ wire[Other(s)] # <<>>
      /\ \E k \in 0..Len(wire[s]) - 1 : TRUE
      /\ conn' = conn /\ fault' = fault
  BY DEF Reset
<1>2. ASSUME Clean PROVE FALSE
  <2>1. /\ PullPlaces /\ Request
        /\ Stations = {Src, Dst} /\ Other(Dst) = Src /\ Other(Src) = Dst
    BY <1>2, PullFacts, PullEnds
  <2>2. CASE s = Src
    <3>1. at[Src] = "ok"
      BY <1>1, <2>1, <2>2 DEF PullPlaces, Ended
    <3>2. Len(wire[Src]) = 0
      BY <2>1, <3>1 DEF Request
    <3> QED
      BY <1>1, <2>2, <3>2
  <2>3. CASE s = Dst
    <3>1. at[Src] \in Ended /\ wire[Src] # <<>>
      BY <1>1, <2>1, <2>3
    <3> QED
      BY <2>1, <3>1 DEF Request, Ended
  <2> QED
    BY <2>1, <2>2, <2>3
<1> QED
  BY <1>1, <1>2 DEF Clean

LEMMA PullOnReturnPulls ==
    ASSUME NEW s \in Stations, NEW v, PullOnReturn(s, v)
    PROVE  PullInv'
<1> SUFFICES ASSUME Clean'
             PROVE  /\ link' = "up" /\ PullPlaces' /\ Request'
                    /\ Ahead' /\ (at[Src] = "ok" => Enough)'
  BY DEF PullInv
<1>1. /\ conn' = [dialer |-> s, push |-> FALSE, via |-> v]
      /\ at' = [t \in Stations |-> IF t = s THEN "sendHdr"
                                   ELSE IF v = "server" THEN "leg" ELSE "awaitHdr"]
      /\ wire' = [t \in Stations |-> <<>>] /\ link' = "up"
  BY DEF PullOnReturn, Dial
<1>2. v = "direct"
  BY <1>1 DEF Clean
<1>3. /\ Other(s) \in Stations /\ Other(s) # s /\ Other(Other(s)) = s
  BY Pair
<1>4. Src' = Other(s) /\ Dst' = s
  BY <1>1, <1>3 DEF Src, Dst
<1>5. at'[Src'] = "awaitHdr" /\ at'[Dst'] = "sendHdr" /\ wire'[Src'] = <<>>
  BY <1>1, <1>2, <1>3, <1>4
<1> QED
  BY <1>1, <1>5 DEF PullPlaces, Request, Ahead, Enough

LEMMA EndPulls ==
    ASSUME TransferInv, PullInv, NEW s \in Stations, End(s)
    PROVE  PullInv'
<1>1. CASE LegHeader(s)
  <2>1. at[s] = "leg" /\ conn' = conn /\ (fault' = fault \/ fault' = TRUE)
    BY <1>1 DEF LegHeader
  <2>2. ASSUME Clean' PROVE FALSE
    <3>1. Clean
      BY <2>1, <2>2 DEF Clean
    <3>2. PullPlaces /\ Stations = {Src, Dst}
      BY <3>1, PullFacts, PullEnds
    <3> QED
      BY <2>1, <3>2 DEF PullPlaces
  <2> QED
    BY <2>2 DEF PullInv
<1>2. CASE Broken(s)
  <2>1. conn' = conn /\ fault' = fault
    BY <1>2 DEF Broken, Fail
  <2>2. ~Clean'
    BY <1>2, <2>1, NobodyBreaks DEF Clean
  <2> QED
    BY <2>2 DEF PullInv
<1> QED
  BY <1>1, <1>2, SendHeaderPulls, ReadHeaderPulls, AnswerPulls, SendInfoPulls,
     SendChunkPulls, ReadInfoPulls, ReadBlocksPulls, DeliverPulls DEF End

LEMMA PullStep == TransferInv /\ PullInv /\ [Next]_vars => PullInv'
<1> SUFFICES ASSUME TransferInv, PullInv, [Next]_vars PROVE PullInv'
  OBVIOUS
<1>1. ASSUME NEW s \in Stations, End(s) PROVE PullInv'
  BY <1>1, EndPulls
<1>2. ASSUME NEW s \in Stations, Timeout(s) PROVE PullInv'
  <2>1. /\ conn' = conn /\ Blocked(s)
        /\ fault' = (fault \/ ~(Blocked(Other(s)) \/ at[Other(s)] \in Ended))
    BY <1>2 DEF Timeout, Fail
  <2>2. ASSUME Clean' PROVE FALSE
    <3>1. Clean /\ (Blocked(Other(s)) \/ at[Other(s)] \in Ended)
      BY <2>1, <2>2 DEF Clean
    <3> QED
      BY <2>1, <3>1, NobodyBreaks
  <2> QED
    BY <2>2 DEF PullInv
<1>3. ASSUME NEW s \in Stations, Reset(s) PROVE PullInv'
  BY <1>3, ResetPulls DEF PullInv
<1>4. ASSUME NEW s \in Stations, News(s) PROVE PullInv'
  BY <1>4, PullStays DEF News, tvars
<1>5. ASSUME NEW s \in Stations, NEW v \in Vias, PullOnReturn(s, v) PROVE PullInv'
  BY <1>5, PullOnReturnPulls
<1>6. ASSUME NEW s \in Stations, NEW v \in Vias, PushTo(s, v) PROVE PullInv'
  <2>1. conn'.push = TRUE
    BY <1>6 DEF PushTo, Dial
  <2> QED
    BY <2>1 DEF PullInv, Clean
<1>7. ASSUME NEW s \in Stations, NEW c \in Copies, Copy(s, c) PROVE PullInv'
  BY <1>7, PullStays DEF Copy
<1>8. ASSUME NetworkFails PROVE PullInv'
  BY <1>8 DEF NetworkFails, PullInv, Clean
<1>9. ASSUME UNCHANGED vars PROVE PullInv'
  BY <1>9, PullStays DEF vars, tvars
<1> QED
  BY <1>1, <1>2, <1>3, <1>4, <1>5, <1>6, <1>7, <1>8, <1>9 DEF Next

\* Before the first connection nothing happens on one.
LEMMA IdleStep == IdleInv /\ [Next]_vars => IdleInv'
<1> SUFFICES ASSUME IdleInv, [Next]_vars, conn'.dialer \notin Stations
             PROVE  \A s \in Stations : at'[s] = "ok"
  BY DEF IdleInv
<1>1. ASSUME NEW s \in Stations, NEW v, PullOnReturn(s, v) \/ PushTo(s, v) PROVE FALSE
  <2>1. conn'.dialer = s
    BY <1>1 DEF PullOnReturn, PushTo, Dial
  <2> QED
    BY <2>1
<1>2. conn' = conn
  BY <1>1 DEF Next, End, SendHeader, LegHeader, ReadHeader, Answer, SendInfo, SendChunk,
        ReadInfo, ReadBlocks, Deliver, Broken, Timeout, Fail, Reset, News, Copy,
        NetworkFails, vars, tvars
<1>3. \A s \in Stations : at[s] = "ok"
  BY <1>2 DEF IdleInv
<1>4. ASSUME NEW s \in Stations, End(s) \/ Timeout(s) PROVE FALSE
  BY <1>3, <1>4 DEF End, SendHeader, LegHeader, ReadHeader, Answer, SendInfo, SendChunk,
        ReadInfo, ReadBlocks, Deliver, Broken, Timeout, Blocked, Reading, Writing, Ended
<1>5. at' = at
  BY <1>1, <1>4 DEF Next, Reset, News, Copy, NetworkFails, vars, tvars
<1> QED
  BY <1>3, <1>5

\* A pull that meets Serve directly, undisturbed, ends well on both ends, for any
\* content, block, stride and buffer: each answer is on its way before the other
\* end waits for it, and a reader never asks for more blocks than the writer has
\* written or will write (Serve, Pull, SendTransfer and readStream of
\* clipboard/transfer.go).
THEOREM PullsAreServed == Spec => []DirectPullDelivers
<1>1. Init => PullInv /\ IdleInv
  BY NoneIs DEF Init, PullInv, IdleInv, Clean
<1>2. TransferInv /\ PullInv /\ IdleInv /\ [Next]_vars => PullInv' /\ IdleInv'
  BY PullStep, IdleStep
<1>3. PullInv /\ IdleInv => DirectPullDelivers
  <2> SUFFICES ASSUME PullInv, IdleInv, conn.via = "direct", ~conn.push, ~fault,
                      \A s \in Stations : at[s] \in Ended,
                      NEW s \in Stations
               PROVE  at[s] = "ok"
    BY DEF DirectPullDelivers, Served
  <2>1. CASE conn.dialer \notin Stations
    BY <2>1 DEF IdleInv
  <2>2. CASE conn.dialer \in Stations
    <3>1. Clean
      BY <2>2 DEF Clean
    <3>2. PullPlaces /\ Stations = {Src, Dst}
      BY <3>1, PullFacts, PullEnds
    <3> QED
      BY <3>2 DEF PullPlaces, Ended
  <2> QED
    BY <2>1, <2>2
<1> QED
  BY <1>1, <1>2, <1>3, ClipInvariance, PTL DEF Spec
=============================================================================
