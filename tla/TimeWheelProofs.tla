-------------------------- MODULE TimeWheelProofs ---------------------------
(***************************************************************************)
(* Proofs about TimeWheel, for every number of slots, timers, turns and    *)
(* cancellers and for all delays.                                          *)
(***************************************************************************)
EXTENDS TimeWheel, WellFoundedInduction, TLAPS

-----------------------------------------------------------------------------
(* Arithmetic.                                                             *)

\* A non-empty set of natural numbers has the least element that Min chooses.
LEMMA MinIsLeast ==
  ASSUME NEW S \in SUBSET Nat, S # {}
  PROVE  Min(S) \in S
<1> DEFINE R == {ss \in Nat \X Nat : ss[1] < ss[2]}
<1>1. IsWellFoundedOn(R, Nat)
  BY NatLessThanWellFounded DEF OpToRel
<1>2. PICK n \in S : \A k \in S : ~(<<k, n>> \in R)
  <2> HIDE DEF R
  <2> QED BY <1>1, WFMin
<1>3. ASSUME NEW k \in S PROVE n <= k
  <2>1. <<k, n>> \in Nat \X Nat
    OBVIOUS
  <2>2. <<k, n>>[1] = k /\ <<k, n>>[2] = n
    OBVIOUS
  <2>3. ~(k < n)
    BY <1>2, <2>1, <2>2
  <2> QED BY <2>3
<1>4. \E m \in S : \A k \in S : m <= k
  BY <1>3
<1> QED
  BY <1>4 DEF Min

\* Division rounds towards zero, and the remainder has the sign of the dividend.
LEMMA DivisionOfNatural ==
  ASSUME NEW a \in Nat
  PROVE  a \div ScaleCount \in Nat /\ a - ScaleCount * (a \div ScaleCount) \in 0 .. ScaleCount - 1
BY ScaleCountAssumption

LEMMA Division ==
  ASSUME NEW a \in Int
  PROVE  /\ Quotient(a) \in Int /\ Remainder(a) \in Slots
         /\ a = ScaleCount * Quotient(a) + Remainder(a)
         /\ Remainder(a) > 0 => Quotient(a) \in Nat
<1>1. CASE a >= 0
  <2>1. Quotient(a) = a \div ScaleCount
    BY <1>1 DEF Quotient
  <2> QED
    BY <1>1, <2>1, DivisionOfNatural, ScaleCountAssumption DEF Remainder, Slots
<1>2. CASE a < 0
  <2> DEFINE q == (-a) \div ScaleCount
  <2>1. Quotient(a) = -q
    BY <1>2 DEF Quotient
  <2>2. q \in Nat /\ (-a) - ScaleCount * q \in 0 .. ScaleCount - 1
    BY <1>2, DivisionOfNatural
  <2> HIDE DEF q
  <2>3. Remainder(a) = -((-a) - ScaleCount * q)
    BY <2>1, <2>2, ScaleCountAssumption DEF Remainder
  <2> QED
    BY <1>2, <2>1, <2>2, <2>3, ScaleCountAssumption DEF Slots
<1> QED BY <1>1, <1>2

\* One visit less is one revolution less.
LEMMA Revolutions ==
  ASSUME NEW c \in Int
  PROVE  /\ c * ScaleCount \in Int /\ (c - 1) * ScaleCount = c * ScaleCount - ScaleCount
         /\ c >= 0 => c * ScaleCount >= 0
         /\ 0 * ScaleCount = 0
BY ScaleCountAssumption

-----------------------------------------------------------------------------
(* The entries of the wheel, and what each step does to them.              *)

Maps == [Slots -> Seq(Entries)]

\* U is T but for the entry e at a place that T has.
IsSet(T, U, s, i, e) ==
  /\ U \in Maps
  /\ \A r \in Slots : Len(U[r]) = Len(T[r])
  /\ \A r \in Slots : \A j \in 1 .. Len(T[r]) :
       U[r][j] = IF r = s /\ j = i THEN e ELSE T[r][j]

\* U is T with one entry more at the end of a slot.
IsAppended(T, U, s, e) ==
  /\ U \in Maps
  /\ \A r \in Slots : Len(U[r]) = IF r = s THEN Len(T[r]) + 1 ELSE Len(T[r])
  /\ \A r \in Slots : \A j \in 1 .. Len(U[r]) :
       U[r][j] = IF r = s /\ j = Len(T[s]) + 1 THEN e ELSE T[r][j]

LEMMA EntrySet ==
  ASSUME NEW T \in Maps, NEW s \in Slots, NEW i \in DOMAIN T[s], NEW e \in Entries
  PROVE  IsSet(T, [T EXCEPT ![s][i] = e], s, i, e)
<1>1. T[s] \in Seq(Entries)
  BY DEF Maps
<1>2. /\ [T[s] EXCEPT ![i] = e] \in Seq(Entries)
      /\ Len([T[s] EXCEPT ![i] = e]) = Len(T[s])
      /\ \A j \in 1 .. Len(T[s]) : [T[s] EXCEPT ![i] = e][j] = IF j = i THEN e ELSE T[s][j]
  BY <1>1
<1> QED
  BY <1>2 DEF Maps, IsSet

LEMMA EntryAppended ==
  ASSUME NEW T \in Maps, NEW s \in Slots, NEW e \in Entries
  PROVE  IsAppended(T, [T EXCEPT ![s] = Append(@, e)], s, e)
<1>1. T[s] \in Seq(Entries)
  BY DEF Maps
<1>2. /\ Append(T[s], e) \in Seq(Entries)
      /\ Len(Append(T[s], e)) = Len(T[s]) + 1
      /\ \A j \in 1 .. Len(T[s]) + 1 : Append(T[s], e)[j] = IF j = Len(T[s]) + 1 THEN e ELSE T[s][j]
  BY <1>1
<1>3. \A r \in Slots : T[r] \in Seq(Entries) /\ Len(T[r]) \in Nat
  BY DEF Maps
<1> QED
  BY <1>2, <1>3 DEF Maps, IsAppended

LEMMA PlaceIsFree ==
  ASSUME NEW list \in Seq(Entries)
  PROVE  /\ FreePlace(list) \in 1 .. Len(list) + 1
         /\ FreePlace(list) <= Len(list) => Expired(list[FreePlace(list)])
<1> DEFINE used == {i \in DOMAIN list : Expired(list[i])}
<1>1. CASE used = {}
  BY <1>1 DEF FreePlace
<1>2. CASE used # {}
  <2>1. used \in SUBSET Nat
    OBVIOUS
  <2>2. Min(used) \in used
    BY <1>2, <2>1, MinIsLeast
  <2>3. FreePlace(list) = Min(used)
    BY <1>2 DEF FreePlace
  <2> QED BY <2>2, <2>3
<1> QED BY <1>1, <1>2

-----------------------------------------------------------------------------
(* Types.  Beside the types of the variables: places that are remembered   *)
(* exist, ids in the wheel have been given out, and every call of          *)
(* init_wheel is a thread asleep, a posted tick or a turn.                 *)

PlacesExist ==
  /\ mutex = "adding" => /\ adding # Nothing /\ adding.entry.id = m_cid
                         /\ adding.index <= Len(m_task_map[adding.slot]) + 1
  /\ mutex = "ticking" => pos >= 1
  /\ decrementing => mutex = "ticking" /\ pos <= Len(Current)
  /\ \A c \in Cancellers : IsMarking(c) => marking[c].index <= Len(m_task_map[marking[c].slot])

IdsGivenOut ==
  /\ \A s \in Slots : \A j \in 1 .. Len(m_task_map[s]) : m_task_map[s][j].id <= m_cid
  /\ \A i \in Ids : i <= m_cid => born[i] # Nothing /\ born[i].turn <= turns

TypeInv == TypeOK /\ PlacesExist /\ IdsGivenOut /\ asleep + ticks + turns = inits

LEMMA TypeInit == Init => TypeInv
<1> SUFFICES ASSUME Init PROVE TypeInv
  OBVIOUS
<1> USE ScaleCountAssumption, BoundsAssumption DEF Init
<1>1. m_task_map \in [Slots -> Seq(Entries)] /\ \A s \in Slots : Len(m_task_map[s]) = 0
  OBVIOUS
<1>2. m_id_map \in [Ids -> Slots]
  BY DEF Slots
<1>3. /\ marking \in [Cancellers -> {Nothing}] /\ born \in [Ids -> {Nothing}]
      /\ fired \in [Ids -> Seq(Nat)]
  OBVIOUS
<1>4. /\ m_current_scale \in 1 .. ScaleCount /\ m_cid \in 0 .. MaxTimers
      /\ asleep \in 0 .. MaxInits /\ ticks \in 0 .. MaxInits /\ inits \in 0 .. MaxInits
      /\ turns \in 0 .. MaxInits /\ pos \in Nat
  OBVIOUS
<1>5. /\ mutex \in {"free", "adding", "ticking"} /\ adding = Nothing /\ decrementing \in BOOLEAN
  OBVIOUS
<1>6. hit \subseteq Ids /\ cancelled \subseteq Ids /\ stopped \subseteq cancelled
  OBVIOUS
<1>7. TypeOK
  BY <1>1, <1>2, <1>3, <1>4, <1>5, <1>6 DEF TypeOK
<1> QED
  BY <1>1, <1>7 DEF TypeInv, PlacesExist, IdsGivenOut, IsMarking, Ids


\* Cancellers that are disturbed, or whose vector grows, remember the same place.
Marks == [slot : Slots, index : Nat \ {0}, id : Ids, moved : BOOLEAN, alone : BOOLEAN]

Disturbed(m) ==
  /\ m \in [Cancellers -> {Nothing} \cup Marks]
  /\ \A c \in Cancellers :
       /\ m[c] # Nothing <=> IsMarking(c)
       /\ IsMarking(c) => /\ m[c].slot = marking[c].slot /\ m[c].index = marking[c].index
                          /\ m[c].id = marking[c].id /\ ~m[c].alone

LEMMA MarkNotNothing == Nothing \notin Marks
BY DEF Nothing, Marks

LEMMA DisturbKeeps == TypeOK => Disturbed(Disturb(marking))
<1> SUFFICES ASSUME TypeOK PROVE Disturbed(Disturb(marking))
  OBVIOUS
<1>1. marking \in [Cancellers -> {Nothing} \cup Marks]
  BY DEF TypeOK, Marks
<1>2. ASSUME NEW m \in Marks
      PROVE  LET n == [m EXCEPT !.alone = FALSE]
             IN  n \in Marks /\ n.slot = m.slot /\ n.index = m.index /\ n.id = m.id /\ ~n.alone
  BY DEF Marks
<1>3. ASSUME NEW d \in Cancellers
      PROVE  Disturb(marking)[d] \in {Nothing} \cup Marks
  BY <1>1, <1>2 DEF Disturb
<1>4. Disturb(marking) \in [Cancellers -> {Nothing} \cup Marks]
  BY <1>3 DEF Disturb
<1>5. ASSUME NEW c \in Cancellers
      PROVE  /\ Disturb(marking)[c] # Nothing <=> IsMarking(c)
             /\ IsMarking(c) => /\ Disturb(marking)[c].slot = marking[c].slot
                                /\ Disturb(marking)[c].index = marking[c].index
                                /\ Disturb(marking)[c].id = marking[c].id
                                /\ ~Disturb(marking)[c].alone
  <2>1. CASE ~IsMarking(c)
    BY <2>1 DEF Disturb, IsMarking
  <2>2. CASE IsMarking(c)
    <3>1. marking[c] \in Marks /\ Disturb(marking)[c] = [marking[c] EXCEPT !.alone = FALSE]
      BY <1>1, <2>2 DEF Disturb, IsMarking
    <3> QED BY <1>2, <2>2, <3>1, MarkNotNothing
  <2> QED BY <2>1, <2>2
<1> QED BY <1>4, <1>5 DEF Disturbed

LEMMA GrowKeeps ==
  ASSUME TypeOK, NEW s \in Slots
  PROVE  Disturbed(Grow(s, Disturb(marking)))
<1> DEFINE D == Disturb(marking)
           G == Grow(s, D)
<1>1. Disturbed(D)
  BY DisturbKeeps
<1> HIDE DEF D
<1>2. D \in [Cancellers -> {Nothing} \cup Marks]
  BY <1>1 DEF Disturbed
<1>3. ASSUME NEW m \in Marks
      PROVE  LET n == [m EXCEPT !.moved = TRUE]
             IN  /\ n \in Marks /\ n.slot = m.slot /\ n.index = m.index /\ n.id = m.id
                 /\ n.alone = m.alone
  BY DEF Marks
<1>4. ASSUME NEW d \in Cancellers
      PROVE  G[d] = D[d] \/ (D[d] \in Marks /\ G[d] = [D[d] EXCEPT !.moved = TRUE])
  BY <1>2 DEF Grow
<1>5. G \in [Cancellers -> {Nothing} \cup Marks]
  <2>1. ASSUME NEW d \in Cancellers PROVE G[d] \in {Nothing} \cup Marks
    BY <1>2, <1>3, <1>4
  <2> QED BY <2>1 DEF Grow
<1> HIDE DEF G
<1>6. ASSUME NEW c \in Cancellers
      PROVE  /\ G[c] # Nothing <=> IsMarking(c)
             /\ IsMarking(c) => /\ G[c].slot = marking[c].slot /\ G[c].index = marking[c].index
                                /\ G[c].id = marking[c].id /\ ~G[c].alone
  <2>1. CASE G[c] = D[c]
    BY <1>1, <2>1 DEF Disturbed
  <2>2. CASE D[c] \in Marks /\ G[c] = [D[c] EXCEPT !.moved = TRUE]
    <3>1. /\ G[c] \in Marks /\ G[c].slot = D[c].slot /\ G[c].index = D[c].index
          /\ G[c].id = D[c].id /\ G[c].alone = D[c].alone
      BY <1>3, <2>2
    <3>2. G[c] # Nothing /\ IsMarking(c)
      BY <1>1, <2>2, <3>1, MarkNotNothing DEF Disturbed
    <3> QED BY <1>1, <3>1, <3>2 DEF Disturbed
  <2> QED BY <1>4, <2>1, <2>2
<1> QED BY <1>5, <1>6 DEF Disturbed, G, D

-----------------------------------------------------------------------------
(* The steps that change entries, with what they do to each of them.       *)

SameLengths == \A s \in Slots : Len(m_task_map'[s]) = Len(m_task_map[s])

\* add_ms_task takes an expired entry, or the place after the last one.
LEMMA BeginAddEffect ==
  ASSUME TypeInv, NEW ms \in Delays, BeginAdd(ms)
  PROVE  /\ adding' \in [slot : Slots, index : Nat \ {0}, entry : Entries]
         /\ adding'.slot = Remainder(ms + m_current_scale)
         /\ adding'.entry.count = Quotient(ms + m_current_scale)
         /\ adding'.entry.id = m_cid' /\ adding'.entry.valid
         /\ adding'.index <= Len(m_task_map[adding'.slot]) + 1
         /\ m_cid' = m_cid + 1 /\ m_cid' \in Ids
         /\ m_task_map' \in Maps /\ SameLengths
         /\ \A s \in Slots : \A j \in 1 .. Len(m_task_map[s]) :
              /\ m_task_map'[s][j].id = m_task_map[s][j].id
              /\ m_task_map'[s][j].valid = m_task_map[s][j].valid
              /\ IF s = adding'.slot /\ j = adding'.index THEN m_task_map[s][j].count < 0
                 ELSE m_task_map'[s][j] = m_task_map[s][j]
<1> DEFINE timer == ms + m_current_scale
           slot  == Remainder(timer)
           place == FreePlace(m_task_map[slot])
           count == Quotient(timer)
<1>1. timer \in Int
  BY DelaysAssumption DEF TypeInv, TypeOK
<1> HIDE DEF timer
<1>2. slot \in Slots /\ count \in Int
  BY <1>1, Division
<1>3. m_cid' = m_cid + 1 /\ m_cid' \in Ids
  <2>1. m_cid' = m_cid + 1 /\ m_cid < MaxTimers
    BY DEF BeginAdd
  <2>2. m_cid \in 0 .. MaxTimers
    BY DEF TypeInv, TypeOK
  <2> QED BY <2>1, <2>2, BoundsAssumption DEF Ids
<1>4. m_task_map \in Maps
  BY DEF TypeInv, TypeOK, Maps
<1> HIDE DEF slot, count
<1>5. /\ place \in 1 .. Len(m_task_map[slot]) + 1
      /\ place <= Len(m_task_map[slot]) => Expired(m_task_map[slot][place])
  BY <1>2, <1>4, PlaceIsFree DEF Maps
<1>6. Len(m_task_map[slot]) \in Nat /\ DOMAIN m_task_map[slot] = 1 .. Len(m_task_map[slot])
  BY <1>2, <1>4 DEF Maps
<1> HIDE DEF place
<1>7. /\ adding' = [slot |-> slot, index |-> place,
                    entry |-> [count |-> count, id |-> m_cid', valid |-> TRUE]]
      /\ m_task_map' = IF place \in DOMAIN m_task_map[slot]
                       THEN [m_task_map EXCEPT ![slot][place].count = count]
                       ELSE m_task_map
  BY DEF BeginAdd, timer, slot, place, count
<1>8. /\ adding' \in [slot : Slots, index : Nat \ {0}, entry : Entries]
      /\ adding'.slot = slot /\ adding'.index = place
      /\ adding'.entry.count = count /\ adding'.entry.id = m_cid' /\ adding'.entry.valid
  BY <1>2, <1>3, <1>5, <1>6, <1>7 DEF Entries
<1>9. /\ m_task_map' \in Maps /\ SameLengths
      /\ \A s \in Slots : \A j \in 1 .. Len(m_task_map[s]) :
           /\ m_task_map'[s][j].id = m_task_map[s][j].id
           /\ m_task_map'[s][j].valid = m_task_map[s][j].valid
           /\ IF s = slot /\ j = place THEN m_task_map[s][j].count < 0
              ELSE m_task_map'[s][j] = m_task_map[s][j]
  <2>1. CASE place \in DOMAIN m_task_map[slot]
    <3> DEFINE e == [m_task_map[slot][place] EXCEPT !.count = count]
    <3>1. m_task_map[slot][place] \in Entries
      BY <1>2, <1>4, <2>1 DEF Maps
    <3>2. /\ e \in Entries /\ e.id = m_task_map[slot][place].id
          /\ e.valid = m_task_map[slot][place].valid
      BY <1>2, <3>1 DEF Entries
    <3>3. m_task_map' = [m_task_map EXCEPT ![slot][place] = e]
      BY <1>7, <2>1
    <3>4. m_task_map[slot][place].count < 0
      BY <1>5, <1>6, <2>1 DEF Expired
    <3> HIDE DEF e
    <3>5. IsSet(m_task_map, m_task_map', slot, place, e)
      BY <1>2, <1>4, <2>1, <3>2, <3>3, EntrySet
    <3> QED
      BY <3>2, <3>4, <3>5 DEF IsSet, SameLengths
  <2>2. CASE place \notin DOMAIN m_task_map[slot]
    BY <1>4, <1>6, <1>7, <2>2 DEF SameLengths
  <2> QED BY <2>1, <2>2
<1> QED
  BY <1>3, <1>5, <1>6, <1>8, <1>9 DEF slot, count, timer

\* The new timer gets its place, and nothing else changes.
LEMMA CommitAddEffect ==
  ASSUME TypeInv, CommitAdd
  PROVE  /\ adding \in [slot : Slots, index : Nat \ {0}, entry : Entries]
         /\ m_task_map' \in Maps
         /\ \A s \in Slots : \/ Len(m_task_map'[s]) = Len(m_task_map[s])
                             \/ s = adding.slot /\ Len(m_task_map'[s]) = Len(m_task_map[s]) + 1
         /\ adding.index <= Len(m_task_map'[adding.slot])
         /\ \A s \in Slots : \A j \in 1 .. Len(m_task_map'[s]) :
              IF s = adding.slot /\ j = adding.index THEN m_task_map'[s][j] = adding.entry
              ELSE j <= Len(m_task_map[s]) /\ m_task_map'[s][j] = m_task_map[s][j]
<1>1. /\ adding \in [slot : Slots, index : Nat \ {0}, entry : Entries]
      /\ adding.index <= Len(m_task_map[adding.slot]) + 1
  BY DEF CommitAdd, TypeInv, TypeOK, PlacesExist
<1>2. m_task_map \in Maps /\ adding.slot \in Slots /\ adding.entry \in Entries
      /\ adding.index \in Nat \ {0}
  BY <1>1 DEF TypeInv, TypeOK, Maps
<1>3. /\ \A s \in Slots : Len(m_task_map[s]) \in Nat
      /\ DOMAIN m_task_map[adding.slot] = 1 .. Len(m_task_map[adding.slot])
  BY <1>2 DEF Maps
<1>4. CASE adding.index \in DOMAIN m_task_map[adding.slot]
  <2>1. m_task_map' = [m_task_map EXCEPT ![adding.slot][adding.index] = adding.entry]
    BY <1>4 DEF CommitAdd
  <2>2. IsSet(m_task_map, m_task_map', adding.slot, adding.index, adding.entry)
    BY <1>2, <1>4, <2>1, EntrySet
  <2>3. m_task_map' \in Maps /\ adding.index <= Len(m_task_map'[adding.slot])
    BY <1>2, <1>3, <1>4, <2>2 DEF IsSet
  <2>4. ASSUME NEW s \in Slots, NEW j \in 1 .. Len(m_task_map'[s])
        PROVE  /\ j <= Len(m_task_map[s])
               /\ m_task_map'[s][j] = IF s = adding.slot /\ j = adding.index THEN adding.entry
                                      ELSE m_task_map[s][j]
    BY <1>3, <2>2 DEF IsSet
  <2>5. \A s \in Slots : Len(m_task_map'[s]) = Len(m_task_map[s])
    BY <2>2 DEF IsSet
  <2>6. \A s \in Slots : \A j \in 1 .. Len(m_task_map'[s]) :
          IF s = adding.slot /\ j = adding.index THEN m_task_map'[s][j] = adding.entry
          ELSE j <= Len(m_task_map[s]) /\ m_task_map'[s][j] = m_task_map[s][j]
    BY <2>4
  <2> QED
    BY <1>1, <2>3, <2>5, <2>6
<1>5. CASE adding.index \notin DOMAIN m_task_map[adding.slot]
  <2>1. m_task_map' = [m_task_map EXCEPT ![adding.slot] = Append(@, adding.entry)]
    BY <1>5 DEF CommitAdd
  <2>2. adding.index = Len(m_task_map[adding.slot]) + 1
    BY <1>1, <1>2, <1>3, <1>5
  <2>3. IsAppended(m_task_map, m_task_map', adding.slot, adding.entry)
    BY <1>2, <2>1, EntryAppended
  <2>4. m_task_map' \in Maps /\ \A s \in Slots :
          Len(m_task_map'[s]) = IF s = adding.slot THEN Len(m_task_map[s]) + 1 ELSE Len(m_task_map[s])
    BY <2>3 DEF IsAppended
  <2>5. ASSUME NEW s \in Slots, NEW j \in 1 .. Len(m_task_map'[s])
        PROVE  IF s = adding.slot /\ j = adding.index THEN m_task_map'[s][j] = adding.entry
               ELSE j <= Len(m_task_map[s]) /\ m_task_map'[s][j] = m_task_map[s][j]
    BY <1>3, <2>2, <2>3, <2>4 DEF IsAppended
  <2>6. adding.index <= Len(m_task_map'[adding.slot])
    BY <1>2, <1>3, <2>2, <2>4
  <2>7. \A s \in Slots : \/ Len(m_task_map'[s]) = Len(m_task_map[s])
                         \/ s = adding.slot /\ Len(m_task_map'[s]) = Len(m_task_map[s]) + 1
    BY <1>3, <2>4
  <2> QED
    BY <1>1, <2>4, <2>5, <2>6, <2>7
<1> QED BY <1>4, <1>5

\* cancel_timer invalidates the entry at the place it remembers, or, if the
\* vector has moved, perhaps none.
LEMMA CancelMarkEffect ==
  ASSUME TypeInv, NEW c \in Cancellers, CancelMark(c)
  PROVE  /\ marking[c] \in Marks /\ marking[c].index \in 1 .. Len(m_task_map[marking[c].slot])
         /\ m_task_map' \in Maps /\ SameLengths
         /\ \A s \in Slots : \A j \in 1 .. Len(m_task_map[s]) :
              /\ m_task_map'[s][j].id = m_task_map[s][j].id
              /\ m_task_map'[s][j].count = m_task_map[s][j].count
              /\ m_task_map'[s][j].valid => m_task_map[s][j].valid
         /\ \/ marking[c].moved /\ UNCHANGED <<m_task_map, hit>>
            \/ /\ ~m_task_map'[marking[c].slot][marking[c].index].valid
               /\ hit' = hit \cup {m_task_map[marking[c].slot][marking[c].index].id}
               /\ \A s \in Slots : \A j \in 1 .. Len(m_task_map[s]) :
                    (s = marking[c].slot /\ j = marking[c].index) \/ m_task_map'[s][j] = m_task_map[s][j]
<1> DEFINE m == marking[c]
<1>1. m \in Marks /\ m.index <= Len(m_task_map[m.slot])
  BY DEF CancelMark, TypeInv, TypeOK, PlacesExist, IsMarking, Marks
<1>2. m_task_map \in Maps
  BY DEF TypeInv, TypeOK, Maps
<1>3. \A s \in Slots : /\ Len(m_task_map[s]) \in Nat
                       /\ DOMAIN m_task_map[s] = 1 .. Len(m_task_map[s])
                       /\ \A j \in 1 .. Len(m_task_map[s]) : m_task_map[s][j] \in Entries
  BY <1>2 DEF Maps
<1>4. m.slot \in Slots /\ m.index \in 1 .. Len(m_task_map[m.slot])
  BY <1>1, <1>3 DEF Marks
<1>5. CASE m.moved /\ UNCHANGED <<m_task_map, hit>>
  BY <1>1, <1>2, <1>4, <1>5 DEF SameLengths
<1>6. CASE /\ m_task_map' = [m_task_map EXCEPT ![m.slot][m.index].valid = FALSE]
           /\ hit' = hit \cup {m_task_map[m.slot][m.index].id}
  <2> DEFINE f == m_task_map[m.slot][m.index]
             e == [f EXCEPT !.valid = FALSE]
  <2>1. f \in Entries
    BY <1>3, <1>4
  <2>2. e \in Entries /\ e.id = f.id /\ e.count = f.count /\ ~e.valid
    BY <2>1 DEF Entries
  <2>3. m_task_map' = [m_task_map EXCEPT ![m.slot][m.index] = e]
    BY <1>6
  <2> HIDE DEF e
  <2>4. IsSet(m_task_map, m_task_map', m.slot, m.index, e)
    BY <1>2, <1>3, <1>4, <2>2, <2>3, EntrySet
  <2>5. m_task_map' \in Maps /\ SameLengths
    BY <2>4 DEF IsSet, SameLengths
  <2>6. ASSUME NEW s \in Slots, NEW j \in 1 .. Len(m_task_map[s])
        PROVE  /\ m_task_map'[s][j].id = m_task_map[s][j].id
               /\ m_task_map'[s][j].count = m_task_map[s][j].count
               /\ m_task_map'[s][j].valid => m_task_map[s][j].valid
               /\ (s = m.slot /\ j = m.index) \/ m_task_map'[s][j] = m_task_map[s][j]
    BY <2>2, <2>4 DEF IsSet
  <2>7. ~m_task_map'[m.slot][m.index].valid
    BY <1>4, <2>2, <2>4 DEF IsSet
  <2> QED
    BY <1>1, <1>4, <1>6, <2>5, <2>6, <2>7
<1> QED
  BY <1>5, <1>6 DEF CancelMark

\* The tick counts one entry down.
LEMMA DecrementEffect ==
  ASSUME TypeInv, DecrementEntry
  PROVE  /\ mutex = "ticking" /\ m_current_scale \in Slots /\ pos \in 1 .. Len(Current)
         /\ m_task_map' \in Maps /\ SameLengths
         /\ \A s \in Slots : \A j \in 1 .. Len(m_task_map[s]) :
              /\ m_task_map'[s][j].id = m_task_map[s][j].id
              /\ m_task_map'[s][j].valid = m_task_map[s][j].valid
              /\ m_task_map'[s][j].count =
                   IF s = m_current_scale /\ j = pos THEN m_task_map[s][j].count - 1
                   ELSE m_task_map[s][j].count
<1>1. /\ mutex = "ticking" /\ m_current_scale \in Slots /\ m_task_map \in Maps
      /\ pos \in Nat /\ pos >= 1 /\ pos <= Len(Current)
  BY ScaleCountAssumption DEF DecrementEntry, TypeInv, TypeOK, PlacesExist, Slots, Maps
<1>2. \A s \in Slots : /\ Len(m_task_map[s]) \in Nat
                       /\ DOMAIN m_task_map[s] = 1 .. Len(m_task_map[s])
                       /\ \A j \in 1 .. Len(m_task_map[s]) : m_task_map[s][j] \in Entries
  BY <1>1 DEF Maps
<1>3. pos \in 1 .. Len(m_task_map[m_current_scale])
  BY <1>1, <1>2 DEF Current
<1> DEFINE f == m_task_map[m_current_scale][pos]
           e == [f EXCEPT !.count = @ - 1]
<1>4. f \in Entries
  BY <1>1, <1>2, <1>3
<1>5. e \in Entries /\ e.id = f.id /\ e.valid = f.valid /\ e.count = f.count - 1
  BY <1>4 DEF Entries
<1>6. m_task_map' = [m_task_map EXCEPT ![m_current_scale][pos] = e]
  BY DEF DecrementEntry, CountDown
<1> HIDE DEF e
<1>7. IsSet(m_task_map, m_task_map', m_current_scale, pos, e)
  BY <1>1, <1>2, <1>3, <1>5, <1>6, EntrySet
<1>8. m_task_map' \in Maps /\ SameLengths
  BY <1>7 DEF IsSet, SameLengths
<1>9. ASSUME NEW s \in Slots, NEW j \in 1 .. Len(m_task_map[s])
      PROVE  /\ m_task_map'[s][j].id = m_task_map[s][j].id
             /\ m_task_map'[s][j].valid = m_task_map[s][j].valid
             /\ m_task_map'[s][j].count =
                  IF s = m_current_scale /\ j = pos THEN m_task_map[s][j].count - 1
                  ELSE m_task_map[s][j].count
  BY <1>5, <1>7 DEF IsSet
<1> QED
  BY <1>1, <1>3, <1>8, <1>9 DEF Current

-----------------------------------------------------------------------------
(* Every step keeps the types.                                             *)

Born == [turn : Nat, delay : Int, scale : 1 .. ScaleCount]

LEMMA BornNotNothing == Nothing \notin Born
BY DEF Nothing, Born

\* What a step leaves alone of places and ids when it changes neither the number
\* of entries, nor their ids, nor the places that cancellers remember.
LEMMA PlacesKept ==
  ASSUME TypeInv, SameLengths, marking' = marking \/ Disturbed(marking')
  PROVE  \A c \in Cancellers : IsMarking(c)' => marking'[c].index <= Len(m_task_map'[marking'[c].slot])
<1> SUFFICES ASSUME NEW c \in Cancellers, IsMarking(c)'
             PROVE  marking'[c].index <= Len(m_task_map'[marking'[c].slot])
  OBVIOUS
<1>1. /\ IsMarking(c) /\ marking'[c].slot = marking[c].slot /\ marking'[c].index = marking[c].index
  BY DEF IsMarking, Disturbed
<1>2. marking[c] \in Marks /\ marking[c].index <= Len(m_task_map[marking[c].slot])
  BY <1>1 DEF TypeInv, TypeOK, PlacesExist, IsMarking, Marks
<1> QED
  BY <1>1, <1>2 DEF Marks, SameLengths

LEMMA TypeBeginAdd ==
  ASSUME TypeInv, NEW ms \in Delays, BeginAdd(ms)
  PROVE  TypeInv'
<1>1. /\ m_cid' \in Ids /\ m_cid' = m_cid + 1 /\ m_task_map' \in Maps /\ SameLengths
      /\ adding' \in [slot : Slots, index : Nat \ {0}, entry : Entries]
      /\ adding'.entry.id = m_cid' /\ adding'.index <= Len(m_task_map[adding'.slot]) + 1
      /\ \A s \in Slots : \A j \in 1 .. Len(m_task_map[s]) : m_task_map'[s][j].id = m_task_map[s][j].id
  BY BeginAddEffect
<1>2. Disturbed(marking')
  BY DisturbKeeps DEF BeginAdd, TypeInv
<1>3. /\ mutex = "free" /\ mutex' = "adding"
      /\ born' = [born EXCEPT ![m_cid'] = [turn |-> turns, delay |-> ms, scale |-> m_current_scale]]
      /\ UNCHANGED <<m_current_scale, m_id_map, pos, decrementing, asleep, ticks, inits,
                     turns, fired, hit, cancelled, stopped>>
  BY DEF BeginAdd, tickVars
<1>4. adding' # Nothing
  <2>1. adding'.slot \in Slots /\ DOMAIN adding' = {"slot", "index", "entry"}
    BY <1>1
  <2>2. DOMAIN Nothing = {"kind"}
    BY DEF Nothing
  <2> QED BY <2>1, <2>2
<1>5. [turn |-> turns, delay |-> ms, scale |-> m_current_scale] \in Born
  BY DelaysAssumption, BoundsAssumption DEF Born, TypeInv, TypeOK
<1>6. /\ born \in [Ids -> {Nothing} \cup Born] /\ born' \in [Ids -> {Nothing} \cup Born]
      /\ born'[m_cid'].turn = turns /\ born'[m_cid'] # Nothing
      /\ \A i \in Ids : i # m_cid' => born'[i] = born[i]
  BY <1>1, <1>3, <1>5, BornNotNothing DEF TypeInv, TypeOK, Born
<1>7. TypeOK'
  <2>1. m_task_map' \in [Slots -> Seq(Entries)] /\ m_cid' \in 0 .. MaxTimers
    BY <1>1, BoundsAssumption DEF Maps, Ids
  <2>2. /\ m_current_scale' \in 1 .. ScaleCount /\ m_id_map' \in [Ids -> Slots]
        /\ mutex' \in {"free", "adding", "ticking"} /\ pos' \in Nat /\ decrementing' \in BOOLEAN
        /\ asleep' \in 0 .. MaxInits /\ ticks' \in 0 .. MaxInits /\ inits' \in 0 .. MaxInits
        /\ turns' \in 0 .. MaxInits /\ fired' \in [Ids -> Seq(Nat)]
    BY <1>3 DEF TypeInv, TypeOK
  <2>3. hit' \subseteq Ids /\ cancelled' \subseteq Ids /\ stopped' \subseteq cancelled'
    BY <1>3 DEF TypeInv, TypeOK
  <2> QED
    BY <1>1, <1>2, <1>6, <2>1, <2>2, <2>3 DEF TypeOK, Disturbed, Marks, Born
<1>8. PlacesExist'
  <2>1. \A c \in Cancellers : IsMarking(c)' => marking'[c].index <= Len(m_task_map'[marking'[c].slot])
    BY <1>1, <1>2, PlacesKept
  <2>2. ~decrementing'
    BY <1>3 DEF TypeInv, PlacesExist
  <2>3. adding'.index <= Len(m_task_map'[adding'.slot]) + 1
    BY <1>1 DEF SameLengths
  <2> QED
    BY <1>1, <1>3, <1>4, <2>1, <2>2, <2>3 DEF PlacesExist
<1>9. IdsGivenOut'
  <2>1. ASSUME NEW s \in Slots, NEW j \in 1 .. Len(m_task_map'[s])
        PROVE  m_task_map'[s][j].id <= m_cid'
    <3>1. j \in 1 .. Len(m_task_map[s])
      BY <1>1 DEF SameLengths
    <3>2. m_task_map[s][j].id <= m_cid /\ m_task_map[s][j].id \in Ids /\ m_cid \in Nat
      <4>1. m_task_map[s][j] \in Entries /\ m_cid \in Nat
        BY <3>1, BoundsAssumption DEF TypeInv, TypeOK
      <4> QED BY <3>1, <4>1 DEF TypeInv, IdsGivenOut, Entries
    <3> QED BY <1>1, <3>1, <3>2 DEF Ids
  <2>2. ASSUME NEW i \in Ids, i <= m_cid'
        PROVE  born'[i] # Nothing /\ born'[i].turn <= turns'
    <3>1. CASE i = m_cid'
      <4>1. turns \in Nat
        BY BoundsAssumption DEF TypeInv, TypeOK
      <4> QED BY <1>3, <1>6, <3>1, <4>1
    <3>2. CASE i # m_cid'
      <4>1. i <= m_cid
        <5>1. i \in Int /\ m_cid \in Int
          BY <2>2, BoundsAssumption DEF Ids, TypeInv, TypeOK
        <5> QED BY <1>1, <2>2, <3>2, <5>1
      <4> QED BY <1>3, <1>6, <3>2, <4>1 DEF TypeInv, IdsGivenOut
    <3> QED BY <3>1, <3>2
  <2> QED BY <2>1, <2>2 DEF IdsGivenOut
<1> QED
  BY <1>3, <1>7, <1>8, <1>9 DEF TypeInv

LEMMA TypeCommitAdd == TypeInv /\ CommitAdd => TypeInv'
<1> SUFFICES ASSUME TypeInv, CommitAdd PROVE TypeInv'
  OBVIOUS
<1>1. /\ adding \in [slot : Slots, index : Nat \ {0}, entry : Entries]
      /\ m_task_map' \in Maps
      /\ \A s \in Slots : Len(m_task_map'[s]) \in {Len(m_task_map[s]), Len(m_task_map[s]) + 1}
      /\ \A s \in Slots : \A j \in 1 .. Len(m_task_map'[s]) :
           IF s = adding.slot /\ j = adding.index THEN m_task_map'[s][j] = adding.entry
           ELSE j <= Len(m_task_map[s]) /\ m_task_map'[s][j] = m_task_map[s][j]
  BY CommitAddEffect
<1>2. Disturbed(marking')
  <2>1. adding.slot \in Slots
    BY <1>1
  <2> QED BY <2>1, DisturbKeeps, GrowKeeps DEF CommitAdd, TypeInv
<1>3. /\ mutex = "adding" /\ mutex' = "free" /\ adding' = Nothing
      /\ m_id_map' = [m_id_map EXCEPT ![adding.entry.id] = adding.slot]
      /\ UNCHANGED <<m_current_scale, m_cid, pos, decrementing, asleep, ticks, inits,
                     turns, born, fired, hit, cancelled, stopped>>
  BY DEF CommitAdd, tickVars, history
<1>4. adding.entry.id = m_cid /\ ~decrementing
  BY <1>3 DEF TypeInv, PlacesExist
<1>5. TypeOK'
  <2>1. m_task_map' \in [Slots -> Seq(Entries)] /\ m_id_map' \in [Ids -> Slots]
    BY <1>1, <1>3 DEF Maps, TypeInv, TypeOK
  <2>2. /\ m_current_scale' \in 1 .. ScaleCount /\ m_cid' \in 0 .. MaxTimers
        /\ mutex' \in {"free", "adding", "ticking"} /\ pos' \in Nat /\ decrementing' \in BOOLEAN
        /\ asleep' \in 0 .. MaxInits /\ ticks' \in 0 .. MaxInits /\ inits' \in 0 .. MaxInits
        /\ turns' \in 0 .. MaxInits /\ fired' \in [Ids -> Seq(Nat)]
    BY <1>3 DEF TypeInv, TypeOK
  <2>3. hit' \subseteq Ids /\ cancelled' \subseteq Ids /\ stopped' \subseteq cancelled'
    BY <1>3 DEF TypeInv, TypeOK
  <2>4. born' \in [Ids -> {Nothing} \cup [turn : Nat, delay : Int, scale : 1 .. ScaleCount]]
    BY <1>3 DEF TypeInv, TypeOK
  <2> QED
    BY <1>2, <1>3, <2>1, <2>2, <2>3, <2>4 DEF TypeOK, Disturbed, Marks
<1>6. PlacesExist'
  <2>1. ASSUME NEW c \in Cancellers, IsMarking(c)'
        PROVE  marking'[c].index <= Len(m_task_map'[marking'[c].slot])
    <3>1. IsMarking(c) /\ marking'[c].slot = marking[c].slot /\ marking'[c].index = marking[c].index
      BY <1>2, <2>1 DEF IsMarking, Disturbed
    <3>2. marking[c] \in Marks /\ marking[c].index <= Len(m_task_map[marking[c].slot])
      BY <3>1 DEF TypeInv, TypeOK, PlacesExist, IsMarking, Marks
    <3>3. marking[c].slot \in Slots /\ marking[c].index \in Nat
      BY <3>2 DEF Marks
    <3>4. Len(m_task_map[marking[c].slot]) \in Nat
      BY <3>3 DEF TypeInv, TypeOK
    <3> QED BY <1>1, <3>1, <3>2, <3>3, <3>4
  <2> QED
    BY <1>3, <1>4, <2>1 DEF PlacesExist
<1>7. IdsGivenOut'
  <2>1. ASSUME NEW s \in Slots, NEW j \in 1 .. Len(m_task_map'[s])
        PROVE  m_task_map'[s][j].id <= m_cid'
    <3>1. CASE s = adding.slot /\ j = adding.index
      <4>1. m_cid \in Int
        BY BoundsAssumption DEF TypeInv, TypeOK
      <4> QED BY <1>1, <1>3, <1>4, <3>1, <4>1
    <3>2. CASE ~(s = adding.slot /\ j = adding.index)
      <4>1. j \in 1 .. Len(m_task_map[s]) /\ m_task_map'[s][j] = m_task_map[s][j]
        BY <1>1, <3>2 DEF TypeInv, TypeOK
      <4> QED BY <1>3, <4>1 DEF TypeInv, IdsGivenOut
    <3> QED BY <3>1, <3>2
  <2> QED BY <1>3, <2>1 DEF TypeInv, IdsGivenOut
<1> QED
  BY <1>3, <1>5, <1>6, <1>7 DEF TypeInv

LEMMA TypeCancelFind ==
  ASSUME TypeInv, NEW c \in Cancellers, NEW id \in Ids, CancelFind(c, id)
  PROVE  TypeInv'
<1> DEFINE slot  == m_id_map[id]
           list  == m_task_map[slot]
           found == {i \in DOMAIN list : list[i].id = id}
           m     == [slot |-> slot, index |-> Min(found), id |-> id, moved |-> FALSE, alone |-> mutex = "free"]
<1>1. slot \in Slots /\ list \in Seq(Entries)
  BY DEF TypeInv, TypeOK
<1>2. found # {} /\ found \in SUBSET Nat
  BY <1>1 DEF CancelFind
<1>3. Min(found) \in found
  BY <1>2, MinIsLeast
<1>4. Min(found) \in 1 .. Len(list)
  BY <1>1, <1>3
<1>5. marking' = [marking EXCEPT ![c] = m]
      /\ UNCHANGED <<m_current_scale, m_cid, m_task_map, m_id_map, mutex, adding, pos, decrementing,
                     asleep, ticks, inits, turns, born, fired, hit, cancelled, stopped>>
  BY DEF CancelFind, wheelVars, lockVars, tickVars, history
<1>6. m \in Marks /\ m.slot = slot /\ m.index = Min(found)
  BY <1>1, <1>4 DEF Marks
<1> HIDE DEF m
<1>7. /\ marking' \in [Cancellers -> {Nothing} \cup Marks]
      /\ \A d \in Cancellers : marking'[d] = IF d = c THEN m ELSE marking[d]
  BY <1>5, <1>6 DEF TypeInv, TypeOK, Marks
<1>8. TypeOK'
  BY <1>5, <1>7 DEF TypeInv, TypeOK, Marks
<1>9. PlacesExist'
  <2>1. ASSUME NEW d \in Cancellers, IsMarking(d)'
        PROVE  marking'[d].index <= Len(m_task_map'[marking'[d].slot])
    <3>1. CASE d = c
      BY <1>4, <1>5, <1>6, <1>7, <3>1
    <3>2. CASE d # c
      BY <1>5, <1>7, <2>1, <3>2 DEF TypeInv, PlacesExist, IsMarking
    <3> QED BY <3>1, <3>2
  <2> QED BY <1>5, <2>1 DEF TypeInv, PlacesExist, Current
<1> QED
  BY <1>5, <1>8, <1>9 DEF TypeInv, IdsGivenOut

LEMMA TypeCancelMark ==
  ASSUME TypeInv, NEW c \in Cancellers, CancelMark(c)
  PROVE  TypeInv'
<1>1. /\ marking[c] \in Marks /\ marking[c].index \in 1 .. Len(m_task_map[marking[c].slot])
      /\ m_task_map' \in Maps /\ SameLengths
      /\ \A s \in Slots : \A j \in 1 .. Len(m_task_map[s]) : m_task_map'[s][j].id = m_task_map[s][j].id
      /\ hit' = hit \/ hit' = hit \cup {m_task_map[marking[c].slot][marking[c].index].id}
  BY CancelMarkEffect
<1>2. /\ marking' = [marking EXCEPT ![c] = Nothing]
      /\ cancelled' = cancelled \cup {marking[c].id}
      /\ stopped' = stopped \/ stopped' = stopped \cup {marking[c].id}
      /\ UNCHANGED <<m_current_scale, m_cid, m_id_map, mutex, adding, pos, decrementing,
                     asleep, ticks, inits, turns, born, fired>>
  BY DEF CancelMark, lockVars, tickVars
<1>3. /\ marking' \in [Cancellers -> {Nothing} \cup Marks]
      /\ \A d \in Cancellers : marking'[d] = IF d = c THEN Nothing ELSE marking[d]
  BY <1>2 DEF TypeInv, TypeOK, Marks
<1>4. TypeOK'
  <2>1. m_task_map[marking[c].slot][marking[c].index] \in Entries /\ marking[c].id \in Ids
    BY <1>1 DEF TypeInv, TypeOK, Marks
  <2>2. hit' \subseteq Ids /\ cancelled' \subseteq Ids /\ stopped' \subseteq cancelled'
    BY <1>1, <1>2, <2>1 DEF TypeInv, TypeOK, Entries
  <2>3. m_task_map' \in [Slots -> Seq(Entries)]
    BY <1>1 DEF Maps
  <2> QED
    BY <1>2, <1>3, <2>2, <2>3 DEF TypeInv, TypeOK, Marks
<1>5. PlacesExist'
  <2>1. ASSUME NEW d \in Cancellers, IsMarking(d)'
        PROVE  marking'[d].index <= Len(m_task_map'[marking'[d].slot])
    <3>1. IsMarking(d) /\ marking'[d] = marking[d]
      BY <1>3, <2>1 DEF IsMarking
    <3>2. marking[d] \in Marks /\ marking[d].index <= Len(m_task_map[marking[d].slot])
      BY <3>1 DEF TypeInv, TypeOK, PlacesExist, IsMarking, Marks
    <3> QED BY <1>1, <3>1, <3>2 DEF SameLengths, Marks
  <2>2. m_current_scale \in Slots
    BY ScaleCountAssumption DEF TypeInv, TypeOK, Slots
  <2>3. Len(Current)' = Len(Current)
    BY <1>1, <1>2, <2>2 DEF SameLengths, Current
  <2>4. adding # Nothing /\ mutex = "adding" =>
          adding'.index <= Len(m_task_map'[adding'.slot]) + 1
    BY <1>1, <1>2 DEF SameLengths, TypeInv, TypeOK, PlacesExist
  <2> QED BY <1>2, <2>1, <2>3, <2>4 DEF TypeInv, PlacesExist
<1>6. IdsGivenOut'
  <2>1. ASSUME NEW s \in Slots, NEW j \in 1 .. Len(m_task_map'[s])
        PROVE  m_task_map'[s][j].id <= m_cid'
    BY <1>1, <1>2 DEF SameLengths, TypeInv, IdsGivenOut
  <2> QED BY <1>2, <2>1 DEF TypeInv, IdsGivenOut
<1> QED
  BY <1>2, <1>4, <1>5, <1>6 DEF TypeInv

LEMMA TypeTickPosted ==
  TypeInv /\ (InitWheel \/ PostTick) => TypeInv'
<1> SUFFICES ASSUME TypeInv, InitWheel \/ PostTick PROVE TypeInv'
  OBVIOUS
<1>1. UNCHANGED <<m_current_scale, m_cid, m_task_map, m_id_map, mutex, adding, pos, decrementing,
                  marking, turns, born, fired, hit, cancelled, stopped>>
  BY DEF InitWheel, PostTick, wheelVars, lockVars, history
<1>2. /\ asleep' \in 0 .. MaxInits /\ ticks' \in 0 .. MaxInits /\ inits' \in 0 .. MaxInits
      /\ asleep' + ticks' + turns' = inits'
  <2>1. /\ asleep \in 0 .. MaxInits /\ ticks \in 0 .. MaxInits /\ inits \in 0 .. MaxInits
        /\ turns \in 0 .. MaxInits /\ asleep + ticks + turns = inits /\ turns' = turns
    BY <1>1 DEF TypeInv, TypeOK
  <2>2. CASE InitWheel
    BY <2>1, <2>2, BoundsAssumption DEF InitWheel
  <2>3. CASE PostTick
    BY <2>1, <2>3, BoundsAssumption DEF PostTick
  <2> QED BY <2>2, <2>3
<1>3. TypeOK'
  BY <1>1, <1>2 DEF TypeInv, TypeOK
<1>4. PlacesExist' /\ IdsGivenOut'
  BY <1>1 DEF TypeInv, PlacesExist, IdsGivenOut, IsMarking, Current
<1> QED BY <1>2, <1>3, <1>4 DEF TypeInv

LEMMA TypeBeginTick == TypeInv /\ BeginTick => TypeInv'
<1> SUFFICES ASSUME TypeInv, BeginTick PROVE TypeInv'
  OBVIOUS
<1>1. Disturbed(marking')
  BY DisturbKeeps DEF BeginTick, TypeInv
<1>2. /\ mutex = "free" /\ mutex' = "ticking" /\ pos' = 1 /\ decrementing' = FALSE
      /\ ticks > 0 /\ ticks' = ticks - 1 /\ turns' = turns + 1
      /\ m_current_scale' = IF m_current_scale = ScaleCount THEN 1 ELSE m_current_scale + 1
      /\ UNCHANGED <<m_cid, m_task_map, m_id_map, adding, asleep, inits,
                     born, fired, hit, cancelled, stopped>>
  BY DEF BeginTick, Turn
<1>3. m_current_scale' \in 1 .. ScaleCount
  BY <1>2, ScaleCountAssumption DEF TypeInv, TypeOK
<1>4. /\ asleep \in 0 .. MaxInits /\ ticks' \in 0 .. MaxInits /\ inits \in 0 .. MaxInits
      /\ turns' \in 0 .. MaxInits /\ asleep + ticks' + turns' = inits
  BY <1>2, BoundsAssumption DEF TypeInv, TypeOK
<1>5. TypeOK'
  BY <1>1, <1>2, <1>3, <1>4 DEF TypeInv, TypeOK, Disturbed, Marks
<1>6. PlacesExist'
  <2>1. SameLengths
    BY <1>2 DEF SameLengths
  <2>2. \A c \in Cancellers : IsMarking(c)' => marking'[c].index <= Len(m_task_map'[marking'[c].slot])
    BY <1>1, <2>1, PlacesKept
  <2> QED BY <1>2, <2>2 DEF PlacesExist
<1>7. IdsGivenOut'
  BY <1>2, <1>4 DEF TypeInv, TypeOK, IdsGivenOut
<1> QED BY <1>2, <1>4, <1>5, <1>6, <1>7 DEF TypeInv

\* The entry that the tick is at.
LEMMA AtCurrent ==
  ASSUME TypeInv, ProcessEntry
  PROVE  /\ m_current_scale \in Slots /\ pos \in 1 .. Len(m_task_map[m_current_scale])
         /\ Current[pos] \in Entries
         /\ born[Current[pos].id] # Nothing /\ born[Current[pos].id] \in Born
         /\ turns - born[Current[pos].id].turn \in Nat
<1>1. m_current_scale \in Slots /\ Current \in Seq(Entries) /\ pos \in Nat /\ pos >= 1
  BY ScaleCountAssumption DEF TypeInv, TypeOK, PlacesExist, ProcessEntry, Slots, Current
<1>2. pos \in 1 .. Len(m_task_map[m_current_scale])
  BY <1>1 DEF ProcessEntry, Current
<1>3. Current[pos] \in Entries /\ Current[pos].id \in Ids
  <2>1. pos \in 1 .. Len(Current)
    BY <1>2 DEF Current
  <2>2. Current[pos] \in Entries
    BY <1>1, <2>1
  <2> QED BY <2>2 DEF Entries
<1>4. Current[pos].id <= m_cid
  BY <1>1, <1>2 DEF TypeInv, IdsGivenOut, Current
<1>5. /\ born[Current[pos].id] # Nothing /\ born[Current[pos].id].turn <= turns
      /\ born[Current[pos].id] \in {Nothing} \cup Born
  BY <1>3, <1>4 DEF TypeInv, TypeOK, IdsGivenOut, Born
<1>6. born[Current[pos].id].turn \in Nat /\ turns \in Nat
  BY <1>5, BoundsAssumption DEF Born, TypeInv, TypeOK
<1> QED BY <1>1, <1>2, <1>3, <1>5, <1>6

LEMMA TypeProcessEntry == TypeInv /\ ProcessEntry => TypeInv'
<1> SUFFICES ASSUME TypeInv, ProcessEntry PROVE TypeInv'
  OBVIOUS
<1>1. /\ mutex = "ticking" /\ decrementing' = TRUE
      /\ UNCHANGED <<m_current_scale, m_cid, m_task_map, m_id_map, mutex, adding, pos,
                     asleep, ticks, inits, marking, turns, born, hit, cancelled, stopped>>
  BY DEF ProcessEntry, wheelVars, tickVars
<1>2. fired' \in [Ids -> Seq(Nat)]
  <2>1. fired \in [Ids -> Seq(Nat)]
    BY DEF TypeInv, TypeOK
  <2>2. Current[pos].id \in Ids /\ turns - born[Current[pos].id].turn \in Nat
    BY AtCurrent DEF Entries
  <2>3. CASE IsDue(Current[pos])
    <3> DEFINE w == turns - born[Current[pos].id].turn
    <3>1. fired' = [fired EXCEPT ![Current[pos].id] = Append(@, w)]
      BY <2>3 DEF ProcessEntry
    <3>2. Append(fired[Current[pos].id], w) \in Seq(Nat)
      BY <2>1, <2>2
    <3> HIDE DEF w
    <3> QED BY <2>1, <2>2, <3>1, <3>2
  <2>4. CASE ~IsDue(Current[pos])
    BY <2>1, <2>4 DEF ProcessEntry
  <2> QED BY <2>3, <2>4
<1>3. TypeOK'
  BY <1>1, <1>2 DEF TypeInv, TypeOK
<1>4. pos \in 1 .. Len(m_task_map[m_current_scale])
  BY AtCurrent
<1>5. PlacesExist'
  BY <1>1, <1>4 DEF TypeInv, TypeOK, PlacesExist, IsMarking, Current
<1> QED
  BY <1>1, <1>3, <1>5 DEF TypeInv, IdsGivenOut

LEMMA TypeDecrementEntry == TypeInv /\ DecrementEntry => TypeInv'
<1> SUFFICES ASSUME TypeInv, DecrementEntry PROVE TypeInv'
  OBVIOUS
<1>1. /\ m_task_map' \in Maps /\ SameLengths
      /\ \A s \in Slots : \A j \in 1 .. Len(m_task_map[s]) : m_task_map'[s][j].id = m_task_map[s][j].id
  BY DecrementEffect
<1>2. /\ mutex = "ticking" /\ pos' = pos + 1 /\ decrementing' = FALSE
      /\ UNCHANGED <<m_current_scale, m_cid, m_id_map, mutex, adding, asleep, ticks, inits, marking,
                     turns, born, fired, hit, cancelled, stopped>>
  BY DEF DecrementEntry, tickVars, history
<1>3. m_task_map' \in [Slots -> Seq(Entries)] /\ pos' \in Nat /\ pos' >= 1
  BY <1>1, <1>2 DEF Maps, TypeInv, TypeOK
<1>4. TypeOK'
  BY <1>2, <1>3 DEF TypeInv, TypeOK
<1>5. PlacesExist'
  <2>1. \A c \in Cancellers : IsMarking(c)' => marking'[c].index <= Len(m_task_map'[marking'[c].slot])
    BY <1>1, <1>2, PlacesKept
  <2> QED BY <1>2, <1>3, <2>1 DEF PlacesExist
<1>6. IdsGivenOut'
  <2>1. ASSUME NEW s \in Slots, NEW j \in 1 .. Len(m_task_map'[s])
        PROVE  m_task_map'[s][j].id <= m_cid'
    BY <1>1, <1>2 DEF SameLengths, TypeInv, IdsGivenOut
  <2> QED BY <1>2, <2>1 DEF TypeInv, IdsGivenOut
<1> QED
  BY <1>2, <1>4, <1>5, <1>6 DEF TypeInv

LEMMA TypeEndTick == TypeInv /\ (EndTick \/ UNCHANGED vars) => TypeInv'
<1> SUFFICES ASSUME TypeInv, EndTick \/ UNCHANGED vars PROVE TypeInv'
  OBVIOUS
<1>1. /\ UNCHANGED <<m_current_scale, m_cid, m_task_map, m_id_map, adding, decrementing,
                     asleep, ticks, inits, marking, turns, born, fired, hit, cancelled, stopped>>
      /\ \/ mutex = "ticking" /\ ~decrementing /\ mutex' = "free" /\ pos' = 0
         \/ UNCHANGED <<mutex, pos>>
  BY DEF EndTick, vars, wheelVars, lockVars, tickVars, history
<1>2. TypeOK'
  BY <1>1 DEF TypeInv, TypeOK
<1>3. PlacesExist'
  BY <1>1 DEF TypeInv, PlacesExist, IsMarking, Current
<1> QED
  BY <1>1, <1>2, <1>3 DEF TypeInv, IdsGivenOut

LEMMA TypeStep == TypeInv /\ [Next]_vars => TypeInv'
BY TypeBeginAdd, TypeCommitAdd, TypeCancelFind, TypeCancelMark, TypeTickPosted, TypeBeginTick,
   TypeProcessEntry, TypeDecrementEntry, TypeEndTick
   DEF Next

\* The wheel keeps its types; a position of the wheel, a place in a vector and
\* an id are always ones that exist (time_wheel, src/utils/thread_pool.h:173-300).
THEOREM WheelTypes == Spec => []TypeOK
<1>1. TypeInv => TypeOK
  BY DEF TypeInv
<1> QED BY <1>1, TypeInit, TypeStep, PTL DEF Spec

-----------------------------------------------------------------------------
(* No two entries have the same id, and the one being added has none yet.  *)

EntryIds == \A s \in Slots : \A j \in 1 .. Len(m_task_map[s]) : m_task_map'[s][j].id = m_task_map[s][j].id

UniqueIds ==
  /\ \A s \in Slots, r \in Slots : \A j \in 1 .. Len(m_task_map[s]), k \in 1 .. Len(m_task_map[r]) :
       m_task_map[s][j].id = m_task_map[r][k].id => s = r /\ j = k
  /\ mutex = "adding" => \A s \in Slots : \A j \in 1 .. Len(m_task_map[s]) : m_task_map[s][j].id < m_cid

LEMMA UniqueInit == Init => UniqueIds
<1> SUFFICES ASSUME Init PROVE UniqueIds
  OBVIOUS
<1>1. \A s \in Slots : Len(m_task_map[s]) = 0
  BY DEF Init
<1> QED BY <1>1 DEF Init, UniqueIds

LEMMA UniqueKept ==
  ASSUME UniqueIds, SameLengths, EntryIds, mutex' = "adding" => mutex = "adding" /\ m_cid' = m_cid
  PROVE  UniqueIds'
BY DEF UniqueIds, SameLengths, EntryIds

\* The steps that add no timer.
OtherSteps ==
  \/ \E c \in Cancellers : CancelMark(c) \/ \E id \in Ids : CancelFind(c, id)
  \/ InitWheel \/ PostTick \/ BeginTick \/ ProcessEntry \/ DecrementEntry \/ EndTick \/ UNCHANGED vars

\* They change neither ids nor the number of entries.
LEMMA OtherStepsKeepIds ==
  ASSUME TypeInv, OtherSteps
  PROVE  /\ SameLengths /\ EntryIds /\ m_cid' = m_cid /\ adding' = adding /\ born' = born
         /\ mutex' = "adding" <=> mutex = "adding"
<1>1. ASSUME NEW c \in Cancellers, CancelMark(c)
      PROVE  SameLengths /\ EntryIds /\ UNCHANGED <<m_cid, adding, born, mutex>>
  BY <1>1, CancelMarkEffect DEF EntryIds, CancelMark, lockVars
<1>2. CASE DecrementEntry
  BY <1>2, DecrementEffect DEF EntryIds, DecrementEntry, history
<1>3. ASSUME \/ InitWheel \/ PostTick \/ BeginTick \/ ProcessEntry \/ EndTick \/ UNCHANGED vars
             \/ \E c \in Cancellers, id \in Ids : CancelFind(c, id)
      PROVE  UNCHANGED <<m_task_map, m_cid, adding, born>>
  BY <1>3 DEF InitWheel, PostTick, BeginTick, ProcessEntry, EndTick, CancelFind, vars,
              wheelVars, lockVars, history
<1>4. ASSUME \/ InitWheel \/ PostTick \/ BeginTick \/ ProcessEntry \/ EndTick \/ UNCHANGED vars
             \/ \E c \in Cancellers, id \in Ids : CancelFind(c, id)
      PROVE  mutex' = "adding" <=> mutex = "adding"
  BY <1>4 DEF InitWheel, PostTick, BeginTick, ProcessEntry, EndTick, CancelFind, vars, lockVars
<1>5. ASSUME UNCHANGED m_task_map PROVE SameLengths /\ EntryIds
  BY <1>5 DEF SameLengths, EntryIds
<1> QED
  BY <1>1, <1>2, <1>3, <1>4, <1>5 DEF OtherSteps

LEMMA UniqueStep == TypeInv /\ UniqueIds /\ [Next]_vars => UniqueIds'
<1> SUFFICES ASSUME TypeInv, UniqueIds, [Next]_vars PROVE UniqueIds'
  OBVIOUS
<1>1. ASSUME NEW ms \in Delays, BeginAdd(ms) PROVE UniqueIds'
  <2>1. /\ SameLengths /\ EntryIds /\ m_cid' = m_cid + 1 /\ m_cid \in Int
        /\ \A s \in Slots : \A j \in 1 .. Len(m_task_map[s]) : m_task_map[s][j].id <= m_cid /\ m_task_map[s][j].id \in Int
    <3>1. m_task_map \in Maps /\ m_cid \in Int
      BY BoundsAssumption DEF TypeInv, TypeOK, Maps
    <3>2. SameLengths /\ EntryIds /\ m_cid' = m_cid + 1
      <4>1. SameLengths /\ m_cid' = m_cid + 1
        BY <1>1, BeginAddEffect
      <4>2. ASSUME NEW s \in Slots, NEW j \in 1 .. Len(m_task_map[s])
            PROVE  m_task_map'[s][j].id = m_task_map[s][j].id
        BY <1>1, BeginAddEffect
      <4> QED BY <4>1, <4>2 DEF EntryIds
    <3>3. ASSUME NEW s \in Slots, NEW j \in 1 .. Len(m_task_map[s])
          PROVE  m_task_map[s][j].id <= m_cid /\ m_task_map[s][j].id \in Int
      <4>1. m_task_map[s][j] \in Entries
        BY <3>1 DEF Maps
      <4> QED BY <4>1 DEF TypeInv, IdsGivenOut, Entries, Ids
    <3> QED BY <3>1, <3>2, <3>3
  <2>2. \A s \in Slots : \A j \in 1 .. Len(m_task_map'[s]) :
          j \in 1 .. Len(m_task_map[s]) /\ m_task_map'[s][j].id = m_task_map[s][j].id
    BY <2>1 DEF SameLengths, EntryIds
  <2>3. \A s \in Slots : \A j \in 1 .. Len(m_task_map'[s]) : m_task_map'[s][j].id < m_cid'
    BY <2>1, <2>2
  <2> QED BY <2>2, <2>3 DEF UniqueIds
<1>2. ASSUME CommitAdd PROVE UniqueIds'
  <2>1. mutex = "adding" /\ mutex' = "free" /\ adding.entry.id = m_cid /\ m_cid \in Int
    <3>1. mutex = "adding" /\ mutex' = "free"
      BY <1>2 DEF CommitAdd
    <3>2. adding.entry.id = m_cid
      BY <3>1 DEF TypeInv, PlacesExist
    <3> QED BY <3>1, <3>2, BoundsAssumption DEF TypeInv, TypeOK
  <2>2. m_task_map' \in Maps /\ \A s \in Slots : Len(m_task_map[s]) \in Nat
    BY <1>2, CommitAddEffect DEF Maps, TypeInv, TypeOK
  <2>3. \A s \in Slots : \A j \in 1 .. Len(m_task_map'[s]) :
          \/ s = adding.slot /\ j = adding.index /\ m_task_map'[s][j].id = m_cid
          \/ j \in 1 .. Len(m_task_map[s]) /\ m_task_map'[s][j].id = m_task_map[s][j].id
    BY <1>2, <2>1, <2>2, CommitAddEffect
  <2>4. \A s \in Slots : \A j \in 1 .. Len(m_task_map[s]) : m_task_map[s][j].id # m_cid
    BY <2>1 DEF UniqueIds
  <2>5. ASSUME NEW s \in Slots, NEW r \in Slots,
               NEW j \in 1 .. Len(m_task_map'[s]), NEW k \in 1 .. Len(m_task_map'[r]),
               m_task_map'[s][j].id = m_task_map'[r][k].id
        PROVE  s = r /\ j = k
    <3>1. \/ s = adding.slot /\ j = adding.index /\ m_task_map'[s][j].id = m_cid
          \/ /\ j \in 1 .. Len(m_task_map[s]) /\ m_task_map'[s][j].id = m_task_map[s][j].id
             /\ m_task_map[s][j].id # m_cid
      BY <2>3, <2>4
    <3>2. \/ r = adding.slot /\ k = adding.index /\ m_task_map'[r][k].id = m_cid
          \/ /\ k \in 1 .. Len(m_task_map[r]) /\ m_task_map'[r][k].id = m_task_map[r][k].id
             /\ m_task_map[r][k].id # m_cid
      BY <2>3, <2>4
    <3>3. CASE /\ j \in 1 .. Len(m_task_map[s]) /\ k \in 1 .. Len(m_task_map[r])
               /\ m_task_map[s][j].id = m_task_map[r][k].id
      BY <3>3 DEF UniqueIds
    <3> QED BY <2>5, <3>1, <3>2, <3>3
  <2> QED BY <2>1, <2>5 DEF UniqueIds
<1>3. ASSUME OtherSteps PROVE UniqueIds'
  BY <1>3, OtherStepsKeepIds, UniqueKept
<1> QED
  BY <1>1, <1>2, <1>3 DEF Next, OtherSteps

-----------------------------------------------------------------------------
(* A timer cancelled by a canceller that was alone is not posted.          *)

\* The entry of such a timer, if the wheel still has one, is invalid.
StoppedAreInvalid ==
  \A i \in stopped :
    /\ i <= m_cid /\ ~(mutex = "adding" /\ i = m_cid)
    /\ fired[i] = <<>>
    /\ \A s \in Slots : \A j \in 1 .. Len(m_task_map[s]) :
         m_task_map[s][j].id = i => ~m_task_map[s][j].valid

\* A canceller that is alone is still about to mark the entry it has found.
AloneMarksItsOwn ==
  \A c \in Cancellers : IsMarking(c) /\ marking[c].alone =>
    /\ mutex = "free" /\ ~marking[c].moved
    /\ m_task_map[marking[c].slot][marking[c].index].id = marking[c].id

StoppedInv == StoppedAreInvalid /\ AloneMarksItsOwn

LEMMA StoppedInit == Init => StoppedInv
BY DEF Init, StoppedInv, StoppedAreInvalid, AloneMarksItsOwn, IsMarking

LEMMA NobodyAlone ==
  ASSUME Disturbed(marking')
  PROVE  AloneMarksItsOwn'
BY DEF Disturbed, AloneMarksItsOwn, IsMarking

LEMMA StoppedBeginAdd ==
  ASSUME TypeInv, StoppedInv, NEW ms \in Delays, BeginAdd(ms)
  PROVE  StoppedInv'
<1>1. Disturbed(marking')
  BY DisturbKeeps DEF BeginAdd, TypeInv
<1>2. /\ UNCHANGED <<stopped, fired>> /\ m_cid' = m_cid + 1 /\ m_cid \in Int /\ stopped \subseteq Int
  BY BoundsAssumption DEF BeginAdd, TypeInv, TypeOK, Ids
<1>3. SameLengths /\ \A s \in Slots : \A j \in 1 .. Len(m_task_map[s]) :
        m_task_map'[s][j].id = m_task_map[s][j].id /\ m_task_map'[s][j].valid = m_task_map[s][j].valid
  BY BeginAddEffect
<1>4. ASSUME NEW i \in stopped'
      PROVE  /\ i <= m_cid' /\ i # m_cid' /\ fired'[i] = <<>>
             /\ \A s \in Slots : \A j \in 1 .. Len(m_task_map'[s]) :
                  m_task_map'[s][j].id = i => ~m_task_map'[s][j].valid
  <2>1. i \in stopped /\ i \in Int /\ i <= m_cid /\ fired'[i] = <<>>
    BY <1>2, <1>4 DEF StoppedInv, StoppedAreInvalid
  <2>2. i <= m_cid' /\ i # m_cid'
    BY <1>2, <2>1
  <2>3. \A s \in Slots : \A j \in 1 .. Len(m_task_map[s]) :
          m_task_map[s][j].id = i => ~m_task_map[s][j].valid
    BY <2>1 DEF StoppedInv, StoppedAreInvalid
  <2> QED BY <1>3, <2>1, <2>2, <2>3 DEF SameLengths
<1>5. StoppedAreInvalid'
  BY <1>4 DEF StoppedAreInvalid
<1> QED BY <1>1, <1>5, NobodyAlone DEF StoppedInv

LEMMA StoppedCommitAdd ==
  ASSUME TypeInv, StoppedInv, CommitAdd
  PROVE  StoppedInv'
<1>1. /\ mutex = "adding" /\ mutex' = "free" /\ adding.entry.id = m_cid /\ m_cid' = m_cid
      /\ UNCHANGED <<stopped, fired>> /\ adding.slot \in Slots
  BY DEF CommitAdd, TypeInv, TypeOK, PlacesExist, history
<1>2. Disturbed(marking')
  <2>1. TypeOK
    BY DEF TypeInv
  <2>2. marking' = Disturb(marking) \/ marking' = Grow(adding.slot, Disturb(marking))
    BY DEF CommitAdd
  <2> QED BY <1>1, <2>1, <2>2, DisturbKeeps, GrowKeeps
<1>3. m_task_map' \in Maps /\ \A s \in Slots : Len(m_task_map[s]) \in Nat
  BY CommitAddEffect DEF Maps, TypeInv, TypeOK
<1>4. \A s \in Slots : \A j \in 1 .. Len(m_task_map'[s]) :
        \/ m_task_map'[s][j].id = m_cid
        \/ j \in 1 .. Len(m_task_map[s]) /\ m_task_map'[s][j] = m_task_map[s][j]
  BY <1>1, <1>3, CommitAddEffect
<1>5. StoppedAreInvalid'
  BY <1>1, <1>4 DEF StoppedInv, StoppedAreInvalid
<1> QED BY <1>2, <1>5, NobodyAlone DEF StoppedInv

LEMMA StoppedCancelFind ==
  ASSUME TypeInv, StoppedInv, NEW c \in Cancellers, NEW id \in Ids, CancelFind(c, id)
  PROVE  StoppedInv'
<1> DEFINE slot  == m_id_map[id]
           found == {i \in DOMAIN m_task_map[slot] : m_task_map[slot][i].id = id}
<1>1. /\ found # {} /\ UNCHANGED <<m_cid, m_task_map, mutex, stopped, fired>>
      /\ marking' = [marking EXCEPT ![c] =
           [slot |-> slot, index |-> Min(found), id |-> id, moved |-> FALSE, alone |-> mutex = "free"]]
  BY DEF CancelFind, wheelVars, lockVars, history
<1>2. Min(found) \in found
  <2>1. slot \in Slots /\ m_task_map[slot] \in Seq(Entries)
    BY DEF TypeInv, TypeOK
  <2>2. found \in SUBSET Nat
    BY <2>1
  <2> HIDE DEF found
  <2> QED BY <1>1, <2>2, MinIsLeast
<1>3. StoppedAreInvalid'
  BY <1>1 DEF StoppedInv, StoppedAreInvalid
<1>4. ASSUME NEW d \in Cancellers, IsMarking(d)', marking'[d].alone
      PROVE  /\ mutex' = "free" /\ ~marking'[d].moved
             /\ m_task_map'[marking'[d].slot][marking'[d].index].id = marking'[d].id
  <2>1. marking \in [Cancellers -> {Nothing} \cup Marks]
    BY DEF TypeInv, TypeOK, Marks
  <2>2. CASE d = c
    <3> DEFINE m == [slot |-> slot, index |-> Min(found), id |-> id, moved |-> FALSE, alone |-> mutex = "free"]
    <3>1. marking'[d] = m
      BY <1>1, <2>1, <2>2
    <3> HIDE DEF found
    <3>2. /\ m.slot = slot /\ m.index = Min(found) /\ m.id = id /\ m.moved = FALSE
          /\ m.alone = (mutex = "free")
      OBVIOUS
    <3> HIDE DEF m
    <3> QED BY <1>1, <1>2, <1>4, <3>1, <3>2 DEF found
  <2>3. CASE d # c
    BY <1>1, <1>4, <2>1, <2>3 DEF StoppedInv, AloneMarksItsOwn, IsMarking
  <2> QED BY <2>2, <2>3
<1>5. AloneMarksItsOwn'
  BY <1>4 DEF AloneMarksItsOwn
<1> QED BY <1>3, <1>5 DEF StoppedInv

LEMMA StoppedCancelMark ==
  ASSUME TypeInv, UniqueIds, StoppedInv, NEW c \in Cancellers, CancelMark(c)
  PROVE  StoppedInv'
<1> DEFINE m == marking[c]
<1>1. /\ m \in Marks /\ m.index \in 1 .. Len(m_task_map[m.slot]) /\ m.slot \in Slots
      /\ m_task_map' \in Maps /\ SameLengths /\ EntryIds
      /\ \A s \in Slots : \A j \in 1 .. Len(m_task_map[s]) :
           m_task_map'[s][j].valid => m_task_map[s][j].valid
      /\ m.moved \/ ~m_task_map'[m.slot][m.index].valid
  BY CancelMarkEffect DEF EntryIds, Marks
<1>2. /\ IsMarking(c) /\ UNCHANGED <<m_cid, mutex, fired>>
      /\ marking' = [marking EXCEPT ![c] = Nothing]
      /\ stopped' = IF m.alone /\ fired[m.id] = <<>> THEN stopped \cup {m.id} ELSE stopped
  BY DEF CancelMark, lockVars
<1>3. m_task_map \in Maps
  BY DEF TypeInv, TypeOK, Maps
<1>4. ASSUME NEW i \in stopped
      PROVE  /\ i <= m_cid' /\ ~(mutex' = "adding" /\ i = m_cid') /\ fired'[i] = <<>>
             /\ \A s \in Slots : \A j \in 1 .. Len(m_task_map'[s]) :
                  m_task_map'[s][j].id = i => ~m_task_map'[s][j].valid
  <2> HIDE DEF m
  <2> QED BY <1>1, <1>2 DEF StoppedInv, StoppedAreInvalid, SameLengths, EntryIds
<1>5. AloneMarksItsOwn'
  <2>1. ASSUME NEW d \in Cancellers, IsMarking(d)'
        PROVE  IsMarking(d) /\ marking'[d] = marking[d]
               /\ marking[d].slot \in Slots /\ marking[d].index \in 1 .. Len(m_task_map[marking[d].slot])
    <3>1. marking \in [Cancellers -> {Nothing} \cup Marks]
      BY DEF TypeInv, TypeOK, Marks
    <3>2. IsMarking(d) /\ marking'[d] = marking[d]
      BY <1>2, <2>1, <3>1 DEF IsMarking
    <3>3. marking[d] \in Marks /\ marking[d].index <= Len(m_task_map[marking[d].slot])
      BY <3>1, <3>2 DEF TypeInv, PlacesExist, IsMarking
    <3> QED BY <1>3, <3>2, <3>3 DEF Marks, Maps
  <2> QED BY <1>1, <1>2, <2>1 DEF StoppedInv, AloneMarksItsOwn, EntryIds
<1>6. CASE m.alone /\ fired[m.id] = <<>>
  <2>1. mutex = "free" /\ ~m.moved /\ m_task_map[m.slot][m.index].id = m.id
    BY <1>2, <1>6 DEF StoppedInv, AloneMarksItsOwn
  <2>2. m.id <= m_cid
    BY <1>1, <2>1 DEF TypeInv, IdsGivenOut
  <2>3. \A s \in Slots : \A j \in 1 .. Len(m_task_map[s]) :
          m_task_map'[s][j].id = m.id => ~m_task_map'[s][j].valid
    <3>1. ASSUME NEW s \in Slots, NEW j \in 1 .. Len(m_task_map[s]), m_task_map'[s][j].id = m.id
          PROVE  ~m_task_map'[s][j].valid
      <4>1. m_task_map[s][j].id = m_task_map[m.slot][m.index].id
        BY <1>1, <2>1, <3>1 DEF EntryIds
      <4>2. s = m.slot /\ j = m.index
        BY <1>1, <4>1 DEF UniqueIds
      <4> QED BY <1>1, <2>1, <4>2
    <3> QED BY <3>1
  <2>4. stopped' = stopped \cup {m.id}
    BY <1>2, <1>6
  <2>5. /\ m.id <= m_cid' /\ ~(mutex' = "adding" /\ m.id = m_cid') /\ fired'[m.id] = <<>>
        /\ \A s \in Slots : \A j \in 1 .. Len(m_task_map'[s]) :
             m_task_map'[s][j].id = m.id => ~m_task_map'[s][j].valid
    BY <1>1, <1>2, <1>6, <2>1, <2>2, <2>3 DEF SameLengths
  <2> HIDE DEF m
  <2> QED BY <1>4, <1>5, <2>4, <2>5 DEF StoppedInv, StoppedAreInvalid
<1>7. CASE ~(m.alone /\ fired[m.id] = <<>>)
  <2>1. stopped' = stopped
    BY <1>2, <1>7
  <2> QED BY <1>4, <1>5, <2>1 DEF StoppedInv, StoppedAreInvalid
<1> QED BY <1>6, <1>7

LEMMA StoppedTickPosted ==
  ASSUME StoppedInv, InitWheel \/ PostTick \/ UNCHANGED vars
  PROVE  StoppedInv'
<1>1. UNCHANGED <<m_cid, m_task_map, mutex, marking, fired, stopped>>
  BY DEF InitWheel, PostTick, vars, wheelVars, lockVars, history
<1> QED BY <1>1 DEF StoppedInv, StoppedAreInvalid, AloneMarksItsOwn, IsMarking

LEMMA StoppedBeginTick ==
  ASSUME TypeInv, StoppedInv, BeginTick
  PROVE  StoppedInv'
<1>1. /\ mutex' = "ticking" /\ marking' = Disturb(marking)
      /\ UNCHANGED <<m_cid, m_task_map, fired, stopped>>
  BY DEF BeginTick
<1>2. Disturbed(marking')
  BY <1>1, DisturbKeeps DEF TypeInv
<1>3. StoppedAreInvalid'
  BY <1>1 DEF StoppedInv, StoppedAreInvalid
<1> QED BY <1>2, <1>3, NobodyAlone DEF StoppedInv

\* process() posts only what is valid, and nobody is alone while it runs.
LEMMA StoppedProcess ==
  ASSUME TypeInv, StoppedInv, ProcessEntry \/ DecrementEntry \/ EndTick
  PROVE  StoppedInv'
<1>1. /\ mutex = "ticking" /\ UNCHANGED <<m_cid, marking, stopped>> /\ mutex' # "adding"
  BY DEF ProcessEntry, DecrementEntry, EndTick, wheelVars, history
<1>2. SameLengths /\ \A s \in Slots : \A j \in 1 .. Len(m_task_map[s]) :
        m_task_map'[s][j].id = m_task_map[s][j].id /\ m_task_map'[s][j].valid = m_task_map[s][j].valid
  <2>1. CASE DecrementEntry
    BY <2>1, DecrementEffect
  <2>2. CASE ProcessEntry \/ EndTick
    BY <2>2 DEF ProcessEntry, EndTick, wheelVars, SameLengths
  <2> QED BY <2>1, <2>2
<1>3. ASSUME NEW i \in stopped
      PROVE  fired'[i] = <<>>
  <2>1. fired[i] = <<>> /\ i \in Ids
    BY DEF StoppedInv, StoppedAreInvalid, TypeInv, TypeOK
  <2>2. CASE DecrementEntry \/ EndTick
    BY <2>1, <2>2 DEF DecrementEntry, EndTick, history
  <2>3. CASE ProcessEntry
    <3>1. m_current_scale \in Slots /\ pos \in 1 .. Len(m_task_map[m_current_scale])
      BY <2>3, AtCurrent
    <3>2. CASE ~IsDue(Current[pos])
      BY <2>1, <2>3, <3>2 DEF ProcessEntry
    <3>3. CASE IsDue(Current[pos])
      <4>1. Current[pos].id # i
        BY <3>1, <3>3 DEF IsDue, Current, StoppedInv, StoppedAreInvalid
      <4>2. /\ fired' = [fired EXCEPT ![Current[pos].id] =
                           Append(@, turns - born[Current[pos].id].turn)]
            /\ fired \in [Ids -> Seq(Nat)]
        BY <2>3, <3>3 DEF ProcessEntry, TypeInv, TypeOK
      <4> QED BY <2>1, <4>1, <4>2
    <3> QED BY <3>2, <3>3
  <2> QED BY <2>2, <2>3
<1>4. StoppedAreInvalid'
  BY <1>1, <1>2, <1>3 DEF StoppedInv, StoppedAreInvalid, SameLengths
<1>5. AloneMarksItsOwn'
  BY <1>1 DEF StoppedInv, AloneMarksItsOwn, IsMarking
<1> QED BY <1>4, <1>5 DEF StoppedInv

LEMMA StoppedStep == TypeInv /\ UniqueIds /\ StoppedInv /\ [Next]_vars => StoppedInv'
BY StoppedBeginAdd, StoppedCommitAdd, StoppedCancelFind, StoppedCancelMark, StoppedTickPosted,
   StoppedBeginTick, StoppedProcess
   DEF Next

\* A cancel_timer that found and marked its entry while nobody had the mutex
\* keeps its word (src/utils/thread_pool.h:210-230 and 289-300).  No vector has
\* moved and no entry has been reused in between, ids are unique, and an entry
\* once invalid stays so until another timer takes its place.
THEOREM CancelAloneIsKept == Spec => []CancelAloneHolds
<1>1. StoppedInv => CancelAloneHolds
  BY DEF StoppedInv, StoppedAreInvalid, CancelAloneHolds
<1> QED
  BY <1>1, TypeInit, TypeStep, UniqueInit, UniqueStep, StoppedInit, StoppedStep, PTL DEF Spec

-----------------------------------------------------------------------------
(* Timers are posted when they are due.  The turns a timer has waited and  *)
(* those it still has to wait add up to what it is due for.                *)

\* Turns until the wheel next reaches slot s.
Ahead(s) == IF s > m_current_scale THEN s - m_current_scale ELSE s - m_current_scale + ScaleCount

\* The same for an entry of that slot: none, if the tick has yet to count it down.
Distance(s, j) == IF mutex = "ticking" /\ s = m_current_scale /\ j >= pos THEN 0 ELSE Ahead(s)

\* The place that add_ms_task is filling.
BeingFilled(s, j) == mutex = "adding" /\ s = adding.slot /\ j = adding.index

Waiting(s, j) == s > 0 /\ m_task_map[s][j].count >= 0 /\ ~BeingFilled(s, j)

InTime(id, s, left) == SlotOf(id) = s /\ turns - born[id].turn + left = Due(id)

OnTime ==
  /\ \A s \in Slots : \A j \in 1 .. Len(m_task_map[s]) :
       Waiting(s, j) => InTime(m_task_map[s][j].id, s, Distance(s, j) + m_task_map[s][j].count * ScaleCount)
  /\ mutex = "adding" =>
       /\ SlotOf(adding.entry.id) = adding.slot /\ adding.entry.valid
       /\ adding.slot > 0 => /\ adding.entry.count >= 0
                             /\ InTime(adding.entry.id, adding.slot,
                                       Ahead(adding.slot) + adding.entry.count * ScaleCount)

LEMMA OnTimeInit == Init => OnTime
<1> SUFFICES ASSUME Init PROVE OnTime
  OBVIOUS
<1>1. \A s \in Slots : Len(m_task_map[s]) = 0
  BY DEF Init
<1> QED BY <1>1 DEF Init, OnTime

\* What is known of an entry.
LEMMA EntryFacts ==
  ASSUME TypeInv, NEW s \in Slots, NEW j \in 1 .. Len(m_task_map[s])
  PROVE  LET id == m_task_map[s][j].id
         IN  /\ m_task_map[s][j] \in Entries /\ m_task_map[s][j].count \in Int
             /\ id \in Ids /\ id <= m_cid /\ born[id] \in Born
             /\ turns \in Nat /\ born[id].turn \in Nat /\ born[id].turn <= turns
<1>1. m_task_map \in Maps
  BY DEF TypeInv, TypeOK, Maps
<1>2. m_task_map[s][j] \in Entries
  BY <1>1 DEF Maps
<1>3. m_task_map[s][j].id \in Ids /\ m_task_map[s][j].count \in Int
  BY <1>2 DEF Entries
<1>4. m_task_map[s][j].id <= m_cid
  BY DEF TypeInv, IdsGivenOut
<1>5. /\ born[m_task_map[s][j].id] \in {Nothing} \cup Born /\ born[m_task_map[s][j].id] # Nothing
      /\ born[m_task_map[s][j].id].turn <= turns /\ turns \in Nat
  BY <1>3, <1>4, BoundsAssumption DEF TypeInv, TypeOK, IdsGivenOut, Born
<1> QED BY <1>2, <1>3, <1>4, <1>5 DEF Born

LEMMA BornFacts ==
  ASSUME NEW id, born[id] \in Born
  PROVE  SlotOf(id) \in Slots /\ Due(id) \in Int
<1>1. born[id].delay + born[id].scale \in Int /\ born[id].delay \in Int /\ born[id].scale \in Int
  BY ScaleCountAssumption DEF Born
<1>2. SlotOf(id) \in Slots
  BY <1>1, Division DEF SlotOf
<1> QED BY <1>1, <1>2, ScaleCountAssumption DEF Due, Slots

LEMMA AheadIsTurns ==
  ASSUME TypeInv, NEW s \in Slots, s > 0
  PROVE  Ahead(s) \in 1 .. ScaleCount
BY ScaleCountAssumption DEF Ahead, Slots, TypeInv, TypeOK

LEMMA OnTimeQuiet ==
  ASSUME OnTime, SameLengths, EntryIds,
         \A s \in Slots : \A j \in 1 .. Len(m_task_map[s]) : m_task_map'[s][j].count = m_task_map[s][j].count,
         UNCHANGED <<m_current_scale, mutex, adding, pos, turns, born>>
  PROVE  OnTime'
<1>1. ASSUME NEW s \in Slots, NEW j \in 1 .. Len(m_task_map'[s]), Waiting(s, j)'
      PROVE  InTime(m_task_map[s][j].id, s, Distance(s, j) + m_task_map[s][j].count * ScaleCount)'
  <2>1. j \in 1 .. Len(m_task_map[s]) /\ Waiting(s, j)
    BY <1>1 DEF SameLengths, Waiting, BeingFilled
  <2>2. InTime(m_task_map[s][j].id, s, Distance(s, j) + m_task_map[s][j].count * ScaleCount)
    BY <2>1 DEF OnTime
  <2>3. Distance(s, j)' = Distance(s, j)
    BY DEF Distance, Ahead
  <2>4. m_task_map'[s][j].count = m_task_map[s][j].count /\ m_task_map'[s][j].id = m_task_map[s][j].id
    BY <2>1 DEF EntryIds
  <2> QED BY <2>2, <2>3, <2>4 DEF InTime, SlotOf, Due
<1>2. (mutex = "adding" =>
       /\ SlotOf(adding.entry.id) = adding.slot /\ adding.entry.valid
       /\ adding.slot > 0 => /\ adding.entry.count >= 0
                             /\ InTime(adding.entry.id, adding.slot,
                                       Ahead(adding.slot) + adding.entry.count * ScaleCount))'
  BY DEF OnTime, InTime, SlotOf, Due, Ahead
<1> QED BY <1>1, <1>2 DEF OnTime

\* A timer that is added is due when the wheel has turned to its slot, and once
\* round for each revolution that is counted.
LEMMA OnTimeBeginAdd ==
  ASSUME TypeInv, OnTime, NEW ms \in Delays, BeginAdd(ms)
  PROVE  OnTime'
<1> DEFINE timer == ms + m_current_scale
<1>1. /\ mutex = "free" /\ mutex' = "adding" /\ UNCHANGED <<m_current_scale, turns, pos>>
      /\ born' = [born EXCEPT ![m_cid'] = [turn |-> turns, delay |-> ms, scale |-> m_current_scale]]
  BY DEF BeginAdd
<1>2. /\ adding'.slot = Remainder(timer) /\ adding'.entry.count = Quotient(timer)
      /\ adding'.entry.id = m_cid' /\ adding'.entry.valid /\ m_cid' = m_cid + 1 /\ m_cid' \in Ids
      /\ SameLengths /\ EntryIds
      /\ \A s \in Slots : \A j \in 1 .. Len(m_task_map[s]) :
           (s = adding'.slot /\ j = adding'.index) \/ m_task_map'[s][j] = m_task_map[s][j]
  BY BeginAddEffect DEF EntryIds
<1>3. m_cid \in Int /\ ms \in Int /\ m_current_scale \in 1 .. ScaleCount /\ turns \in Nat
      /\ timer \in Int
  BY DelaysAssumption, BoundsAssumption DEF TypeInv, TypeOK
<1>4. ASSUME NEW s \in Slots, NEW j \in 1 .. Len(m_task_map'[s]), Waiting(s, j)'
      PROVE  InTime(m_task_map[s][j].id, s, Distance(s, j) + m_task_map[s][j].count * ScaleCount)'
  <2>1. j \in 1 .. Len(m_task_map[s])
    BY <1>2 DEF SameLengths
  <2>2. m_task_map'[s][j] = m_task_map[s][j]
    BY <1>1, <1>2, <1>4, <2>1 DEF Waiting, BeingFilled
  <2>3. Waiting(s, j)
    BY <1>1, <1>4, <2>2 DEF Waiting, BeingFilled
  <2>4. InTime(m_task_map[s][j].id, s, Distance(s, j) + m_task_map[s][j].count * ScaleCount)
    BY <2>1, <2>3 DEF OnTime
  <2>5. Distance(s, j)' = Distance(s, j)
    BY <1>1 DEF Distance, Ahead
  <2>6. born'[m_task_map[s][j].id] = born[m_task_map[s][j].id]
    <3>1. m_task_map[s][j].id \in Ids /\ m_task_map[s][j].id <= m_cid /\ m_task_map[s][j].id \in Int
      BY <2>1, EntryFacts DEF Ids
    <3>2. m_task_map[s][j].id # m_cid'
      BY <1>2, <1>3, <3>1
    <3> QED BY <1>1, <3>1, <3>2 DEF TypeInv, TypeOK
  <2> QED BY <1>1, <2>2, <2>4, <2>5, <2>6 DEF InTime, SlotOf, Due
<1>5. PICK id \in Ids : id = m_cid'
  BY <1>2
<1>6. born'[id] = [turn |-> turns, delay |-> ms, scale |-> m_current_scale]
  BY <1>1, <1>2, <1>5 DEF TypeInv, TypeOK
<1>7. SlotOf(id)' = Remainder(timer)
  BY <1>6 DEF SlotOf, Remainder, Quotient
<1>8. ASSUME adding'.slot > 0
      PROVE  /\ adding'.entry.count >= 0
             /\ InTime(adding.entry.id, adding.slot, Ahead(adding.slot) + adding.entry.count * ScaleCount)'
  <2>1. PICK r \in Slots, q \in Nat : r = Remainder(timer) /\ q = Quotient(timer) /\ r > 0
    BY <1>2, <1>3, <1>8, Division
  <2> DEFINE rounds == q * ScaleCount
  <2>2. timer = rounds + r /\ rounds \in Int /\ r \in Int
    <3>1. timer = ScaleCount * q + r
      BY <1>3, <2>1, Division
    <3> HIDE DEF timer
    <3> QED BY <2>1, <3>1, ScaleCountAssumption DEF Slots
  <2>3. Due(id)' = IF r > m_current_scale THEN ms ELSE ms + ScaleCount
    <3>1. Due(id)' = ms + (IF r > m_current_scale THEN 0 ELSE ScaleCount)
      BY <1>6, <1>7, <2>1 DEF Due
    <3> QED BY <1>3, <3>1, ScaleCountAssumption
  <2>4. Ahead(r)' = Ahead(r)
    BY <1>1 DEF Ahead
  <2> HIDE DEF rounds
  <2>5. turns' - born'[id].turn + (Ahead(r)' + rounds) = Due(id)'
    <3>1. turns' - born'[id].turn = 0
      BY <1>1, <1>3, <1>6
    <3>2. CASE r > m_current_scale
      BY <1>3, <2>2, <2>3, <2>4, <3>1, <3>2 DEF Ahead
    <3>3. CASE ~(r > m_current_scale)
      <4>1. Ahead(r)' = r - m_current_scale + ScaleCount
        BY <2>4, <3>3 DEF Ahead
      <4>2. Due(id)' = ms + ScaleCount
        BY <2>3, <3>3
      <4>3. r - m_current_scale + ScaleCount + rounds = ms + ScaleCount
        BY <1>3, <2>2, ScaleCountAssumption
      <4> QED BY <1>3, <2>2, <3>1, <4>1, <4>2, <4>3, ScaleCountAssumption
    <3> QED BY <3>2, <3>3
  <2>6. adding'.entry.id = id /\ adding'.slot = r /\ adding'.entry.count = q
    BY <1>2, <1>5, <2>1
  <2>7. (Ahead(adding.slot) + adding.entry.count * ScaleCount)' = Ahead(r)' + rounds
    BY <2>6 DEF rounds, Ahead
  <2>8. SlotOf(id)' = r
    BY <1>7, <2>1
  <2> QED BY <2>1, <2>5, <2>6, <2>7, <2>8 DEF InTime
<1> QED BY <1>1, <1>2, <1>4, <1>5, <1>7, <1>8 DEF OnTime, SlotOf

LEMMA OnTimeCommitAdd ==
  ASSUME TypeInv, OnTime, CommitAdd
  PROVE  OnTime'
<1>1. /\ mutex = "adding" /\ mutex' = "free" /\ UNCHANGED <<m_current_scale, turns, born>>
      /\ adding.slot \in Slots
  BY DEF CommitAdd, history, TypeInv, TypeOK, PlacesExist
<1>2. ASSUME NEW s \in Slots, NEW j \in 1 .. Len(m_task_map'[s]), Waiting(s, j)'
      PROVE  InTime(m_task_map[s][j].id, s, Distance(s, j) + m_task_map[s][j].count * ScaleCount)'
  <2>1. Distance(s, j)' = Ahead(s) /\ s > 0 /\ m_task_map'[s][j].count >= 0
    BY <1>1, <1>2 DEF Distance, Ahead, Waiting
  <2>2. CASE s = adding.slot /\ j = adding.index
    <3>1. m_task_map'[s][j] = adding.entry
      BY <2>2, CommitAddEffect
    <3>2. InTime(adding.entry.id, s, Ahead(s) + adding.entry.count * ScaleCount)
      BY <1>1, <2>1, <2>2 DEF OnTime
    <3> QED BY <1>1, <2>1, <3>1, <3>2 DEF InTime, SlotOf, Due
  <2>3. CASE ~(s = adding.slot /\ j = adding.index)
    <3>1. j <= Len(m_task_map[s]) /\ m_task_map'[s][j] = m_task_map[s][j]
      BY <2>3, CommitAddEffect
    <3>2. j \in 1 .. Len(m_task_map[s])
      <4>1. m_task_map \in Maps /\ m_task_map' \in Maps
        BY CommitAddEffect DEF TypeInv, TypeOK, Maps
      <4>2. Len(m_task_map[s]) \in Nat /\ Len(m_task_map'[s]) \in Nat
        BY <4>1 DEF Maps
      <4> QED BY <3>1, <4>2
    <3>3. Waiting(s, j)
      BY <2>1, <2>3, <3>1 DEF Waiting, BeingFilled
    <3>4. InTime(m_task_map[s][j].id, s, Distance(s, j) + m_task_map[s][j].count * ScaleCount)
      BY <3>2, <3>3 DEF OnTime
    <3>5. Distance(s, j) = Ahead(s)
      BY <1>1 DEF Distance
    <3> QED BY <1>1, <2>1, <3>1, <3>4, <3>5 DEF InTime, SlotOf, Due
  <2> QED BY <2>2, <2>3
<1> QED BY <1>1, <1>2 DEF OnTime

\* The wheel turns: every slot is one turn nearer, and the one reached is at hand.
LEMMA OnTimeBeginTick ==
  ASSUME TypeInv, OnTime, BeginTick
  PROVE  OnTime'
<1>1. /\ mutex = "free" /\ mutex' = "ticking" /\ pos' = 1 /\ turns' = turns + 1
      /\ m_current_scale' = (IF m_current_scale = ScaleCount THEN 1 ELSE m_current_scale + 1)
      /\ UNCHANGED <<m_task_map, born>>
  BY DEF BeginTick, Turn
<1>2. m_current_scale \in 1 .. ScaleCount
  BY DEF TypeInv, TypeOK
<1>3. ASSUME NEW s \in Slots, NEW j \in 1 .. Len(m_task_map[s]), Waiting(s, j)'
      PROVE  InTime(m_task_map[s][j].id, s, Distance(s, j) + m_task_map[s][j].count * ScaleCount)'
  <2> DEFINE id == m_task_map[s][j].id
             left == m_task_map[s][j].count * ScaleCount
  <2>1. s > 0 /\ s \in Int /\ Waiting(s, j)
    BY <1>1, <1>3, ScaleCountAssumption DEF Waiting, BeingFilled, Slots
  <2>2. InTime(id, s, Distance(s, j) + left)
    BY <2>1 DEF OnTime
  <2>3. Distance(s, j) = Ahead(s) /\ Ahead(s) \in Int
    BY <1>1, <2>1, AheadIsTurns DEF Distance
  <2>4. Distance(s, j)' = Ahead(s) - 1
    <3>1. Distance(s, j)' = IF s = m_current_scale' THEN 0 ELSE Ahead(s)'
      BY <1>1 DEF Distance
    <3>2. CASE s > m_current_scale
      BY <1>1, <1>2, <2>1, <3>1, <3>2, ScaleCountAssumption DEF Ahead, Slots
    <3>3. CASE ~(s > m_current_scale) /\ m_current_scale < ScaleCount
      BY <1>1, <1>2, <2>1, <3>1, <3>3, ScaleCountAssumption DEF Ahead, Slots
    <3>4. CASE ~(s > m_current_scale) /\ m_current_scale = ScaleCount
      BY <1>1, <1>2, <2>1, <3>1, <3>4, ScaleCountAssumption DEF Ahead, Slots
    <3> QED BY <1>2, <2>1, <3>2, <3>3, <3>4, ScaleCountAssumption
  <2>5. turns \in Int /\ born[id].turn \in Int /\ born[id] \in Born /\ m_task_map[s][j].count \in Int
    BY EntryFacts
  <2>6. left \in Int
    BY <2>5, Revolutions
  <2>7. SlotOf(id)' = SlotOf(id) /\ Due(id)' = Due(id) /\ id' = id /\ left' = left
    BY <1>1 DEF SlotOf, Due
  <2> HIDE DEF id, left
  <2>8. turns' - born'[id].turn + (Distance(s, j)' + left) = turns - born[id].turn + (Ahead(s) + left)
    <3>1. turns' = turns + 1 /\ born'[id] = born[id]
      BY <1>1
    <3> QED BY <2>3, <2>4, <2>5, <2>6, <3>1
  <2> QED BY <1>1, <2>2, <2>3, <2>7, <2>8 DEF InTime, id, left
<1> QED BY <1>1, <1>3 DEF OnTime

\* An entry that is counted down has its slot a full revolution ahead again.
LEMMA OnTimeDecrement ==
  ASSUME TypeInv, OnTime, DecrementEntry
  PROVE  OnTime'
<1>1. /\ mutex = "ticking" /\ pos' = pos + 1 /\ pos \in Int
      /\ UNCHANGED <<m_current_scale, mutex, turns, born>>
  BY DEF DecrementEntry, history, TypeInv, TypeOK
<1>2. /\ SameLengths /\ EntryIds /\ m_current_scale \in 1 .. ScaleCount
      /\ \A s \in Slots : \A j \in 1 .. Len(m_task_map[s]) :
           m_task_map'[s][j].count = IF s = m_current_scale /\ j = pos THEN m_task_map[s][j].count - 1
                                     ELSE m_task_map[s][j].count
  BY DecrementEffect DEF EntryIds, TypeInv, TypeOK
<1>3. ASSUME NEW s \in Slots, NEW j \in 1 .. Len(m_task_map'[s]), Waiting(s, j)'
      PROVE  InTime(m_task_map[s][j].id, s, Distance(s, j) + m_task_map[s][j].count * ScaleCount)'
  <2>1. j \in 1 .. Len(m_task_map[s]) /\ j \in Int
    BY <1>2 DEF SameLengths
  <2>2. PICK n \in Int : n = m_task_map[s][j].count
    BY <2>1, EntryFacts
  <2>3. PICK id \in Ids : id = m_task_map[s][j].id
    BY <2>1, EntryFacts
  <2>4. m_task_map'[s][j].id = id
    BY <1>2, <2>1, <2>3 DEF EntryIds
  <2>5. SlotOf(id)' = SlotOf(id) /\ Due(id)' = Due(id)
    BY <1>1 DEF SlotOf, Due
  <2>6. CASE s = m_current_scale /\ j = pos
    <3>1. m_task_map'[s][j].count = n - 1 /\ n - 1 >= 0 /\ s > 0
      BY <1>2, <1>3, <2>1, <2>2, <2>6 DEF Waiting
    <3>2. Waiting(s, j)
      BY <1>1, <2>2, <3>1 DEF Waiting, BeingFilled
    <3>3. InTime(id, s, 0 + n * ScaleCount)
      BY <1>1, <2>1, <2>2, <2>3, <2>6, <3>2 DEF OnTime, Distance
    <3>4. Distance(s, j)' = ScaleCount
      BY <1>1, <1>2, <2>6, ScaleCountAssumption DEF Distance, Ahead
    <3>5. ScaleCount + (n - 1) * ScaleCount = 0 + n * ScaleCount
      BY Revolutions, ScaleCountAssumption
    <3> QED BY <1>1, <2>4, <2>5, <3>1, <3>3, <3>4, <3>5 DEF InTime
  <2>7. CASE ~(s = m_current_scale /\ j = pos)
    <3>1. m_task_map'[s][j].count = n
      BY <1>2, <2>1, <2>2, <2>7
    <3>2. Waiting(s, j)
      BY <1>1, <1>3, <2>2, <3>1 DEF Waiting, BeingFilled
    <3>3. InTime(id, s, Distance(s, j) + n * ScaleCount)
      BY <2>1, <2>2, <2>3, <3>2 DEF OnTime
    <3>4. Distance(s, j)' = Distance(s, j)
      <4>1. s = m_current_scale => (j >= pos <=> j >= pos')
        BY <1>1, <2>1, <2>7
      <4>2. Ahead(s)' = Ahead(s)
        BY <1>1 DEF Ahead
      <4> QED BY <1>1, <4>1, <4>2 DEF Distance
    <3> QED BY <1>1, <2>4, <2>5, <3>1, <3>3, <3>4 DEF InTime
  <2> QED BY <2>6, <2>7
<1> QED BY <1>1, <1>3 DEF OnTime

LEMMA OnTimeEndTick ==
  ASSUME TypeInv, OnTime, EndTick
  PROVE  OnTime'
<1>1. /\ mutex = "ticking" /\ mutex' = "free" /\ pos > Len(Current) /\ pos \in Int
      /\ UNCHANGED <<m_task_map, m_current_scale, turns, born>>
  BY DEF EndTick, wheelVars, history, TypeInv, TypeOK
<1>2. ASSUME NEW s \in Slots, NEW j \in 1 .. Len(m_task_map[s]), Waiting(s, j)'
      PROVE  InTime(m_task_map[s][j].id, s, Distance(s, j) + m_task_map[s][j].count * ScaleCount)'
  <2>1. Waiting(s, j)
    BY <1>1, <1>2 DEF Waiting, BeingFilled
  <2>2. InTime(m_task_map[s][j].id, s, Distance(s, j) + m_task_map[s][j].count * ScaleCount)
    BY <2>1 DEF OnTime
  <2>3. Distance(s, j) = Ahead(s)
    <3>1. m_task_map \in Maps
      BY DEF TypeInv, TypeOK, Maps
    <3>2. j \in Int /\ Len(m_task_map[s]) \in Nat /\ j <= Len(m_task_map[s])
      BY <3>1 DEF Maps
    <3>3. ~(s = m_current_scale /\ j >= pos)
      BY <1>1, <3>2 DEF Current
    <3> QED BY <3>3 DEF Distance
  <2>4. Distance(s, j)' = Ahead(s)
    BY <1>1 DEF Distance, Ahead
  <2> QED BY <1>1, <2>2, <2>3, <2>4 DEF InTime, SlotOf, Due
<1> QED BY <1>1, <1>2 DEF OnTime

LEMMA OnTimeStep == TypeInv /\ OnTime /\ [Next]_vars => OnTime'
<1> SUFFICES ASSUME TypeInv, OnTime, [Next]_vars PROVE OnTime'
  OBVIOUS
<1>1. ASSUME NEW c \in Cancellers, CancelMark(c) PROVE OnTime'
  <2>1. UNCHANGED <<m_current_scale, mutex, adding, pos, turns, born>>
    BY <1>1 DEF CancelMark, lockVars
  <2>2. /\ SameLengths /\ EntryIds
        /\ \A s \in Slots : \A j \in 1 .. Len(m_task_map[s]) : m_task_map'[s][j].count = m_task_map[s][j].count
    BY <1>1, CancelMarkEffect DEF EntryIds
  <2> QED BY <2>1, <2>2, OnTimeQuiet
<1>2. ASSUME \/ InitWheel \/ PostTick \/ ProcessEntry \/ UNCHANGED vars
             \/ \E c \in Cancellers, id \in Ids : CancelFind(c, id)
      PROVE  OnTime'
  <2>1. UNCHANGED <<m_task_map, m_current_scale, mutex, adding, pos, turns, born>>
    BY <1>2 DEF InitWheel, PostTick, ProcessEntry, CancelFind, vars, wheelVars, lockVars, history
  <2>2. SameLengths /\ EntryIds
    BY <2>1 DEF SameLengths, EntryIds
  <2> QED BY <2>1, <2>2, OnTimeQuiet
<1> QED
  BY <1>1, <1>2, OnTimeBeginAdd, OnTimeCommitAdd, OnTimeBeginTick, OnTimeDecrement, OnTimeEndTick
     DEF Next

\* A waiting timer has not been posted, unless the tick is between posting it and
\* counting its entry down; nor has a timer whose call has not returned.
PostedOnTime ==
  /\ FiresOnceWhenDue
  /\ \A s \in Slots : \A j \in 1 .. Len(m_task_map[s]) : Waiting(s, j) =>
       \/ fired[m_task_map[s][j].id] = <<>>
       \/ decrementing /\ s = m_current_scale /\ j = pos /\ m_task_map[s][j].count = 0
  /\ \A i \in Ids : i > m_cid \/ (mutex = "adding" /\ i = m_cid) => fired[i] = <<>>

LEMMA PostedInit == Init => PostedOnTime
<1> SUFFICES ASSUME Init PROVE PostedOnTime
  OBVIOUS
<1>1. \A s \in Slots : Len(m_task_map[s]) = 0
  BY DEF Init
<1>2. \A i \in Ids : fired[i] = <<>>
  BY DEF Init
<1> QED BY <1>1, <1>2 DEF PostedOnTime, FiresOnceWhenDue

\* A place that still counts when add_ms_task has begun is not the one it fills.
LEMMA WaitingBeforeAdd ==
  ASSUME TypeInv, NEW ms \in Delays, BeginAdd(ms), NEW s \in Slots, NEW j \in 1 .. Len(m_task_map[s])
  PROVE  /\ Waiting(s, j)' => Waiting(s, j) /\ m_task_map'[s][j] = m_task_map[s][j]
         /\ Waiting(s, j) => Waiting(s, j)' /\ m_task_map'[s][j] = m_task_map[s][j]
<1>1. mutex = "free" /\ mutex' = "adding"
  BY DEF BeginAdd
<1>2. /\ s = adding'.slot /\ j = adding'.index => m_task_map[s][j].count < 0
      /\ ~(s = adding'.slot /\ j = adding'.index) => m_task_map'[s][j] = m_task_map[s][j]
  BY BeginAddEffect
<1>3. m_task_map[s][j].count \in Int
  BY EntryFacts
<1> QED BY <1>1, <1>2, <1>3 DEF Waiting, BeingFilled

LEMMA PostedBeginAdd ==
  ASSUME TypeInv, PostedOnTime, NEW ms \in Delays, BeginAdd(ms)
  PROVE  PostedOnTime'
<1>1. /\ mutex = "free" /\ mutex' = "adding" /\ fired' = fired /\ m_cid' = m_cid + 1 /\ m_cid \in Int
      /\ born' = [born EXCEPT ![m_cid'] = [turn |-> turns, delay |-> ms, scale |-> m_current_scale]]
  BY BoundsAssumption DEF BeginAdd, TypeInv, TypeOK
<1>2. SameLengths /\ ~decrementing /\ born \in [Ids -> {Nothing} \cup Born]
  BY <1>1, BeginAddEffect DEF TypeInv, TypeOK, PlacesExist, Born
<1>3. ASSUME NEW i \in Ids, fired[i] # <<>>
      PROVE  i <= m_cid /\ i # m_cid' /\ born'[i] = born[i]
  <2>1. i <= m_cid /\ i \in Int
    BY <1>1, <1>3 DEF PostedOnTime, Ids
  <2>2. i # m_cid'
    BY <1>1, <2>1
  <2> QED BY <1>1, <1>2, <2>1, <2>2
<1>4. FiresOnceWhenDue'
  BY <1>1, <1>3 DEF PostedOnTime, FiresOnceWhenDue, Reachable, SlotOf, Due
<1>5. ASSUME NEW s \in Slots, NEW j \in 1 .. Len(m_task_map'[s]), Waiting(s, j)'
      PROVE  fired'[m_task_map'[s][j].id] = <<>>
  <2>1. j \in 1 .. Len(m_task_map[s])
    BY <1>2 DEF SameLengths
  <2>2. Waiting(s, j) /\ m_task_map'[s][j] = m_task_map[s][j]
    BY <1>5, <2>1, WaitingBeforeAdd
  <2> QED BY <1>1, <1>2, <2>1, <2>2 DEF PostedOnTime
<1>6. ASSUME NEW i \in Ids, i > m_cid' \/ i = m_cid'
      PROVE  fired'[i] = <<>>
  <2>1. i \in Int /\ i > m_cid
    BY <1>1, <1>6 DEF Ids
  <2> QED BY <1>1, <2>1 DEF PostedOnTime
<1> QED BY <1>4, <1>5, <1>6 DEF PostedOnTime

LEMMA PostedCommitAdd ==
  ASSUME TypeInv, PostedOnTime, CommitAdd
  PROVE  PostedOnTime'
<1>1. /\ mutex = "adding" /\ mutex' = "free" /\ UNCHANGED <<fired, born, m_cid>>
      /\ adding.entry.id = m_cid /\ ~decrementing /\ adding.entry.id \in Ids
  BY DEF CommitAdd, history, TypeInv, TypeOK, PlacesExist, Entries
<1>2. FiresOnceWhenDue'
  BY <1>1 DEF PostedOnTime, FiresOnceWhenDue, Reachable, SlotOf, Due
<1>3. ASSUME NEW s \in Slots, NEW j \in 1 .. Len(m_task_map'[s]), Waiting(s, j)'
      PROVE  fired'[m_task_map'[s][j].id] = <<>>
  <2>1. CASE s = adding.slot /\ j = adding.index
    <3>1. m_task_map'[s][j] = adding.entry
      BY <2>1, CommitAddEffect
    <3> QED BY <1>1, <3>1 DEF PostedOnTime
  <2>2. CASE ~(s = adding.slot /\ j = adding.index)
    <3>1. j <= Len(m_task_map[s]) /\ m_task_map'[s][j] = m_task_map[s][j]
      BY <2>2, CommitAddEffect
    <3>2. j \in 1 .. Len(m_task_map[s])
      <4>1. m_task_map \in Maps /\ m_task_map' \in Maps
        BY CommitAddEffect DEF TypeInv, TypeOK, Maps
      <4>2. Len(m_task_map[s]) \in Nat /\ Len(m_task_map'[s]) \in Nat
        BY <4>1 DEF Maps
      <4> QED BY <3>1, <4>2
    <3>3. Waiting(s, j)
      BY <1>3, <2>2, <3>1 DEF Waiting, BeingFilled
    <3> QED BY <1>1, <3>1, <3>2, <3>3 DEF PostedOnTime
  <2> QED BY <2>1, <2>2
<1> QED BY <1>1, <1>2, <1>3 DEF PostedOnTime

LEMMA PostedQuiet ==
  ASSUME PostedOnTime, SameLengths, EntryIds,
         \A s \in Slots : \A j \in 1 .. Len(m_task_map[s]) : m_task_map'[s][j].count = m_task_map[s][j].count,
         UNCHANGED <<fired, born, m_cid, adding>>, mutex' = "adding" <=> mutex = "adding",
         ~decrementing \/ UNCHANGED <<decrementing, m_current_scale, pos>>
  PROVE  PostedOnTime'
<1>1. FiresOnceWhenDue'
  BY DEF PostedOnTime, FiresOnceWhenDue, Reachable, SlotOf, Due
<1>2. ASSUME NEW s \in Slots, NEW j \in 1 .. Len(m_task_map'[s]), Waiting(s, j)'
      PROVE  \/ fired'[m_task_map'[s][j].id] = <<>>
             \/ decrementing' /\ s = m_current_scale' /\ j = pos' /\ m_task_map'[s][j].count = 0
  <2>1. j \in 1 .. Len(m_task_map[s])
    BY DEF SameLengths
  <2>2. /\ m_task_map'[s][j].count = m_task_map[s][j].count
        /\ m_task_map'[s][j].id = m_task_map[s][j].id
    BY <2>1 DEF EntryIds
  <2>3. Waiting(s, j)
    BY <1>2, <2>2 DEF Waiting, BeingFilled
  <2>4. \/ fired[m_task_map[s][j].id] = <<>>
        \/ decrementing /\ s = m_current_scale /\ j = pos /\ m_task_map[s][j].count = 0
    BY <2>1, <2>3 DEF PostedOnTime
  <2> QED BY <2>2, <2>4
<1> QED BY <1>1, <1>2 DEF PostedOnTime

\* process() posts a timer that has never been posted, and is due now.
LEMMA PostedProcessEntry ==
  ASSUME TypeInv, UniqueIds, OnTime, PostedOnTime, ProcessEntry
  PROVE  PostedOnTime'
<1>1. /\ mutex = "ticking" /\ ~decrementing /\ decrementing' = TRUE
      /\ UNCHANGED <<m_task_map, m_current_scale, m_cid, mutex, adding, pos, turns, born>>
  BY DEF ProcessEntry, wheelVars
<1>2. /\ m_current_scale \in Slots /\ pos \in 1 .. Len(m_task_map[m_current_scale]) /\ m_current_scale > 0
      /\ fired \in [Ids -> Seq(Nat)] /\ pos \in Int /\ pos >= pos
  <2>1. m_current_scale \in 1 .. ScaleCount /\ pos \in Nat /\ fired \in [Ids -> Seq(Nat)]
    BY DEF TypeInv, TypeOK
  <2>2. m_current_scale \in Slots /\ pos \in 1 .. Len(m_task_map[m_current_scale])
    BY <1>1, AtCurrent
  <2> QED BY <2>1, <2>2, ScaleCountAssumption
<1>3. PICK id \in Ids : id = m_task_map[m_current_scale][pos].id /\ id <= m_cid
  BY <1>2, EntryFacts
<1>4. CASE ~IsDue(Current[pos])
  <2>1. fired' = fired
    BY <1>4 DEF ProcessEntry
  <2>2. SameLengths /\ EntryIds
    BY <1>1 DEF SameLengths, EntryIds
  <2> QED BY <1>1, <2>1, <2>2, PostedQuiet
<1>5. CASE IsDue(Current[pos])
  <2>1. m_task_map[m_current_scale][pos].count = 0 /\ Waiting(m_current_scale, pos)
    BY <1>1, <1>2, <1>5 DEF IsDue, Current, Waiting, BeingFilled
  <2>2. fired[id] = <<>>
    BY <1>1, <1>2, <1>3, <2>1 DEF PostedOnTime
  <2>3. SlotOf(id) = m_current_scale /\ turns - born[id].turn + (0 + 0 * ScaleCount) = Due(id)
    BY <1>1, <1>2, <1>3, <2>1 DEF OnTime, InTime, Distance
  <2>4. turns - born[id].turn = Due(id) /\ turns - born[id].turn \in Nat
    <3>1. turns - born[id].turn \in Nat /\ 0 * ScaleCount = 0
      BY AtCurrent, <1>3, Revolutions DEF Current
    <3> QED BY <2>3, <3>1
  <2>5. fired' = [fired EXCEPT ![id] = <<Due(id)>>]
    <3>1. fired' = [fired EXCEPT ![id] = Append(<<>>, turns - born[id].turn)]
      BY <1>3, <1>5, <2>2 DEF ProcessEntry, Current
    <3>2. PICK w \in Nat : w = turns - born[id].turn /\ w = Due(id)
      BY <2>4
    <3>3. Append(<<>>, w) = <<w>>
      OBVIOUS
    <3> QED BY <3>1, <3>2, <3>3
  <2>6. fired'[id] = <<Due(id)>> /\ \A i \in Ids : i # id => fired'[i] = fired[i]
    BY <1>2, <2>5
  <2>7. FiresOnceWhenDue'
    <3>1. ASSUME NEW i \in Ids, fired'[i] # <<>>
          PROVE  Reachable(i) /\ fired'[i] = <<Due(i)>>
      BY <1>2, <2>3, <2>6, <3>1 DEF PostedOnTime, FiresOnceWhenDue, Reachable
    <3>2. \A i \in Ids : (Reachable(i)' <=> Reachable(i)) /\ Due(i)' = Due(i)
      BY <1>1 DEF Reachable, SlotOf, Due
    <3> QED BY <3>1, <3>2 DEF FiresOnceWhenDue
  <2>8. ASSUME NEW s \in Slots, NEW j \in 1 .. Len(m_task_map[s]), Waiting(s, j)'
        PROVE  \/ fired'[m_task_map[s][j].id] = <<>>
               \/ s = m_current_scale /\ j = pos /\ m_task_map[s][j].count = 0
    <3>1. Waiting(s, j) /\ fired[m_task_map[s][j].id] = <<>> /\ m_task_map[s][j].id \in Ids
      BY <1>1, <2>8, EntryFacts DEF Waiting, BeingFilled, PostedOnTime
    <3>2. CASE m_task_map[s][j].id = id
      BY <1>2, <1>3, <2>1, <3>2 DEF UniqueIds
    <3>3. CASE m_task_map[s][j].id # id
      BY <2>6, <3>1, <3>3
    <3> QED BY <3>2, <3>3
  <2>9. ASSUME NEW i \in Ids, i > m_cid
        PROVE  fired'[i] = <<>>
    <3>1. i # id
      BY <1>3, <2>9, BoundsAssumption DEF Ids, TypeInv, TypeOK
    <3> QED BY <2>6, <2>9, <3>1 DEF PostedOnTime
  <2> QED BY <1>1, <2>7, <2>8, <2>9 DEF PostedOnTime
<1> QED BY <1>4, <1>5

LEMMA PostedDecrement ==
  ASSUME TypeInv, PostedOnTime, DecrementEntry
  PROVE  PostedOnTime'
<1>1. /\ mutex = "ticking" /\ UNCHANGED <<mutex, adding, m_current_scale, m_cid, fired, born>>
  BY DEF DecrementEntry, history
<1>2. /\ SameLengths /\ EntryIds
      /\ \A s \in Slots : \A j \in 1 .. Len(m_task_map[s]) :
           m_task_map'[s][j].count = IF s = m_current_scale /\ j = pos THEN m_task_map[s][j].count - 1
                                     ELSE m_task_map[s][j].count
  BY DecrementEffect DEF EntryIds
<1>3. FiresOnceWhenDue'
  BY <1>1 DEF PostedOnTime, FiresOnceWhenDue, Reachable, SlotOf, Due
<1>4. ASSUME NEW s \in Slots, NEW j \in 1 .. Len(m_task_map'[s]), Waiting(s, j)'
      PROVE  fired'[m_task_map'[s][j].id] = <<>>
  <2>1. j \in 1 .. Len(m_task_map[s])
    BY <1>2 DEF SameLengths
  <2>2. m_task_map[s][j].count \in Int /\ m_task_map'[s][j].id = m_task_map[s][j].id
    BY <1>2, <2>1, EntryFacts DEF EntryIds
  <2>3. /\ s > 0 /\ m_task_map[s][j].count >= 0
        /\ s = m_current_scale /\ j = pos => m_task_map[s][j].count # 0
    BY <1>2, <1>4, <2>1, <2>2 DEF Waiting
  <2>4. Waiting(s, j)
    BY <1>1, <2>3 DEF Waiting, BeingFilled
  <2> QED BY <1>1, <2>1, <2>2, <2>3, <2>4 DEF PostedOnTime
<1> QED BY <1>1, <1>3, <1>4 DEF PostedOnTime

LEMMA PostedStep == TypeInv /\ UniqueIds /\ OnTime /\ PostedOnTime /\ [Next]_vars => PostedOnTime'
<1> SUFFICES ASSUME TypeInv, UniqueIds, OnTime, PostedOnTime, [Next]_vars PROVE PostedOnTime'
  OBVIOUS
<1>1. ASSUME NEW c \in Cancellers, CancelMark(c) PROVE PostedOnTime'
  <2>1. UNCHANGED <<m_current_scale, m_cid, mutex, adding, pos, decrementing, fired, born>>
    BY <1>1 DEF CancelMark, lockVars
  <2>2. /\ SameLengths /\ EntryIds
        /\ \A s \in Slots : \A j \in 1 .. Len(m_task_map[s]) : m_task_map'[s][j].count = m_task_map[s][j].count
    BY <1>1, CancelMarkEffect DEF EntryIds
  <2> QED BY <2>1, <2>2, PostedQuiet
<1>2. ASSUME \/ InitWheel \/ PostTick \/ BeginTick \/ EndTick \/ UNCHANGED vars
             \/ \E c \in Cancellers, id \in Ids : CancelFind(c, id)
      PROVE  PostedOnTime'
  <2>1. UNCHANGED <<m_task_map, fired, born, m_cid, adding>>
    BY <1>2 DEF InitWheel, PostTick, BeginTick, EndTick, CancelFind, vars, wheelVars, lockVars, history
  <2>2. mutex' = "adding" <=> mutex = "adding"
    BY <1>2 DEF InitWheel, PostTick, BeginTick, EndTick, CancelFind, vars, lockVars
  <2>3. ~decrementing \/ UNCHANGED <<decrementing, m_current_scale, pos>>
    BY <1>2 DEF InitWheel, PostTick, BeginTick, EndTick, CancelFind, vars, wheelVars, lockVars,
                TypeInv, PlacesExist
  <2>4. SameLengths /\ EntryIds
    BY <2>1 DEF SameLengths, EntryIds
  <2> QED BY <2>1, <2>2, <2>3, <2>4, PostedQuiet
<1> QED
  BY <1>1, <1>2, PostedBeginAdd, PostedCommitAdd, PostedProcessEntry, PostedDecrement DEF Next

\* A timer is posted at most once, and exactly when it is due (add_ms_task, turn
\* and process, src/utils/thread_pool.h:239-300).  The turns it has waited and
\* those still to wait are what it is due for, in every state of the wheel, and
\* an entry that has posted its timer is counted below zero before any other step
\* of the tick.
THEOREM TimersFireWhenDue == Spec => []FiresOnceWhenDue
<1>1. PostedOnTime => FiresOnceWhenDue
  BY DEF PostedOnTime
<1> QED
  BY <1>1, TypeInit, TypeStep, UniqueInit, UniqueStep, OnTimeInit, OnTimeStep, PostedInit, PostedStep,
     PTL DEF Spec

-----------------------------------------------------------------------------
(* No timer is forgotten.                                                  *)

HasEntry(id) ==
  \E s \in Slots : \E j \in 1 .. Len(m_task_map[s]) :
    m_task_map[s][j].id = id /\ m_task_map[s][j].valid /\ Waiting(s, j)

\* A timer that is neither invalidated nor posted has an entry that still counts,
\* and an entry is not counted below zero before its timer has been posted.
StillWaiting ==
  /\ \A id \in Ids : Added(id) /\ Reachable(id) /\ id \notin hit /\ fired[id] = <<>> => HasEntry(id)
  /\ decrementing =>
       (m_task_map[m_current_scale][pos].count = 0 /\ m_task_map[m_current_scale][pos].valid
          => fired[m_task_map[m_current_scale][pos].id] # <<>>)

LEMMA WaitingInit == Init => StillWaiting
<1> SUFFICES ASSUME Init PROVE StillWaiting
  OBVIOUS
<1>1. \A i \in Ids : ~Added(i)
  BY DEF Init, Added
<1>2. ~decrementing
  BY DEF Init
<1> QED BY <1>1, <1>2 DEF StillWaiting

LEMMA WaitingBeginAdd ==
  ASSUME TypeInv, StillWaiting, NEW ms \in Delays, BeginAdd(ms)
  PROVE  StillWaiting'
<1>1. /\ mutex = "free" /\ mutex' = "adding" /\ UNCHANGED <<fired, hit, decrementing>>
      /\ born' = [born EXCEPT ![m_cid'] = [turn |-> turns, delay |-> ms, scale |-> m_current_scale]]
  BY DEF BeginAdd
<1>2. SameLengths /\ ~decrementing /\ adding'.entry.id = m_cid'
  BY <1>1, BeginAddEffect DEF TypeInv, PlacesExist
<1>3. ASSUME NEW id \in Ids, Added(id)', Reachable(id)', id \notin hit, fired[id] = <<>>
      PROVE  HasEntry(id)'
  <2>1. id # m_cid'
    BY <1>1, <1>2, <1>3 DEF Added
  <2>2. born'[id] = born[id]
    BY <1>1, <2>1 DEF TypeInv, TypeOK
  <2>3. Added(id) /\ Reachable(id)
    BY <1>1, <1>3, <2>2 DEF Added, Reachable, SlotOf
  <2>4. PICK s \in Slots : \E j \in 1 .. Len(m_task_map[s]) :
          m_task_map[s][j].id = id /\ m_task_map[s][j].valid /\ Waiting(s, j)
    BY <1>3, <2>3 DEF StillWaiting, HasEntry
  <2>5. PICK j \in 1 .. Len(m_task_map[s]) :
          m_task_map[s][j].id = id /\ m_task_map[s][j].valid /\ Waiting(s, j)
    BY <2>4
  <2>6. Waiting(s, j)' /\ m_task_map'[s][j] = m_task_map[s][j]
    BY <2>5, WaitingBeforeAdd
  <2>7. j \in 1 .. Len(m_task_map'[s])
    BY <1>2 DEF SameLengths
  <2> QED BY <2>5, <2>6, <2>7 DEF HasEntry
<1> QED BY <1>1, <1>2, <1>3 DEF StillWaiting

LEMMA WaitingCommitAdd ==
  ASSUME TypeInv, OnTime, StillWaiting, CommitAdd
  PROVE  StillWaiting'
<1>1. /\ mutex = "adding" /\ mutex' = "free" /\ ~decrementing
      /\ UNCHANGED <<fired, hit, born, decrementing>>
      /\ adding.slot \in Slots /\ adding.index \in Nat \ {0}
  BY DEF CommitAdd, history, TypeInv, TypeOK, PlacesExist
<1>2. m_task_map \in Maps /\ m_task_map' \in Maps
  BY CommitAddEffect DEF TypeInv, TypeOK, Maps
<1>3. \A s \in Slots : /\ Len(m_task_map[s]) \in Nat /\ Len(m_task_map'[s]) \in Nat
                       /\ Len(m_task_map[s]) <= Len(m_task_map'[s])
  BY <1>2, CommitAddEffect DEF Maps
<1>4. ASSUME NEW id \in Ids, Added(id)', Reachable(id)', id \notin hit, fired[id] = <<>>
      PROVE  HasEntry(id)'
  <2>1. Reachable(id)
    BY <1>1, <1>4 DEF Reachable, SlotOf
  <2>2. CASE id = adding.entry.id
    <3>1. adding.slot > 0 /\ adding.entry.count >= 0 /\ adding.entry.valid
      BY <1>1, <2>1, <2>2 DEF OnTime, Reachable
    <3>2. adding.index \in 1 .. Len(m_task_map'[adding.slot])
      BY <1>1, <1>3, CommitAddEffect
    <3>3. m_task_map'[adding.slot][adding.index] = adding.entry
      BY <1>1, <3>2, CommitAddEffect
    <3>4. PICK s \in Slots : s = adding.slot
      BY <1>1
    <3>5. PICK j \in 1 .. Len(m_task_map'[s]) : j = adding.index
      BY <3>2, <3>4
    <3>6. m_task_map'[s][j] = adding.entry /\ Waiting(s, j)'
      BY <1>1, <3>1, <3>3, <3>4, <3>5 DEF Waiting, BeingFilled
    <3> QED BY <2>2, <3>1, <3>6 DEF HasEntry
  <2>3. CASE id # adding.entry.id
    <3>1. Added(id)
      BY <1>1, <1>4, <2>3 DEF Added
    <3>2. PICK s \in Slots : \E j \in 1 .. Len(m_task_map[s]) :
            m_task_map[s][j].id = id /\ m_task_map[s][j].valid /\ Waiting(s, j)
      BY <1>4, <2>1, <3>1 DEF StillWaiting, HasEntry
    <3>3. PICK j \in 1 .. Len(m_task_map[s]) :
            m_task_map[s][j].id = id /\ m_task_map[s][j].valid /\ Waiting(s, j)
      BY <3>2
    <3>4. j \in 1 .. Len(m_task_map'[s])
      BY <1>3
    <3>5. m_task_map'[s][j] = m_task_map[s][j]
      BY <1>1, <3>3, <3>4, CommitAddEffect DEF Waiting, BeingFilled
    <3>6. Waiting(s, j)'
      BY <1>1, <3>3, <3>5 DEF Waiting, BeingFilled
    <3> QED BY <3>3, <3>4, <3>5, <3>6 DEF HasEntry
  <2> QED BY <2>2, <2>3
<1> QED BY <1>1, <1>4 DEF StillWaiting

\* What is invalidated is one entry, and its timer is remembered.
LEMMA WaitingCancelMark ==
  ASSUME TypeInv, StillWaiting, NEW c \in Cancellers, CancelMark(c)
  PROVE  StillWaiting'
<1>1. UNCHANGED <<m_current_scale, mutex, adding, pos, decrementing, fired, born>>
  BY DEF CancelMark, lockVars
<1>2. /\ SameLengths /\ EntryIds
      /\ \A s \in Slots : \A j \in 1 .. Len(m_task_map[s]) :
           /\ m_task_map'[s][j].count = m_task_map[s][j].count
           /\ m_task_map'[s][j].valid => m_task_map[s][j].valid
  BY CancelMarkEffect DEF EntryIds
<1>3. \/ UNCHANGED <<m_task_map, hit>>
      \/ /\ hit' = hit \cup {m_task_map[marking[c].slot][marking[c].index].id}
         /\ \A s \in Slots : \A j \in 1 .. Len(m_task_map[s]) :
              (s = marking[c].slot /\ j = marking[c].index) \/ m_task_map'[s][j] = m_task_map[s][j]
  BY CancelMarkEffect
<1>4. ASSUME NEW id \in Ids, Added(id)', Reachable(id)', id \notin hit', fired[id] = <<>>
      PROVE  HasEntry(id)'
  <2>1. Added(id) /\ Reachable(id) /\ id \notin hit
    BY <1>1, <1>3, <1>4 DEF Added, Reachable, SlotOf
  <2>2. PICK s \in Slots : \E j \in 1 .. Len(m_task_map[s]) :
          m_task_map[s][j].id = id /\ m_task_map[s][j].valid /\ Waiting(s, j)
    BY <1>4, <2>1 DEF StillWaiting, HasEntry
  <2>3. PICK j \in 1 .. Len(m_task_map[s]) :
          m_task_map[s][j].id = id /\ m_task_map[s][j].valid /\ Waiting(s, j)
    BY <2>2
  <2>4. m_task_map'[s][j] = m_task_map[s][j]
    BY <1>3, <1>4, <2>3
  <2>5. j \in 1 .. Len(m_task_map'[s]) /\ Waiting(s, j)'
    BY <1>1, <1>2, <2>3 DEF SameLengths, Waiting, BeingFilled
  <2> QED BY <2>3, <2>4, <2>5 DEF HasEntry
<1>5. ASSUME decrementing
      PROVE  m_current_scale \in Slots /\ pos \in 1 .. Len(m_task_map[m_current_scale])
  <2>1. /\ mutex = "ticking" /\ pos <= Len(m_task_map[m_current_scale]) /\ pos \in Nat /\ pos >= 1
        /\ m_current_scale \in Slots /\ m_task_map \in Maps
    BY <1>5, ScaleCountAssumption DEF TypeInv, TypeOK, PlacesExist, Current, Slots, Maps
  <2> QED BY <2>1 DEF Maps
<1> QED BY <1>1, <1>2, <1>4, <1>5 DEF StillWaiting, EntryIds

LEMMA WaitingQuiet ==
  ASSUME StillWaiting,
         UNCHANGED <<m_task_map, adding, fired, born, hit>>, mutex' = "adding" <=> mutex = "adding",
         ~decrementing' \/ UNCHANGED <<decrementing, m_current_scale, pos>>
  PROVE  StillWaiting'
<1>1. ASSUME NEW id \in Ids, Added(id)', Reachable(id)', id \notin hit, fired[id] = <<>>
      PROVE  HasEntry(id)'
  <2>1. Added(id) /\ Reachable(id)
    BY <1>1 DEF Added, Reachable, SlotOf
  <2>2. HasEntry(id)
    BY <1>1, <2>1 DEF StillWaiting
  <2> QED BY <2>2 DEF HasEntry, Waiting, BeingFilled
<1> QED BY <1>1 DEF StillWaiting

LEMMA WaitingProcessEntry ==
  ASSUME TypeInv, StillWaiting, ProcessEntry
  PROVE  StillWaiting'
<1> DEFINE e == m_task_map[m_current_scale][pos]
           w == turns - born[e.id].turn
<1>1. /\ UNCHANGED <<m_task_map, m_current_scale, mutex, adding, pos, born, hit>>
      /\ fired' = IF IsDue(e) THEN [fired EXCEPT ![e.id] = Append(@, w)] ELSE fired
  BY DEF ProcessEntry, wheelVars, Current
<1>2. e \in Entries /\ e.id \in Ids /\ w \in Nat /\ fired \in [Ids -> Seq(Nat)]
  BY AtCurrent DEF Current, Entries, TypeInv, TypeOK
<1> HIDE DEF w
<1>3. ASSUME IsDue(e) PROVE fired'[e.id] # <<>> /\ \A i \in Ids : i # e.id => fired'[i] = fired[i]
  <2>1. fired[e.id] \in Seq(Nat)
    BY <1>2
  <2>2. Append(fired[e.id], w) # <<>>
    <3>1. PICK f \in Seq(Nat) : f = fired[e.id]
      BY <2>1
    <3>2. PICK g \in Seq(Nat) : g = Append(f, w) /\ Len(g) = Len(f) + 1
      <4>1. Append(f, w) \in Seq(Nat) /\ Len(Append(f, w)) = Len(f) + 1
        BY <1>2
      <4> QED BY <4>1, Zenon
    <3>3. Len(f) \in Nat /\ Len(<<>>) = 0
      OBVIOUS
    <3>4. g # <<>>
      BY <3>2, <3>3
    <3> QED BY <3>1, <3>2, <3>4
  <2>3. fired' = [fired EXCEPT ![e.id] = Append(@, w)]
    BY <1>1, <1>3
  <2> HIDE DEF e
  <2> QED BY <1>2, <2>2, <2>3
<1>4. \A i \in Ids : fired'[i] = <<>> => fired[i] = <<>>
  BY <1>1, <1>3
<1>5. ASSUME NEW id \in Ids, Added(id)', Reachable(id)', id \notin hit, fired'[id] = <<>>
      PROVE  HasEntry(id)'
  <2>1. Added(id) /\ Reachable(id)
    BY <1>1, <1>5 DEF Added, Reachable, SlotOf
  <2>2. HasEntry(id)
    BY <1>4, <1>5, <2>1 DEF StillWaiting
  <2> QED BY <1>1, <2>2 DEF HasEntry, Waiting, BeingFilled
<1>6. e.count = 0 /\ e.valid => fired'[e.id] # <<>>
  BY <1>3 DEF IsDue
<1> QED BY <1>1, <1>5, <1>6 DEF StillWaiting

LEMMA WaitingDecrement ==
  ASSUME TypeInv, StillWaiting, DecrementEntry
  PROVE  StillWaiting'
<1>1. /\ mutex = "ticking" /\ decrementing /\ ~decrementing'
      /\ UNCHANGED <<mutex, adding, fired, born, hit>>
  BY DEF DecrementEntry, history
<1>2. /\ SameLengths
      /\ \A s \in Slots : \A j \in 1 .. Len(m_task_map[s]) :
           /\ m_task_map'[s][j].id = m_task_map[s][j].id
           /\ m_task_map'[s][j].valid = m_task_map[s][j].valid
           /\ m_task_map'[s][j].count = IF s = m_current_scale /\ j = pos THEN m_task_map[s][j].count - 1
                                        ELSE m_task_map[s][j].count
  BY DecrementEffect
<1>3. ASSUME NEW id \in Ids, Added(id)', Reachable(id)', id \notin hit, fired[id] = <<>>
      PROVE  HasEntry(id)'
  <2>1. Added(id) /\ Reachable(id)
    BY <1>1, <1>3 DEF Added, Reachable, SlotOf
  <2>2. PICK s \in Slots : \E j \in 1 .. Len(m_task_map[s]) :
          m_task_map[s][j].id = id /\ m_task_map[s][j].valid /\ Waiting(s, j)
    BY <1>3, <2>1 DEF StillWaiting, HasEntry
  <2>3. PICK j \in 1 .. Len(m_task_map[s]) :
          m_task_map[s][j].id = id /\ m_task_map[s][j].valid /\ Waiting(s, j)
    BY <2>2
  <2>4. PICK n \in Int : n = m_task_map[s][j].count /\ n >= 0
    BY <2>3, EntryFacts DEF Waiting
  <2>5. s = m_current_scale /\ j = pos => n # 0
    BY <1>1, <1>3, <2>3, <2>4 DEF StillWaiting
  <2>6. m_task_map'[s][j].count >= 0
    <3>1. m_task_map'[s][j].count = IF s = m_current_scale /\ j = pos THEN n - 1 ELSE n
      BY <1>2, <2>4
    <3> QED BY <2>4, <2>5, <3>1
  <2>7. j \in 1 .. Len(m_task_map'[s]) /\ Waiting(s, j)'
    BY <1>1, <1>2, <2>3, <2>6 DEF SameLengths, Waiting, BeingFilled
  <2> QED BY <1>2, <2>3, <2>7 DEF HasEntry
<1> QED BY <1>1, <1>3 DEF StillWaiting

LEMMA WaitingStep == TypeInv /\ OnTime /\ StillWaiting /\ [Next]_vars => StillWaiting'
<1> SUFFICES ASSUME TypeInv, OnTime, StillWaiting, [Next]_vars PROVE StillWaiting'
  OBVIOUS
<1>1. ASSUME \/ InitWheel \/ PostTick \/ BeginTick \/ EndTick \/ UNCHANGED vars
             \/ \E c \in Cancellers, id \in Ids : CancelFind(c, id)
      PROVE  StillWaiting'
  <2>1. UNCHANGED <<m_task_map, adding, fired, born, hit>>
    BY <1>1 DEF InitWheel, PostTick, BeginTick, EndTick, CancelFind, vars, wheelVars, lockVars, history
  <2>2. mutex' = "adding" <=> mutex = "adding"
    BY <1>1 DEF InitWheel, PostTick, BeginTick, EndTick, CancelFind, vars, lockVars
  <2>3. ~decrementing' \/ UNCHANGED <<decrementing, m_current_scale, pos>>
    BY <1>1 DEF InitWheel, PostTick, BeginTick, EndTick, CancelFind, vars, wheelVars, lockVars
  <2> QED BY <2>1, <2>2, <2>3, WaitingQuiet
<1> QED
  BY <1>1, WaitingBeginAdd, WaitingCommitAdd, WaitingCancelMark, WaitingProcessEntry, WaitingDecrement
     DEF Next

\* An entry that still counts is not overdue.
LEMMA NotOverdue ==
  ASSUME TypeInv, OnTime, NEW id \in Ids, HasEntry(id)
  PROVE  turns - born[id].turn < Due(id) + (IF mutex = "ticking" THEN 1 ELSE 0)
<1>1. PICK s \in Slots : \E j \in 1 .. Len(m_task_map[s]) : m_task_map[s][j].id = id /\ Waiting(s, j)
  BY DEF HasEntry
<1>2. PICK j \in 1 .. Len(m_task_map[s]) : m_task_map[s][j].id = id /\ Waiting(s, j)
  BY <1>1
<1>3. PICK n \in Int : n = m_task_map[s][j].count /\ n >= 0 /\ s > 0
  BY <1>2, EntryFacts DEF Waiting
<1>4. n * ScaleCount \in Int /\ n * ScaleCount >= 0
  BY <1>3, Revolutions
<1>5. turns \in Int /\ born[id].turn \in Int /\ Due(id) \in Int
  BY <1>2, EntryFacts, BornFacts
<1>6. turns - born[id].turn + (Distance(s, j) + n * ScaleCount) = Due(id)
  BY <1>2, <1>3 DEF OnTime, InTime
<1>7. Distance(s, j) \in Nat /\ (mutex # "ticking" => Distance(s, j) >= 1)
  <2>1. Ahead(s) \in 1 .. ScaleCount
    BY <1>3, AheadIsTurns
  <2> QED BY <2>1, ScaleCountAssumption DEF Distance
<1>8. turns - born[id].turn <= Due(id) /\ (mutex # "ticking" => turns - born[id].turn < Due(id))
  BY <1>4, <1>5, <1>6, <1>7
<1>9. CASE mutex = "ticking"
  BY <1>5, <1>8, <1>9
<1>10. CASE mutex # "ticking"
  BY <1>5, <1>8, <1>10
<1> QED BY <1>9, <1>10

\* A timer that was due and has not been posted has been invalidated, or lies in
\* a slot the wheel does not visit (add_ms_task, src/utils/thread_pool.h:239-274).
\* Only expired entries are reused, and an entry expires after its timer has been
\* posted: so a timer that waits keeps an entry that counts, and that entry is
\* never overdue.
THEOREM NoTimerIsMissed == Spec => []NoTimerMissed
<1>1. TypeInv /\ OnTime /\ StillWaiting => NoTimerMissed
  <2> SUFFICES ASSUME TypeInv, OnTime, StillWaiting,
                      NEW id \in Ids, Added(id), Reachable(id), id \notin hit, fired[id] = <<>>
               PROVE  ~(turns - born[id].turn >= Due(id) + (IF mutex = "ticking" THEN 1 ELSE 0))
    BY DEF NoTimerMissed
  <2>1. HasEntry(id)
    BY DEF StillWaiting
  <2>2. turns - born[id].turn < Due(id) + (IF mutex = "ticking" THEN 1 ELSE 0)
    BY <2>1, NotOverdue
  <2>3. turns - born[id].turn \in Int /\ Due(id) \in Int
    <3>1. PICK s \in Slots : \E j \in 1 .. Len(m_task_map[s]) : m_task_map[s][j].id = id
      BY <2>1 DEF HasEntry
    <3>2. born[id] \in Born /\ turns \in Int /\ born[id].turn \in Int
      BY <3>1, EntryFacts
    <3> QED BY <3>2, BornFacts
  <2>4. CASE mutex = "ticking"
    BY <2>2, <2>3, <2>4
  <2>5. CASE mutex # "ticking"
    BY <2>2, <2>3, <2>5
  <2> QED BY <2>4, <2>5
<1> QED
  BY <1>1, TypeInit, TypeStep, OnTimeInit, OnTimeStep, WaitingInit, WaitingStep, PTL DEF Spec

=============================================================================
