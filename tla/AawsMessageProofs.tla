-------------------------- MODULE AawsMessageProofs --------------------------
(***************************************************************************)
(* Theorems about AawsMessage, for all sizes of data, all widths of the    *)
(* fields and any number of parts.                                         *)
(*                                                                         *)
(* The invariant says where each part is, and what the head tells of the   *)
(* parts.  From it the walks of the accessors are followed header by       *)
(* header.                                                                 *)
(***************************************************************************)
EXTENDS AawsMessage, WellFoundedInduction, TLAPS

-----------------------------------------------------------------------------
(* Counting up.                                                            *)

LEMMA LeastExists ==
  ASSUME NEW S \in SUBSET Nat, S # {}
  PROVE  \E n \in S : \A k \in S : n <= k
<1>. DEFINE R == {ss \in Nat \X Nat : ss[1] < ss[2]}
<1>1. IsWellFoundedOn(R, Nat)
  BY NatLessThanWellFounded DEF OpToRel
<1>2. PICK n \in S : \A k \in S : ~(<<k, n>> \in R)
  <2>. HIDE DEF R
  <2>. QED
    BY <1>1, WFMin
<1>3. ASSUME NEW k \in S PROVE n <= k
  <2>1. <<k, n>> \in Nat \X Nat /\ <<k, n>>[1] = k /\ <<k, n>>[2] = n
    OBVIOUS
  <2>2. ~(k < n)
    BY <1>2, <2>1
  <2>. QED
    BY <2>2
<1>. QED
  BY <1>3

\* What holds of 0 and passes from each number to the next holds up to n.
LEMMA UpTo ==
  ASSUME NEW n \in Nat, NEW P, 0 \in P, \A i \in 1 .. n : i - 1 \in P => i \in P
  PROVE  \A i \in 0 .. n : i \in P
<1>. DEFINE Out == {i \in 0 .. n : i \notin P}
<1>1. SUFFICES ASSUME Out # {} PROVE FALSE
  OBVIOUS
<1>2. Out \in SUBSET Nat
  OBVIOUS
<1>3. PICK k \in Out : \A j \in Out : k <= j
  <2>. HIDE DEF Out
  <2>. QED
    BY <1>1, <1>2, LeastExists
<1>4. k \in 1 .. n /\ k - 1 \in 0 .. n /\ k - 1 \notin Out
  BY <1>3
<1>. QED
  BY <1>3, <1>4

\* f starts with b and goes on to n by the steps.
RunsBy(n, b, step, f) == f[0] = b /\ \A i \in 1 .. n : f[i] = step[i][f[i - 1]]

\* A function on 0 .. n may be defined by its first value and its steps.
LEMMA RecursionExists ==
  ASSUME NEW n \in Nat, NEW D, NEW b \in D, NEW step \in [1 .. n -> [D -> D]]
  PROVE  \E f \in [0 .. n -> D] : RunsBy(n, b, step, f)
<1>. DEFINE Run(f, k) == f[0] = b /\ \A i \in 1 .. k : f[i] = step[i][f[i - 1]]
            P == {k \in 0 .. n : \E f \in [0 .. k -> D] : Run(f, k)}
<1>1. 0 \in P
  <2>. DEFINE f == [i \in 0 .. 0 |-> b]
  <2>1. f \in [0 .. 0 -> D] /\ f[0] = b /\ 1 .. 0 = {}
    OBVIOUS
  <2>2. Run(f, 0)
    BY <2>1
  <2>. HIDE DEF Run, f
  <2>. QED
    BY <2>1, <2>2
<1>2. ASSUME NEW k \in 1 .. n, k - 1 \in P PROVE k \in P
  <2>1. PICK f \in [0 .. k - 1 -> D] : Run(f, k - 1)
    BY <1>2
  <2>. DEFINE g == [i \in 0 .. k |-> IF i = k THEN step[k][f[k - 1]] ELSE f[i]]
  <2>2. f[k - 1] \in D
    BY <1>2
  <2>3. step[k][f[k - 1]] \in D
    BY <2>2
  <2>4. \A i \in 0 .. k - 1 : f[i] \in D
    BY <1>2
  <2>5. g \in [0 .. k -> D]
    <3>1. \A i \in 0 .. k : i # k => i \in 0 .. k - 1
      BY <1>2
    <3>. HIDE DEF Run
    <3>. QED
      BY <2>3, <2>4, <3>1
  <2>6. \A i \in 0 .. k - 1 : g[i] = f[i]
    BY <1>2
  <2>7. g[k] = step[k][f[k - 1]]
    BY <1>2
  <2>8. Run(g, k)
    <3>1. g[0] = b
      BY <1>2, <2>1, <2>6
    <3>2. ASSUME NEW i \in 1 .. k - 1 PROVE g[i] = step[i][g[i - 1]]
      <4>1. i \in 0 .. k - 1 /\ i - 1 \in 0 .. k - 1
        BY <1>2
      <4>. HIDE DEF g
      <4>. QED
        BY <2>1, <2>6, <4>1
    <3>3. k - 1 \in 0 .. k - 1 /\ \A i \in 1 .. k : i = k \/ i \in 1 .. k - 1
      BY <1>2
    <3>4. g[k] = step[k][g[k - 1]]
      <4>. HIDE DEF g
      <4>. QED
        BY <2>6, <2>7, <3>3
    <3>. HIDE DEF g
    <3>. QED
      BY <3>1, <3>2, <3>3, <3>4
  <2>. HIDE DEF Run, g
  <2>. QED
    BY <2>5, <2>8
<1>3. n \in P
  <2>1. n \in 0 .. n
    OBVIOUS
  <2>. HIDE DEF P
  <2>2. \A i \in 0 .. n : i \in P
    BY <1>1, <1>2, UpTo
  <2>. QED
    BY <2>1, <2>2
<1>. QED
  BY <1>3 DEF RunsBy

-----------------------------------------------------------------------------
(* Remainders.                                                             *)

\* A remainder is the only one.
LEMMA RemainderIs ==
  ASSUME NEW n \in Nat, NEW m \in Nat \ {0}, NEW q \in Int, NEW r \in 0 .. m - 1, n = m * q + r
  PROVE  n % m = r
OBVIOUS

LEMMA SmallRemainder ==
  ASSUME NEW n \in Nat, NEW m \in Nat \ {0}, n < m
  PROVE  n % m = n
OBVIOUS

\* Adding in a field of some width adds modulo that width.
LEMMA AddedModulo ==
  ASSUME NEW n \in Nat, NEW k \in Nat, NEW m \in Nat \ {0}
  PROVE  ((n % m) + k) % m = (n + k) % m
<1>1. \A a \in Nat : a = m * (a \div m) + (a % m) /\ a \div m \in Int /\ a % m \in 0 .. m - 1
  OBVIOUS
<1>2. PICK q \in Int, r \in 0 .. m - 1 : n = m * q + r /\ r = n % m
  BY <1>1
<1>3. PICK p \in Int, s \in 0 .. m - 1 : r + k = m * p + s
  <2>1. r + k \in Nat
    OBVIOUS
  <2>. QED
    BY <1>1, <2>1
<1>4. m * (q + p) = m * q + m * p
  OBVIOUS
<1>5. n + k = m * (q + p) + s
  <2>1. PICK a \in Int, b \in Int : a = m * q /\ b = m * p
    OBVIOUS
  <2>2. n = a + r /\ r + k = b + s /\ m * (q + p) = a + b
    BY <1>2, <1>3, <1>4, <2>1
  <2>. QED
    BY <2>2
<1>6. (n + k) % m = s
  <2>1. n + k \in Nat /\ q + p \in Int
    OBVIOUS
  <2>. QED
    BY <1>5, <2>1, RemainderIs
<1>7. (r + k) % m = s
  <2>1. r + k \in Nat
    OBVIOUS
  <2>. QED
    BY <1>3, <2>1, RemainderIs
<1>. QED
  BY <1>2, <1>6, <1>7

\* Counting in a field of some width counts modulo that width.
LEMMA CountedModulo ==
  ASSUME NEW n \in Nat, NEW m \in Nat \ {0}
  PROVE  ((n % m) + 1) % m = (n + 1) % m
BY AddedModulo

-----------------------------------------------------------------------------
(* The sizes of the headers.                                               *)

Aligns == {1, 2, 4}
Members == [align : Aligns, size : Nat \ {0}]

LEMMA PaddedIsLonger ==
  ASSUME NEW n \in Nat, NEW a \in Aligns
  PROVE  Padded(n, a) \in Nat /\ Padded(n, a) >= n
BY DEF Padded, Aligns

\* Where the first i members of a struct end.
EndStep(members, end) ==
  end = [i \in 0 .. Len(members) |->
           IF i = 0 THEN 0 ELSE Padded(end[i - 1], members[i].align) + members[i].size]

LEMMA EndExists ==
  ASSUME NEW members \in Seq(Members)
  PROVE  \E end \in [0 .. Len(members) -> Nat] : EndStep(members, end)
<1>. DEFINE step == [i \in 1 .. Len(members) |->
                       [e \in Nat |-> Padded(e, members[i].align) + members[i].size]]
<1>1. Len(members) \in Nat /\ 0 \in Nat
  OBVIOUS
<1>2. ASSUME NEW i \in 1 .. Len(members), NEW e \in Nat
      PROVE  Padded(e, members[i].align) + members[i].size \in Nat
  <2>1. members[i] \in Members
    OBVIOUS
  <2>2. members[i].align \in Aligns /\ members[i].size \in Nat
    BY <2>1 DEF Members
  <2>3. Padded(e, members[i].align) \in Nat
    BY <2>2, PaddedIsLonger
  <2>. QED
    BY <2>2, <2>3
<1>3. step \in [1 .. Len(members) -> [Nat -> Nat]]
  BY <1>2
<1>4. PICK f \in [0 .. Len(members) -> Nat] :
        f[0] = 0 /\ \A i \in 1 .. Len(members) : f[i] = step[i][f[i - 1]]
  <2>1. PICK n \in Nat : n = Len(members)
    BY <1>1
  <2>2. PICK s \in [1 .. n -> [Nat -> Nat]] : s = step
    BY <1>3, <2>1
  <2>3. \E f \in [0 .. n -> Nat] : RunsBy(n, 0, s, f)
    BY <1>1, RecursionExists, Zenon
  <2>. HIDE DEF step
  <2>. QED
    BY <2>1, <2>2, <2>3 DEF RunsBy
<1>5. \A i \in 1 .. Len(members) : f[i - 1] \in Nat
  BY <1>1
<1>6. \A i \in 1 .. Len(members) : f[i] = Padded(f[i - 1], members[i].align) + members[i].size
  BY <1>4, <1>5
<1>7. \A i \in 0 .. Len(members) : i = 0 \/ i \in 1 .. Len(members)
  BY <1>1
<1>. HIDE DEF step
<1>. QED
  BY <1>4, <1>6, <1>7 DEF EndStep

LEMMA WidestExists ==
  ASSUME NEW S \in SUBSET Aligns, S # {}
  PROVE  Max(S) \in Aligns
<1>1. \E x \in S : \A y \in S : x >= y
  <2>1. \A y \in S : y = 1 \/ y = 2 \/ y = 4
    BY DEF Aligns
  <2>2. CASE 4 \in S
    BY <2>1, <2>2
  <2>3. CASE 4 \notin S /\ 2 \in S
    BY <2>1, <2>3
  <2>4. CASE 4 \notin S /\ 2 \notin S
    BY <2>1, <2>4
  <2>. QED
    BY <2>2, <2>3, <2>4
<1>2. Max(S) \in S
  BY <1>1 DEF Max
<1>. QED
  BY <1>2

\* A struct with members takes some bytes.
LEMMA StructHasSize ==
  ASSUME NEW members \in Seq(Members), Len(members) # 0
  PROVE  SizeOf(members) \in Nat \ {0}
<1>. DEFINE end == CHOOSE f : EndStep(members, f)
            n == Len(members)
            S == {members[i].align : i \in DOMAIN members}
<1>1. EndStep(members, end)
  BY EndExists
<1>2. SizeOf(members) = Padded(end[n], Max(S))
  BY DEF SizeOf, EndStep
<1>3. n \in Nat \ {0} /\ DOMAIN members = 1 .. n
  OBVIOUS
<1>4. \A i \in 1 .. n : members[i].align \in Aligns /\ members[i].size \in Nat \ {0}
  <2>1. \A i \in 1 .. n : members[i] \in Members
    BY <1>3
  <2>. HIDE DEF n
  <2>. QED
    BY <2>1 DEF Members
<1>5. Max(S) \in Aligns
  <2>1. S \in SUBSET Aligns /\ S # {}
    BY <1>3, <1>4
  <2>. HIDE DEF S
  <2>. QED
    BY <2>1, WidestExists
<1>. HIDE DEF end, S
<1>6. end[0] = 0 /\ \A i \in 1 .. n : end[i] = Padded(end[i - 1], members[i].align) + members[i].size
  BY <1>1, <1>3 DEF EndStep
<1>. HIDE DEF n
<1>7. \A i \in 0 .. n : i \in {j \in 0 .. n : end[j] \in Nat}
  <2>. DEFINE P == {j \in 0 .. n : end[j] \in Nat}
  <2>1. 0 \in P
    BY <1>3, <1>6
  <2>2. ASSUME NEW i \in 1 .. n, i - 1 \in P PROVE i \in P
    <3>1. Padded(end[i - 1], members[i].align) \in Nat
      BY <1>4, <2>2, PaddedIsLonger
    <3>. QED
      BY <1>3, <1>4, <1>6, <3>1
  <2>. HIDE DEF P
  <2>3. \A i \in 0 .. n : i \in P
    BY <1>3, <2>1, <2>2, UpTo
  <2>. QED
    BY <2>3 DEF P
<1>8. n \in 1 .. n /\ n - 1 \in 0 .. n
  BY <1>3
<1>9. end[n - 1] \in Nat
  BY <1>7, <1>8
<1>10. Padded(end[n - 1], members[n].align) \in Nat
  BY <1>4, <1>8, <1>9, PaddedIsLonger
<1>11. end[n] \in Nat \ {0}
  <2>1. end[n] = Padded(end[n - 1], members[n].align) + members[n].size
    BY <1>6, <1>8
  <2>2. members[n].size \in Nat \ {0}
    BY <1>4, <1>8
  <2>. QED
    BY <1>10, <2>1, <2>2
<1>12. Padded(end[n], Max(S)) \in Nat /\ Padded(end[n], Max(S)) >= end[n]
  BY <1>5, <1>11, PaddedIsLonger
<1>. QED
  BY <1>2, <1>11, <1>12

LEMMA HeadersHaveSize == HeadSize \in Nat \ {0} /\ ExhSize \in Nat \ {0} /\ OphSize \in Nat \ {0}
<1>1. \A n \in Nat \ {0} : Bytes(n) \in Members
  BY DEF Bytes, Members, Aligns
<1>2. U8 \in Members /\ U16 \in Members /\ U32 \in Members
  BY DEF U8, U16, U32, Bytes, Members, Aligns
<1>3. Bytes(4) \in Members /\ Bytes(5) \in Members /\ Bytes(2) \in Members
  BY <1>1
<1>4. AAWS_HEAD \in Seq(Members) /\ Len(AAWS_HEAD) # 0
  BY <1>2, <1>3 DEF AAWS_HEAD
<1>5. AAWS_EXH \in Seq(Members) /\ Len(AAWS_EXH) # 0
  BY <1>2, <1>3 DEF AAWS_EXH
<1>6. AAWS_OPH \in Seq(Members) /\ Len(AAWS_OPH) # 0
  BY <1>2, <1>3 DEF AAWS_OPH
<1>. QED
  BY <1>4, <1>5, <1>6, StructHasSize DEF HeadSize, ExhSize, OphSize

-----------------------------------------------------------------------------
(* Words.                                                                  *)

LEMMA WordTypes ==
  /\ WordModulus \in Nat \ {0}
  /\ \A n \in Nat : Word(n) \in Words /\ Word(n) \in Nat
  /\ \A n \in Nat : n < WordModulus => Word(n) = n
<1>1. WordModulus \in Nat \ {0}
  BY WordAssumption, HeadersHaveSize
<1>2. \A n \in Nat : Word(n) \in Words /\ Word(n) \in Nat
  BY <1>1 DEF Word, Words
<1>3. \A n \in Nat : n < WordModulus => Word(n) = n
  BY <1>1, SmallRemainder DEF Word
<1>. QED
  BY <1>1, <1>2, <1>3

\* Sums of words are the words of the sums.
LEMMA WordOfSum ==
  ASSUME NEW a \in Nat, NEW e \in Nat, NEW o \in Nat
  PROVE  /\ Word(Word(e) + a) = Word(e + a)
         /\ Word(a + Word(e)) = Word(a + e)
         /\ Word(a + Word(e) + Word(o)) = Word(a + e + o)
<1>1. \A x \in Nat, y \in Nat : Word(Word(x) + y) = Word(x + y)
  <2>1. WordModulus \in Nat \ {0}
    BY WordTypes, Zenon
  <2>2. ASSUME NEW x \in Nat, NEW y \in Nat
        PROVE  ((x % WordModulus) + y) % WordModulus = (x + y) % WordModulus
    BY <2>1, AddedModulo, Zenon
  <2>. QED
    BY <2>2, Zenon DEF Word
<1>2. PICK w \in Nat, v \in Nat : w = Word(e) /\ v = Word(o)
  BY WordTypes
<1>3. Word(w + a) = Word(e + a)
  BY <1>1, <1>2, Zenon
<1>4. Word(v + (a + w)) = Word(o + (a + w)) /\ Word(w + (a + o)) = Word(e + (a + o))
  <2>1. a + w \in Nat /\ a + o \in Nat
    OBVIOUS
  <2>. QED
    BY <1>1, <1>2, <2>1
<1>5. /\ w + a = a + w /\ e + a = a + e /\ v + (a + w) = a + w + v
      /\ o + (a + w) = w + (a + o) /\ e + (a + o) = a + e + o
  OBVIOUS
<1>. QED
  BY <1>2, <1>3, <1>4, <1>5

-----------------------------------------------------------------------------
(* Sequences of parts.                                                     *)

LEMMA PrefixMeans ==
  ASSUME NEW S, NEW s \in Seq(S), NEW t \in Seq(S)
  PROVE  IsPrefix(s, t) <=> Len(s) <= Len(t) /\ \A i \in 1 .. Len(s) : s[i] = t[i]
<1>1. Len(s) \in Nat /\ Len(t) \in Nat
  OBVIOUS
<1>2. SubSeq(s, 1, Len(s)) = [i \in 1 .. Len(s) |-> s[i]]
  BY <1>1
<1>3. ASSUME Len(s) <= Len(t)
      PROVE  SubSeq(t, 1, Len(s)) = [i \in 1 .. Len(s) |-> t[i]]
  BY <1>1, <1>3
<1>4. ASSUME Len(s) <= Len(t), [i \in 1 .. Len(s) |-> s[i]] = [i \in 1 .. Len(s) |-> t[i]]
      PROVE  \A i \in 1 .. Len(s) : s[i] = t[i]
  <2>. SUFFICES ASSUME NEW i \in 1 .. Len(s) PROVE s[i] = t[i]
    OBVIOUS
  <2>1. [j \in 1 .. Len(s) |-> s[j]][i] = [j \in 1 .. Len(s) |-> t[j]][i]
    BY <1>4
  <2>. QED
    BY <2>1
<1>. QED
  BY <1>2, <1>3, <1>4 DEF IsPrefix

LEMMA AppendedPart ==
  ASSUME NEW parts \in Seq(Part), NEW p \in Part
  PROVE  /\ Append(parts, p) \in Seq(Part)
         /\ Len(parts) \in Nat
         /\ Len(Append(parts, p)) = Len(parts) + 1
         /\ DOMAIN parts = 1 .. Len(parts)
         /\ DOMAIN Append(parts, p) = 1 .. Len(parts) + 1
         /\ \A i \in 1 .. Len(parts) : Append(parts, p)[i] = parts[i]
         /\ Append(parts, p)[Len(parts) + 1] = p
OBVIOUS

\* The numbers of a part.
LEMMA PartTypes ==
  ASSUME NEW p \in Part
  PROVE  /\ p.kind \in Kinds /\ p.at \in Nat /\ p.size \in Sizes /\ p.size \in Nat /\ p.len \in Nat
         /\ SizeOfHeader(p.kind) \in Nat \ {0}
         /\ EndOf(p) \in Nat /\ EndOf(p) = p.at + SizeOfHeader(p.kind) + p.size /\ p.at < EndOf(p)
<1>1. p.kind \in Kinds /\ p.at \in Nat /\ p.size \in Sizes /\ p.len \in Nat
  BY DEF Part
<1>2. p.size \in Nat
  BY <1>1, SizesAssumption
<1>3. SizeOfHeader(p.kind) \in Nat \ {0}
  BY HeadersHaveSize DEF SizeOfHeader
<1>4. EndOf(p) = p.at + SizeOfHeader(p.kind) + p.size
  BY DEF EndOf
<1>. HIDE DEF Part
<1>. QED
  BY <1>1, <1>2, <1>3, <1>4

-----------------------------------------------------------------------------
(* Type correctness.  It needs no more than itself.                        *)

NewPart(kind, size, len) == [kind |-> kind, at |-> bytes, size |-> size, len |-> len]

LEMMA NewPartIs ==
  ASSUME TypeOK, NEW kind \in Kinds, NEW size \in Sizes, NEW len \in Nat
  PROVE  /\ NewPart(kind, size, len) \in Part
         /\ NewPart(kind, size, len).kind = kind
         /\ NewPart(kind, size, len).at = bytes
         /\ NewPart(kind, size, len).size = size
         /\ NewPart(kind, size, len).len = len
         /\ EndOf(NewPart(kind, size, len)) = Grown(kind, size)
<1>1. bytes \in Nat
  BY DEF TypeOK
<1>2. NewPart(kind, size, len) = [kind |-> kind, at |-> bytes, size |-> size, len |-> len]
  BY DEF NewPart
<1>. QED
  BY <1>1, <1>2 DEF Part, EndOf, Grown

\* What appending a part does to everything but the head.
LEMMA PartAppended ==
  ASSUME TypeOK, NEW kind \in Kinds, NEW size \in Sizes, NEW len \in Nat, AppendPart(kind, size, len)
  PROVE  /\ _payload' \in Seq(Part)
         /\ bytes' \in Nat
         /\ head' \in Header \cup {Unwritten}
         /\ submitted' \in Seq(Part) /\ IsPrefix(submitted', _payload')
         /\ \A i \in DOMAIN _payload' :
              EndOf(_payload'[i]) = IF i = Len(_payload') THEN bytes' ELSE _payload'[i + 1].at
<1>. DEFINE p == NewPart(kind, size, len)
<1>1. /\ p \in Part /\ p.at = bytes /\ EndOf(p) = Grown(kind, size)
  BY NewPartIs
<1>2. _payload' = Append(_payload, p) /\ bytes' = Grown(kind, size) /\ UNCHANGED <<head, submitted>>
  BY DEF AppendPart, NewPart
<1>3. _payload \in Seq(Part) /\ submitted \in Seq(Part) /\ IsPrefix(submitted, _payload)
  BY DEF TypeOK
<1>4. \A i \in 1 .. Len(_payload) :
        EndOf(_payload[i]) = IF i = Len(_payload) THEN bytes ELSE _payload[i + 1].at
  BY <1>3 DEF TypeOK
<1>. HIDE DEF p
<1>5. _payload' \in Seq(Part)
  BY <1>1, <1>2, <1>3
<1>6. bytes' \in Nat
  BY <1>1, <1>2, PartTypes
<1>7. head' \in Header \cup {Unwritten}
  BY <1>2 DEF TypeOK
<1>8. IsPrefix(submitted', _payload')
  <2>1. Len(submitted) <= Len(_payload) /\ \A i \in 1 .. Len(submitted) : submitted[i] = _payload[i]
    BY <1>3, PrefixMeans
  <2>2. Len(submitted) \in Nat
    BY <1>3
  <2>3. /\ Len(submitted) <= Len(Append(_payload, p))
        /\ \A i \in 1 .. Len(submitted) : submitted[i] = Append(_payload, p)[i]
    BY <1>1, <1>3, <2>1, <2>2, AppendedPart
  <2>4. Append(_payload, p) \in Seq(Part)
    BY <1>1, <1>3
  <2>5. IsPrefix(submitted, Append(_payload, p))
    BY <1>3, <2>3, <2>4, PrefixMeans
  <2>. QED
    BY <1>2, <2>5
<1>9. ASSUME NEW i \in DOMAIN _payload'
      PROVE  EndOf(_payload'[i]) = IF i = Len(_payload') THEN bytes' ELSE _payload'[i + 1].at
  <2>. DEFINE n == Len(_payload)
  <2>1. /\ n \in Nat /\ Len(_payload') = n + 1 /\ i \in 1 .. n + 1
        /\ \A j \in 1 .. n : _payload'[j] = _payload[j]
        /\ _payload'[n + 1] = p
    BY <1>1, <1>2, <1>3, <1>9, AppendedPart
  <2>. HIDE DEF n
  <2>2. CASE i = n + 1
    BY <1>1, <1>2, <2>1, <2>2
  <2>3. CASE i = n
    <3>1. i \in 1 .. n /\ EndOf(_payload[i]) = bytes
      BY <1>4, <2>1, <2>3 DEF n
    <3>2. i # n + 1 /\ _payload'[i + 1] = p /\ _payload'[i] = _payload[i]
      BY <2>1, <2>3, <3>1
    <3>. QED
      BY <1>1, <2>1, <3>1, <3>2
  <2>4. CASE i \in 1 .. n - 1
    <3>1. i \in 1 .. n /\ i + 1 \in 1 .. n /\ i # n /\ i # n + 1
      BY <2>1, <2>4
    <3>2. EndOf(_payload[i]) = _payload[i + 1].at
      BY <1>4, <3>1 DEF n
    <3>. QED
      BY <2>1, <3>1, <3>2
  <2>. QED
    BY <2>1, <2>2, <2>3, <2>4
<1>. QED
  BY <1>2, <1>3, <1>5, <1>6, <1>7, <1>8, <1>9

\* What the two ways to append a part and submit do to the header.
LEMMA HeaderAfterOption ==
  ASSUME _header \in Header, NEW size \in Sizes, AppendOption(size)
  PROVE  /\ _header' \in Header
         /\ _header'.payloadLen = _header.payloadLen
         /\ _header'.exhcnt = _header.exhcnt /\ _header'.exhlen = _header.exhlen
         /\ _header'.optcnt = Increment(_header.optcnt)
         /\ _header'.optlen = Word(_header.optlen + size + OphSize)
<1>1. size \in Nat /\ OphSize \in Nat /\ CountModulus \in Nat \ {0}
  BY SizesAssumption, HeadersHaveSize, WidthsAssumption
<1>2. /\ _header.payloadLen \in Words /\ _header.exhcnt \in 0 .. CountModulus - 1
      /\ _header.optcnt \in 0 .. CountModulus - 1 /\ _header.exhlen \in Words /\ _header.optlen \in Words
  BY DEF Header
<1>3. Increment(_header.optcnt) \in 0 .. CountModulus - 1
  BY <1>1, <1>2 DEF Increment
<1>4. Word(_header.optlen + size + OphSize) \in Words
  <2>1. _header.optlen + size + OphSize \in Nat
    BY <1>1, <1>2 DEF Words
  <2>. QED
    BY <2>1, WordTypes
<1>5. _header' = [_header EXCEPT !.optcnt = Increment(_header.optcnt),
                                 !.optlen = Word(_header.optlen + size + OphSize)]
  BY DEF AppendOption
<1>. QED
  BY <1>3, <1>4, <1>5 DEF Header

LEMMA HeaderAfterExh ==
  ASSUME _header \in Header, NEW size \in Sizes, AppendExh(size)
  PROVE  /\ _header' \in Header
         /\ _header'.payloadLen = _header.payloadLen
         /\ _header'.optcnt = _header.optcnt /\ _header'.optlen = _header.optlen
         /\ _header'.exhcnt = Increment(_header.exhcnt)
         /\ _header'.exhlen = Word(_header.exhlen + size + ExhSize)
<1>1. size \in Nat /\ ExhSize \in Nat /\ CountModulus \in Nat \ {0}
  BY SizesAssumption, HeadersHaveSize, WidthsAssumption
<1>2. /\ _header.payloadLen \in Words /\ _header.exhcnt \in 0 .. CountModulus - 1
      /\ _header.optcnt \in 0 .. CountModulus - 1 /\ _header.exhlen \in Words /\ _header.optlen \in Words
  BY DEF Header
<1>3. Increment(_header.exhcnt) \in 0 .. CountModulus - 1
  BY <1>1, <1>2 DEF Increment
<1>4. Word(_header.exhlen + size + ExhSize) \in Words
  <2>1. _header.exhlen + size + ExhSize \in Nat
    BY <1>1, <1>2 DEF Words
  <2>. QED
    BY <2>1, WordTypes
<1>5. _header' = [_header EXCEPT !.exhcnt = Increment(_header.exhcnt),
                                 !.exhlen = Word(_header.exhlen + size + ExhSize)]
  BY DEF AppendExh, AddExh
<1>. QED
  BY <1>3, <1>4, <1>5 DEF Header

LEMMA HeaderAfterSubmit ==
  ASSUME _header \in Header, Submit
  PROVE  /\ _header' \in Header /\ head' = _header'
         /\ _header'.payloadLen = Word(HeadSize + _header.exhlen + _header.optlen)
         /\ _header'.exhcnt = _header.exhcnt /\ _header'.exhlen = _header.exhlen
         /\ _header'.optcnt = _header.optcnt /\ _header'.optlen = _header.optlen
<1>1. /\ _header.payloadLen \in Words /\ _header.exhcnt \in 0 .. CountModulus - 1
      /\ _header.optcnt \in 0 .. CountModulus - 1 /\ _header.exhlen \in Words /\ _header.optlen \in Words
  BY DEF Header
<1>2. Word(HeadSize + _header.exhlen + _header.optlen) \in Words
  <2>1. HeadSize + _header.exhlen + _header.optlen \in Nat
    BY <1>1, HeadersHaveSize DEF Words
  <2>. QED
    BY <2>1, WordTypes
<1>3. /\ _header' = [_header EXCEPT !.payloadLen = Word(HeadSize + _header.exhlen + _header.optlen)]
      /\ head' = _header'
  BY DEF Submit, Complete, CopyHead
<1>. QED
  BY <1>2, <1>3 DEF Header

LEMMA TypeInit == Init => TypeOK
<1>. SUFFICES ASSUME Init PROVE TypeOK
  OBVIOUS
<1>1. _header \in Header
  <2>1. 0 \in Words /\ 0 \in 0 .. CountModulus - 1
    BY WidthsAssumption, WordTypes DEF Words
  <2>. QED
    BY <2>1 DEF Init, Header
<1>2. bytes \in Nat /\ head \in Header \cup {Unwritten}
  BY HeadersHaveSize DEF Init
<1>3. _payload = <<>> /\ submitted = <<>> /\ <<>> \in Seq(Part)
  BY DEF Init
<1>4. IsPrefix(submitted, _payload)
  BY <1>3 DEF IsPrefix
<1>5. \A i \in DOMAIN _payload :
        EndOf(_payload[i]) = IF i = Len(_payload) THEN bytes ELSE _payload[i + 1].at
  BY <1>3
<1>. QED
  BY <1>1, <1>2, <1>3, <1>4, <1>5 DEF TypeOK

LEMMA TypeStep == TypeOK /\ [Next]_vars => TypeOK'
<1>. SUFFICES ASSUME TypeOK, [Next]_vars PROVE TypeOK'
  OBVIOUS
<1>0. _header \in Header
  BY DEF TypeOK
<1>1. ASSUME NEW size \in Sizes, AppendExh(size) PROVE TypeOK'
  <2>1. AppendPart("exh", size, size % LenModulus)
    BY <1>1 DEF AppendExh
  <2>2. size \in Nat /\ LenModulus \in Nat \ {0}
    BY SizesAssumption, WidthsAssumption
  <2>3. "exh" \in Kinds /\ size % LenModulus \in Nat
    BY <2>2 DEF Kinds
  <2>4. _header' \in Header
    BY <1>0, <1>1, HeaderAfterExh
  <2>. QED
    BY <2>1, <2>3, <2>4, PartAppended DEF TypeOK
<1>2. ASSUME NEW size \in Sizes, AppendOption(size) PROVE TypeOK'
  <2>1. AppendPart("option", size, Word(size))
    BY <1>2 DEF AppendOption
  <2>2. "option" \in Kinds /\ Word(size) \in Nat
    BY SizesAssumption, WordTypes DEF Kinds
  <2>3. _header' \in Header
    BY <1>0, <1>2, HeaderAfterOption
  <2>. QED
    BY <2>1, <2>2, <2>3, PartAppended DEF TypeOK
<1>3. CASE Submit
  <2>1. _header' \in Header /\ head' = _header'
    BY <1>0, <1>3, HeaderAfterSubmit
  <2>2. submitted' = _payload /\ _payload' = _payload /\ bytes' = bytes
    BY <1>3 DEF Submit
  <2>3. IsPrefix(submitted', _payload')
    BY <2>2, PrefixMeans DEF TypeOK
  <2>. QED
    BY <2>1, <2>2, <2>3 DEF TypeOK
<1>4. CASE UNCHANGED vars
  BY <1>4 DEF vars, TypeOK
<1>. QED
  BY <1>1, <1>2, <1>3, <1>4 DEF Next

\* Header, parts and their number of bytes keep their types, each part ends
\* where the next one begins, and what was submitted is still in the payload
\* (append_exh, append_option and submit, message/aaws_message.h:195-245).
THEOREM TypeCorrect == Spec => []TypeOK
  BY TypeInit, TypeStep, PTL DEF Spec

-----------------------------------------------------------------------------
(* The parts of a kind.                                                    *)

\* The parts of the kind among the first i ones.
Collects(parts, kind, some) ==
  some = [i \in 0 .. Len(parts) |->
            IF i = 0 THEN <<>>
            ELSE IF parts[i].kind = kind THEN Append(some[i - 1], parts[i]) ELSE some[i - 1]]

LEMMA CollectionExists ==
  ASSUME NEW parts \in Seq(Part), NEW kind
  PROVE  \E some \in [0 .. Len(parts) -> Seq(Part)] : Collects(parts, kind, some)
<1>. DEFINE step == [i \in 1 .. Len(parts) |->
                       [s \in Seq(Part) |-> IF parts[i].kind = kind THEN Append(s, parts[i]) ELSE s]]
<1>1. Len(parts) \in Nat /\ <<>> \in Seq(Part)
  OBVIOUS
<1>2. ASSUME NEW i \in 1 .. Len(parts), NEW s \in Seq(Part)
      PROVE  (IF parts[i].kind = kind THEN Append(s, parts[i]) ELSE s) \in Seq(Part)
  <2>1. parts[i] \in Part
    OBVIOUS
  <2>. QED
    BY <2>1
<1>3. step \in [1 .. Len(parts) -> [Seq(Part) -> Seq(Part)]]
  BY <1>2
<1>4. PICK f \in [0 .. Len(parts) -> Seq(Part)] :
        f[0] = <<>> /\ \A i \in 1 .. Len(parts) : f[i] = step[i][f[i - 1]]
  <2>1. PICK n \in Nat : n = Len(parts)
    BY <1>1
  <2>2. PICK D : D = Seq(Part)
    OBVIOUS
  <2>3. PICK s \in [1 .. n -> [D -> D]] : s = step
    BY <1>3, <2>1, <2>2
  <2>4. \E f \in [0 .. n -> D] : RunsBy(n, <<>>, s, f)
    BY <1>1, <2>2, RecursionExists
  <2>. HIDE DEF step
  <2>. QED
    BY <2>1, <2>2, <2>3, <2>4 DEF RunsBy
<1>5. \A i \in 1 .. Len(parts) : f[i - 1] \in Seq(Part)
  BY <1>1
<1>6. \A i \in 1 .. Len(parts) :
        f[i] = IF parts[i].kind = kind THEN Append(f[i - 1], parts[i]) ELSE f[i - 1]
  BY <1>4, <1>5
<1>7. \A i \in 0 .. Len(parts) : i = 0 \/ i \in 1 .. Len(parts)
  BY <1>1
<1>. HIDE DEF step
<1>. QED
  BY <1>4, <1>6, <1>7 DEF Collects

\* The same step by step, with the result.
Collected(parts, kind, some) ==
  /\ OfKind(parts, kind) = some[Len(parts)]
  /\ some[0] = <<>>
  /\ \A i \in 1 .. Len(parts) :
       some[i] = IF parts[i].kind = kind THEN Append(some[i - 1], parts[i]) ELSE some[i - 1]
  /\ \A i \in 0 .. Len(parts) : some[i] \in Seq(Part)

LEMMA OfKindCollects ==
  ASSUME NEW parts \in Seq(Part), NEW kind
  PROVE  \E some : Collected(parts, kind, some)
<1>0. Collects(parts, kind, CHOOSE f : Collects(parts, kind, f))
  BY CollectionExists
<1>1. PICK some : some = CHOOSE f : Collects(parts, kind, f)
  OBVIOUS
<1>2. Collects(parts, kind, some)
  BY <1>0, <1>1
<1>3. OfKind(parts, kind) = some[Len(parts)]
  BY <1>1 DEF OfKind, Collects
<1>4. PICK n \in Nat : n = Len(parts)
  OBVIOUS
<1>5. \A i \in 1 .. n : parts[i] \in Part
  BY <1>4
<1>6. some[0] = <<>>
  BY <1>2, <1>4 DEF Collects
<1>7. ASSUME NEW i \in 1 .. n
      PROVE  some[i] = IF parts[i].kind = kind THEN Append(some[i - 1], parts[i]) ELSE some[i - 1]
  <2>1. i \in 0 .. Len(parts) /\ i # 0
    BY <1>4
  <2>. QED
    BY <1>2, <2>1 DEF Collects
<1>. DEFINE Typed == {i \in 0 .. n : some[i] \in Seq(Part)}
<1>8. 0 \in Typed
  <2>1. <<>> \in Seq(Part) /\ 0 \in 0 .. n
    OBVIOUS
  <2>. QED
    BY <1>6, <2>1
<1>9. ASSUME NEW i \in 1 .. n, i - 1 \in Typed PROVE i \in Typed
  <2>1. some[i - 1] \in Seq(Part) /\ parts[i] \in Part /\ i \in 0 .. n
    BY <1>5, <1>9
  <2>2. Append(some[i - 1], parts[i]) \in Seq(Part)
    BY <2>1
  <2>. QED
    BY <1>7, <2>1, <2>2
<1>10. \A i \in 0 .. n : i \in Typed
  <2>. HIDE DEF Typed
  <2>. QED
    BY <1>8, <1>9, UpTo
<1>. QED
  BY <1>3, <1>4, <1>6, <1>7, <1>10 DEF Collected

\* A new part comes last among those of its kind, and leaves the others alone.
LEMMA AppendedOfKind ==
  ASSUME NEW parts \in Seq(Part), NEW p \in Part, NEW kind
  PROVE  /\ OfKind(parts, kind) \in Seq(Part)
         /\ OfKind(Append(parts, p), kind) = IF p.kind = kind THEN Append(OfKind(parts, kind), p)
                                             ELSE OfKind(parts, kind)
<1>. DEFINE n == Len(parts)
<1>0. PICK f : Collected(parts, kind, f)
  BY OfKindCollects
<1>1. /\ OfKind(parts, kind) = f[n]
      /\ f[0] = <<>>
      /\ \A i \in 1 .. n : f[i] = IF parts[i].kind = kind THEN Append(f[i - 1], parts[i]) ELSE f[i - 1]
      /\ \A i \in 0 .. n : f[i] \in Seq(Part)
  BY <1>0 DEF Collected
<1>2. /\ n \in Nat /\ Append(parts, p) \in Seq(Part) /\ Len(Append(parts, p)) = n + 1
      /\ \A i \in 1 .. n : Append(parts, p)[i] = parts[i]
      /\ Append(parts, p)[n + 1] = p
  BY AppendedPart
<1>3. PICK g : /\ OfKind(Append(parts, p), kind) = g[n + 1]
               /\ g[0] = <<>>
               /\ \A i \in 1 .. n + 1 :
                    g[i] = IF Append(parts, p)[i].kind = kind
                           THEN Append(g[i - 1], Append(parts, p)[i]) ELSE g[i - 1]
  <2>1. PICK g : Collected(Append(parts, p), kind, g)
    BY <1>2, OfKindCollects
  <2>. HIDE DEF n
  <2>. QED
    BY <1>2, <2>1 DEF Collected
<1>. HIDE DEF n
<1>. DEFINE Same == {i \in 0 .. n : g[i] = f[i]}
<1>4. 0 \in Same
  BY <1>1, <1>2, <1>3
<1>5. ASSUME NEW i \in 1 .. n, i - 1 \in Same PROVE i \in Same
  <2>1. i \in 1 .. n + 1 /\ i \in 0 .. n /\ Append(parts, p)[i] = parts[i]
    BY <1>2
  <2>2. g[i - 1] = f[i - 1]
    BY <1>5
  <2>3. g[i] = IF parts[i].kind = kind THEN Append(g[i - 1], parts[i]) ELSE g[i - 1]
    BY <1>3, <2>1
  <2>4. f[i] = IF parts[i].kind = kind THEN Append(f[i - 1], parts[i]) ELSE f[i - 1]
    BY <1>1
  <2>. QED
    BY <2>1, <2>2, <2>3, <2>4
<1>6. \A i \in 0 .. n : i \in Same
  <2>. HIDE DEF Same
  <2>. QED
    BY <1>2, <1>4, <1>5, UpTo
<1>7. n \in 0 .. n /\ n + 1 \in 1 .. n + 1 /\ (n + 1) - 1 = n
  BY <1>2
<1>8. g[n] = f[n]
  BY <1>6, <1>7
<1>9. g[n + 1] = IF p.kind = kind THEN Append(g[n], p) ELSE g[n]
  BY <1>2, <1>3, <1>7
<1>. QED
  BY <1>1, <1>3, <1>7, <1>8, <1>9

\* Parts of a kind that stand in a row are found in that row.
LEMMA KindInARow ==
  ASSUME NEW parts \in Seq(Part), NEW kind, NEW a \in 0 .. Len(parts), NEW b \in a .. Len(parts),
         \A i \in 1 .. Len(parts) : parts[i].kind = kind <=> a < i /\ i <= b
  PROVE  /\ OfKind(parts, kind) \in Seq(Part)
         /\ Len(OfKind(parts, kind)) = b - a
         /\ \A j \in 1 .. b - a : OfKind(parts, kind)[j] = parts[a + j]
<1>. DEFINE n == Len(parts)
<1>0. PICK f : Collected(parts, kind, f)
  BY OfKindCollects
<1>1. /\ OfKind(parts, kind) = f[n]
      /\ f[0] = <<>>
      /\ \A i \in 1 .. n : f[i] = IF parts[i].kind = kind THEN Append(f[i - 1], parts[i]) ELSE f[i - 1]
      /\ \A i \in 0 .. n : f[i] \in Seq(Part)
  BY <1>0 DEF Collected
<1>2. n \in Nat /\ a \in 0 .. n /\ b \in a .. n /\ a \in Nat /\ b \in Nat
  OBVIOUS
<1>3. \A i \in 1 .. n : parts[i] \in Part /\ (parts[i].kind = kind <=> a < i /\ i <= b)
  OBVIOUS
<1>. HIDE DEF n
<1>. DEFINE Count(i) == IF i <= a THEN 0 ELSE IF i <= b THEN i - a ELSE b - a
            Found == {i \in 0 .. n : /\ Len(f[i]) = Count(i)
                                     /\ \A j \in 1 .. Count(i) : f[i][j] = parts[a + j]}
<1>4. 0 \in Found
  <2>1. Len(f[0]) = 0 /\ Count(0) = 0 /\ 0 \in 0 .. n
    BY <1>1, <1>2
  <2>. QED
    BY <2>1
<1>5. ASSUME NEW i \in 1 .. n, i - 1 \in Found PROVE i \in Found
  <2>1. /\ i \in 0 .. n /\ i - 1 \in 0 .. n /\ f[i - 1] \in Seq(Part) /\ parts[i] \in Part
        /\ Len(f[i - 1]) = Count(i - 1) /\ \A j \in 1 .. Count(i - 1) : f[i - 1][j] = parts[a + j]
    BY <1>1, <1>2, <1>3, <1>5
  <2>2. CASE a < i /\ i <= b
    <3>1. f[i] = Append(f[i - 1], parts[i])
      BY <1>1, <1>3, <2>2
    <3>2. Count(i - 1) = (i - 1) - a /\ Count(i) = i - a
      BY <1>2, <2>2
    <3>3. Len(f[i]) = i - a
      BY <1>2, <2>1, <2>2, <3>1, <3>2
    <3>4. ASSUME NEW j \in 1 .. i - a PROVE f[i][j] = parts[a + j]
      <4>1. CASE j = i - a
        <5>1. j = Len(f[i - 1]) + 1 /\ a + j = i
          BY <1>2, <2>1, <2>2, <3>2, <4>1
        <5>. HIDE DEF Count, Found
        <5>. QED
          BY <2>1, <3>1, <5>1
      <4>2. CASE j # i - a
        <5>1. j \in 1 .. Len(f[i - 1]) /\ j \in 1 .. Count(i - 1)
          BY <1>2, <2>1, <2>2, <3>2, <4>2
        <5>2. f[i][j] = f[i - 1][j]
          <6>. HIDE DEF Count, Found
          <6>. QED
            BY <2>1, <3>1, <5>1
        <5>. QED
          BY <2>1, <5>1, <5>2
      <4>. QED
        BY <4>1, <4>2
    <3>. HIDE DEF Count
    <3>. QED
      BY <2>1, <3>2, <3>3, <3>4
  <2>3. CASE ~(a < i /\ i <= b)
    <3>1. f[i] = f[i - 1]
      BY <1>1, <1>3, <2>3
    <3>2. Count(i - 1) = Count(i)
      BY <1>2, <2>3
    <3>. HIDE DEF Count
    <3>. QED
      BY <2>1, <3>1, <3>2
  <2>. QED
    BY <2>2, <2>3
<1>6. \A i \in 0 .. n : i \in Found
  <2>. HIDE DEF Found
  <2>. QED
    BY <1>2, <1>4, <1>5, UpTo
<1>7. n \in Found /\ n \in 0 .. n
  <2>. HIDE DEF Found
  <2>. QED
    BY <1>2, <1>6
<1>8. Count(n) = b - a
  BY <1>2
<1>. HIDE DEF Count
<1>. QED
  BY <1>1, <1>7, <1>8

-----------------------------------------------------------------------------
(* The invariant: where the parts are, and what a head tells of them.      *)

\* Where the n-th of the parts ends.
PlaceAfter(parts, n) == IF n = 0 THEN HeadSize ELSE EndOf(parts[n])

\* The first m parts are the extended headers.
Split(parts, m) == \A i \in DOMAIN parts : parts[i].kind = "exh" <=> i <= m

Placed(parts) ==
  \A i \in DOMAIN parts :
    /\ parts[i].at = PlaceAfter(parts, i - 1)
    /\ parts[i].len = IF parts[i].kind = "exh" THEN parts[i].size % LenModulus ELSE Word(parts[i].size)

\* The extended headers take e bytes and the options o.  Where the options come
\* last they begin behind the e bytes.
Takes(parts, e, o) ==
  /\ HeadSize + e + o = PlaceAfter(parts, Len(parts))
  /\ \A m \in 0 .. Len(parts) : Split(parts, m) => HeadSize + e = PlaceAfter(parts, m)

\* The lengths of the header are those of the parts, and its counts theirs.
Describes(header, parts) ==
  /\ \E e, o \in Nat :
       Takes(parts, e, o) /\ header.exhlen = Word(e) /\ header.optlen = Word(o)
  /\ header.exhcnt = Len(OfKind(parts, "exh")) % CountModulus
  /\ header.optcnt = Len(OfKind(parts, "option")) % CountModulus

MessageInv ==
  /\ Placed(_payload)
  /\ bytes = PlaceAfter(_payload, Len(_payload))
  /\ Describes(_header, _payload)
  /\ head # Unwritten => /\ Describes(head, submitted)
                         /\ head.payloadLen = Word(PlaceAfter(submitted, Len(submitted)))

LEMMA PlaceTypes ==
  ASSUME NEW parts \in Seq(Part), NEW n \in 0 .. Len(parts)
  PROVE  PlaceAfter(parts, n) \in Nat
<1>1. CASE n = 0
  BY <1>1, HeadersHaveSize DEF PlaceAfter
<1>2. CASE n # 0
  <2>1. parts[n] \in Part
    BY <1>2
  <2>. QED
    BY <1>2, <2>1, PartTypes DEF PlaceAfter
<1>. QED
  BY <1>1, <1>2

\* Appending a part moves no other one.
LEMMA PlacesKept ==
  ASSUME NEW parts \in Seq(Part), NEW p \in Part
  PROVE  /\ \A n \in 0 .. Len(parts) : PlaceAfter(Append(parts, p), n) = PlaceAfter(parts, n)
         /\ PlaceAfter(Append(parts, p), Len(parts) + 1) = EndOf(p)
<1>1. ASSUME NEW n \in 0 .. Len(parts)
      PROVE  PlaceAfter(Append(parts, p), n) = PlaceAfter(parts, n)
  <2>1. n # 0 => Append(parts, p)[n] = parts[n]
    BY AppendedPart
  <2>. QED
    BY <2>1 DEF PlaceAfter
<1>2. PlaceAfter(Append(parts, p), Len(parts) + 1) = EndOf(p)
  <2>1. Len(parts) + 1 # 0 /\ Append(parts, p)[Len(parts) + 1] = p
    BY AppendedPart
  <2>. QED
    BY <2>1 DEF PlaceAfter
<1>. QED
  BY <1>1, <1>2

LEMMA PlacedStep ==
  ASSUME NEW parts \in Seq(Part), NEW p \in Part, Placed(parts),
         p.at = PlaceAfter(parts, Len(parts)),
         p.len = IF p.kind = "exh" THEN p.size % LenModulus ELSE Word(p.size)
  PROVE  Placed(Append(parts, p))
<1>1. PICK n \in Nat : n = Len(parts)
  OBVIOUS
<1>2. /\ DOMAIN parts = 1 .. n /\ DOMAIN Append(parts, p) = 1 .. n + 1
      /\ \A i \in 1 .. n : Append(parts, p)[i] = parts[i]
      /\ Append(parts, p)[n + 1] = p
  BY <1>1, AppendedPart
<1>3. \A i \in 1 .. n + 1 : i - 1 \in 0 .. Len(parts) /\ (i = n + 1 \/ i \in 1 .. n)
  BY <1>1
<1>4. \A i \in 1 .. n + 1 : PlaceAfter(Append(parts, p), i - 1) = PlaceAfter(parts, i - 1)
  BY <1>3, PlacesKept
<1>5. ASSUME NEW i \in 1 .. n
      PROVE  /\ Append(parts, p)[i].at = PlaceAfter(Append(parts, p), i - 1)
             /\ Append(parts, p)[i].len = IF Append(parts, p)[i].kind = "exh"
                                          THEN Append(parts, p)[i].size % LenModulus
                                          ELSE Word(Append(parts, p)[i].size)
  <2>1. Append(parts, p)[i] = parts[i] /\ i \in 1 .. n + 1
    BY <1>1, <1>2
  <2>. QED
    BY <1>2, <1>4, <2>1 DEF Placed
<1>6. n + 1 \in 1 .. n + 1 /\ (n + 1) - 1 = n
  BY <1>1
<1>7. Append(parts, p)[n + 1].at = PlaceAfter(Append(parts, p), (n + 1) - 1)
  BY <1>1, <1>2, <1>4, <1>6
<1>. QED
  BY <1>2, <1>3, <1>5, <1>6, <1>7 DEF Placed

\* A new extended header.
LEMMA DescribesExh ==
  ASSUME NEW parts \in Seq(Part), NEW p \in Part, p.kind = "exh", p.at = PlaceAfter(parts, Len(parts)),
         NEW h \in Header, Describes(h, parts),
         NEW h2 \in Header, h2.exhcnt = Increment(h.exhcnt), h2.exhlen = Word(h.exhlen + p.size + ExhSize),
         h2.optcnt = h.optcnt, h2.optlen = h.optlen
  PROVE  Describes(h2, Append(parts, p))
<1>1. PICK n \in Nat : n = Len(parts)
  OBVIOUS
<1>2. /\ DOMAIN parts = 1 .. n /\ DOMAIN Append(parts, p) = 1 .. n + 1
      /\ \A i \in 1 .. n : Append(parts, p)[i] = parts[i]
      /\ Append(parts, p)[n + 1] = p /\ Len(Append(parts, p)) = n + 1
  BY <1>1, AppendedPart
<1>3. /\ p.size \in Nat /\ ExhSize \in Nat /\ HeadSize \in Nat /\ p.at \in Nat
      /\ EndOf(p) = p.at + ExhSize + p.size
      /\ PlaceAfter(Append(parts, p), n + 1) = EndOf(p)
  BY <1>1, PartTypes, HeadersHaveSize, PlacesKept DEF SizeOfHeader
<1>4. PICK e \in Nat, o \in Nat : Takes(parts, e, o) /\ h.exhlen = Word(e) /\ h.optlen = Word(o)
  BY DEF Describes
<1>. DEFINE e2 == e + (p.size + ExhSize)
<1>5. /\ e2 \in Nat /\ HeadSize + e + o = p.at
      /\ HeadSize + e2 + o = PlaceAfter(Append(parts, p), Len(Append(parts, p)))
  <2>1. HeadSize + e + o = p.at
    BY <1>4 DEF Takes
  <2>2. HeadSize + e2 + o = EndOf(p)
    BY <1>3, <2>1
  <2>3. e2 \in Nat
    BY <1>3
  <2>4. PlaceAfter(Append(parts, p), Len(Append(parts, p))) = EndOf(p)
    BY <1>2, <1>3, Zenon
  <2>. HIDE DEF e2
  <2>. QED
    BY <2>1, <2>2, <2>3, <2>4, Zenon
<1>6. h2.exhlen = Word(e2) /\ h2.optlen = Word(o)
  <2>1. PICK w \in Nat : w = Word(e)
    BY WordTypes
  <2>2. p.size + ExhSize \in Nat /\ w + p.size + ExhSize = w + (p.size + ExhSize)
    BY <1>3
  <2>3. h2.exhlen = Word(Word(e) + (p.size + ExhSize))
    BY <1>4, <2>1, <2>2
  <2>. QED
    BY <1>4, <2>2, <2>3, WordOfSum
<1>7. h2.exhcnt = Len(OfKind(Append(parts, p), "exh")) % CountModulus
  <2>1. PICK s \in Seq(Part) : s = OfKind(parts, "exh")
    BY AppendedOfKind
  <2>2. OfKind(Append(parts, p), "exh") = Append(s, p)
    BY <2>1, AppendedOfKind
  <2>3. Len(s) \in Nat /\ Len(Append(s, p)) = Len(s) + 1 /\ CountModulus \in Nat \ {0}
    BY WidthsAssumption
  <2>4. h.exhcnt = Len(s) % CountModulus
    BY <2>1 DEF Describes
  <2>5. h2.exhcnt = ((Len(s) % CountModulus) + 1) % CountModulus
    BY <2>4 DEF Increment
  <2>6. h2.exhcnt = (Len(s) + 1) % CountModulus
    BY <2>3, <2>5, CountedModulo
  <2>. QED
    BY <2>2, <2>3, <2>6
<1>8. h2.optcnt = Len(OfKind(Append(parts, p), "option")) % CountModulus
  <2>1. OfKind(Append(parts, p), "option") = OfKind(parts, "option")
    BY AppendedOfKind
  <2>. QED
    BY <2>1 DEF Describes
<1>9. ASSUME NEW m \in 0 .. n + 1, Split(Append(parts, p), m)
      PROVE  HeadSize + e2 = PlaceAfter(Append(parts, p), m)
  <2>1. n + 1 <= m
    <3>1. n + 1 \in DOMAIN Append(parts, p) /\ Append(parts, p)[n + 1].kind = "exh"
      BY <1>1, <1>2
    <3>. QED
      BY <1>9, <3>1 DEF Split
  <2>2. m = n + 1
    BY <1>1, <2>1
  <2>3. Split(parts, n)
    <3>1. \A i \in 1 .. n : i \in 1 .. n + 1 /\ i <= m /\ i <= n
      BY <1>1, <2>2
    <3>2. \A i \in 1 .. n : Append(parts, p)[i].kind = "exh"
      BY <1>2, <1>9, <3>1 DEF Split
    <3>. QED
      BY <1>2, <3>1, <3>2 DEF Split
  <2>4. HeadSize + e = PlaceAfter(parts, n)
    <3>1. n \in 0 .. Len(parts)
      BY <1>1
    <3>. QED
      BY <1>4, <2>3, <3>1 DEF Takes
  <2>5. HeadSize + e = p.at
    BY <1>1, <2>4
  <2>6. HeadSize + e2 = EndOf(p)
    BY <1>3, <2>5
  <2>. QED
    BY <1>3, <2>2, <2>6
<1>. HIDE DEF e2
<1>10. Takes(Append(parts, p), e2, o)
  BY <1>2, <1>5, <1>9 DEF Takes
<1>. QED
  BY <1>5, <1>7, <1>8, <1>6, <1>10 DEF Describes

\* A new option.
LEMMA DescribesOption ==
  ASSUME NEW parts \in Seq(Part), NEW p \in Part, p.kind = "option", p.at = PlaceAfter(parts, Len(parts)),
         NEW h \in Header, Describes(h, parts),
         NEW h2 \in Header, h2.optcnt = Increment(h.optcnt), h2.optlen = Word(h.optlen + p.size + OphSize),
         h2.exhcnt = h.exhcnt, h2.exhlen = h.exhlen
  PROVE  Describes(h2, Append(parts, p))
<1>1. PICK n \in Nat : n = Len(parts)
  OBVIOUS
<1>2. /\ DOMAIN parts = 1 .. n /\ DOMAIN Append(parts, p) = 1 .. n + 1
      /\ \A i \in 1 .. n : Append(parts, p)[i] = parts[i]
      /\ Append(parts, p)[n + 1] = p /\ Len(Append(parts, p)) = n + 1
  BY <1>1, AppendedPart
<1>3. /\ p.size \in Nat /\ OphSize \in Nat /\ HeadSize \in Nat /\ p.at \in Nat
      /\ EndOf(p) = p.at + OphSize + p.size
      /\ PlaceAfter(Append(parts, p), n + 1) = EndOf(p)
  BY <1>1, PartTypes, HeadersHaveSize, PlacesKept DEF SizeOfHeader
<1>4. PICK e \in Nat, o \in Nat : Takes(parts, e, o) /\ h.exhlen = Word(e) /\ h.optlen = Word(o)
  BY DEF Describes
<1>. DEFINE o2 == o + (p.size + OphSize)
<1>5. /\ o2 \in Nat
      /\ HeadSize + e + o2 = PlaceAfter(Append(parts, p), Len(Append(parts, p)))
  <2>1. HeadSize + e + o = p.at
    BY <1>4 DEF Takes
  <2>2. HeadSize + e + o2 = EndOf(p)
    BY <1>3, <2>1
  <2>3. o2 \in Nat
    BY <1>3
  <2>4. PlaceAfter(Append(parts, p), Len(Append(parts, p))) = EndOf(p)
    BY <1>2, <1>3, Zenon
  <2>. HIDE DEF o2
  <2>. QED
    BY <2>2, <2>3, <2>4, Zenon
<1>6. h2.exhlen = Word(e) /\ h2.optlen = Word(o2)
  <2>1. PICK w \in Nat : w = Word(o)
    BY WordTypes
  <2>2. p.size + OphSize \in Nat /\ w + p.size + OphSize = w + (p.size + OphSize)
    BY <1>3
  <2>3. h2.optlen = Word(Word(o) + (p.size + OphSize))
    BY <1>4, <2>1, <2>2
  <2>. QED
    BY <1>4, <2>2, <2>3, WordOfSum
<1>7. h2.optcnt = Len(OfKind(Append(parts, p), "option")) % CountModulus
  <2>1. PICK s \in Seq(Part) : s = OfKind(parts, "option")
    BY AppendedOfKind
  <2>2. OfKind(Append(parts, p), "option") = Append(s, p)
    BY <2>1, AppendedOfKind
  <2>3. Len(s) \in Nat /\ Len(Append(s, p)) = Len(s) + 1 /\ CountModulus \in Nat \ {0}
    BY WidthsAssumption
  <2>4. h.optcnt = Len(s) % CountModulus
    BY <2>1 DEF Describes
  <2>5. h2.optcnt = ((Len(s) % CountModulus) + 1) % CountModulus
    BY <2>4 DEF Increment
  <2>6. h2.optcnt = (Len(s) + 1) % CountModulus
    BY <2>3, <2>5, CountedModulo
  <2>. QED
    BY <2>2, <2>3, <2>6
<1>8. h2.exhcnt = Len(OfKind(Append(parts, p), "exh")) % CountModulus
  <2>1. OfKind(Append(parts, p), "exh") = OfKind(parts, "exh")
    BY AppendedOfKind
  <2>. QED
    BY <2>1 DEF Describes
<1>9. ASSUME NEW m \in 0 .. n + 1, Split(Append(parts, p), m)
      PROVE  HeadSize + e = PlaceAfter(Append(parts, p), m)
  <2>1. ~(n + 1 <= m)
    <3>1. n + 1 \in DOMAIN Append(parts, p) /\ Append(parts, p)[n + 1].kind # "exh"
      BY <1>1, <1>2
    <3>. QED
      BY <1>9, <3>1 DEF Split
  <2>2. m \in 0 .. Len(parts)
    BY <1>1, <2>1
  <2>3. Split(parts, m)
    <3>1. \A i \in 1 .. n : i \in 1 .. n + 1
      BY <1>1
    <3>. QED
      BY <1>2, <1>9, <3>1 DEF Split
  <2>4. HeadSize + e = PlaceAfter(parts, m)
    BY <1>4, <2>2, <2>3 DEF Takes
  <2>. QED
    BY <2>2, <2>4, PlacesKept
<1>. HIDE DEF o2
<1>10. Takes(Append(parts, p), e, o2)
  BY <1>2, <1>5, <1>9 DEF Takes
<1>. QED
  BY <1>5, <1>7, <1>8, <1>6, <1>10 DEF Describes

LEMMA MessageInit == Init => MessageInv
<1>. SUFFICES ASSUME Init PROVE MessageInv
  OBVIOUS
<1>1. /\ _header.exhlen = 0 /\ _header.optlen = 0 /\ _header.exhcnt = 0 /\ _header.optcnt = 0
      /\ _payload = <<>> /\ bytes = HeadSize /\ head = Unwritten
  BY DEF Init
<1>2. /\ <<>> \in Seq(Part) /\ Len(<<>>) = 0 /\ HeadSize \in Nat
      /\ PlaceAfter(<<>>, 0) = HeadSize /\ 0 .. 0 = {0}
  BY HeadersHaveSize DEF PlaceAfter
<1>3. \A kind : OfKind(<<>>, kind) = <<>>
  <2>. TAKE kind
  <2>1. PICK f : Collected(<<>>, kind, f)
    BY <1>2, OfKindCollects
  <2>. QED
    BY <1>2, <2>1 DEF Collected
<1>4. 0 % CountModulus = 0
  BY WidthsAssumption
<1>5. Describes(_header, _payload)
  <2>1. Takes(<<>>, 0, 0)
    BY <1>2 DEF Takes
  <2>2. Word(0) = 0 /\ 0 \in Nat
    BY WordTypes
  <2>. QED
    BY <1>1, <1>2, <1>3, <1>4, <2>1, <2>2 DEF Describes
<1>6. Placed(_payload)
  BY <1>1 DEF Placed
<1>. QED
  BY <1>1, <1>2, <1>5, <1>6 DEF MessageInv

LEMMA MessageStep == TypeOK /\ MessageInv /\ [Next]_vars => MessageInv'
<1>. SUFFICES ASSUME TypeOK, MessageInv, [Next]_vars PROVE MessageInv'
  OBVIOUS
<1>0. /\ _header \in Header /\ _payload \in Seq(Part) /\ submitted \in Seq(Part) /\ bytes \in Nat
      /\ Placed(_payload) /\ bytes = PlaceAfter(_payload, Len(_payload)) /\ Describes(_header, _payload)
      /\ head # Unwritten => /\ Describes(head, submitted)
                             /\ head.payloadLen = Word(PlaceAfter(submitted, Len(submitted)))
  BY DEF TypeOK, MessageInv
<1>1. ASSUME NEW size \in Sizes, AppendExh(size) PROVE MessageInv'
  <2>1. size \in Nat /\ size % LenModulus \in Nat /\ "exh" \in Kinds
    BY SizesAssumption, WidthsAssumption DEF Kinds
  <2>2. PICK p \in Part : /\ p = NewPart("exh", size, size % LenModulus)
                          /\ p.kind = "exh" /\ p.at = bytes /\ p.size = size
                          /\ p.len = size % LenModulus /\ EndOf(p) = Grown("exh", size)
    BY <2>1, NewPartIs
  <2>3. _payload' = Append(_payload, p) /\ bytes' = Grown("exh", size) /\ UNCHANGED <<head, submitted>>
    BY <1>1, <2>2 DEF AppendExh, AppendPart, NewPart
  <2>4. PICK h2 \in Header : /\ _header' = h2
                             /\ h2.exhcnt = Increment(_header.exhcnt)
                             /\ h2.exhlen = Word(_header.exhlen + p.size + ExhSize)
                             /\ h2.optcnt = _header.optcnt /\ h2.optlen = _header.optlen
    BY <1>0, <1>1, <2>2, HeaderAfterExh
  <2>5. PICK h \in Header : h = _header
    BY <1>0
  <2>6. Describes(h2, Append(_payload, p))
    BY <1>0, <2>2, <2>4, <2>5, DescribesExh
  <2>7. Placed(Append(_payload, p))
    BY <1>0, <2>2, PlacedStep
  <2>8. /\ Len(Append(_payload, p)) = Len(_payload) + 1
        /\ PlaceAfter(Append(_payload, p), Len(_payload) + 1) = EndOf(p)
    BY <1>0, AppendedPart, PlacesKept
  <2>. QED
    BY <1>0, <2>2, <2>3, <2>4, <2>6, <2>7, <2>8 DEF MessageInv
<1>2. ASSUME NEW size \in Sizes, AppendOption(size) PROVE MessageInv'
  <2>1. Word(size) \in Nat /\ "option" \in Kinds
    BY SizesAssumption, WordTypes DEF Kinds
  <2>2. PICK p \in Part : /\ p = NewPart("option", size, Word(size))
                          /\ p.kind = "option" /\ p.at = bytes /\ p.size = size
                          /\ p.len = Word(size) /\ EndOf(p) = Grown("option", size)
    BY <2>1, NewPartIs
  <2>3. _payload' = Append(_payload, p) /\ bytes' = Grown("option", size) /\ UNCHANGED <<head, submitted>>
    BY <1>2, <2>2 DEF AppendOption, AppendPart, NewPart
  <2>4. PICK h2 \in Header : /\ _header' = h2
                             /\ h2.optcnt = Increment(_header.optcnt)
                             /\ h2.optlen = Word(_header.optlen + p.size + OphSize)
                             /\ h2.exhcnt = _header.exhcnt /\ h2.exhlen = _header.exhlen
    BY <1>0, <1>2, <2>2, HeaderAfterOption
  <2>5. PICK h \in Header : h = _header
    BY <1>0
  <2>6. Describes(h2, Append(_payload, p))
    BY <1>0, <2>2, <2>4, <2>5, DescribesOption
  <2>7. Placed(Append(_payload, p))
    BY <1>0, <2>2, PlacedStep
  <2>8. /\ Len(Append(_payload, p)) = Len(_payload) + 1
        /\ PlaceAfter(Append(_payload, p), Len(_payload) + 1) = EndOf(p)
    BY <1>0, AppendedPart, PlacesKept
  <2>. QED
    BY <1>0, <2>2, <2>3, <2>4, <2>6, <2>7, <2>8 DEF MessageInv
<1>3. CASE Submit
  <2>1. PICK h2 \in Header : /\ _header' = h2 /\ head' = h2
                             /\ h2.payloadLen = Word(HeadSize + _header.exhlen + _header.optlen)
                             /\ h2.exhcnt = _header.exhcnt /\ h2.exhlen = _header.exhlen
                             /\ h2.optcnt = _header.optcnt /\ h2.optlen = _header.optlen
    BY <1>0, <1>3, HeaderAfterSubmit
  <2>2. submitted' = _payload /\ _payload' = _payload /\ bytes' = bytes
    BY <1>3 DEF Submit
  <2>3. Describes(h2, _payload)
    BY <1>0, <2>1 DEF Describes
  <2>4. h2.payloadLen = Word(PlaceAfter(_payload, Len(_payload)))
    <3>1. PICK e \in Nat, o \in Nat :
            Takes(_payload, e, o) /\ _header.exhlen = Word(e) /\ _header.optlen = Word(o)
      BY <1>0 DEF Describes
    <3>2. Word(HeadSize + Word(e) + Word(o)) = Word(HeadSize + e + o)
      BY HeadersHaveSize, WordOfSum
    <3>. QED
      BY <2>1, <3>1, <3>2 DEF Takes
  <2>. QED
    BY <1>0, <2>1, <2>2, <2>3, <2>4 DEF MessageInv
<1>4. CASE UNCHANGED vars
  BY <1>0, <1>4 DEF vars, MessageInv
<1>. QED
  BY <1>1, <1>2, <1>3, <1>4 DEF Next

\* The range of bytes of a part's data.
RangeOf(p) == [at |-> p.at, size |-> p.size]

LEMMA RangesAre ==
  ASSUME NEW parts \in Seq(Part)
  PROVE  /\ DOMAIN RangesOf(parts) = 1 .. Len(parts)
         /\ Len(RangesOf(parts)) = Len(parts)
         /\ RangesOf(parts) = [i \in 1 .. Len(parts) |-> RangeOf(parts[i])]
<1>1. Len(parts) \in Nat /\ DOMAIN parts = 1 .. Len(parts)
  OBVIOUS
<1>2. RangesOf(parts) = [i \in 1 .. Len(parts) |-> RangeOf(parts[i])]
  BY <1>1 DEF RangesOf, RangeOf
<1>3. Len([i \in 1 .. Len(parts) |-> RangeOf(parts[i])]) = Len(parts)
  BY <1>1
<1>. QED
  BY <1>2, <1>3

LEMMA HeaderCounts == TypeOK /\ MessageInv => HeaderCountsPayload
<1>. SUFFICES ASSUME TypeOK, MessageInv PROVE HeaderCountsPayload
  OBVIOUS
<1>1. _payload \in Seq(Part) /\ bytes = PlaceAfter(_payload, Len(_payload)) /\ Describes(_header, _payload)
  BY DEF TypeOK, MessageInv
<1>2. PICK e \in Nat, o \in Nat :
        /\ _header.exhlen = Word(e) /\ _header.optlen = Word(o)
        /\ bytes = HeadSize + e + o
  BY <1>1 DEF Describes, Takes
<1>3. Word(bytes) = Word(HeadSize + _header.exhlen + _header.optlen)
  BY <1>2, HeadersHaveSize, WordOfSum
<1>4. ASSUME bytes < WordModulus PROVE bytes = HeadSize + _header.exhlen + _header.optlen
  <2>1. HeadSize + e + o < WordModulus /\ HeadSize \in Nat /\ WordModulus \in Nat
    BY <1>2, <1>4, HeadersHaveSize, WordTypes
  <2>2. e < WordModulus /\ o < WordModulus
    BY <2>1
  <2>. QED
    BY <1>2, <2>2, WordTypes
<1>5. \A kind : OfKind(_payload, kind) \in Seq(Part)
  <2>. TAKE kind
  <2>1. PICK f : Collected(_payload, kind, f)
    BY <1>1, OfKindCollects
  <2>2. Len(_payload) \in 0 .. Len(_payload)
    BY <1>1
  <2>. QED
    BY <2>1, <2>2 DEF Collected
<1>6. _header.exhcnt = Len(Exhs(_payload)) % CountModulus
  <2>1. Len(Exhs(_payload)) = Len(OfKind(_payload, "exh"))
    BY <1>5, RangesAre DEF Exhs
  <2>. QED
    BY <1>1, <2>1 DEF Describes
<1>7. _header.optcnt = Len(Options(_payload)) % CountModulus
  <2>1. Len(Options(_payload)) = Len(OfKind(_payload, "option"))
    BY <1>5, RangesAre DEF Options
  <2>. QED
    BY <1>1, <2>1 DEF Describes
<1>. QED
  BY <1>6, <1>7, <1>3, <1>4 DEF HeaderCountsPayload

LEMMA SubmittedSize == TypeOK /\ MessageInv => SizeIsSubmitted
<1>. SUFFICES ASSUME TypeOK, MessageInv, head # Unwritten
              PROVE  head.payloadLen = Word(IF submitted = <<>> THEN HeadSize ELSE EndOf(Last(submitted)))
  BY DEF SizeIsSubmitted
<1>1. submitted \in Seq(Part) /\ head.payloadLen = Word(PlaceAfter(submitted, Len(submitted)))
  BY DEF TypeOK, MessageInv
<1>2. Len(submitted) = 0 <=> submitted = <<>>
  BY <1>1
<1>. QED
  BY <1>1, <1>2 DEF PlaceAfter, Last

\* Whatever was appended in whatever order, the lengths in the header add up to
\* the payload, exactly while that fits their width and modulo it afterwards, and
\* the counts are those of the parts, modulo their width
\* (append_option and append_exh, message/aaws_message.h:195-229).
THEOREM HeaderAlwaysCounts == Spec => []HeaderCountsPayload
  BY TypeInit, TypeStep, MessageInit, MessageStep, HeaderCounts, PTL DEF Spec

\* A submitted head has the length of the payload at that time, modulo the width
\* of the field (submit, message/aaws_message.h:235-245).
THEOREM SizeStaysSubmitted == Spec => []SizeIsSubmitted
  BY TypeInit, TypeStep, MessageInit, MessageStep, SubmittedSize, PTL DEF Spec

-----------------------------------------------------------------------------
(* The walks of the receiver.                                              *)

LEMMA PlacesIncrease ==
  ASSUME NEW parts \in Seq(Part), Placed(parts),
         NEW i \in 1 .. Len(parts), NEW j \in 1 .. Len(parts), i < j
  PROVE  parts[i].at < parts[j].at
<1>1. PICK n \in Nat : n = Len(parts)
  OBVIOUS
<1>. DEFINE Behind == {k \in 0 .. n : i < k => parts[i].at < parts[k].at}
<1>2. \A k \in 1 .. n : /\ parts[k] \in Part /\ parts[k].at \in Nat
                        /\ EndOf(parts[k]) \in Nat /\ parts[k].at < EndOf(parts[k])
  BY <1>1, PartTypes
<1>3. 0 \in Behind
  BY <1>1
<1>4. ASSUME NEW k \in 1 .. n, k - 1 \in Behind PROVE k \in Behind
  <2>. SUFFICES ASSUME i < k PROVE parts[i].at < parts[k].at
    BY <1>1
  <2>1. k - 1 \in 1 .. n /\ k - 1 # 0 /\ k \in DOMAIN parts /\ i \in 1 .. n
    BY <1>1
  <2>2. parts[k].at = EndOf(parts[k - 1])
    BY <2>1 DEF Placed, PlaceAfter
  <2>3. parts[k - 1].at < parts[k].at
    BY <1>2, <2>1, <2>2
  <2>4. CASE i = k - 1
    BY <2>3, <2>4
  <2>5. CASE i < k - 1
    <3>1. parts[i].at < parts[k - 1].at
      BY <1>4, <2>5
    <3>2. parts[i].at \in Nat /\ parts[k - 1].at \in Nat /\ parts[k].at \in Nat
      BY <1>2, <2>1
    <3>. QED
      BY <2>3, <3>1, <3>2
  <2>. QED
    BY <2>1, <2>4, <2>5
<1>5. \A k \in 0 .. n : k \in Behind
  <2>. HIDE DEF Behind
  <2>. QED
    BY <1>3, <1>4, UpTo
<1>6. j \in Behind
  <2>1. j \in 0 .. n
    BY <1>1
  <2>. HIDE DEF Behind
  <2>. QED
    BY <1>5, <2>1
<1>. QED
  BY <1>6

\* No two parts are at the same place.
LEMMA PlacesDiffer ==
  ASSUME NEW parts \in Seq(Part), Placed(parts),
         NEW i \in 1 .. Len(parts), NEW j \in 1 .. Len(parts), parts[i].at = parts[j].at
  PROVE  i = j
<1>1. parts[i].at \in Nat
  BY PartTypes
<1>2. CASE i < j
  BY <1>1, <1>2, PlacesIncrease
<1>3. CASE j < i
  BY <1>1, <1>3, PlacesIncrease
<1>. QED
  BY <1>2, <1>3

\* What is read where a part of the kind begins is that part's length.
LEMMA ReadsTheLength ==
  ASSUME TypeOK, MessageInv, NEW i \in 1 .. Len(_payload)
  PROVE  ReadLen(_payload[i].kind, _payload[i].at) = _payload[i].len
<1>1. _payload \in Seq(Part) /\ Placed(_payload) /\ DOMAIN _payload = 1 .. Len(_payload)
  BY DEF TypeOK, MessageInv
<1>. DEFINE here == {j \in DOMAIN _payload : _payload[j].kind = _payload[i].kind /\ _payload[j].at = _payload[i].at}
<1>2. \A j \in here : j = i
  BY <1>1, PlacesDiffer
<1>3. i \in here
  BY <1>1
<1>4. ReadLen(_payload[i].kind, _payload[i].at)
        = IF here = {} THEN Unknown ELSE _payload[CHOOSE j \in here : TRUE].len
  BY DEF ReadLen
<1>5. (CHOOSE j \in here : TRUE) \in here
  <2>. HIDE DEF here
  <2>. QED
    BY <1>3
<1>. HIDE DEF here
<1>. QED
  BY <1>2, <1>3, <1>4, <1>5

LEMMA NextPlaceTypes ==
  ASSUME TypeOK, NEW kind \in Kinds, NEW at \in Int
  PROVE  NextPlace(kind, at) \in Int
<1>1. ReadLen(kind, at) \in Int
  <2>. DEFINE here == {i \in DOMAIN _payload : _payload[i].kind = kind /\ _payload[i].at = at}
  <2>1. ReadLen(kind, at) = IF here = {} THEN Unknown ELSE _payload[CHOOSE i \in here : TRUE].len
    BY DEF ReadLen
  <2>2. \A i \in here : _payload[i].len \in Nat
    <3>1. _payload \in Seq(Part)
      BY DEF TypeOK
    <3>2. \A i \in DOMAIN _payload : _payload[i] \in Part
      BY <3>1
    <3>. QED
      BY <3>2, PartTypes
  <2>3. here # {} => (CHOOSE i \in here : TRUE) \in here
    OBVIOUS
  <2>. HIDE DEF here
  <2>. QED
    BY <2>1, <2>2, <2>3 DEF Unknown
<1>2. SizeOfHeader(kind) \in Nat
  BY HeadersHaveSize DEF SizeOfHeader
<1>3. \A n \in Int : Word(n) \in Int
  BY WordTypes DEF Word
<1>. QED
  BY <1>1, <1>2, <1>3 DEF NextPlace, Unknown

\* The function that Walk stands for.
Walks(kind, base, n, place) ==
  place = [i \in 0 .. n |-> IF i = 0 THEN base ELSE NextPlace(kind, place[i - 1])]

LEMMA WalkExists ==
  ASSUME TypeOK, NEW kind \in Kinds, NEW base \in Int, NEW n \in Nat
  PROVE  \E place : Walks(kind, base, n, place)
<1>. DEFINE step == [i \in 1 .. n |-> [at \in Int |-> NextPlace(kind, at)]]
<1>1. step \in [1 .. n -> [Int -> Int]]
  BY NextPlaceTypes
<1>2. PICK s \in [1 .. n -> [Int -> Int]] : s = step
  BY <1>1
<1>3. \E f \in [0 .. n -> Int] : RunsBy(n, base, s, f)
  <2>1. PICK D : D = Int
    OBVIOUS
  <2>2. base \in D /\ s \in [1 .. n -> [D -> D]]
    BY <2>1
  <2>3. \E f \in [0 .. n -> D] : RunsBy(n, base, s, f)
    BY <2>2, RecursionExists
  <2>. QED
    BY <2>1, <2>3
<1>4. PICK f \in [0 .. n -> Int] : RunsBy(n, base, s, f)
  BY <1>3
<1>5. f[0] = base
  BY <1>4 DEF RunsBy
<1>6. ASSUME NEW i \in 1 .. n PROVE f[i] = NextPlace(kind, f[i - 1])
  <2>1. f[i] = s[i][f[i - 1]] /\ f[i - 1] \in Int
    BY <1>4 DEF RunsBy
  <2>. QED
    BY <1>2, <2>1
<1>7. \A i \in 0 .. n : i = 0 \/ i \in 1 .. n
  OBVIOUS
<1>. HIDE DEF step
<1>. QED
  BY <1>4, <1>5, <1>6, <1>7 DEF Walks

LEMMA WalkIs ==
  ASSUME TypeOK, NEW kind \in Kinds, NEW base \in Int, NEW n \in Nat
  PROVE  /\ Walk(kind, base, n)[0] = base
         /\ \A i \in 1 .. n : Walk(kind, base, n)[i] = NextPlace(kind, Walk(kind, base, n)[i - 1])
<1>1. Walks(kind, base, n, CHOOSE f : Walks(kind, base, n, f))
  BY WalkExists
<1>2. Walk(kind, base, n) = CHOOSE f : Walks(kind, base, n, f)
  BY DEF Walk, Walks
<1>3. PICK place : place = Walk(kind, base, n)
  OBVIOUS
<1>4. Walks(kind, base, n, place)
  BY <1>1, <1>2, <1>3
<1>5. place[0] = base
  BY <1>4 DEF Walks
<1>6. ASSUME NEW i \in 1 .. n PROVE place[i] = NextPlace(kind, place[i - 1])
  <2>1. i \in 0 .. n /\ i # 0
    OBVIOUS
  <2>. QED
    BY <1>4, <2>1 DEF Walks
<1>. QED
  BY <1>3, <1>5, <1>6

\* A part of the kind whose length and place fit their fields.
Whole(p, kind) == p.kind = kind /\ p.len = p.size /\ EndOf(p) < WordModulus

\* Over parts of one kind in a row that fit, a walk comes by the end of each of
\* them.
LEMMA WalkFollows ==
  ASSUME TypeOK, MessageInv, NEW kind \in Kinds,
         NEW m \in Nat, NEW n \in Nat, m + n <= Len(_payload),
         \A i \in 1 .. n : Whole(_payload[m + i], kind)
  PROVE  \A i \in 0 .. n : Walk(kind, PlaceAfter(_payload, m), n)[i] = PlaceAfter(_payload, m + i)
<1>1. _payload \in Seq(Part) /\ Placed(_payload) /\ Len(_payload) \in Nat
  BY DEF TypeOK, MessageInv
<1>2. PlaceAfter(_payload, m) \in Int
  BY <1>1, PlaceTypes
<1>3. PICK place : place = Walk(kind, PlaceAfter(_payload, m), n)
  OBVIOUS
<1>4. place[0] = PlaceAfter(_payload, m) /\ \A i \in 1 .. n : place[i] = NextPlace(kind, place[i - 1])
  BY <1>2, <1>3, WalkIs
<1>. DEFINE Right == {i \in 0 .. n : place[i] = PlaceAfter(_payload, m + i)}
<1>5. 0 \in Right
  BY <1>4
<1>6. ASSUME NEW i \in 1 .. n, i - 1 \in Right PROVE i \in Right
  <2>1. m + i \in 1 .. Len(_payload) /\ m + (i - 1) = (m + i) - 1 /\ m + i # 0
    BY <1>1
  <2>2. PICK k \in 1 .. Len(_payload) : k = m + i
    BY <2>1
  <2>3. _payload[k] \in Part /\ k \in DOMAIN _payload
    BY <1>1
  <2>4. place[i - 1] = _payload[k].at
    <3>1. place[i - 1] = PlaceAfter(_payload, k - 1)
      BY <1>6, <2>1, <2>2
    <3>. QED
      BY <1>1, <2>3, <3>1 DEF Placed
  <2>5. _payload[k].kind = kind /\ _payload[k].len = _payload[k].size /\ EndOf(_payload[k]) < WordModulus
    BY <2>2 DEF Whole
  <2>6. ReadLen(kind, place[i - 1]) = _payload[k].size
    BY <2>4, <2>5, ReadsTheLength
  <2>7. /\ _payload[k].size \in Nat /\ _payload[k].at \in Nat /\ SizeOfHeader(kind) \in Nat
        /\ EndOf(_payload[k]) = _payload[k].at + SizeOfHeader(kind) + _payload[k].size
    BY <2>3, <2>5, PartTypes
  <2>8. _payload[k].size # Unknown
    BY <2>7 DEF Unknown
  <2>9. place[i] = Word(_payload[k].at + _payload[k].size + SizeOfHeader(kind))
    BY <1>4, <2>4, <2>6, <2>8 DEF NextPlace
  <2>10. place[i] = EndOf(_payload[k])
    <3>1. /\ EndOf(_payload[k]) = _payload[k].at + _payload[k].size + SizeOfHeader(kind)
          /\ EndOf(_payload[k]) \in Nat
      BY <2>7
    <3>. QED
      BY <2>5, <2>9, <3>1, WordTypes
  <2>11. place[i] = PlaceAfter(_payload, m + i)
    BY <2>1, <2>2, <2>10 DEF PlaceAfter
  <2>. QED
    BY <2>11
<1>7. \A i \in 0 .. n : i \in Right
  <2>. HIDE DEF Right
  <2>. QED
    BY <1>5, <1>6, UpTo
<1>. QED
  BY <1>3, <1>7

\* So the list has the ranges of the parts.
LEMMA ListFollows ==
  ASSUME TypeOK, MessageInv, NEW kind \in Kinds,
         NEW m \in Nat, NEW n \in Nat, m + n <= Len(_payload),
         \A i \in 1 .. n : Whole(_payload[m + i], kind)
  PROVE  GetList(kind, PlaceAfter(_payload, m), n) = [i \in 1 .. n |-> RangeOf(_payload[m + i])]
<1>1. _payload \in Seq(Part) /\ Placed(_payload) /\ Len(_payload) \in Nat
  BY DEF TypeOK, MessageInv
<1>2. PICK place : place = Walk(kind, PlaceAfter(_payload, m), n)
  OBVIOUS
<1>3. \A i \in 0 .. n : place[i] = PlaceAfter(_payload, m + i)
  BY <1>2, WalkFollows
<1>4. ASSUME NEW i \in 1 .. n
      PROVE  [at |-> place[i - 1], size |-> ReadLen(kind, place[i - 1])] = RangeOf(_payload[m + i])
  <2>1. PICK k \in 1 .. Len(_payload) : k = m + i
    BY <1>1
  <2>2. i - 1 \in 0 .. n /\ m + (i - 1) = k - 1 /\ k \in DOMAIN _payload
    BY <1>1, <2>1
  <2>3. place[i - 1] = _payload[k].at
    BY <1>1, <1>3, <2>2 DEF Placed
  <2>4. ReadLen(kind, place[i - 1]) = _payload[k].size
    BY <2>1, <2>3, ReadsTheLength DEF Whole
  <2>. QED
    BY <2>1, <2>3, <2>4 DEF RangeOf
<1>5. GetList(kind, PlaceAfter(_payload, m), n)
        = [i \in 1 .. n |-> [at |-> place[i - 1], size |-> ReadLen(kind, place[i - 1])]]
  BY <1>2 DEF GetList
<1>. QED
  BY <1>4, <1>5

-----------------------------------------------------------------------------
(* What the receiver gets.                                                 *)

\* If no option comes before an extended header, there is a number of them
\* that come first.
LEMMA SplitExists ==
  ASSUME NEW parts \in Seq(Part), ExhsFirst(parts)
  PROVE  \E m \in 0 .. Len(parts) : Split(parts, m)
<1>1. PICK n \in Nat : n = Len(parts) /\ DOMAIN parts = 1 .. n
  OBVIOUS
<1>2. \A i \in 1 .. n : parts[i].kind \in {"exh", "option"}
  BY <1>1, PartTypes DEF Kinds
<1>. DEFINE options == {i \in 1 .. n : parts[i].kind = "option"}
<1>3. CASE options = {}
  <2>1. \A i \in 1 .. n : parts[i].kind = "exh" /\ i <= n
    BY <1>2, <1>3
  <2>2. Split(parts, n) /\ n \in 0 .. Len(parts)
    BY <1>1, <2>1 DEF Split
  <2>. QED
    BY <2>2
<1>4. CASE options # {}
  <2>1. PICK k \in options : \A i \in options : k <= i
    <3>1. options \in SUBSET Nat
      OBVIOUS
    <3>. HIDE DEF options
    <3>. QED
      BY <1>4, <3>1, LeastExists
  <2>2. ASSUME NEW i \in 1 .. n PROVE parts[i].kind = "exh" <=> i <= k - 1
    <3>1. ASSUME parts[i].kind = "exh" PROVE i < k
      BY <1>1, <2>1, <3>1 DEF ExhsFirst
    <3>2. ASSUME i < k PROVE parts[i].kind = "exh"
      <4>1. i \notin options
        BY <2>1, <3>2
      <4>. QED
        BY <1>2, <4>1
    <3>. QED
      BY <3>1, <3>2
  <2>3. Split(parts, k - 1) /\ k - 1 \in 0 .. Len(parts)
    BY <1>1, <2>1, <2>2 DEF Split
  <2>. QED
    BY <2>3
<1>. QED
  BY <1>3, <1>4

\* The ranges of the parts behind the a-th and up to the b-th.
RangesIn(parts, a, b) == [j \in 1 .. b - a |-> RangeOf(parts[a + j])]

\* They are those of a kind if its parts stand there.
LEMMA RowRanges ==
  ASSUME NEW parts \in Seq(Part), NEW kind, NEW a \in 0 .. Len(parts), NEW b \in a .. Len(parts),
         \A i \in 1 .. Len(parts) : parts[i].kind = kind <=> a < i /\ i <= b
  PROVE  /\ Len(RangesOf(OfKind(parts, kind))) = b - a
         /\ RangesOf(OfKind(parts, kind)) = RangesIn(parts, a, b)
<1>1. PICK row \in Seq(Part) : row = OfKind(parts, kind)
  BY KindInARow
<1>2. Len(row) = b - a /\ \A j \in 1 .. b - a : row[j] = parts[a + j]
  <2>1. Len(OfKind(parts, kind)) = b - a /\ \A j \in 1 .. b - a : OfKind(parts, kind)[j] = parts[a + j]
    BY KindInARow
  <2>. QED
    BY <1>1, <2>1
<1>3. Len(RangesOf(row)) = Len(row) /\ RangesOf(row) = [j \in 1 .. Len(row) |-> RangeOf(row[j])]
  BY RangesAre
<1>. QED
  BY <1>1, <1>2, <1>3 DEF RangesIn

LEMMA RoundTrips == TypeOK /\ MessageInv => RoundTrip
<1>. SUFFICES ASSUME TypeOK, MessageInv, head # Unwritten, ExhsFirst(submitted), FieldsFit(submitted)
              PROVE  /\ GetExh = Exhs(submitted)
                     /\ GetOption = Options(submitted)
                     /\ \A i \in DOMAIN GetExh : GetExhAt(i - 1) = GetExh[i]
                     /\ GetOption # <<>> => GetOptionAt(0) = GetOption[1]
  BY DEF RoundTrip
<1>1. /\ _payload \in Seq(Part) /\ Placed(_payload) /\ submitted \in Seq(Part)
      /\ IsPrefix(submitted, _payload) /\ Describes(head, submitted)
  BY DEF TypeOK, MessageInv
<1>2. PICK S \in Seq(Part) : S = submitted
  BY <1>1
<1>3. PICK n \in Nat : n = Len(S)
  OBVIOUS
<1>4. /\ Len(_payload) \in Nat /\ n <= Len(_payload) /\ DOMAIN S = 1 .. n
      /\ \A i \in 1 .. n : S[i] = _payload[i] /\ S[i] \in Part
  BY <1>1, <1>2, <1>3, PrefixMeans
<1>5. PICK m \in 0 .. n : Split(S, m)
  BY <1>2, <1>3, SplitExists
<1>6. ASSUME NEW i \in 1 .. n
      PROVE  /\ S[i].kind = "exh" <=> 0 < i /\ i <= m
             /\ S[i].kind = "option" <=> m < i /\ i <= n
  <2>1. S[i].kind \in {"exh", "option"}
    BY <1>4, PartTypes DEF Kinds
  <2>. QED
    BY <1>4, <1>5, <2>1 DEF Split
<1>7. /\ Len(Exhs(S)) = m
      /\ Exhs(S) = [j \in 1 .. m |-> RangeOf(S[j])]
      /\ Len(OfKind(S, "exh")) = m
  <2>1. PICK a \in 0 .. Len(S) : a = 0
    BY <1>3
  <2>2. m \in a .. Len(S) /\ m - a = m /\ \A j \in 1 .. m : a + j = j
    BY <1>3, <2>1
  <2>3. \A i \in 1 .. Len(S) : S[i].kind = "exh" <=> a < i /\ i <= m
    BY <1>3, <1>6, <2>1
  <2>4. Len(OfKind(S, "exh")) = m - a
    BY <2>2, <2>3, KindInARow
  <2>5. /\ Len(RangesOf(OfKind(S, "exh"))) = m - a
        /\ RangesOf(OfKind(S, "exh")) = RangesIn(S, a, m)
    BY <2>2, <2>3, RowRanges
  <2>. QED
    BY <2>2, <2>4, <2>5 DEF Exhs, RangesIn
<1>8. /\ Len(Options(S)) = n - m
      /\ Options(S) = [j \in 1 .. n - m |-> RangeOf(S[m + j])]
      /\ Len(OfKind(S, "option")) = n - m
  <2>1. m \in 0 .. Len(S) /\ n \in m .. Len(S)
    BY <1>3
  <2>2. Len(OfKind(S, "option")) = n - m
    BY <1>3, <1>6, <2>1, KindInARow
  <2>3. /\ Len(RangesOf(OfKind(S, "option"))) = n - m
        /\ RangesOf(OfKind(S, "option")) = RangesIn(S, m, n)
    BY <1>3, <1>6, <2>1, RowRanges
  <2>. QED
    BY <2>2, <2>3 DEF Options, RangesIn
<1>9. m < CountModulus /\ n - m < CountModulus /\ n - m \in Nat /\ m \in Nat /\ CountModulus \in Nat \ {0}
  <2>1. m < CountModulus /\ n - m < CountModulus
    BY <1>2, <1>7, <1>8 DEF FieldsFit
  <2>. QED
    BY <2>1, WidthsAssumption
<1>10. head.exhcnt = m /\ head.optcnt = n - m
  <2>1. head.exhcnt = m % CountModulus /\ head.optcnt = (n - m) % CountModulus
    BY <1>1, <1>2, <1>7, <1>8 DEF Describes
  <2>. QED
    BY <1>9, <2>1, SmallRemainder
<1>11. ASSUME NEW i \in 1 .. n PROVE EndOf(S[i]) < WordModulus /\ S[i].at \in Nat /\ EndOf(S[i]) \in Nat
  <2>1. EndOf(S[n]) < WordModulus
    <3>1. S # <<>> /\ Last(S) = S[n]
      BY <1>3 DEF Last
    <3>. QED
      BY <1>2, <3>1 DEF FieldsFit
  <2>2. /\ n \in 1 .. n /\ S[i].at \in Nat /\ EndOf(S[i]) \in Nat
        /\ S[n].at \in Nat /\ EndOf(S[n]) \in Nat /\ S[n].at < EndOf(S[n]) /\ WordModulus \in Nat
    <3>1. n \in 1 .. n
      OBVIOUS
    <3>2. S[i] \in Part /\ S[n] \in Part
      BY <1>4, <3>1
    <3>. QED
      BY <3>1, <3>2, PartTypes, WordTypes
  <2>3. CASE i = n
    BY <2>1, <2>2, <2>3
  <2>4. CASE i # n
    <3>1. PICK k \in 1 .. n : k = i + 1
      BY <2>4
    <3>2. k \in DOMAIN _payload /\ k - 1 = i /\ i # 0 /\ S[i] = _payload[i] /\ S[k] = _payload[k]
      BY <1>1, <1>4, <3>1
    <3>3. S[k].at = EndOf(S[i])
      BY <1>1, <3>2 DEF Placed, PlaceAfter
    <3>4. k = n \/ S[k].at < S[n].at
      <4>. SUFFICES ASSUME k < n PROVE S[k].at < S[n].at
        OBVIOUS
      <4>1. n \in 1 .. Len(_payload) /\ k \in 1 .. Len(_payload) /\ S[n] = _payload[n]
        BY <1>4, <2>2
      <4>. QED
        BY <1>1, <3>2, <4>1, PlacesIncrease
    <3>. QED
      BY <2>1, <2>2, <3>3, <3>4
  <2>. QED
    BY <2>3, <2>4
<1>12. PlaceAfter(S, m) \in Nat /\ PlaceAfter(S, m) < WordModulus
  <2>1. m = 0 \/ m \in 1 .. n
    OBVIOUS
  <2>. QED
    BY <1>11, <2>1, HeadersHaveSize, WordAssumption DEF PlaceAfter
<1>13. HeadSize = PlaceAfter(_payload, 0) /\ OptionBase = PlaceAfter(_payload, m)
  <2>1. PICK e \in Nat : head.exhlen = Word(e) /\ HeadSize + e = PlaceAfter(S, m)
    BY <1>1, <1>2, <1>3, <1>5 DEF Describes, Takes
  <2>2. m # 0 => S[m] = _payload[m]
    BY <1>4
  <2>3. Word(HeadSize + Word(e)) = Word(HeadSize + e)
    BY HeadersHaveSize, WordOfSum
  <2>4. OptionBase = PlaceAfter(S, m)
    BY <1>12, <2>1, <2>3, WordTypes DEF OptionBase
  <2>. QED
    BY <2>2, <2>4 DEF PlaceAfter
<1>14. ASSUME NEW i \in 1 .. n
       PROVE  /\ _payload[i].len = _payload[i].size /\ i \in DOMAIN _payload
              /\ EndOf(_payload[i]) < WordModulus
  <2>1. i \in DOMAIN _payload /\ i \in DOMAIN S /\ S[i] = _payload[i]
    BY <1>1, <1>4
  <2>2. EndOf(_payload[i]) < WordModulus
    BY <1>11, <2>1
  <2>3. CASE _payload[i].kind = "exh"
    <3>1. _payload[i].size < LenModulus
      BY <1>2, <2>1, <2>3 DEF FieldsFit
    <3>2. _payload[i].size \in Nat /\ LenModulus \in Nat \ {0}
      BY <1>4, <2>1, PartTypes, WidthsAssumption
    <3>3. _payload[i].size % LenModulus = _payload[i].size
      BY <3>1, <3>2, SmallRemainder
    <3>. QED
      BY <1>1, <2>1, <2>3, <2>2, <3>3 DEF Placed
  <2>4. CASE _payload[i].kind # "exh"
    <3>1. /\ _payload[i].size \in Nat /\ _payload[i].at \in Nat /\ EndOf(_payload[i]) \in Nat
          /\ SizeOfHeader(_payload[i].kind) \in Nat /\ WordModulus \in Nat
          /\ EndOf(_payload[i]) = _payload[i].at + SizeOfHeader(_payload[i].kind) + _payload[i].size
      BY <1>4, <2>1, PartTypes, WordTypes
    <3>2. _payload[i].size < WordModulus
      BY <2>2, <3>1
    <3>3. Word(_payload[i].size) = _payload[i].size
      BY <3>1, <3>2, WordTypes
    <3>. QED
      BY <1>1, <2>1, <2>4, <2>2, <3>3 DEF Placed
  <2>. QED
    BY <2>1, <2>3, <2>4, <2>2
<1>15. "exh" \in Kinds /\ "option" \in Kinds
  BY DEF Kinds
<1>16. \A i \in 1 .. m : Whole(_payload[0 + i], "exh")
  <2>. TAKE i \in 1 .. m
  <2>1. i \in 1 .. n /\ 0 + i = i
    BY <1>3
  <2>. QED
    BY <1>4, <1>6, <1>14, <2>1 DEF Whole
<1>17. \A i \in 1 .. n - m : Whole(_payload[m + i], "option")
  <2>. TAKE i \in 1 .. n - m
  <2>1. m + i \in 1 .. n /\ m < m + i
    BY <1>3
  <2>. QED
    BY <1>4, <1>6, <1>14, <2>1 DEF Whole
<1>18. GetExh = [j \in 1 .. m |-> RangeOf(_payload[j])]
  <2>1. 0 \in Nat /\ 0 + m <= Len(_payload) /\ \A j \in 1 .. m : 0 + j = j
    BY <1>4
  <2>2. GetList("exh", PlaceAfter(_payload, 0), m) = [j \in 1 .. m |-> RangeOf(_payload[0 + j])]
    BY <1>9, <1>15, <1>16, <2>1, ListFollows
  <2>. QED
    BY <1>10, <1>13, <2>1, <2>2 DEF GetExh, ExhBase
<1>19. GetOption = [j \in 1 .. n - m |-> RangeOf(_payload[m + j])]
  <2>1. m + (n - m) <= Len(_payload)
    BY <1>4
  <2>2. GetList("option", PlaceAfter(_payload, m), n - m) = [j \in 1 .. n - m |-> RangeOf(_payload[m + j])]
    BY <1>9, <1>15, <1>17, <2>1, ListFollows
  <2>. QED
    BY <1>10, <1>13, <2>2 DEF GetOption
<1>20. GetExh = Exhs(submitted)
  <2>1. \A j \in 1 .. m : S[j] = _payload[j]
    BY <1>4
  <2>. QED
    BY <1>2, <1>7, <1>18, <2>1
<1>21. GetOption = Options(submitted)
  <2>1. \A j \in 1 .. n - m : S[m + j] = _payload[m + j]
    BY <1>4
  <2>. QED
    BY <1>2, <1>8, <1>19, <2>1
<1>22. ASSUME NEW i \in 1 .. m PROVE GetExhAt(i - 1) = RangeOf(_payload[i])
  <2>1. PICK k \in Nat : k = i - 1
    OBVIOUS
  <2>2. 0 \in Nat /\ 0 + k <= Len(_payload) /\ k \in 0 .. k /\ 0 + k = i - 1 /\ i \in 1 .. n
    BY <1>4, <2>1
  <2>3. \A j \in 1 .. k : Whole(_payload[0 + j], "exh")
    BY <1>16, <2>1
  <2>4. \A j \in 0 .. k : Walk("exh", PlaceAfter(_payload, 0), k)[j] = PlaceAfter(_payload, 0 + j)
    BY <1>15, <2>2, <2>3, WalkFollows
  <2>5. Walk("exh", HeadSize, k)[k] = PlaceAfter(_payload, i - 1)
    BY <1>13, <2>2, <2>4
  <2>6. Walk("exh", HeadSize, k)[k] = _payload[i].at
    BY <1>1, <1>14, <2>2, <2>5 DEF Placed
  <2>7. ReadLen("exh", _payload[i].at) = _payload[i].size
    <3>1. i \in 1 .. Len(_payload) /\ _payload[i].kind = "exh"
      BY <1>4, <1>6, <2>2
    <3>2. ReadLen("exh", _payload[i].at) = _payload[i].len
      BY <3>1, ReadsTheLength
    <3>. QED
      BY <1>14, <2>2, <3>2
  <2>8. GetExhAt(k) = [at |-> Walk("exh", HeadSize, k)[k], size |-> ReadLen("exh", Walk("exh", HeadSize, k)[k])]
    BY DEF GetExhAt, ExhBase
  <2>. QED
    BY <2>1, <2>6, <2>7, <2>8 DEF RangeOf
<1>23. \A i \in DOMAIN GetExh : GetExhAt(i - 1) = GetExh[i]
  BY <1>18, <1>22
<1>24. ASSUME GetOption # <<>> PROVE GetOptionAt(0) = GetOption[1]
  <2>1. 1 \in 1 .. n - m
    <3>1. n - m = 0 => 1 .. n - m = {}
      BY <1>9
    <3>2. n - m # 0
      BY <1>19, <1>24, <3>1
    <3>. QED
      BY <1>9, <3>2
  <2>2. PICK k \in 1 .. n : k = m + 1
    BY <1>9, <2>1
  <2>3. GetOption[1] = RangeOf(_payload[k])
    BY <1>19, <2>1, <2>2
  <2>4. OptionBase = _payload[k].at
    <3>1. k - 1 = m
      BY <2>2
    <3>. QED
      BY <1>1, <1>13, <1>14, <3>1 DEF Placed
  <2>5. ReadLen("option", _payload[k].at) = _payload[k].size
    <3>1. k \in 1 .. Len(_payload) /\ _payload[k].kind = "option"
      BY <1>4, <1>6, <2>2
    <3>2. ReadLen("option", _payload[k].at) = _payload[k].len
      BY <3>1, ReadsTheLength
    <3>. QED
      BY <1>14, <3>2
  <2>6. GetOptionAt(0) = [at |-> OptionBase, size |-> ReadLen("option", OptionBase)]
    <3>. DEFINE first == [offset |-> OptionBase, optH |-> OptionBase]
                next(w) == LET len    == ReadLen("option", w.optH)
                               offset == IF len = Unknown THEN Unknown ELSE Word(w.offset + len + OphSize)
                           IN  [offset |-> offset, optH |-> HeadSize * offset]
                Steps(f) == f = [i \in 0 .. 0 |-> IF i = 0 THEN first ELSE next(f[i - 1])]
                walk == CHOOSE f : Steps(f)
    <3>1. Steps([i \in 0 .. 0 |-> first])
      <4>. HIDE DEF first, next
      <4>. QED
        OBVIOUS
    <3>2. Steps(walk)
      <4>. HIDE DEF Steps
      <4>. QED
        BY <3>1
    <3>3. GetOptionAt(0) = [at |-> walk[0].offset, size |-> ReadLen("option", walk[0].optH)]
      BY DEF GetOptionAt
    <3>4. walk[0] = first
      <4>. HIDE DEF first, next, walk
      <4>. QED
        BY <3>2
    <3>. HIDE DEF walk
    <3>. QED
      BY <3>3, <3>4
  <2>. QED
    BY <2>3, <2>4, <2>5, <2>6 DEF RangeOf
<1>. QED
  BY <1>20, <1>21, <1>23, <1>24

\* Sender and receiver agree: a submitted message whose parts came in the order
\* the receiver assumes and fit their fields, all together too, gives back exactly the ranges of
\* the parts there were at the last submit
\* (message/aaws_message.h:285-446).
THEOREM ReceiverAgrees == Spec => []RoundTrip
  BY TypeInit, TypeStep, MessageInit, MessageStep, RoundTrips, PTL DEF Spec
=============================================================================
