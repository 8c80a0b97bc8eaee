-------------------------- MODULE FileHelperProofs --------------------------
(***************************************************************************)
(* Theorems about FileHelper, for all names, file systems and arguments,   *)
(* any length of paths and any number of handles.                          *)
(***************************************************************************)
EXTENDS FileHelper, WellFoundedInduction, SequenceTheorems, TLAPS

-----------------------------------------------------------------------------
(* Paths.                                                                  *)

LEMMA AppendName ==
  ASSUME NEW p \in Path, NEW n \in Names
  PROVE  /\ Append(p, n) \in Path /\ Len(Append(p, n)) = Len(p) + 1
         /\ Front(Append(p, n)) = p /\ Append(p, n) # <<>> /\ Append(p, n)[Len(p) + 1] = n
         /\ Under(p, Append(p, n))
BY DEF Path, Front, Under, IsPrefix

LEMMA AppendInjects ==
  ASSUME NEW p \in Path, NEW q \in Path, NEW m \in Names, NEW n \in Names, Append(p, m) = Append(q, n)
  PROVE  p = q /\ m = n
<1>1. /\ Front(Append(p, m)) = p /\ Append(p, m)[Len(p) + 1] = m
      /\ Front(Append(q, n)) = q /\ Append(q, n)[Len(q) + 1] = n
  BY AppendName
<1>2. p = q
  BY <1>1
<1>. QED
  BY <1>1, <1>2

\* What SubSeq gives of the beginning of a path.
LEMMA SubPath ==
  ASSUME NEW p \in Path, NEW l \in 0 .. Len(p)
  PROVE  \E s \in Path : s = SubSeq(p, 1, l) /\ Len(s) = l /\ \A i \in 1 .. l : s[i] = p[i]
<1>1. Len(p) \in Nat
  BY DEF Path
<1>2. SubSeq(p, 1, l) \in Seq(Names)
  BY <1>1 DEF Path
<1>3. Len(SubSeq(p, 1, l)) = l
  BY <1>1 DEF Path
<1>4. \A i \in 1 .. l : SubSeq(p, 1, l)[i] = p[i]
  BY <1>1 DEF Path
<1>. QED
  BY <1>2, <1>3, <1>4 DEF Path

LEMMA FrontIsPath ==
  ASSUME NEW p \in Path, p # <<>>
  PROVE  /\ Front(p) \in Path /\ Last(p) \in Names /\ Append(Front(p), Last(p)) = p
         /\ Len(Front(p)) = Len(p) - 1 /\ Under(Front(p), p)
<1>1. Len(p) \in Nat \ {0}
  BY DEF Path
<1>2. PICK l \in 0 .. Len(p) : l = Len(p) - 1
  <2>1. Len(p) - 1 \in 0 .. Len(p)
    BY <1>1
  <2>. QED
    BY <2>1, Zenon
<1>3. Front(p) \in Path /\ Len(Front(p)) = Len(p) - 1
  <2>1. Front(p) = SubSeq(p, 1, l)
    BY <1>2 DEF Front
  <2>2. PICK s \in Path : s = SubSeq(p, 1, l) /\ Len(s) = l
    BY SubPath
  <2>. QED
    BY <1>2, <2>1, <2>2
<1>4. Last(p) \in Names
  BY <1>1 DEF Path, Last
<1>5. Append(Front(p), Last(p)) = p
  BY DEF Path, Front, Last
<1>6. Under(Front(p), Append(Front(p), Last(p)))
  BY <1>3, <1>4, AppendName
<1>. QED
  BY <1>3, <1>4, <1>5, <1>6

\* Under, name by name.
LEMMA UnderMeans ==
  ASSUME NEW p \in Path, NEW q \in Path
  PROVE  Under(p, q) <=> Len(p) <= Len(q) /\ \A i \in 1 .. Len(p) : p[i] = q[i]
<1>1. Len(p) \in Nat /\ Len(q) \in Nat
  BY DEF Path
<1>2. ASSUME Under(p, q) PROVE Len(p) <= Len(q) /\ \A i \in 1 .. Len(p) : p[i] = q[i]
  BY <1>1, <1>2 DEF Under, IsPrefix, Path
<1>3. ASSUME Len(p) <= Len(q), \A i \in 1 .. Len(p) : p[i] = q[i] PROVE Under(p, q)
  <2>1. SubSeq(p, 1, Len(p)) \in Seq(Names) /\ SubSeq(q, 1, Len(p)) \in Seq(Names)
    BY <1>1, <1>3 DEF Path
  <2>2. Len(SubSeq(p, 1, Len(p))) = Len(p) /\ Len(SubSeq(q, 1, Len(p))) = Len(p)
    BY <1>1, <1>3 DEF Path
  <2>3. \A i \in 1 .. Len(p) : SubSeq(p, 1, Len(p))[i] = SubSeq(q, 1, Len(p))[i]
    BY <1>1, <1>3 DEF Path
  <2>. QED
    BY <1>3, <2>1, <2>2, <2>3 DEF Under, IsPrefix
<1>. QED
  BY <1>2, <1>3

LEMMA PathsEqual ==
  ASSUME NEW p \in Path, NEW q \in Path, Len(p) = Len(q), \A i \in 1 .. Len(p) : p[i] = q[i]
  PROVE  p = q
BY DEF Path

LEMMA UnderOrder ==
  ASSUME NEW p \in Path, NEW q \in Path, NEW t \in Path
  PROVE  /\ Under(p, p) /\ Under(<<>>, p)
         /\ Under(p, q) /\ Under(q, p) => p = q
         /\ Under(p, q) /\ Under(q, t) => Under(p, t)
         /\ Under(p, t) /\ Under(q, t) => Under(p, q) \/ Under(q, p)
         /\ Under(p, q) /\ Under(q, t) /\ Len(p) = Len(t) => p = t
<1>1. Len(p) \in Nat /\ Len(q) \in Nat /\ Len(t) \in Nat /\ <<>> \in Path /\ Len(<<>>) = 0
  BY DEF Path
<1>2. Under(p, p) /\ Under(<<>>, p)
  BY <1>1, UnderMeans
<1>3. Under(p, q) /\ Under(q, p) => p = q
  BY <1>1, UnderMeans, PathsEqual
<1>4. Under(p, q) /\ Under(q, t) => Under(p, t)
  BY <1>1, UnderMeans
<1>5. Under(p, t) /\ Under(q, t) => Under(p, q) \/ Under(q, p)
  BY <1>1, UnderMeans
<1>6. Under(p, q) /\ Under(q, t) /\ Len(p) = Len(t) => p = t
  BY <1>1, <1>4, UnderMeans, PathsEqual
<1>. QED
  BY <1>2, <1>3, <1>4, <1>5, <1>6

LEMMA PrefixesAreUnder ==
  ASSUME NEW p \in Path
  PROVE  Prefixes(p) = {q \in Path : Under(q, p)}
<1>1. Len(p) \in Nat
  BY DEF Path
<1>2. ASSUME NEW l \in 0 .. Len(p)
      PROVE  SubSeq(p, 1, l) \in Path /\ Under(SubSeq(p, 1, l), p)
  <2>1. PICK q \in Path : q = SubSeq(p, 1, l) /\ Len(q) = l /\ \A i \in 1 .. l : q[i] = p[i]
    BY SubPath
  <2>2. l <= Len(p) /\ Len(q) <= Len(p)
    BY <1>1, <2>1
  <2>3. Under(q, p)
    BY <2>1, <2>2, UnderMeans
  <2>. QED
    BY <2>1, <2>3
<1>3. ASSUME NEW q \in Path, Under(q, p)
      PROVE  Len(q) \in 0 .. Len(p) /\ q = SubSeq(p, 1, Len(q))
  <2>1. Len(q) \in Nat /\ Len(q) <= Len(p) /\ \A i \in 1 .. Len(q) : q[i] = p[i]
    BY <1>3, UnderMeans DEF Path
  <2>2. PICK l \in 0 .. Len(p) : l = Len(q)
    BY <1>1, <2>1
  <2>3. PICK s \in Path : s = SubSeq(p, 1, l) /\ Len(s) = l /\ \A i \in 1 .. l : s[i] = p[i]
    BY SubPath
  <2>4. s = q
    BY <2>1, <2>2, <2>3, PathsEqual
  <2>. QED
    BY <2>2, <2>3, <2>4
<1>. QED
  BY <1>2, <1>3 DEF Prefixes

\* A non-empty set of natural numbers has a least element.
LEMMA LeastExists ==
  ASSUME NEW S \in SUBSET Nat, S # {}
  PROVE  \E n \in S : \A k \in S : n <= k
<1>. DEFINE R == {ss \in Nat \X Nat : ss[1] < ss[2]}
<1>1. IsWellFoundedOn(R, Nat)
  BY NatLessThanWellFounded DEF OpToRel
<1>2. PICK n \in S : \A k \in S : ~(<<k, n>> \in R)
  <2>. HIDE DEF R
  <2>. QED
    BY <1>1, WFMin
<1>3. ASSUME NEW k \in S PROVE n <= k
  <2>1. <<k, n>> \in Nat \X Nat /\ <<k, n>>[1] = k /\ <<k, n>>[2] = n
    OBVIOUS
  <2>2. ~(k < n)
    BY <1>2, <2>1
  <2>. QED
    BY <2>2
<1>. QED
  BY <1>3

LEMMA ParentExists ==
  ASSUME NEW t, IsFileSystem(t), NEW p \in Path, NEW n \in Names, Append(p, n) \in DOMAIN t
  PROVE  p \in DOMAIN t /\ t[p] = Dir
<1>1. Append(p, n) # <<>> /\ Front(Append(p, n)) = p
  BY AppendName
<1>2. \A w \in DOMAIN t \ {<<>>} : Front(w) \in DOMAIN t /\ t[Front(w)].kind = "dir"
  BY DEF IsFileSystem, IsTree
<1>3. Front(Append(p, n)) \in DOMAIN t /\ t[Front(Append(p, n))].kind = "dir"
  BY <1>1, <1>2
<1>4. p \in DOMAIN t /\ t[p].kind = "dir"
  BY <1>1, <1>3
<1>. QED
  BY <1>4 DEF IsFileSystem

\* A file system has the folders on the way to everything in it.
LEMMA WayExists ==
  ASSUME NEW t, IsFileSystem(t), NEW q \in DOMAIN t, NEW p \in Path, Under(p, q)
  PROVE  p \in DOMAIN t /\ (p # q => t[p] = Dir)
<1>1. q \in Path
  BY DEF IsFileSystem
<1>. DEFINE Fails(s) == s \notin DOMAIN t \/ (s # q /\ t[s] # Dir)
            Short == {k \in Nat : \E s \in Path : Under(s, q) /\ Len(s) + k = Len(q) /\ Fails(s)}
<1>2. SUFFICES ASSUME Short # {} PROVE FALSE
  <2>1. Len(q) - Len(p) \in Nat /\ Len(p) + (Len(q) - Len(p)) = Len(q)
    BY <1>1, UnderMeans DEF Path
  <2>. QED
    BY <1>2, <2>1
<1>3. PICK k \in Short : \A j \in Short : k <= j
  <2>. HIDE DEF Short
  <2>1. Short \in SUBSET Nat
    BY DEF Short
  <2>. QED
    BY <1>2, <2>1, LeastExists
<1>4. PICK s \in Path : Under(s, q) /\ Len(s) + k = Len(q) /\ Fails(s)
  BY <1>3
<1>5. Len(s) \in Nat /\ Len(q) \in Nat /\ k \in Nat
  BY <1>1 DEF Path
<1>6. k # 0
  BY <1>1, <1>4, <1>5, UnderMeans, PathsEqual
<1>. DEFINE n == q[Len(s) + 1]
<1>7. n \in Names /\ k - 1 \in Nat /\ Len(s) + 1 <= Len(q)
  BY <1>1, <1>3, <1>4, <1>5, <1>6 DEF Path
<1>8. Under(Append(s, n), q)
  <2>1. /\ Append(s, n) \in Path /\ Len(Append(s, n)) = Len(s) + 1
        /\ \A i \in 1 .. Len(s) : Append(s, n)[i] = s[i]
        /\ Append(s, n)[Len(s) + 1] = n
    BY <1>7 DEF Path
  <2>2. \A i \in 1 .. Len(s) : s[i] = q[i]
    BY <1>1, <1>4, UnderMeans
  <2>3. \A i \in 1 .. Len(Append(s, n)) : Append(s, n)[i] = q[i]
    BY <1>5, <2>1, <2>2
  <2>. QED
    BY <1>1, <1>7, <2>1, <2>3, UnderMeans
<1>9. k - 1 \notin Short
  <2>1. k \in Nat /\ ~(k <= k - 1)
    BY <1>5, <1>4
  <2>. HIDE DEF Short
  <2>. QED
    BY <1>3, <2>1
<1>10. Append(s, n) \in Path /\ Len(Append(s, n)) + (k - 1) = Len(q)
  <2>1. Append(s, n) \in Path /\ Len(Append(s, n)) = Len(s) + 1
    BY <1>7, AppendName
  <2>. HIDE DEF n
  <2>. QED
    BY <1>4, <1>5, <2>1
<1>11. Append(s, n) \in DOMAIN t
  BY <1>7, <1>8, <1>9, <1>10
<1>12. s \in DOMAIN t /\ t[s] = Dir
  BY <1>7, <1>11, ParentExists
<1>. QED
  BY <1>4, <1>12

\* Two paths put together.
LEMMA Concat ==
  ASSUME NEW p \in Path, NEW r \in Path
  PROVE  /\ p \o r \in Path /\ Len(p \o r) = Len(p) + Len(r) /\ Under(p, p \o r)
         /\ \A i \in 1 .. Len(p) : (p \o r)[i] = p[i]
         /\ \A i \in 1 .. Len(r) : (p \o r)[Len(p) + i] = r[i]
<1>1. Len(p) \in Nat /\ Len(r) \in Nat
  BY DEF Path
<1>2. p \o r \in Path /\ Len(p \o r) = Len(p) + Len(r)
  BY DEF Path
<1>3. \A i \in 1 .. Len(p) : (p \o r)[i] = p[i]
  BY <1>1 DEF Path
<1>4. \A i \in 1 .. Len(r) : (p \o r)[Len(p) + i] = r[i]
  BY <1>1 DEF Path
<1>5. Len(p) <= Len(p \o r)
  BY <1>1, <1>2
<1>6. Under(p, p \o r)
  BY <1>2, <1>3, <1>5, UnderMeans
<1>. QED
  BY <1>2, <1>3, <1>4, <1>6

LEMMA ConcatInjects ==
  ASSUME NEW p \in Path, NEW r \in Path, NEW s \in Path, p \o r = p \o s
  PROVE  r = s
<1>1. Len(p) \in Nat /\ Len(r) \in Nat /\ Len(s) \in Nat
  BY DEF Path
<1>2. Len(p \o r) = Len(p) + Len(r) /\ Len(p \o s) = Len(p) + Len(s)
  BY Concat
<1>3. Len(r) = Len(s)
  BY <1>1, <1>2
<1>4. \A i \in 1 .. Len(r) : (p \o r)[Len(p) + i] = r[i]
  BY Concat
<1>5. \A i \in 1 .. Len(s) : (p \o s)[Len(p) + i] = s[i]
  BY Concat
<1>6. \A i \in 1 .. Len(r) : r[i] = s[i]
  BY <1>3, <1>4, <1>5
<1>. QED
  BY <1>3, <1>6, PathsEqual

LEMMA ConcatName ==
  ASSUME NEW p \in Path, NEW r \in Path, NEW n \in Names
  PROVE  /\ Append(p \o r, n) = p \o Append(r, n)
         /\ p \o <<>> = p
<1>1. <<n>> \in Path /\ Append(r, n) = r \o <<n>> /\ Append(p \o r, n) = (p \o r) \o <<n>>
  BY DEF Path
<1>2. (p \o r) \o <<n>> = p \o (r \o <<n>>)
  BY <1>1, ConcatAssociative, SMT DEF Path
<1>3. p \o <<>> = p
  BY DEF Path
<1>. QED
  BY <1>1, <1>2, <1>3

\* What is under a path is the path and something more.
LEMMA UnderConcat ==
  ASSUME NEW p \in Path, NEW q \in Path, Under(p, q)
  PROVE  \E r \in Path : /\ r = SubSeq(q, Len(p) + 1, Len(q)) /\ q = p \o r
                         /\ Len(r) = Len(q) - Len(p)
<1>1. Len(p) \in Nat /\ Len(q) \in Nat
  BY DEF Path
<1>2. Len(p) <= Len(q) /\ \A i \in 1 .. Len(p) : p[i] = q[i]
  BY UnderMeans
<1>3. PICK r : r = SubSeq(q, Len(p) + 1, Len(q))
  OBVIOUS
<1>4. r \in Path /\ Len(r) = Len(q) - Len(p)
  BY <1>1, <1>2, <1>3 DEF Path
<1>5. \A i \in 1 .. Len(r) : r[i] = q[Len(p) + i]
  BY <1>1, <1>2, <1>3, <1>4 DEF Path
<1>6. p \o r \in Path /\ Len(p \o r) = Len(q)
  BY <1>1, <1>4, Concat
<1>7. ASSUME NEW i \in 1 .. Len(p \o r) PROVE (p \o r)[i] = q[i]
  <2>1. CASE i \in 1 .. Len(p)
    BY <1>2, <1>4, <2>1, Concat
  <2>2. CASE i \notin 1 .. Len(p)
    <3>1. PICK j \in 1 .. Len(r) : i = Len(p) + j
      <4>1. i - Len(p) \in 1 .. Len(r) /\ i = Len(p) + (i - Len(p))
        BY <1>1, <1>4, <1>6, <2>2
      <4>. QED
        BY <4>1
    <3>. QED
      BY <1>4, <1>5, <3>1, Concat
  <2>. QED
    BY <2>1, <2>2
<1>8. p \o r = q
  BY <1>6, <1>7, PathsEqual
<1>. QED
  BY <1>3, <1>4, <1>8

-----------------------------------------------------------------------------
(* What the system calls leave is a file system.                           *)

LEMMA WrittenIs ==
  ASSUME NEW q, NEW data
  PROVE  /\ DOMAIN Written(q, data) = DOMAIN fs \cup {q} /\ Written(q, data)[q] = File(data)
         /\ \A w \in DOMAIN fs : w # q => Written(q, data)[w] = fs[w]
BY DEF Written

LEMMA WrittenIsFileSystem ==
  ASSUME IsFileSystem(fs), NEW q \in Path, Writable(q), NEW data
  PROVE  /\ IsFileSystem(Written(q, data))
         /\ DOMAIN Written(q, data) = DOMAIN fs \cup {q}
         /\ Written(q, data)[q] = File(data)
         /\ \A p \in DOMAIN fs : /\ p # q => Written(q, data)[p] = fs[p]
                                 /\ Written(q, data)[p].kind = fs[p].kind
<1>. DEFINE t == Written(q, data)
<1>1. DOMAIN t = DOMAIN fs \cup {q} /\ t[q] = File(data) /\ \A p \in DOMAIN fs : p # q => t[p] = fs[p]
  BY DEF Written
<1>2. t[q].kind = "file" /\ t[q].kind # "dir"
  BY <1>1 DEF File
<1>3. q \in DOMAIN fs => fs[q].kind = "file"
  BY DEF Writable, IsFile, HasFile
<1>. HIDE DEF t
<1>4. \A p \in DOMAIN fs : t[p].kind = fs[p].kind
  BY <1>1, <1>2, <1>3
<1>5. /\ <<>> \in DOMAIN fs /\ fs[<<>>] = Dir /\ fs[<<>>].kind = "dir"
      /\ \A p \in DOMAIN fs \ {<<>>} : Front(p) \in DOMAIN fs /\ fs[Front(p)].kind = "dir"
  BY DEF IsFileSystem, IsTree, Dir
<1>6. Len(q) <= MaxDepth
  BY DEF IsFileSystem, Writable, IsFile, HasFile
<1>7. q # <<>>
  BY <1>3, <1>5
<1>8. ASSUME NEW w \in DOMAIN t \ {<<>>} PROVE Front(w) \in DOMAIN t /\ t[Front(w)].kind = "dir"
  <2>1. Front(w) \in DOMAIN fs /\ fs[Front(w)].kind = "dir"
    <3>1. CASE w \in DOMAIN fs
      BY <1>5, <3>1
    <3>2. CASE w \notin DOMAIN fs
      BY <1>1, <3>2 DEF Writable, IsFile, IsDir, HasFile
    <3>. QED
      BY <3>1, <3>2
  <2>. QED
    BY <1>1, <1>4, <2>1
<1>9. t[<<>>] = Dir /\ <<>> \in DOMAIN t
  BY <1>1, <1>5, <1>7
<1>10. ASSUME NEW w \in DOMAIN t
       PROVE  /\ w \in Path /\ Len(w) <= MaxDepth /\ t[w].kind \in {"dir", "file"}
              /\ t[w].kind = "dir" => t[w] = Dir
  <2>1. CASE w = q
    BY <1>2, <1>6, <2>1
  <2>2. CASE w # q
    BY <1>1, <2>2 DEF IsFileSystem
  <2>. QED
    BY <2>1, <2>2
<1>11. IsFileSystem(t)
  BY <1>8, <1>9, <1>10 DEF IsFileSystem, IsTree
<1>. QED
  BY <1>1, <1>4, <1>11 DEF t

LEMMA MadeIsClosed ==
  ASSUME IsFileSystem(fs), NEW p \in Path, NEW q \in Made(p), q # <<>>
  PROVE  Front(q) \in Made(p) /\ (HasFile(Front(q)) => fs[Front(q)].kind = "dir")
<1>1. q \in Path /\ Under(q, p) /\ Len(q) <= MaxDepth /\ \A r \in Prefixes(q) : ~IsFile(r)
  BY PrefixesAreUnder DEF Made
<1>2. Front(q) \in Path /\ Under(Front(q), q) /\ Len(Front(q)) = Len(q) - 1
  BY <1>1, FrontIsPath
<1>3. Under(Front(q), p)
  BY <1>1, <1>2, UnderOrder
<1>4. Len(Front(q)) <= MaxDepth
  BY <1>1, <1>2, LimitsAssumption DEF Path
<1>5. ASSUME NEW r \in Prefixes(Front(q)) PROVE ~IsFile(r)
  <2>1. r \in Path /\ Under(r, Front(q))
    BY <1>2, PrefixesAreUnder
  <2>2. Under(r, q)
    BY <1>1, <1>2, <2>1, UnderOrder
  <2>. QED
    BY <1>1, <2>1, <2>2, PrefixesAreUnder
<1>6. Front(q) \in Made(p)
  BY <1>2, <1>3, <1>4, <1>5, PrefixesAreUnder DEF Made
<1>7. ~IsFile(Front(q))
  BY <1>2, <1>5, UnderOrder, PrefixesAreUnder
<1>8. HasFile(Front(q)) => fs[Front(q)].kind = "dir"
  BY <1>7 DEF IsFileSystem, HasFile, IsFile
<1>. QED
  BY <1>6, <1>8

LEMMA AfterCreateDirIsFileSystem ==
  ASSUME IsFileSystem(fs), NEW p \in Path
  PROVE  /\ IsFileSystem(AfterCreateDir(p))
         /\ DOMAIN AfterCreateDir(p) = DOMAIN fs \cup Made(p)
         /\ \A q \in DOMAIN fs : AfterCreateDir(p)[q] = fs[q]
         /\ \A q \in Made(p) : q \in Prefixes(p) /\ (q \notin DOMAIN fs => AfterCreateDir(p)[q] = Dir)
         /\ CreatesAll(p) => p \in DOMAIN AfterCreateDir(p)
<1>. DEFINE t == AfterCreateDir(p)
<1>1. /\ DOMAIN t = DOMAIN fs \cup Made(p) /\ \A q \in DOMAIN fs : t[q] = fs[q]
      /\ \A q \in Made(p) : q \notin DOMAIN fs => t[q] = Dir
  BY DEF AfterCreateDir, HasFile
<1>. HIDE DEF t
<1>2. /\ <<>> \in DOMAIN fs /\ fs[<<>>] = Dir
      /\ \A q \in DOMAIN fs \ {<<>>} : Front(q) \in DOMAIN fs /\ fs[Front(q)].kind = "dir"
  BY DEF IsFileSystem, IsTree
<1>3. Dir.kind = "dir"
  BY DEF Dir
<1>4. ASSUME NEW w \in DOMAIN t \ {<<>>} PROVE Front(w) \in DOMAIN t /\ t[Front(w)].kind = "dir"
  <2>1. CASE w \in DOMAIN fs
    BY <1>1, <1>2, <2>1
  <2>2. CASE w \notin DOMAIN fs
    <3>1. w \in Made(p)
      BY <1>1, <2>2
    <3>2. Front(w) \in Made(p) /\ (Front(w) \in DOMAIN fs => fs[Front(w)].kind = "dir")
      BY <3>1, MadeIsClosed DEF HasFile
    <3>. QED
      BY <1>1, <1>3, <3>2
  <2>. QED
    BY <2>1, <2>2
<1>5. \A q \in Made(p) : q \in Path /\ q \in Prefixes(p) /\ Len(q) <= MaxDepth
  BY PrefixesAreUnder DEF Made
<1>6. ASSUME NEW w \in DOMAIN t
      PROVE  /\ w \in Path /\ Len(w) <= MaxDepth /\ t[w].kind \in {"dir", "file"}
             /\ t[w].kind = "dir" => t[w] = Dir
  <2>1. CASE w \in DOMAIN fs
    BY <1>1, <2>1 DEF IsFileSystem
  <2>2. CASE w \notin DOMAIN fs
    BY <1>1, <1>3, <1>5, <2>2
  <2>. QED
    BY <2>1, <2>2
<1>7. IsFileSystem(t)
  BY <1>1, <1>2, <1>4, <1>6 DEF IsFileSystem, IsTree
<1>8. CreatesAll(p) => p \in DOMAIN t
  BY <1>1, UnderOrder, PrefixesAreUnder DEF CreatesAll
<1>. QED
  BY <1>1, <1>5, <1>7, <1>8 DEF t

LEMMA DeletedIsFileSystem ==
  ASSUME IsFileSystem(fs), NEW p \in Path, IsFile(p)
  PROVE  IsFileSystem([q \in DOMAIN fs \ {p} |-> fs[q]])
<1>. DEFINE t == [q \in DOMAIN fs \ {p} |-> fs[q]]
<1>1. DOMAIN t = DOMAIN fs \ {p} /\ \A q \in DOMAIN t : t[q] = fs[q]
  OBVIOUS
<1>2. /\ <<>> \in DOMAIN fs /\ fs[<<>>] = Dir /\ fs[<<>>].kind = "dir"
      /\ \A q \in DOMAIN fs \ {<<>>} : Front(q) \in DOMAIN fs /\ fs[Front(q)].kind = "dir"
  BY DEF IsFileSystem, IsTree, Dir
<1>3. fs[p].kind = "file"
  BY DEF IsFile
<1>. HIDE DEF t
<1>4. \A q \in DOMAIN t \ {<<>>} : Front(q) \in DOMAIN t /\ t[Front(q)].kind = "dir"
  BY <1>1, <1>2, <1>3
<1>5. <<>> \in DOMAIN t /\ t[<<>>] = Dir
  BY <1>1, <1>2, <1>3
<1>6. \A w \in DOMAIN t : /\ w \in Path /\ Len(w) <= MaxDepth /\ t[w].kind \in {"dir", "file"}
                          /\ t[w].kind = "dir" => t[w] = Dir
  BY <1>1 DEF IsFileSystem
<1>. QED
  BY <1>4, <1>5, <1>6 DEF IsFileSystem, IsTree, t

-----------------------------------------------------------------------------
(* What a step of CopyFolder does.                                         *)

Outer(n) == [stack EXCEPT ![Len(stack)].read = @ \cup {n}]

NewFrame(src, dst, tree) == [src |-> src, dst |-> dst, read |-> {}, must |-> Must(src, tree)]

\* u is t and folders on the way to dst.
Grows(t, u, dst) ==
  /\ IsFileSystem(u)
  /\ \A p \in DOMAIN t : p \in DOMAIN u /\ u[p] = t[p]
  /\ \A p \in DOMAIN u \ DOMAIN t : p \in Prefixes(dst) /\ u[p] = Dir

Pushes(src, dst, outer) ==
  /\ IsDir(src) /\ dst \in DOMAIN fs' /\ handles < MaxHandles
  /\ stack' = Append(outer, NewFrame(src, dst, fs'))
  /\ status' = "running" /\ handles' = handles + 1

GivesUp(src, dst) ==
  /\ stack' = <<>> /\ handles' = handles
  /\ \/ status' = "-1" /\ (Missing(src) \/ ~TargetReady(dst))
     \/ status' = "crashed" /\ HasFile(src) /\ ~(IsDir(src) /\ handles < MaxHandles)

LEMMA BeginFolderCases ==
  ASSUME IsFileSystem(fs), NEW src \in Path, NEW dst \in Path, NEW outer, BeginFolder(src, dst, outer)
  PROVE  /\ Grows(fs, fs', dst)
         /\ Pushes(src, dst, outer) \/ GivesUp(src, dst)
<1>1. CASE Missing(src)
  <2>1. Grows(fs, fs', dst)
    BY <1>1 DEF BeginFolder, Grows
  <2>2. GivesUp(src, dst)
    BY <1>1 DEF BeginFolder, GivesUp, Return
  <2>. QED
    BY <2>1, <2>2
<1>2. CASE ~Missing(src)
  <2>1. fs' = IF HasFile(dst) THEN fs ELSE AfterCreateDir(dst)
    BY <1>2 DEF BeginFolder
  <2>2. Grows(fs, fs', dst) /\ (TargetReady(dst) => dst \in DOMAIN fs')
    <3>1. CASE HasFile(dst)
      BY <2>1, <3>1 DEF Grows, HasFile
    <3>2. CASE ~HasFile(dst)
      <4>1. fs' = AfterCreateDir(dst)
        BY <2>1, <3>2
      <4>2. TargetReady(dst) => dst \in DOMAIN fs'
        BY <4>1, <3>2, AfterCreateDirIsFileSystem DEF TargetReady
      <4>3. Grows(fs, fs', dst)
        BY <4>1, AfterCreateDirIsFileSystem DEF Grows
      <4>. QED
        BY <4>2, <4>3
    <3>. QED
      BY <3>1, <3>2
  <2>3. CASE TargetReady(dst)
    <3>1. Open(src, dst, outer, fs')
      BY <1>2, <2>3 DEF BeginFolder
    <3>2. Pushes(src, dst, outer) \/ GivesUp(src, dst)
      BY <1>2, <2>2, <2>3, <3>1 DEF Open, Pushes, GivesUp, NewFrame, Return, Missing
    <3>. QED
      BY <2>2, <3>2
  <2>4. CASE ~TargetReady(dst)
    BY <1>2, <2>2, <2>4 DEF BeginFolder, GivesUp, Return
  <2>. QED
    BY <2>3, <2>4
<1>. QED
  BY <1>1, <1>2

LEMMA OuterFrames ==
  ASSUME TypeOK, status = "running", NEW n \in Names
  PROVE  /\ Len(stack) \in Nat \ {0} /\ Len(stack) \in DOMAIN stack /\ DOMAIN stack = 1 .. Len(stack)
         /\ Outer(n) \in Seq(Frame) /\ Len(Outer(n)) = Len(stack) /\ DOMAIN Outer(n) = DOMAIN stack
         /\ \A i \in DOMAIN stack :
              /\ stack[i] \in Frame
              /\ Outer(n)[i].src = stack[i].src /\ Outer(n)[i].dst = stack[i].dst
              /\ Outer(n)[i].must = stack[i].must
              /\ Outer(n)[i].read = IF i = Len(stack) THEN stack[i].read \cup {n} ELSE stack[i].read
<1>1. stack \in Seq(Frame) /\ stack # <<>>
  BY DEF TypeOK
<1>2. Len(stack) \in Nat \ {0} /\ DOMAIN stack = 1 .. Len(stack) /\ Len(stack) \in DOMAIN stack
  BY <1>1
<1>3. ASSUME NEW i \in DOMAIN stack PROVE stack[i] \in Frame
  BY <1>1, <1>3
<1>4. ASSUME NEW i \in DOMAIN stack
      PROVE  Outer(n)[i] = IF i = Len(stack) THEN [stack[i] EXCEPT !.read = @ \cup {n}] ELSE stack[i]
  BY <1>2 DEF Outer
<1>5. ASSUME NEW i \in DOMAIN stack
      PROVE  /\ Outer(n)[i] \in Frame
             /\ Outer(n)[i].src = stack[i].src /\ Outer(n)[i].dst = stack[i].dst
             /\ Outer(n)[i].must = stack[i].must
             /\ Outer(n)[i].read = IF i = Len(stack) THEN stack[i].read \cup {n} ELSE stack[i].read
  <2>. DEFINE f == stack[i]
              g == [f EXCEPT !.read = @ \cup {n}]
  <2>1. f \in Frame
    BY <1>3
  <2>2. /\ g \in Frame /\ g.src = f.src /\ g.dst = f.dst /\ g.must = f.must
        /\ g.read = f.read \cup {n}
    <3>. HIDE DEF f
    <3>. QED
      BY <2>1 DEF Frame
  <2>3. CASE i = Len(stack)
    <3>1. Outer(n)[i] = g
      BY <1>4, <2>3
    <3>. HIDE DEF g
    <3>. QED
      BY <2>2, <2>3, <3>1
  <2>4. CASE i # Len(stack)
    BY <1>4, <2>1, <2>4
  <2>. QED
    BY <2>3, <2>4
<1>6. DOMAIN Outer(n) = DOMAIN stack
  BY DEF Outer
<1>7. Outer(n) \in Seq(Frame) /\ Len(Outer(n)) = Len(stack)
  <2>1. Outer(n) \in [1 .. Len(stack) -> Frame]
    BY <1>2, <1>5, <1>6 DEF Outer
  <2>. QED
    BY <1>2, <2>1, SeqDef
<1>. QED
  BY <1>2, <1>3, <1>5, <1>6, <1>7

\* The outcomes of reading an entry.
SkipsFolder(n, p) ==
  IsDir(p) /\ n \in Hidden /\ stack' = Outer(n) /\ UNCHANGED <<fs, handles, status, closeFailed>>

EntersFolder(n, p, q) ==
  /\ IsDir(p) /\ n \notin Hidden /\ Grows(fs, fs', q) /\ Pushes(p, q, Outer(n))
  /\ UNCHANGED closeFailed

CopiesFile(n, p, q) ==
  /\ ~IsDir(p) /\ OpensBoth(p, q)
  /\ fs' = Written(q, Copied(p, q)) /\ stack' = Outer(n)
  /\ UNCHANGED <<handles, status, closeFailed>>

FailsIn(n, p, q) ==
  /\ IsDir(p) /\ n \notin Hidden /\ Grows(fs, fs', q) /\ GivesUp(p, q)
  /\ UNCHANGED closeFailed

FailsOn(p, q) ==
  /\ ~IsDir(p) /\ ~OpensBoth(p, q)
  /\ handles' = HandlesAfter(p, q) /\ status' = "-1" /\ stack' = <<>>
  /\ UNCHANGED <<fs, closeFailed>>

\* A file that could be opened and not closed: some of the data is in the target.
FailsToClose(p, q) ==
  /\ ~IsDir(p) /\ Writable(q) /\ handles + 1 < MaxHandles
  /\ \E part : fs' = Written(q, part)
  /\ handles' \in {handles, handles + 1} /\ status' = "-1" /\ stack' = <<>>
  /\ closeFailed' = TRUE

Reads(n, p, q) ==
  \/ SkipsFolder(n, p) \/ EntersFolder(n, p, q) \/ CopiesFile(n, p, q)
  \/ FailsIn(n, p, q) \/ FailsOn(p, q) \/ FailsToClose(p, q)

LEMMA CloseFailsMeans ==
  ASSUME NEW q, NEW data, CloseFails(q, data)
  PROVE  /\ \E part : fs' = Written(q, part)
         /\ handles' \in {handles, handles + 1} /\ closeFailed' = TRUE
BY DEF CloseFails

LEMMA ReadEntryCases ==
  ASSUME TypeOK, NEW n \in Names, ReadEntry(n)
  PROVE  /\ status = "running" /\ UNCHANGED <<call, before>>
         /\ \E p \in Path, q \in Path :
              /\ p = Append(stack[Len(stack)].src, n) /\ q = Append(stack[Len(stack)].dst, n)
              /\ p \in DOMAIN fs /\ Reads(n, p, q)
<1>1. status = "running" /\ UNCHANGED <<call, before>> /\ n \in Entries(Top.src) \ Top.read
  BY DEF ReadEntry
<1>2. stack[Len(stack)] \in Frame
  BY <1>1, OuterFrames
<1>3. PICK p \in Path, q \in Path : p = Append(Top.src, n) /\ q = Append(Top.dst, n)
  <2>1. Top.src \in Path /\ Top.dst \in Path
    BY <1>2 DEF Top, Frame
  <2>. QED
    BY <2>1, AppendName
<1>4. p \in DOMAIN fs
  BY <1>1, <1>3 DEF Entries, HasFile
<1>5. \/ IsDir(p) /\ Skips(n) /\ stack' = Outer(n) /\ UNCHANGED <<fs, handles, status, closeFailed>>
      \/ IsDir(p) /\ ~Skips(n) /\ BeginFolder(p, q, Outer(n)) /\ UNCHANGED closeFailed
      \/ /\ ~IsDir(p) /\ OpensBoth(p, q)
         /\ fs' = Written(q, Copied(p, q)) /\ stack' = Outer(n)
         /\ UNCHANGED <<handles, status, closeFailed>>
      \/ ~IsDir(p) /\ OpensBoth(p, q) /\ CloseFails(q, Copied(p, q)) /\ Return("-1")
      \/ /\ ~IsDir(p) /\ ~OpensBoth(p, q)
         /\ handles' = HandlesAfter(p, q) /\ Return("-1") /\ UNCHANGED <<fs, closeFailed>>
  BY <1>3, Zenon DEF ReadEntry, Outer
<1>6. ASSUME IsDir(p), ~Skips(n), BeginFolder(p, q, Outer(n)), UNCHANGED closeFailed
      PROVE  EntersFolder(n, p, q) \/ FailsIn(n, p, q)
  <2>1. Grows(fs, fs', q) /\ (Pushes(p, q, Outer(n)) \/ GivesUp(p, q))
    BY <1>6, BeginFolderCases DEF TypeOK
  <2>. QED
    BY <1>6, <2>1 DEF EntersFolder, FailsIn, Skips
<1>7. ASSUME ~IsDir(p), OpensBoth(p, q), CloseFails(q, Copied(p, q)), Return("-1")
      PROVE  FailsToClose(p, q)
  BY <1>7, CloseFailsMeans DEF FailsToClose, OpensBoth, Return
<1>8. Reads(n, p, q)
  BY <1>5, <1>6, <1>7 DEF Reads, SkipsFolder, CopiesFile, FailsOn, Return, Skips
<1>. QED
  BY <1>1, <1>3, <1>4, <1>8 DEF Top

-----------------------------------------------------------------------------
(* Types.                                                                  *)

CallType == [name : CallNames, src : Path, dst : Path]

Ended == {"idle", "0", "-1", "crashed", "endless"}

FramesThere(t, frames) ==
  \A i \in DOMAIN frames : /\ frames[i].src \in DOMAIN t /\ t[frames[i].src].kind = "dir"
                           /\ frames[i].dst \in DOMAIN t

LEMMA EndedTyped ==
  ASSUME TypeOK, IsFileSystem(fs)', before' = before, handles' \in 0 .. MaxHandles,
         stack' = <<>>, status' \in Ended, call' \in CallType, closeFailed' \in BOOLEAN
  PROVE  TypeOK'
<1>1. IsFileSystem(before)'
  BY DEF TypeOK, IsFileSystem, IsTree
<1>2. status' # "running" /\ status' \in {"idle", "running", "0", "-1", "crashed", "endless"}
  BY DEF Ended
<1>3. stack' \in Seq(Frame) /\ DOMAIN stack' = {}
  OBVIOUS
<1>. QED
  BY <1>1, <1>2, <1>3 DEF TypeOK, CallType

LEMMA RunningTyped ==
  ASSUME TypeOK, IsFileSystem(fs)', UNCHANGED <<call, before>>, handles' \in 0 .. MaxHandles,
         stack' \in Seq(Frame), stack' # <<>>, status' = "running", FramesThere(fs', stack'),
         UNCHANGED closeFailed
  PROVE  TypeOK'
<1>1. IsFileSystem(before)'
  BY DEF TypeOK, IsFileSystem, IsTree
<1>2. call' \in [name : CallNames, src : Path, dst : Path]
  BY DEF TypeOK
<1>. QED
  BY <1>1, <1>2 DEF TypeOK, FramesThere

LEMMA CallTyped ==
  ASSUME TypeOK, NEW name \in CallNames, NEW src \in Path, NEW dst \in Path, Calls(name, src, dst)
  PROVE  call' \in CallType /\ before' = before /\ status = "idle" /\ stack = <<>>
BY DEF Calls, CallType, TypeOK

\* What was there stays there, and stays what it was.
Steady == \A p \in DOMAIN fs : p \in DOMAIN fs' /\ fs'[p].kind = fs[p].kind

LEMMA HandlesTyped ==
  ASSUME TypeOK, NEW p, NEW q
  PROVE  HandlesAfter(p, q) \in handles .. MaxHandles
BY LimitsAssumption DEF TypeOK, HandlesAfter

LEMMA WrittenSteady ==
  ASSUME IsFileSystem(fs), NEW q \in Path, Writable(q), NEW data, fs' = Written(q, data)
  PROVE  Steady
<1>1. DOMAIN Written(q, data) = DOMAIN fs \cup {q}
  BY WrittenIs
<1>2. \A w \in DOMAIN fs : Written(q, data)[w].kind = fs[w].kind
  BY WrittenIsFileSystem
<1>. QED
  BY <1>1, <1>2 DEF Steady

LEMMA OutcomeSteady ==
  ASSUME TypeOK, NEW n \in Names, NEW p \in Path, NEW q \in Path, Reads(n, p, q)
  PROVE  IsFileSystem(fs)' /\ Steady
<1>1. IsFileSystem(fs)
  BY DEF TypeOK
<1>2. CASE fs' = fs
  BY <1>1, <1>2 DEF Steady
<1>3. CASE Grows(fs, fs', q)
  BY <1>3 DEF Grows, Steady, IsFileSystem, IsTree
<1>4. CASE CopiesFile(n, p, q)
  <2>1. Writable(q) /\ fs' = Written(q, Copied(p, q))
    BY <1>4 DEF CopiesFile, OpensBoth
  <2>2. PICK d : fs' = Written(q, d)
    BY <2>1
  <2>3. Steady
    BY <1>1, <2>1, <2>2, WrittenSteady
  <2>4. IsFileSystem(fs')
    BY <1>1, <2>1, <2>2, WrittenIsFileSystem
  <2>. QED
    BY <2>3, <2>4 DEF IsFileSystem, IsTree
<1>5. CASE FailsToClose(p, q)
  <2>1. PICK part : fs' = Written(q, part)
    BY <1>5 DEF FailsToClose
  <2>2. Writable(q)
    BY <1>5 DEF FailsToClose
  <2>3. Steady /\ IsFileSystem(fs')
    BY <1>1, <2>1, <2>2, WrittenSteady, WrittenIsFileSystem
  <2>. QED
    BY <2>3 DEF IsFileSystem, IsTree
<1>. QED
  BY <1>2, <1>3, <1>4, <1>5 DEF Reads, SkipsFolder, EntersFolder, FailsIn, FailsOn

LEMMA FramesStay ==
  ASSUME TypeOK, status = "running", NEW n \in Names, Steady
  PROVE  FramesThere(fs', Outer(n))
<1>1. ASSUME NEW i \in DOMAIN stack
      PROVE  stack[i].src \in DOMAIN fs /\ fs[stack[i].src].kind = "dir" /\ stack[i].dst \in DOMAIN fs
  BY DEF TypeOK
<1>2. DOMAIN Outer(n) = DOMAIN stack
  BY OuterFrames
<1>3. ASSUME NEW i \in DOMAIN stack
      PROVE  Outer(n)[i].src = stack[i].src /\ Outer(n)[i].dst = stack[i].dst
  BY OuterFrames
<1>. QED
  BY <1>1, <1>2, <1>3 DEF FramesThere, Steady

\* What CopyFolder finds when it has opened a folder.
LEMMA NewFrameFits ==
  ASSUME NEW src \in Path, NEW dst \in Path, NEW tree
  PROVE  LET f == NewFrame(src, dst, tree)
         IN  /\ f \in Frame /\ f.src = src /\ f.dst = dst /\ f.read = {}
             /\ f.must = {n \in Names : Append(src, n) \in DOMAIN tree}
BY DEF NewFrame, Frame, Must

LEMMA PushTyped ==
  ASSUME TypeOK, NEW outer \in Seq(Frame), NEW src \in Path, NEW dst \in Path,
         Pushes(src, dst, outer), Steady, FramesThere(fs', outer)
  PROVE  /\ stack' \in Seq(Frame) /\ Len(stack') = Len(outer) + 1 /\ stack' # <<>>
         /\ DOMAIN stack' = 1 .. Len(outer) + 1
         /\ \A i \in 1 .. Len(outer) : stack'[i] = outer[i]
         /\ stack'[Len(outer) + 1] = NewFrame(src, dst, fs')
         /\ FramesThere(fs', stack') /\ handles' \in 0 .. MaxHandles
<1>. DEFINE f == NewFrame(src, dst, fs')
<1>1. f \in Frame /\ f.src = src /\ f.dst = dst
  BY NewFrameFits
<1>2. stack' = Append(outer, f)
  BY DEF Pushes
<1>. HIDE DEF f
<1>3. /\ stack' \in Seq(Frame) /\ Len(stack') = Len(outer) + 1 /\ stack' # <<>>
      /\ DOMAIN stack' = 1 .. Len(outer) + 1
      /\ \A i \in 1 .. Len(outer) : stack'[i] = outer[i]
      /\ stack'[Len(outer) + 1] = f
  BY <1>1, <1>2
<1>4. src \in DOMAIN fs' /\ fs'[src].kind = "dir" /\ dst \in DOMAIN fs'
  BY DEF Pushes, IsDir, HasFile, Steady
<1>5. FramesThere(fs', stack')
  <2>. SUFFICES ASSUME NEW i \in DOMAIN stack'
                PROVE  /\ stack'[i].src \in DOMAIN fs' /\ fs'[stack'[i].src].kind = "dir"
                       /\ stack'[i].dst \in DOMAIN fs'
    BY DEF FramesThere
  <2>1. CASE i = Len(outer) + 1
    BY <1>1, <1>3, <1>4, <2>1
  <2>2. CASE i # Len(outer) + 1
    <3>1. i \in 1 .. Len(outer) /\ i \in DOMAIN outer /\ stack'[i] = outer[i]
      BY <1>3, <2>2
    <3>. QED
      BY <3>1 DEF FramesThere
  <2>. QED
    BY <2>1, <2>2
<1>6. handles' \in 0 .. MaxHandles
  BY LimitsAssumption DEF TypeOK, Pushes
<1>. QED
  BY <1>3, <1>5, <1>6 DEF f

LEMMA ReadEntryTyped ==
  ASSUME TypeOK, NEW n \in Names, ReadEntry(n)
  PROVE  TypeOK'
<1>1. status = "running" /\ UNCHANGED <<call, before>>
  BY ReadEntryCases
<1>2. PICK p \in Path, q \in Path : p \in DOMAIN fs /\ Reads(n, p, q)
  BY ReadEntryCases
<1>3. IsFileSystem(fs)' /\ Steady
  BY <1>2, OutcomeSteady
<1>4. FramesThere(fs', Outer(n)) /\ Outer(n) \in Seq(Frame) /\ Len(Outer(n)) = Len(stack) /\ stack # <<>>
  BY <1>1, <1>3, FramesStay, OuterFrames DEF TypeOK
<1>5. /\ handles \in 0 .. MaxHandles /\ call \in CallType /\ call' \in CallType
      /\ closeFailed \in BOOLEAN /\ closeFailed' \in BOOLEAN
  BY <1>1, <1>2 DEF TypeOK, CallType, Reads, SkipsFolder, EntersFolder, CopiesFile, FailsIn, FailsOn, FailsToClose
<1>6. CASE stack' = Outer(n) /\ UNCHANGED <<handles, status, closeFailed>>
  <2>1. stack' # <<>> /\ stack' \in Seq(Frame) /\ FramesThere(fs', stack')
    BY <1>1, <1>4, <1>6, OuterFrames
  <2>. QED
    BY <1>1, <1>3, <1>5, <1>6, <2>1, RunningTyped
<1>7. CASE Pushes(p, q, Outer(n)) /\ UNCHANGED closeFailed
  <2>1. /\ stack' \in Seq(Frame) /\ stack' # <<>> /\ FramesThere(fs', stack')
        /\ handles' \in 0 .. MaxHandles
    BY <1>3, <1>4, <1>7, PushTyped
  <2>2. status' = "running"
    BY <1>7 DEF Pushes
  <2>. QED
    BY <1>1, <1>3, <1>7, <2>1, <2>2, RunningTyped
<1>8. CASE GivesUp(p, q)
  <2>1. stack' = <<>> /\ handles' \in 0 .. MaxHandles /\ status' \in Ended
    BY <1>5, <1>8 DEF GivesUp, Ended
  <2>. QED
    BY <1>1, <1>3, <1>5, <2>1, EndedTyped
<1>9. CASE FailsOn(p, q)
  <2>1. stack' = <<>> /\ handles' \in 0 .. MaxHandles /\ status' \in Ended
    <3>1. HandlesAfter(p, q) \in 0 .. MaxHandles
      BY <1>5, HandlesTyped
    <3>. QED
      BY <1>9, <3>1 DEF FailsOn, Ended
  <2>. QED
    BY <1>1, <1>3, <1>5, <2>1, EndedTyped
<1>10. CASE FailsToClose(p, q)
  <2>1. stack' = <<>> /\ handles' \in 0 .. MaxHandles /\ status' \in Ended
    BY <1>5, <1>10, LimitsAssumption DEF FailsToClose, Ended
  <2>. QED
    BY <1>1, <1>3, <1>5, <2>1, EndedTyped
<1>. QED
  BY <1>2, <1>6, <1>7, <1>8, <1>9, <1>10 DEF Reads, SkipsFolder, EntersFolder, CopiesFile, FailsIn

LEMMA FrontOfStack ==
  ASSUME TypeOK, status = "running"
  PROVE  /\ Front(stack) \in Seq(Frame) /\ Len(Front(stack)) = Len(stack) - 1
         /\ DOMAIN Front(stack) = 1 .. Len(stack) - 1
         /\ \A i \in 1 .. Len(stack) - 1 : i \in DOMAIN stack /\ Front(stack)[i] = stack[i]
<1>1. stack \in Seq(Frame) /\ Len(stack) \in Nat \ {0} /\ DOMAIN stack = 1 .. Len(stack)
  BY DEF TypeOK
<1>. QED
  BY <1>1 DEF Front

LEMMA EndFolderTyped == TypeOK /\ EndFolder => TypeOK'
<1>. SUFFICES ASSUME TypeOK, EndFolder PROVE TypeOK'
  OBVIOUS
<1>1. /\ status = "running" /\ stack' = Front(stack)
      /\ status' = (IF Len(stack) = 1 THEN "0" ELSE status)
      /\ UNCHANGED <<fs, handles, call, closeFailed, before>> /\ closeFailed \in BOOLEAN
  BY DEF EndFolder, TypeOK
<1>2. handles \in 0 .. MaxHandles /\ call \in CallType /\ IsFileSystem(fs) /\ Len(stack) \in Nat \ {0}
  BY <1>1, OuterFrames DEF TypeOK, CallType
<1>3. IsFileSystem(fs)'
  BY <1>1, <1>2 DEF IsFileSystem, IsTree
<1>4. /\ Front(stack) \in Seq(Frame) /\ Len(Front(stack)) = Len(stack) - 1
      /\ DOMAIN Front(stack) = 1 .. Len(stack) - 1
      /\ \A i \in 1 .. Len(stack) - 1 : i \in DOMAIN stack /\ Front(stack)[i] = stack[i]
  BY <1>1, FrontOfStack
<1>5. CASE Len(stack) = 1
  <2>1. stack' = <<>>
    BY <1>1, <1>4, <1>5
  <2>2. status' \in Ended
    BY <1>1, <1>5 DEF Ended
  <2>. QED
    BY <1>1, <1>2, <1>3, <2>1, <2>2, EndedTyped
<1>6. CASE Len(stack) # 1
  <2>1. stack' # <<>> /\ stack' \in Seq(Frame) /\ status' = "running"
    BY <1>1, <1>2, <1>4, <1>6
  <2>2. ASSUME NEW i \in DOMAIN stack
        PROVE  /\ stack[i].src \in DOMAIN fs /\ fs[stack[i].src].kind = "dir"
               /\ stack[i].dst \in DOMAIN fs
    BY DEF TypeOK
  <2>3. FramesThere(fs', stack')
    BY <1>1, <1>4, <2>2 DEF FramesThere
  <2>. QED
    BY <1>1, <1>2, <1>3, <2>1, <2>3, RunningTyped
<1>. QED
  BY <1>5, <1>6

LEMMA PathsArePaths == ASSUME NEW p \in Paths PROVE p \in Path /\ p # <<>>
BY PathsAssumption

LEMMA CallNamesIn ==
  /\ "CopyFolder" \in CallNames /\ "CopyFile" \in CallNames /\ "CreateDir" \in CallNames
  /\ "DeleteFile" \in CallNames /\ "WriteFile" \in CallNames
BY DEF CallNames

LEMMA CreateDirTyped ==
  ASSUME TypeOK, NEW p \in Paths, CreateDir(p) PROVE TypeOK'
<1>1. p \in Path /\ Calls("CreateDir", p, p) /\ IsFileSystem(fs) /\ handles \in 0 .. MaxHandles
  BY PathsArePaths DEF CreateDir, TypeOK
<1>2. call' \in CallType /\ before' = before
  BY <1>1, CallNamesIn, CallTyped
<1>6. closeFailed' \in BOOLEAN
  BY DEF CreateDir, TypeOK
<1>3. IsFileSystem(fs)'
  <2>1. fs' = AfterCreateDir(p)
    BY DEF CreateDir
  <2>2. IsFileSystem(fs')
    BY <1>1, <2>1, AfterCreateDirIsFileSystem
  <2>. QED
    BY <2>2 DEF IsFileSystem, IsTree
<1>4. stack' = <<>> /\ handles' \in 0 .. MaxHandles /\ status' \in Ended
  BY <1>1 DEF CreateDir, Return, Ended
<1>. QED
  BY <1>2, <1>3, <1>4, <1>6, EndedTyped

LEMMA DeleteFileTyped ==
  ASSUME TypeOK, NEW p \in Paths, DeleteFile(p) PROVE TypeOK'
<1>1. p \in Path /\ Calls("DeleteFile", p, p) /\ IsFileSystem(fs) /\ handles \in 0 .. MaxHandles
  BY PathsArePaths DEF DeleteFile, TypeOK
<1>2. call' \in CallType /\ before' = before
  BY <1>1, CallNamesIn, CallTyped
<1>6. closeFailed' \in BOOLEAN
  BY DEF DeleteFile, TypeOK
<1>3. IsFileSystem(fs)'
  <2>1. CASE IsFile(p)
    <3>1. fs' = [q \in DOMAIN fs \ {p} |-> fs[q]]
      BY <2>1 DEF DeleteFile
    <3>2. IsFileSystem(fs')
      BY <1>1, <2>1, <3>1, DeletedIsFileSystem
    <3>. QED
      BY <3>2 DEF IsFileSystem, IsTree
  <2>2. CASE ~IsFile(p)
    <3>1. fs' = fs
      BY <2>2 DEF DeleteFile
    <3>. QED
      BY <1>1, <3>1 DEF IsFileSystem, IsTree
  <2>. QED
    BY <2>1, <2>2
<1>4. stack' = <<>> /\ status' \in Ended
  BY DEF DeleteFile, Return, Ended
<1>5. handles' \in 0 .. MaxHandles
  BY <1>1, LimitsAssumption DEF DeleteFile
<1>. QED
  BY <1>2, <1>3, <1>4, <1>5, <1>6, EndedTyped

LEMMA WrittenTyped ==
  ASSUME TypeOK, NEW q \in Path, Writable(q), NEW data, fs' = Written(q, data)
  PROVE  IsFileSystem(fs)'
<1>1. IsFileSystem(fs')
  BY WrittenIsFileSystem DEF TypeOK
<1>. QED
  BY <1>1 DEF IsFileSystem, IsTree

LEMMA WriteFileTyped ==
  ASSUME TypeOK, NEW p \in Paths, WriteFile(p) PROVE TypeOK'
<1>1. p \in Path /\ Calls("WriteFile", p, p) /\ IsFileSystem(fs) /\ handles \in 0 .. MaxHandles
  BY PathsArePaths DEF WriteFile, TypeOK
<1>2. call' \in CallType /\ before' = before
  BY <1>1, CallNamesIn, CallTyped
<1>6. closeFailed' \in BOOLEAN
  BY DEF WriteFile, TypeOK
<1>3. IsFileSystem(fs)'
  <2>1. CASE Writable(p) /\ handles < MaxHandles
    <3>1. PICK part : fs' = Written(p, part)
      BY <2>1 DEF WriteFile
    <3>. QED
      BY <1>1, <2>1, <3>1, WrittenTyped
  <2>2. CASE ~(Writable(p) /\ handles < MaxHandles)
    <3>1. fs' = fs
      BY <2>2 DEF WriteFile
    <3>. QED
      BY <1>1, <3>1 DEF IsFileSystem, IsTree
  <2>. QED
    BY <2>1, <2>2
<1>4. stack' = <<>> /\ handles' \in 0 .. MaxHandles /\ status' \in Ended
  BY <1>1 DEF WriteFile, Return, Ended
<1>. QED
  BY <1>2, <1>3, <1>4, <1>6, EndedTyped

LEMMA CopyFileMeans ==
  ASSUME TypeOK, NEW p \in Path, NEW q \in Path, CopyFile(p, q)
  PROVE  /\ stack' = <<>> /\ status' \in {"0", "-1", "endless"}
         /\ UNCHANGED fs \/ (Writable(q) /\ \E part : fs' = Written(q, part))
         /\ handles' \in 0 .. MaxHandles
<1>1. handles \in 0 .. MaxHandles
  BY DEF TypeOK
<1>2. CASE ~OpensBoth(p, q)
  <2>1. stack' = <<>> /\ status' = "-1" /\ UNCHANGED fs /\ handles' = HandlesAfter(p, q)
    BY <1>2 DEF CopyFile, Return
  <2>2. HandlesAfter(p, q) \in 0 .. MaxHandles
    BY <1>1, HandlesTyped
  <2>. QED
    BY <2>1, <2>2
<1>3. CASE OpensBoth(p, q)
  <2>1. Writable(q) /\ handles + 1 < MaxHandles
    BY <1>3 DEF OpensBoth
  <2>2. stack' = <<>> /\ status' \in {"0", "-1", "endless"}
    BY <1>3 DEF CopyFile, Return
  <2>3. (\E part : fs' = Written(q, part)) /\ handles' \in {handles, handles + 1}
    BY <1>3, CloseFailsMeans DEF CopyFile
  <2>. QED
    BY <1>1, <2>1, <2>2, <2>3, LimitsAssumption
<1>. QED
  BY <1>2, <1>3

LEMMA CopyFileTyped ==
  ASSUME TypeOK, NEW p \in Paths, NEW q \in Paths, CopyFile(p, q) PROVE TypeOK'
<1>1. p \in Path /\ q \in Path /\ Calls("CopyFile", p, q) /\ IsFileSystem(fs) /\ handles \in 0 .. MaxHandles
  BY PathsArePaths DEF CopyFile, TypeOK
<1>2. call' \in CallType /\ before' = before
  BY <1>1, CallNamesIn, CallTyped
<1>6. closeFailed' \in BOOLEAN
  BY DEF CopyFile, TypeOK, CloseFails
<1>3. IsFileSystem(fs)'
  <2>1. CASE UNCHANGED fs
    BY <1>1, <2>1 DEF IsFileSystem, IsTree
  <2>2. CASE Writable(q) /\ \E part : fs' = Written(q, part)
    <3>1. PICK part : fs' = Written(q, part)
      BY <2>2
    <3>. QED
      BY <1>1, <2>2, <3>1, WrittenTyped
  <2>. QED
    BY <1>1, <2>1, <2>2, CopyFileMeans
<1>4. stack' = <<>> /\ status' \in Ended /\ handles' \in 0 .. MaxHandles
  BY <1>1, CopyFileMeans DEF Ended
<1>. QED
  BY <1>2, <1>3, <1>4, <1>6, EndedTyped

\* The beginning of CopyFolder.
LEMMA CopyFolderCases ==
  ASSUME TypeOK, NEW p \in Path, NEW q \in Path, CopyFolder(p, q)
  PROVE  /\ status = "idle" /\ stack = <<>> /\ before' = before
         /\ call' = [name |-> "CopyFolder", src |-> p, dst |-> q] /\ call' \in CallType
         /\ call'.name = "CopyFolder" /\ call'.src = p /\ call'.dst = q
         /\ Grows(fs, fs', q) /\ (Pushes(p, q, <<>>) \/ GivesUp(p, q))
         /\ UNCHANGED closeFailed
<1>1. /\ Calls("CopyFolder", p, q) /\ BeginFolder(p, q, <<>>) /\ IsFileSystem(fs)
      /\ UNCHANGED closeFailed
  BY DEF CopyFolder, TypeOK
<1>2. Grows(fs, fs', q) /\ (Pushes(p, q, <<>>) \/ GivesUp(p, q))
  BY <1>1, BeginFolderCases
<1>3. call' = [name |-> "CopyFolder", src |-> p, dst |-> q]
  BY <1>1 DEF Calls
<1>4. status = "idle" /\ stack = <<>> /\ before' = before /\ call' \in CallType
  BY <1>1, CallNamesIn, CallTyped
<1>. QED
  BY <1>1, <1>2, <1>3, <1>4

LEMMA CopyFolderTyped ==
  ASSUME TypeOK, NEW p \in Path, NEW q \in Path, CopyFolder(p, q) PROVE TypeOK'
<1>1. /\ before' = before /\ call' \in CallType /\ Grows(fs, fs', q)
      /\ Pushes(p, q, <<>>) \/ GivesUp(p, q)
      /\ UNCHANGED closeFailed
  BY CopyFolderCases
<1>2. handles \in 0 .. MaxHandles /\ closeFailed \in BOOLEAN
  BY DEF TypeOK
<1>3. IsFileSystem(fs)' /\ Steady
  BY <1>1 DEF Grows, IsFileSystem, IsTree, Steady
<1>4. CASE GivesUp(p, q)
  <2>1. stack' = <<>> /\ handles' \in 0 .. MaxHandles /\ status' \in Ended
    BY <1>2, <1>4 DEF GivesUp, Ended
  <2>. QED
    BY <1>1, <1>2, <1>3, <2>1, EndedTyped
<1>5. CASE Pushes(p, q, <<>>)
  <2>1. <<>> \in Seq(Frame) /\ FramesThere(fs', <<>>)
    BY DEF FramesThere
  <2>2. /\ stack' \in Seq(Frame) /\ stack' # <<>> /\ FramesThere(fs', stack')
        /\ handles' \in 0 .. MaxHandles
    BY <1>3, <1>5, <2>1, PushTyped
  <2>3. status' = "running"
    BY <1>5 DEF Pushes
  <2>4. IsFileSystem(before)'
    BY <1>1 DEF TypeOK, IsFileSystem, IsTree
  <2>. QED
    BY <1>1, <1>3, <2>2, <2>3, <2>4 DEF TypeOK, FramesThere, CallType
<1>. QED
  BY <1>1, <1>4, <1>5

LEMMA TypeInit == Init => TypeOK
<1>. SUFFICES ASSUME Init PROVE TypeOK
  OBVIOUS
<1>1. IsFileSystem(fs) /\ before = fs /\ stack = <<>> /\ status = "idle" /\ handles \in 0 .. MaxHandles
  BY TreesAssumption DEF Init
<1>2. IsFileSystem(before)
  BY <1>1
<1>3. <<>> \in Path /\ "none" \in CallNames
  BY DEF Path, CallNames
<1>4. call \in [name : CallNames, src : Path, dst : Path]
  BY <1>3 DEF Init
<1>5. stack \in Seq(Frame) /\ DOMAIN stack = {}
  BY <1>1
<1>6. closeFailed \in BOOLEAN
  BY DEF Init
<1>. QED
  BY <1>1, <1>2, <1>4, <1>5, <1>6 DEF TypeOK

LEMMA TypeStep == TypeOK /\ [Next]_vars => TypeOK'
<1>. SUFFICES ASSUME TypeOK, [Next]_vars PROVE TypeOK'
  OBVIOUS
<1>1. ASSUME NEW p \in Paths, CreateDir(p) PROVE TypeOK'
  BY <1>1, CreateDirTyped
<1>2. ASSUME NEW p \in Paths, DeleteFile(p) PROVE TypeOK'
  BY <1>2, DeleteFileTyped
<1>3. ASSUME NEW p \in Paths, WriteFile(p) PROVE TypeOK'
  BY <1>3, WriteFileTyped
<1>4. ASSUME NEW p \in Paths, NEW q \in Paths, CopyFolder(p, q) PROVE TypeOK'
  BY <1>4, CopyFolderTyped, PathsArePaths
<1>5. ASSUME NEW p \in Paths, NEW q \in Paths, CopyFile(p, q) PROVE TypeOK'
  BY <1>5, CopyFileTyped
<1>6. ASSUME NEW n \in Names, ReadEntry(n) PROVE TypeOK'
  BY <1>6, ReadEntryTyped
<1>7. CASE EndFolder
  BY <1>7, EndFolderTyped
<1>8. CASE UNCHANGED vars
  BY <1>8 DEF vars, TypeOK, IsFileSystem, IsTree
<1>. QED
  BY <1>1, <1>2, <1>3, <1>4, <1>5, <1>6, <1>7, <1>8 DEF Next

\* The file system stays a tree of files and folders no path of which is too
\* long, whatever call is made; the folders that CopyFolder has open stay
\* folders of it.
THEOREM TypeCorrect == Spec => []TypeOK
BY TypeInit, TypeStep, PTL DEF Spec

-----------------------------------------------------------------------------
(* Every step, as far as the invariants go.                                *)

OtherCall ==
  /\ status = "idle" /\ status' \in {"0", "-1", "endless"} /\ stack' = <<>> /\ before' = before
  /\ call'.name \in CallNames \ {"CopyFolder"}
  /\ \A w \in DOMAIN fs : \/ w \in DOMAIN fs' /\ fs'[w].kind = fs[w].kind
                          \/ call'.name = "DeleteFile" /\ w = call'.src /\ fs[w].kind = "file"
  /\ call'.name = "CreateDir" =>
       /\ call'.src \in Path /\ fs' = AfterCreateDir(call'.src)
       /\ status' = (IF CreatesAll(call'.src) THEN "0" ELSE "-1")

LEMMA OtherCalls ==
  ASSUME TypeOK, NEW p \in Paths, NEW q \in Paths,
         CreateDir(p) \/ DeleteFile(p) \/ WriteFile(p) \/ CopyFile(p, q)
  PROVE  OtherCall
<1>1. p \in Path /\ q \in Path /\ IsFileSystem(fs)
  BY PathsArePaths DEF TypeOK
<1>. DEFINE Quiet(name) == /\ status = "idle" /\ before' = before /\ call'.name = name
                           /\ call'.src = p /\ name \in CallNames \ {"CopyFolder"}
<1>2. CASE CreateDir(p)
  <2>1. Quiet("CreateDir")
    BY <1>2 DEF CreateDir, Calls, CallNames
  <2>2. stack' = <<>> /\ fs' = AfterCreateDir(p) /\ status' = (IF CreatesAll(p) THEN "0" ELSE "-1")
    BY <1>2 DEF CreateDir, Return
  <2>3. Steady
    BY <1>1, <2>2, AfterCreateDirIsFileSystem DEF Steady
  <2>. QED
    BY <1>1, <2>1, <2>2, <2>3 DEF OtherCall, Steady
<1>3. CASE DeleteFile(p)
  <2>1. Quiet("DeleteFile")
    BY <1>3 DEF DeleteFile, Calls, CallNames
  <2>2. stack' = <<>> /\ status' \in {"0", "-1"}
    BY <1>3 DEF DeleteFile, Return
  <2>3. fs' = IF IsFile(p) THEN [w \in DOMAIN fs \ {p} |-> fs[w]] ELSE fs
    BY <1>3 DEF DeleteFile
  <2>4. ASSUME NEW w \in DOMAIN fs
        PROVE  \/ w \in DOMAIN fs' /\ fs'[w].kind = fs[w].kind
               \/ w = p /\ fs[w].kind = "file"
    BY <2>3 DEF IsFile
  <2>. QED
    BY <2>1, <2>2, <2>4 DEF OtherCall
<1>4. CASE WriteFile(p)
  <2>1. Quiet("WriteFile")
    BY <1>4 DEF WriteFile, Calls, CallNames
  <2>2. stack' = <<>> /\ status' \in {"0", "-1"}
    BY <1>4 DEF WriteFile, Return
  <2>3. Steady
    <3>1. CASE Writable(p) /\ handles < MaxHandles
      <4>1. PICK part : fs' = Written(p, part)
        BY <1>4, <3>1 DEF WriteFile
      <4>. QED
        BY <1>1, <3>1, <4>1, WrittenSteady
    <3>2. CASE ~(Writable(p) /\ handles < MaxHandles)
      BY <1>4, <3>2 DEF WriteFile, Steady
    <3>. QED
      BY <3>1, <3>2
  <2>. QED
    BY <2>1, <2>2, <2>3 DEF OtherCall, Steady
<1>5. CASE CopyFile(p, q)
  <2>1. Quiet("CopyFile")
    BY <1>5 DEF CopyFile, Calls, CallNames
  <2>2. stack' = <<>> /\ status' \in {"0", "-1", "endless"}
    BY <1>1, <1>5, CopyFileMeans
  <2>3. Steady
    <3>1. CASE UNCHANGED fs
      BY <3>1 DEF Steady
    <3>2. CASE Writable(q) /\ \E part : fs' = Written(q, part)
      <4>1. PICK part : fs' = Written(q, part)
        BY <3>2
      <4>. QED
        BY <1>1, <3>2, <4>1, WrittenSteady
    <3>. QED
      BY <1>1, <1>5, <3>1, <3>2, CopyFileMeans
  <2>. QED
    BY <2>1, <2>2, <2>3 DEF OtherCall, Steady
<1>. QED
  BY <1>2, <1>3, <1>4, <1>5

LEMMA NextCases ==
  ASSUME TypeOK, [Next]_vars
  PROVE  \/ UNCHANGED vars
         \/ OtherCall
         \/ \E p \in Path \ {<<>>}, q \in Path \ {<<>>} : CopyFolder(p, q)
         \/ \E n \in Names : ReadEntry(n)
         \/ EndFolder
<1>1. ASSUME NEW p \in Paths, CreateDir(p) \/ DeleteFile(p) \/ WriteFile(p) PROVE OtherCall
  BY <1>1, OtherCalls
<1>2. ASSUME NEW p \in Paths, NEW q \in Paths, CopyFile(p, q) PROVE OtherCall
  BY <1>2, OtherCalls
<1>3. ASSUME NEW p \in Paths, NEW q \in Paths, CopyFolder(p, q)
      PROVE  \E s \in Path \ {<<>>}, t \in Path \ {<<>>} : CopyFolder(s, t)
  <2>1. p \in Path \ {<<>>} /\ q \in Path \ {<<>>}
    BY PathsArePaths
  <2>. QED
    BY <1>3, <2>1
<1>. QED
  BY <1>1, <1>2, <1>3 DEF Next

\* A call has done nothing before it is made, and only CopyFolder, with a source
\* that is there, goes on from step to step.
History ==
  /\ status = "idle" => fs = before
  /\ status = "running" => call.name = "CopyFolder" /\ call.src \in DOMAIN before

\* What was there is there and of its kind, but for a file that was deleted.
KindsKept ==
  \A w \in DOMAIN before :
    \/ w \in DOMAIN fs /\ fs[w].kind = before[w].kind
    \/ call.name = "DeleteFile" /\ w = call.src /\ before[w].kind = "file"

LEMMA HistoryInit == Init => History /\ KindsKept /\ CrashHasCause
BY DEF Init, History, KindsKept, CrashHasCause

LEMMA CopyingKinds ==
  ASSUME KindsKept, call.name = "CopyFolder"
  PROVE  \A w \in DOMAIN before : w \in DOMAIN fs /\ fs[w].kind = before[w].kind
BY DEF KindsKept

\* What holds when CopyFolder has been called.
LEMMA BegunFacts ==
  ASSUME TypeOK, History, NEW p \in Path, NEW q \in Path, CopyFolder(p, q)
  PROVE  /\ fs = before /\ IsFileSystem(before) /\ before' = before /\ stack = <<>>
         /\ call'.name = "CopyFolder" /\ call'.src = p /\ call'.dst = q
         /\ Grows(before, fs', q) /\ (Pushes(p, q, <<>>) \/ GivesUp(p, q))
         /\ status' \in {"running", "-1", "crashed"}
         /\ status' = "running" => Pushes(p, q, <<>>)
<1>1. fs = before /\ IsFileSystem(before)
  BY CopyFolderCases DEF TypeOK, History
<1>2. Pushes(p, q, <<>>) => status' = "running"
  BY DEF Pushes
<1>3. GivesUp(p, q) => status' \in {"-1", "crashed"}
  BY DEF GivesUp
<1>4. Grows(before, fs', q)
  BY <1>1, CopyFolderCases
<1>5. /\ before' = before /\ stack = <<>> /\ call'.name = "CopyFolder" /\ call'.src = p /\ call'.dst = q
      /\ Pushes(p, q, <<>>) \/ GivesUp(p, q)
  BY CopyFolderCases
<1>. QED
  BY <1>1, <1>2, <1>3, <1>4, <1>5

LEMMA HistoryStep ==
  ASSUME TypeOK, History, KindsKept, CrashHasCause, [Next]_vars
  PROVE  History' /\ KindsKept' /\ CrashHasCause'
<1>1. CASE UNCHANGED vars
  BY <1>1 DEF vars, History, KindsKept, CrashHasCause
<1>2. CASE OtherCall
  <2>1. fs = before /\ before' = before /\ status' \notin {"idle", "running", "crashed"}
    BY <1>2 DEF OtherCall, History
  <2>2. History' /\ CrashHasCause'
    BY <2>1 DEF History, CrashHasCause
  <2>3. KindsKept'
    BY <1>2, <2>1 DEF OtherCall, KindsKept
  <2>. QED
    BY <2>2, <2>3
<1>3. ASSUME NEW p \in Path, NEW q \in Path, CopyFolder(p, q)
      PROVE  History' /\ KindsKept' /\ CrashHasCause'
  <2>1. /\ fs = before /\ IsFileSystem(before) /\ before' = before /\ stack = <<>>
        /\ call'.name = "CopyFolder" /\ call'.src = p /\ call'.dst = q
        /\ Grows(before, fs', q) /\ (Pushes(p, q, <<>>) \/ GivesUp(p, q))
        /\ status' \in {"running", "-1", "crashed"}
        /\ status' = "running" => Pushes(p, q, <<>>)
    BY <1>3, BegunFacts
  <2>2. KindsKept'
    BY <2>1 DEF KindsKept, Grows
  <2>3. History'
    BY <2>1 DEF History, Pushes, IsDir, HasFile
  <2>4. CrashHasCause'
    <3>1. CASE Pushes(p, q, <<>>)
      BY <3>1 DEF Pushes, CrashHasCause
    <3>2. CASE GivesUp(p, q)
      <4>1. status' = "crashed" => HasFile(p) /\ ~(IsDir(p) /\ handles < MaxHandles) /\ handles' = handles
        BY <3>2 DEF GivesUp
      <4>2. p \in DOMAIN before => before[p].kind \in {"dir", "file"}
        BY <2>1 DEF IsFileSystem
      <4>3. handles \in 0 .. MaxHandles /\ MaxHandles \in Nat
        BY LimitsAssumption DEF TypeOK
      <4>. QED
        BY <2>1, <4>1, <4>2, <4>3 DEF CrashHasCause, IsDir, HasFile
    <3>. QED
      BY <2>1, <3>1, <3>2
  <2>. QED
    BY <2>2, <2>3, <2>4
<1>4. ASSUME NEW n \in Names, ReadEntry(n)
      PROVE  History' /\ KindsKept' /\ CrashHasCause'
  <2>1. status = "running" /\ UNCHANGED <<call, before>>
    BY <1>4, ReadEntryCases
  <2>2. PICK p \in Path, q \in Path : p \in DOMAIN fs /\ Reads(n, p, q)
    BY <1>4, ReadEntryCases
  <2>3. Steady
    BY <2>2, OutcomeSteady
  <2>4. call.name = "CopyFolder" /\ call.src \in DOMAIN before
    BY <2>1 DEF History
  <2>5. KindsKept'
    BY <2>1, <2>3, <2>4, CopyingKinds DEF KindsKept, Steady
  <2>6. status' # "idle" /\ (status' = "crashed" => handles' = MaxHandles)
    <3>1. status' = "crashed" => IsDir(p) /\ GivesUp(p, q)
      BY <2>1, <2>2 DEF Reads, FailsToClose, SkipsFolder, EntersFolder, CopiesFile, FailsIn, FailsOn, Pushes
    <3>2. status' # "idle"
      BY <2>1, <2>2
      DEF Reads, FailsToClose, SkipsFolder, EntersFolder, CopiesFile, FailsIn, FailsOn, Pushes, GivesUp
    <3>3. ASSUME status' = "crashed" PROVE handles' = MaxHandles
      <4>1. IsDir(p) /\ handles' = handles /\ ~(IsDir(p) /\ handles < MaxHandles)
        BY <3>1, <3>3 DEF GivesUp
      <4>2. handles \in 0 .. MaxHandles /\ MaxHandles \in Nat
        BY LimitsAssumption DEF TypeOK
      <4>. QED
        BY <4>1, <4>2
    <3>. QED
      BY <3>2, <3>3
  <2>7. History'
    BY <2>1, <2>4, <2>6 DEF History
  <2>8. CrashHasCause'
    BY <2>1, <2>4, <2>6 DEF CrashHasCause
  <2>. QED
    BY <2>5, <2>7, <2>8
<1>5. CASE EndFolder
  <2>1. status = "running" /\ UNCHANGED <<fs, handles, call, before>> /\ status' \in {"0", "running"}
    BY <1>5 DEF EndFolder
  <2>2. KindsKept'
    BY <2>1 DEF KindsKept
  <2>3. History' /\ CrashHasCause'
    BY <2>1 DEF History, CrashHasCause
  <2>. QED
    BY <2>2, <2>3
<1>. QED
  BY <1>1, <1>2, <1>3, <1>4, <1>5, NextCases

\* CopyFolder ends the program only where its source was a regular file or no
\* handle was left for a folder; the source itself was there.
THEOREM CrashesExplained == Spec => []CrashHasCause
BY TypeInit, TypeStep, HistoryInit, HistoryStep, PTL DEF Spec

-----------------------------------------------------------------------------
(* The frames of CopyFolder.                                               *)

\* A frame's folders are the same way from the source and from the target, a
\* way through no hidden folder.
Fits(f, src, dst) ==
  \E r \in Path : /\ f.src = src \o r /\ f.dst = dst \o r
                  /\ \A j \in 1 .. Len(r) : r[j] \notin Hidden

\* It is going to read what was there before.
Expects(f, tree) == \A n \in Names : Append(f.src, n) \in DOMAIN tree => n \in f.must

FramesFit ==
  \A i \in DOMAIN stack : Fits(stack[i], call.src, call.dst) /\ Expects(stack[i], before)

LEMMA FitsFirst ==
  ASSUME NEW src \in Path, NEW dst \in Path, NEW tree
  PROVE  Fits(NewFrame(src, dst, tree), src, dst)
<1>1. <<>> \in Path /\ Len(<<>>) = 0 /\ src \o <<>> = src /\ dst \o <<>> = dst
  BY DEF Path
<1>. DEFINE f == NewFrame(src, dst, tree)
<1>2. f.src = src /\ f.dst = dst
  BY NewFrameFits
<1>. HIDE DEF f
<1>3. \A j \in 1 .. Len(<<>>) : <<>>[j] \notin Hidden
  BY <1>1
<1>4. Fits(f, src, dst)
  BY <1>1, <1>2, <1>3 DEF Fits
<1>. QED
  BY <1>4 DEF f

LEMMA FitsNext ==
  ASSUME NEW src \in Path, NEW dst \in Path, NEW f \in Frame, Fits(f, src, dst),
         NEW n \in Names, n \notin Hidden,
         NEW g, g.src = Append(f.src, n), g.dst = Append(f.dst, n)
  PROVE  Fits(g, src, dst)
<1>1. PICK r \in Path : /\ f.src = src \o r /\ f.dst = dst \o r
                        /\ \A j \in 1 .. Len(r) : r[j] \notin Hidden
  BY DEF Fits
<1>2. Append(r, n) \in Path /\ g.src = src \o Append(r, n) /\ g.dst = dst \o Append(r, n)
  <2>1. Append(r, n) \in Path
    BY AppendName
  <2>2. Append(src \o r, n) = src \o Append(r, n) /\ Append(dst \o r, n) = dst \o Append(r, n)
    BY ConcatName
  <2>. QED
    BY <1>1, <2>1, <2>2
<1>3. \A j \in 1 .. Len(Append(r, n)) : Append(r, n)[j] \notin Hidden
  <2>1. Len(r) \in Nat
    BY DEF Path
  <2>2. Len(Append(r, n)) = Len(r) + 1 /\ Append(r, n)[Len(r) + 1] = n
    BY AppendName
  <2>3. \A j \in 1 .. Len(r) : Append(r, n)[j] = r[j]
    BY <2>1 DEF Path
  <2>. QED
    BY <1>1, <2>1, <2>2, <2>3
<1>. QED
  BY <1>2, <1>3 DEF Fits

LEMMA OuterFits ==
  ASSUME TypeOK, FramesFit, status = "running", NEW n \in Names, NEW i \in DOMAIN stack
  PROVE  Fits(Outer(n)[i], call.src, call.dst) /\ Expects(Outer(n)[i], before)
<1>1. /\ Outer(n)[i].src = stack[i].src /\ Outer(n)[i].dst = stack[i].dst
      /\ Outer(n)[i].must = stack[i].must
  BY OuterFrames
<1>2. Fits(stack[i], call.src, call.dst) /\ Expects(stack[i], before)
  BY DEF FramesFit
<1>. QED
  BY <1>1, <1>2 DEF Fits, Expects

LEMMA FramesFitStep ==
  ASSUME TypeOK, History, KindsKept, FramesFit, [Next]_vars
  PROVE  FramesFit'
<1>1. CASE stack' = <<>>
  BY <1>1 DEF FramesFit
<1>2. CASE UNCHANGED vars
  BY <1>2 DEF vars, FramesFit
<1>3. ASSUME NEW p \in Path, NEW q \in Path, CopyFolder(p, q), stack' # <<>>
      PROVE  FramesFit'
  <2>1. /\ before' = before /\ stack = <<>> /\ call'.src = p /\ call'.dst = q
        /\ Grows(before, fs', q) /\ (Pushes(p, q, <<>>) \/ GivesUp(p, q))
    BY <1>3, BegunFacts
  <2>2. Pushes(p, q, <<>>)
    BY <1>3, <2>1 DEF GivesUp
  <2>. DEFINE f == NewFrame(p, q, fs')
  <2>3. Fits(f, p, q)
    BY FitsFirst
  <2>4. Expects(f, before)
    BY <2>1, NewFrameFits DEF Expects, Grows
  <2>5. stack' = Append(<<>>, f)
    BY <2>2 DEF Pushes
  <2>. HIDE DEF f
  <2>6. DOMAIN stack' = {1} /\ stack'[1] = f
    BY <2>5
  <2>. QED
    BY <2>1, <2>3, <2>4, <2>6 DEF FramesFit
<1>4. ASSUME NEW n \in Names, ReadEntry(n), stack' # <<>>
      PROVE  FramesFit'
  <2>1. status = "running" /\ UNCHANGED <<call, before>>
    BY <1>4, ReadEntryCases
  <2>2. PICK p \in Path, q \in Path :
          /\ p = Append(stack[Len(stack)].src, n) /\ q = Append(stack[Len(stack)].dst, n)
          /\ p \in DOMAIN fs /\ Reads(n, p, q)
    BY <1>4, ReadEntryCases
  <2>3. /\ Outer(n) \in Seq(Frame) /\ Len(Outer(n)) = Len(stack) /\ DOMAIN Outer(n) = DOMAIN stack
        /\ DOMAIN stack = 1 .. Len(stack) /\ Len(stack) \in Nat \ {0} /\ Len(stack) \in DOMAIN stack
        /\ stack[Len(stack)] \in Frame
    BY <2>1, OuterFrames
  <2>4. \A i \in DOMAIN stack :
          Fits(Outer(n)[i], call.src, call.dst) /\ Expects(Outer(n)[i], before)
    BY <2>1, OuterFits
  <2>5. CASE stack' = Outer(n)
    BY <2>1, <2>3, <2>4, <2>5 DEF FramesFit
  <2>6. CASE n \notin Hidden /\ Pushes(p, q, Outer(n))
    <3>1. Steady
      BY <2>2, OutcomeSteady
    <3>2. FramesThere(fs', Outer(n))
      BY <2>1, <3>1, FramesStay
    <3>3. /\ DOMAIN stack' = 1 .. Len(stack) + 1 /\ \A i \in 1 .. Len(stack) : stack'[i] = Outer(n)[i]
          /\ stack'[Len(stack) + 1] = NewFrame(p, q, fs')
      BY <2>3, <2>6, <3>1, <3>2, PushTyped
    <3>. DEFINE f == NewFrame(p, q, fs')
    <3>4. f.src = p /\ f.dst = q /\ f.must = {m \in Names : Append(p, m) \in DOMAIN fs'}
      BY NewFrameFits
    <3>5. Expects(f, before)
      <4>1. DOMAIN before \subseteq DOMAIN fs'
        BY <2>1, <3>1, CopyingKinds DEF History, Steady
      <4>. QED
        BY <3>4, <4>1 DEF Expects
    <3>6. Fits(f, call.src, call.dst)
      <4>1. Fits(stack[Len(stack)], call.src, call.dst) /\ call.src \in Path /\ call.dst \in Path
        BY <2>3 DEF FramesFit, TypeOK
      <4>. HIDE DEF f
      <4>. QED
        BY <2>2, <2>3, <2>6, <3>4, <4>1, FitsNext
    <3>. HIDE DEF f
    <3>7. ASSUME NEW i \in DOMAIN stack'
          PROVE  Fits(stack'[i], call.src, call.dst) /\ Expects(stack'[i], before)
      <4>1. CASE i = Len(stack) + 1
        BY <3>3, <3>5, <3>6, <4>1 DEF f
      <4>2. CASE i # Len(stack) + 1
        <5>1. i \in DOMAIN stack /\ stack'[i] = Outer(n)[i]
          BY <2>3, <3>3, <4>2
        <5>. QED
          BY <2>4, <5>1
      <4>. QED
        BY <4>1, <4>2
    <3>. QED
      BY <2>1, <3>7 DEF FramesFit
  <2>. QED
    BY <1>4, <2>2, <2>5, <2>6
    DEF Reads, FailsToClose, SkipsFolder, EntersFolder, CopiesFile, FailsIn, FailsOn, GivesUp
<1>5. CASE EndFolder
  <2>1. status = "running" /\ stack' = Front(stack) /\ UNCHANGED <<call, before>>
    BY <1>5 DEF EndFolder
  <2>2. \A i \in DOMAIN stack' : i \in DOMAIN stack /\ stack'[i] = stack[i]
    BY <2>1, FrontOfStack
  <2>. QED
    BY <2>1, <2>2 DEF FramesFit
<1>6. OtherCall => stack' = <<>>
  BY DEF OtherCall
<1>. QED
  BY <1>1, <1>2, <1>3, <1>4, <1>5, <1>6, NextCases

-----------------------------------------------------------------------------
(* What CopyFolder reaches.                                                *)

LEMMA ReachedMeans ==
  ASSUME TypeOK, NEW src \in Path, NEW r
  PROVE  r \in Reached(src) <=>
           /\ r \in Path /\ src \o r \in DOMAIN before
           /\ \A i \in 1 .. Len(r) :
                r[i] \in Hidden => i = Len(r) /\ before[src \o r].kind = "file"
<1>1. \A p \in DOMAIN before : p \in Path
  BY DEF TypeOK, IsFileSystem
<1>2. r \in Relative(src) <=> r \in Path /\ src \o r \in DOMAIN before
  <2>1. ASSUME r \in Relative(src) PROVE r \in Path /\ src \o r \in DOMAIN before
    <3>1. PICK p \in DOMAIN before : Under(src, p) /\ r = SubSeq(p, Len(src) + 1, Len(p))
      BY <2>1 DEF Relative
    <3>2. PICK s \in Path : s = SubSeq(p, Len(src) + 1, Len(p)) /\ p = src \o s
      BY <1>1, <3>1, UnderConcat
    <3>. QED
      BY <3>1, <3>2
  <2>2. ASSUME r \in Path, src \o r \in DOMAIN before PROVE r \in Relative(src)
    <3>1. Under(src, src \o r) /\ src \o r \in Path
      BY <2>2, Concat
    <3>2. PICK s \in Path : s = SubSeq(src \o r, Len(src) + 1, Len(src \o r)) /\ src \o r = src \o s
      BY <3>1, UnderConcat
    <3>3. s = r
      BY <2>2, <3>2, ConcatInjects
    <3>. QED
      BY <2>2, <3>1, <3>2, <3>3 DEF Relative
  <2>. QED
    BY <2>1, <2>2
<1>. QED
  BY <1>2 DEF Reached

\* Reached, for a file system that stays the same.
Reaches(b, src, r) ==
  /\ r \in Path /\ src \o r \in DOMAIN b
  /\ \A i \in 1 .. Len(r) : r[i] \in Hidden => i = Len(r) /\ b[src \o r].kind = "file"

\* What CopyFolder to another place, that found b, does to w.
Allowed(b, t, w, src, dst) ==
  \/ w \in DOMAIN b /\ t[w] = b[w]
  \/ w \notin DOMAIN b /\ w \in Prefixes(dst) /\ t[w] = Dir
  \/ \E r \in Path : /\ Reaches(b, src, r) /\ w = dst \o r
                     /\ w \in DOMAIN b \/ t[w].kind = b[src \o r].kind

OnlyAllowed ==
  call.name = "CopyFolder" /\ Apart(call.src, call.dst) =>
    \A w \in DOMAIN fs : Allowed(before, fs, w, call.src, call.dst)

\* The source is not touched.
LEMMA SourceKept ==
  ASSUME TypeOK, OnlyAllowed, call.name = "CopyFolder", Apart(call.src, call.dst),
         NEW w \in DOMAIN fs, Under(call.src, w)
  PROVE  w \in DOMAIN before /\ fs[w] = before[w]
<1>. DEFINE S == call.src
            D == call.dst
<1>1. S \in Path /\ D \in Path /\ w \in Path /\ ~Under(S, D) /\ ~Under(D, S) /\ Under(S, w)
  BY DEF TypeOK, IsFileSystem, Apart
<1>2. Allowed(before, fs, w, S, D)
  BY DEF OnlyAllowed
<1>. HIDE DEF S, D
<1>3. w \notin Prefixes(D)
  BY <1>1, UnderOrder, PrefixesAreUnder
<1>4. ASSUME NEW r \in Path, w = D \o r PROVE FALSE
  <2>1. Under(D, w)
    BY <1>1, <1>4, Concat
  <2>. QED
    BY <1>1, <2>1, UnderOrder
<1>. QED
  BY <1>2, <1>3, <1>4 DEF Allowed

LEMMA UnderAppend ==
  ASSUME NEW p \in Path, NEW n \in Names, NEW w \in Path, Under(w, Append(p, n))
  PROVE  w = Append(p, n) \/ Under(w, p)
<1>1. Append(p, n) \in Path /\ Len(Append(p, n)) = Len(p) + 1 /\ Under(p, Append(p, n))
  BY AppendName
<1>2. Len(p) \in Nat /\ Len(w) \in Nat
  BY DEF Path
<1>3. CASE Under(w, p)
  BY <1>3
<1>4. CASE ~Under(w, p)
  <2>1. Under(p, w)
    BY <1>1, <1>4, UnderOrder
  <2>2. Len(p) <= Len(w) /\ Len(w) <= Len(p) + 1
    BY <1>1, <2>1, UnderMeans
  <2>3. Len(w) # Len(p)
    <3>1. Len(w) = Len(p) => p = w
      BY <2>1, UnderMeans, PathsEqual
    <3>. QED
      BY <1>4, <3>1, UnderOrder
  <2>4. Len(w) = Len(Append(p, n))
    BY <1>1, <1>2, <2>2, <2>3
  <2>. QED
    BY <1>1, <2>4, UnderMeans, PathsEqual
<1>. QED
  BY <1>3, <1>4

\* What the entry that is read is to the call.
LEMMA EntryPlace ==
  ASSUME TypeOK, FramesFit, status = "running", NEW n \in Names
  PROVE  \E x \in Path :
           LET f == stack[Len(stack)]
               p == Append(f.src, n)
               q == Append(f.dst, n)
           IN  /\ f.src = call.src \o x /\ f.dst = call.dst \o x
               /\ \A j \in 1 .. Len(x) : x[j] \notin Hidden
               /\ Append(x, n) \in Path /\ Len(Append(x, n)) = Len(x) + 1
               /\ \A j \in 1 .. Len(x) : Append(x, n)[j] = x[j]
               /\ Append(x, n)[Len(x) + 1] = n
               /\ p = call.src \o Append(x, n) /\ q = call.dst \o Append(x, n)
               /\ p \in Path /\ q \in Path /\ Under(call.src, p) /\ Under(call.dst, q)
               /\ f.src \in Path /\ f.dst \in Path
               /\ f.src \in DOMAIN fs /\ fs[f.src] = Dir /\ f.dst \in DOMAIN fs
<1>. DEFINE f == stack[Len(stack)]
<1>1. Len(stack) \in DOMAIN stack /\ f \in Frame
  BY OuterFrames
<1>2. f.src \in DOMAIN fs /\ fs[f.src].kind = "dir" /\ f.dst \in DOMAIN fs
  BY <1>1 DEF TypeOK
<1>3. fs[f.src] = Dir /\ f.src \in Path /\ f.dst \in Path
  BY <1>2 DEF TypeOK, IsFileSystem
<1>4. PICK x \in Path : /\ f.src = call.src \o x /\ f.dst = call.dst \o x
                        /\ \A j \in 1 .. Len(x) : x[j] \notin Hidden
  BY <1>1 DEF FramesFit, Fits
<1>5. call.src \in Path /\ call.dst \in Path
  BY DEF TypeOK
<1>. HIDE DEF f
<1>6. /\ Append(x, n) \in Path /\ Len(Append(x, n)) = Len(x) + 1 /\ Append(x, n)[Len(x) + 1] = n
  BY AppendName
<1>7. \A j \in 1 .. Len(x) : Append(x, n)[j] = x[j]
  BY DEF Path
<1>8. Append(f.src, n) = call.src \o Append(x, n) /\ Append(f.dst, n) = call.dst \o Append(x, n)
  <2>1. \A s \in Path : Append(s \o x, n) = s \o Append(x, n)
    BY ConcatName
  <2>. QED
    BY <1>4, <1>5, <2>1
<1>9. /\ Append(f.src, n) \in Path /\ Under(call.src, Append(f.src, n))
      /\ Append(f.dst, n) \in Path /\ Under(call.dst, Append(f.dst, n))
  BY <1>5, <1>6, <1>8, Concat
<1>. QED
  BY <1>2, <1>3, <1>4, <1>6, <1>7, <1>8, <1>9 DEF f

LEMMA AllowedCallStep ==
  ASSUME TypeOK, History, NEW p \in Path, NEW q \in Path, CopyFolder(p, q)
  PROVE  OnlyAllowed'
<1>1. /\ before' = before /\ call'.src = p /\ call'.dst = q /\ Grows(before, fs', q)
  BY BegunFacts
<1>2. ASSUME NEW w \in DOMAIN fs' PROVE Allowed(before, fs', w, p, q)
  BY <1>1 DEF Allowed, Grows
<1>. QED
  BY <1>1, <1>2 DEF OnlyAllowed

LEMMA AllowedReadStep ==
  ASSUME TypeOK, History, FramesFit, OnlyAllowed, NEW n \in Names, ReadEntry(n)
  PROVE  OnlyAllowed'
<1>1. status = "running" /\ UNCHANGED <<call, before>> /\ call.name = "CopyFolder"
  BY ReadEntryCases DEF History
<1>0. PICK S \in Path, D \in Path : S = call.src /\ D = call.dst
  BY DEF TypeOK
<1>. SUFFICES ASSUME Apart(S, D), NEW w \in DOMAIN fs'
              PROVE  Allowed(before, fs', w, S, D)
  BY <1>0, <1>1 DEF OnlyAllowed
<1>. DEFINE f == stack[Len(stack)]
<1>2. PICK p \in Path, q \in Path :
        p = Append(f.src, n) /\ q = Append(f.dst, n) /\ p \in DOMAIN fs /\ Reads(n, p, q)
  BY ReadEntryCases
<1>3. PICK x \in Path :
        /\ \A j \in 1 .. Len(x) : x[j] \notin Hidden
        /\ Append(x, n) \in Path /\ Len(Append(x, n)) = Len(x) + 1
        /\ \A j \in 1 .. Len(x) : Append(x, n)[j] = x[j]
        /\ Append(x, n)[Len(x) + 1] = n
        /\ p = S \o Append(x, n) /\ q = D \o Append(x, n)
        /\ Under(S, p) /\ f.dst \in Path /\ f.dst \in DOMAIN fs
  BY <1>0, <1>1, <1>2, EntryPlace
<1>4. p \in DOMAIN before /\ fs[p] = before[p]
  BY <1>0, <1>1, <1>2, <1>3, SourceKept
<1>5. \A v \in DOMAIN fs : Allowed(before, fs, v, S, D)
  BY <1>0, <1>1 DEF OnlyAllowed
<1>6. ASSUME w \in DOMAIN fs, fs'[w] = fs[w] PROVE Allowed(before, fs', w, S, D)
  BY <1>5, <1>6 DEF Allowed
<1>. DEFINE r == Append(x, n)
<1>7. ASSUME n \notin Hidden \/ before[p].kind = "file" PROVE Reaches(before, S, r)
  <2>1. Len(x) \in Nat
    BY DEF Path
  <2>2. ASSUME NEW i \in 1 .. Len(r), r[i] \in Hidden PROVE i = Len(r) /\ before[p].kind = "file"
    BY <1>3, <1>7, <2>1, <2>2
  <2>. QED
    BY <1>3, <1>4, <2>2 DEF Reaches
<1>8. IsFileSystem(fs) /\ (fs[p].kind = "dir" \/ fs[p].kind = "file")
  BY <1>2 DEF TypeOK, IsFileSystem
<1>. HIDE DEF f, r
<1>9. CASE UNCHANGED fs
  BY <1>6, <1>9
<1>10. CASE IsDir(p) /\ n \notin Hidden /\ Grows(fs, fs', q)
  <2>1. CASE w \in DOMAIN fs
    BY <1>6, <1>10, <2>1 DEF Grows
  <2>2. CASE w \notin DOMAIN fs
    <3>1. w \in Prefixes(q) /\ fs'[w] = Dir
      BY <1>10, <2>2 DEF Grows
    <3>2. w \in Path /\ Under(w, q)
      BY <1>2, <3>1, PrefixesAreUnder
    <3>3. w = q \/ Under(w, f.dst)
      BY <1>2, <1>3, <3>2, UnderAppend
    <3>4. w = q
      BY <1>3, <1>8, <2>2, <3>2, <3>3, WayExists
    <3>5. Reaches(before, S, r) /\ fs'[w].kind = before[S \o r].kind
      BY <1>3, <1>4, <1>7, <1>10, <3>1 DEF Dir, IsDir, r
    <3>. QED
      BY <1>3, <3>4, <3>5 DEF Allowed, r, Reaches
  <2>. QED
    BY <2>1, <2>2
<1>11. CASE ~IsDir(p) /\ \E d : fs' = Written(q, d)
  <2>1. ~IsDir(p)
    BY <1>11
  <2>4. PICK d : fs' = Written(q, d)
    BY <1>11
  <2>5. /\ DOMAIN fs' = DOMAIN fs \cup {q} /\ fs'[q] = File(d)
        /\ \A v \in DOMAIN fs : v # q => fs'[v] = fs[v]
    BY <2>4 DEF Written
  <2>2. CASE w = q
    <3>1. fs'[q].kind = "file"
      BY <2>5 DEF File
    <3>2. before[p].kind = "file"
      BY <1>2, <1>4, <1>8, <2>1 DEF IsDir, HasFile
    <3>3. Reaches(before, S, r)
      BY <1>7, <3>2
    <3>. QED
      BY <1>3, <2>2, <3>1, <3>2, <3>3 DEF Allowed, r, Reaches
  <2>3. CASE w # q
    <3>1. w \in DOMAIN fs /\ fs'[w] = fs[w]
      BY <2>3, <2>5
    <3>. QED
      BY <1>6, <3>1
  <2>. QED
    BY <2>2, <2>3
<1>12. CASE CopiesFile(n, p, q) \/ FailsToClose(p, q)
  BY <1>11, <1>12 DEF CopiesFile, FailsToClose, OpensBoth
<1>. QED
  BY <1>2, <1>9, <1>10, <1>12 DEF Reads, SkipsFolder, EntersFolder, FailsIn, FailsOn

LEMMA OnlyAllowedStep ==
  ASSUME TypeOK, History, KindsKept, FramesFit, OnlyAllowed, [Next]_vars
  PROVE  OnlyAllowed'
<1>1. CASE UNCHANGED vars \/ EndFolder
  <2>1. UNCHANGED <<fs, call, before>>
    BY <1>1 DEF vars, EndFolder
  <2>. QED
    BY <2>1 DEF OnlyAllowed
<1>2. CASE OtherCall
  BY <1>2 DEF OtherCall, OnlyAllowed
<1>. QED
  BY <1>1, <1>2, AllowedCallStep, AllowedReadStep, NextCases

LEMMA TargetsFromAllowed ==
  ASSUME TypeOK, KindsKept, OnlyAllowed
  PROVE  OnlyTargetsWritten
<1>1. ASSUME NEW src \in Paths, NEW dst \in Paths, Copying(src, dst), Apart(src, dst), NEW p \in DOMAIN fs
      PROVE  \/ p \in DOMAIN before /\ fs[p] = before[p]
             \/ p \notin DOMAIN before /\ p \in Prefixes(dst)
             \/ \E r \in Reached(src) : p = dst \o r
  <2>1. call.name = "CopyFolder" /\ call.src = src /\ call.dst = dst /\ src \in Path
    BY <1>1, PathsArePaths DEF Copying
  <2>2. Allowed(before, fs, p, src, dst)
    BY <1>1, <2>1 DEF OnlyAllowed
  <2>3. \A r \in Path : Reaches(before, src, r) => r \in Reached(src)
    BY <2>1, ReachedMeans DEF Reaches
  <2>. QED
    BY <2>2, <2>3 DEF Allowed
<1>. QED
  BY <1>1 DEF OnlyTargetsWritten, KindsKept

CopyInv == TypeOK /\ History /\ KindsKept /\ CrashHasCause /\ FramesFit /\ OnlyAllowed

LEMMA CopyInvInit == Init => CopyInv
<1>. SUFFICES ASSUME Init PROVE CopyInv
  OBVIOUS
<1>1. FramesFit
  BY DEF Init, FramesFit
<1>2. OnlyAllowed
  BY DEF Init, OnlyAllowed
<1>. QED
  BY <1>1, <1>2, TypeInit, HistoryInit DEF CopyInv

LEMMA CopyInvStep == CopyInv /\ [Next]_vars => CopyInv'
<1>. SUFFICES ASSUME CopyInv, [Next]_vars PROVE CopyInv'
  OBVIOUS
<1>1. TypeOK /\ History /\ KindsKept /\ CrashHasCause /\ FramesFit /\ OnlyAllowed
  BY DEF CopyInv
<1>2. TypeOK'
  BY <1>1, TypeStep
<1>3. History' /\ KindsKept' /\ CrashHasCause'
  BY <1>1, HistoryStep
<1>4. FramesFit'
  BY <1>1, FramesFitStep
<1>5. OnlyAllowed'
  BY <1>1, OnlyAllowedStep
<1>. QED
  BY <1>2, <1>3, <1>4, <1>5 DEF CopyInv

\* At every step of CopyFolder to another place, everything but the targets of
\* what it reaches and new folders on the way to the target is as it was; and
\* no call but DeleteFile, of a file, removes anything or changes its kind.
THEOREM OthersUntouched == Spec => []OnlyTargetsWritten
<1>1. CopyInv => OnlyTargetsWritten
  BY TargetsFromAllowed DEF CopyInv
<1>. QED
  BY <1>1, CopyInvInit, CopyInvStep, PTL DEF Spec

-----------------------------------------------------------------------------
(* Why a call fails.                                                       *)

BlockedIn(b, p) ==
  \E q \in Prefixes(p) : Len(q) > MaxDepth \/ (q \in DOMAIN b /\ b[q].kind = "file")

Clash(b, src, dst, r) ==
  /\ Reaches(b, src, r)
  /\ Len(dst \o r) > MaxDepth \/ (dst \o r \in DOMAIN b /\ b[dst \o r].kind # b[src \o r].kind)

Cause(b, h, src, dst) ==
  \/ src \notin DOMAIN b \/ BlockedIn(b, dst) \/ h >= MaxHandles - 1
  \/ \E r \in Path : Clash(b, src, dst, r)

FailsForCause ==
  status = "-1" =>
    /\ call.name = "CopyFolder" /\ Apart(call.src, call.dst) =>
         Cause(before, handles, call.src, call.dst) \/ closeFailed
    /\ call.name = "CreateDir" => BlockedIn(before, call.src)

LEMMA NotCreated ==
  ASSUME IsFileSystem(fs), NEW p \in Path, ~CreatesAll(p)
  PROVE  BlockedIn(fs, p)
<1>1. PICK q \in Prefixes(p) : q \notin Made(p)
  BY DEF CreatesAll, Made
<1>2. q \in Path /\ Under(q, p)
  BY PrefixesAreUnder
<1>3. CASE Len(q) > MaxDepth
  BY <1>1, <1>3 DEF BlockedIn
<1>4. CASE ~(Len(q) > MaxDepth)
  <2>1. Len(q) <= MaxDepth
    BY <1>2, <1>4, LimitsAssumption DEF Path
  <2>2. PICK r \in Prefixes(q) : IsFile(r)
    BY <1>1, <2>1 DEF Made
  <2>3. r \in Path /\ Under(r, q)
    BY <1>2, PrefixesAreUnder
  <2>4. Under(r, p)
    BY <1>2, <2>3, UnderOrder
  <2>5. r \in Prefixes(p)
    BY <2>3, <2>4, PrefixesAreUnder
  <2>. QED
    BY <2>2, <2>5 DEF BlockedIn, IsFile, HasFile
<1>. QED
  BY <1>3, <1>4

\* The target of a reached thing is of the thing's kind, or was there before.
LEMMA OtherKind ==
  ASSUME TypeOK, KindsKept, OnlyAllowed, call.name = "CopyFolder", Apart(call.src, call.dst),
         NEW r \in Path, Reaches(before, call.src, r), call.dst \o r \in DOMAIN fs,
         fs[call.dst \o r].kind # before[call.src \o r].kind,
         r # <<>> \/ before[call.src \o r].kind = "dir"
  PROVE  Clash(before, call.src, call.dst, r)
<1>1. PICK S \in Path, D \in Path : S = call.src /\ D = call.dst
  BY DEF TypeOK
<1>2. PICK q \in Path : q = D \o r /\ q \in DOMAIN fs /\ fs[q].kind # before[S \o r].kind
  BY <1>1, Concat
<1>3. Allowed(before, fs, q, S, D)
  BY <1>1, <1>2 DEF OnlyAllowed
<1>4. CASE q \in DOMAIN before
  <2>1. before[q].kind = fs[q].kind
    BY <1>4, CopyingKinds
  <2>. QED
    BY <1>1, <1>2, <1>4, <2>1 DEF Clash
<1>5. CASE q \notin DOMAIN before
  <2>1. ASSUME q \in Prefixes(D), fs[q] = Dir PROVE FALSE
    <3>1. Under(q, D) /\ Under(D, q)
      BY <1>2, <2>1, PrefixesAreUnder, Concat
    <3>2. q = D
      BY <3>1, UnderOrder
    <3>3. r = <<>>
      <4>1. D \o r = D \o <<>> /\ <<>> \in Path
        BY <1>2, <3>2 DEF Path
      <4>. QED
        BY <4>1, ConcatInjects
    <3>4. before[S \o r].kind = "dir"
      BY <1>1, <3>3
    <3>. QED
      BY <1>2, <2>1, <3>4 DEF Dir
  <2>2. PICK s \in Path : q = D \o s /\ fs[q].kind = before[S \o s].kind
    BY <1>3, <1>5, <2>1 DEF Allowed
  <2>3. s = r
    BY <1>2, <2>2, ConcatInjects
  <2>. QED
    BY <1>2, <2>2, <2>3
<1>. QED
  BY <1>4, <1>5

LEMMA ReadFailsForCause ==
  ASSUME TypeOK, History, KindsKept, FramesFit, OnlyAllowed, FailsForCause,
         NEW n \in Names, ReadEntry(n), Apart(call.src, call.dst), status' = "-1", ~closeFailed'
  PROVE  Cause(before, handles', call.src, call.dst)
<1>1. status = "running" /\ UNCHANGED <<call, before>> /\ call.name = "CopyFolder"
  BY ReadEntryCases DEF History
<1>2. PICK S \in Path, D \in Path : S = call.src /\ D = call.dst /\ Apart(S, D)
  BY DEF TypeOK
<1>. SUFFICES Cause(before, handles', S, D)
  BY <1>2
<1>. DEFINE f == stack[Len(stack)]
<1>3. PICK p \in Path, q \in Path :
        p = Append(f.src, n) /\ q = Append(f.dst, n) /\ p \in DOMAIN fs /\ Reads(n, p, q)
  BY ReadEntryCases
<1>4. PICK x \in Path :
        /\ f.src = S \o x /\ f.dst = D \o x
        /\ \A j \in 1 .. Len(x) : x[j] \notin Hidden
        /\ Append(x, n) \in Path /\ Len(Append(x, n)) = Len(x) + 1
        /\ \A j \in 1 .. Len(x) : Append(x, n)[j] = x[j]
        /\ Append(x, n)[Len(x) + 1] = n
        /\ p = S \o Append(x, n) /\ q = D \o Append(x, n)
        /\ p \in Path /\ q \in Path /\ Under(S, p) /\ Under(D, q)
        /\ f.src \in Path /\ f.dst \in Path
        /\ f.src \in DOMAIN fs /\ fs[f.src] = Dir /\ f.dst \in DOMAIN fs
  BY <1>1, <1>2, <1>3, EntryPlace
<1>5. PICK s \in Path, d \in Path :
        s = f.src /\ d = f.dst /\ s \in DOMAIN fs /\ d \in DOMAIN fs /\ fs[s] = Dir
  BY <1>4
<1>6. s = S \o x /\ d = D \o x /\ p = Append(s, n) /\ q = Append(d, n) /\ Under(S, s)
  BY <1>3, <1>4, <1>5, Concat
<1>. HIDE DEF f
<1>7. p \in DOMAIN before /\ fs[p] = before[p]
  BY <1>1, <1>2, <1>3, <1>4, SourceKept
<1>8. s \in DOMAIN before /\ before[s] = Dir
  BY <1>1, <1>2, <1>5, <1>6, SourceKept
<1>9. Reaches(before, S, x)
  BY <1>4, <1>6, <1>8 DEF Reaches
<1>10. IsFileSystem(fs) /\ (fs[p].kind = "dir" \/ fs[p].kind = "file")
  BY <1>3 DEF TypeOK, IsFileSystem
<1>11. ASSUME fs[d].kind # "dir" PROVE Cause(before, handles', S, D)
  <2>1. before[s].kind = "dir"
    BY <1>8 DEF Dir
  <2>2. Clash(before, S, D, x)
    BY <1>1, <1>2, <1>5, <1>6, <1>9, <1>11, <2>1, OtherKind
  <2>. QED
    BY <2>2 DEF Cause
<1>12. ASSUME n \notin Hidden \/ before[p].kind = "file" PROVE Reaches(before, S, Append(x, n))
  <2>1. Len(x) \in Nat
    BY DEF Path
  <2>2. ASSUME NEW i \in 1 .. Len(Append(x, n)), Append(x, n)[i] \in Hidden
        PROVE  i = Len(Append(x, n)) /\ before[p].kind = "file"
    BY <1>4, <1>12, <2>1, <2>2
  <2>. QED
    BY <1>4, <1>7, <2>2 DEF Reaches
<1>13. ASSUME n \notin Hidden \/ before[p].kind = "file", Len(q) > MaxDepth
       PROVE  Cause(before, handles', S, D)
  <2>1. Clash(before, S, D, Append(x, n))
    BY <1>4, <1>12, <1>13 DEF Clash
  <2>. QED
    BY <1>4, <2>1 DEF Cause
<1>14. CASE FailsIn(n, p, q)
  <2>1. n \notin Hidden /\ ~HasFile(q) /\ ~CreatesAll(q)
    BY <1>3, <1>14 DEF FailsIn, GivesUp, Missing, HasFile, TargetReady
  <2>2. PICK w \in Prefixes(q) : Len(w) > MaxDepth \/ (w \in DOMAIN fs /\ fs[w].kind = "file")
    BY <1>10, <2>1, NotCreated DEF BlockedIn
  <2>3. w \in Path /\ Under(w, q)
    BY PrefixesAreUnder
  <2>4. CASE Len(w) > MaxDepth
    <3>1. Len(w) <= Len(q) /\ Len(w) \in Nat /\ Len(q) \in Nat
      BY <2>3, UnderMeans DEF Path
    <3>2. Len(q) > MaxDepth
      BY <2>4, <3>1, LimitsAssumption
    <3>. QED
      BY <1>13, <2>1, <3>2
  <2>5. CASE w \in DOMAIN fs /\ fs[w].kind = "file"
    <3>1. w # q
      BY <2>1, <2>5 DEF HasFile
    <3>2. Under(w, d)
      BY <1>6, <2>3, <3>1, UnderAppend
    <3>3. w = d
      <4>1. w # d => fs[w] = Dir
        BY <1>5, <1>10, <2>3, <3>2, WayExists
      <4>. QED
        BY <2>5, <4>1 DEF Dir
    <3>. QED
      BY <1>11, <2>5, <3>3
  <2>. QED
    BY <2>2, <2>4, <2>5
<1>15. CASE FailsOn(p, q)
  <2>1. handles' >= handles /\ handles' \in Nat /\ handles \in Nat
    <3>1. HandlesAfter(p, q) \in handles .. MaxHandles
      BY HandlesTyped
    <3>. QED
      BY <1>15, <3>1, LimitsAssumption DEF FailsOn, TypeOK
  <2>2. before[p].kind = "file"
    BY <1>3, <1>7, <1>10, <1>15 DEF FailsOn, IsDir, HasFile
  <2>3. CASE handles + 1 >= MaxHandles
    <3>1. handles' >= MaxHandles - 1
      BY <2>1, <2>3, LimitsAssumption
    <3>. QED
      BY <3>1 DEF Cause
  <2>4. CASE ~(handles + 1 >= MaxHandles)
    <3>1. ~Writable(q)
      BY <1>3, <1>15, <2>1, <2>4, LimitsAssumption DEF FailsOn, OpensBoth, HasFile
    <3>2. Front(q) = d
      BY <1>6, AppendName
    <3>3. CASE HasFile(q)
      <4>1. fs[q].kind # "file" /\ q \in DOMAIN fs
        BY <3>1, <3>3 DEF Writable, IsFile, HasFile
      <4>2. Append(x, n) # <<>>
        BY AppendName
      <4>3. Reaches(before, S, Append(x, n))
        BY <1>12, <2>2
      <4>4. Clash(before, S, D, Append(x, n))
        BY <1>1, <1>2, <1>4, <2>2, <4>1, <4>2, <4>3, OtherKind
      <4>. QED
        BY <1>4, <4>4 DEF Cause
    <3>4. CASE ~HasFile(q) /\ Len(q) > MaxDepth
      BY <1>13, <2>2, <3>4
    <3>5. CASE ~HasFile(q) /\ ~(Len(q) > MaxDepth)
      <4>1. Len(q) <= MaxDepth
        BY <3>5, LimitsAssumption DEF Path
      <4>2. fs[d].kind # "dir"
        BY <1>5, <3>1, <3>2, <3>5, <4>1 DEF Writable, IsDir, HasFile
      <4>. QED
        BY <1>11, <4>2
    <3>. QED
      BY <3>3, <3>4, <3>5
  <2>. QED
    BY <2>3, <2>4
<1>16. FailsIn(n, p, q) \/ FailsOn(p, q)
  BY <1>1, <1>3 DEF Reads, FailsToClose, SkipsFolder, EntersFolder, CopiesFile, Pushes
<1>. QED
  BY <1>2, <1>14, <1>15, <1>16

LEMMA FailsForCauseStep ==
  ASSUME CopyInv, FailsForCause, [Next]_vars
  PROVE  FailsForCause'
<1>1. TypeOK /\ History /\ KindsKept /\ FramesFit /\ OnlyAllowed
  BY DEF CopyInv
<1>2. CASE UNCHANGED vars
  BY <1>2 DEF vars, FailsForCause
<1>3. CASE OtherCall
  <2>1. fs = before /\ before' = before /\ IsFileSystem(fs) /\ call'.name # "CopyFolder"
    BY <1>1, <1>3 DEF OtherCall, History, TypeOK
  <2>2. ASSUME status' = "-1", call'.name = "CreateDir" PROVE BlockedIn(before, call'.src)
    <3>1. PICK s \in Path : s = call'.src /\ ~CreatesAll(s)
      BY <1>3, <2>2 DEF OtherCall
    <3>. QED
      BY <2>1, <3>1, NotCreated
  <2>. QED
    BY <2>1, <2>2 DEF FailsForCause
<1>4. ASSUME NEW p \in Path, NEW q \in Path, CopyFolder(p, q)
      PROVE  FailsForCause'
  <2>1. /\ fs = before /\ IsFileSystem(before) /\ before' = before
        /\ call'.name = "CopyFolder" /\ call'.src = p /\ call'.dst = q
        /\ Pushes(p, q, <<>>) \/ GivesUp(p, q)
    BY <1>1, <1>4, BegunFacts
  <2>2. ASSUME status' = "-1" PROVE Cause(before, handles', p, q)
    <3>1. Missing(p) \/ ~CreatesAll(q)
      BY <2>1, <2>2 DEF Pushes, GivesUp, TargetReady
    <3>2. CASE Missing(p)
      BY <2>1, <3>2 DEF Missing, HasFile, Cause
    <3>3. CASE ~CreatesAll(q)
      <4>1. BlockedIn(before, q)
        BY <2>1, <3>3, NotCreated
      <4>. QED
        BY <4>1 DEF Cause
    <3>. QED
      BY <3>1, <3>2, <3>3
  <2>. QED
    BY <2>1, <2>2 DEF FailsForCause
<1>5. ASSUME NEW n \in Names, ReadEntry(n)
      PROVE  FailsForCause'
  <2>1. UNCHANGED <<call, before>> /\ call.name = "CopyFolder"
    BY <1>1, <1>5, ReadEntryCases DEF History
  <2>2. ASSUME status' = "-1", Apart(call.src, call.dst), ~closeFailed'
        PROVE  Cause(before, handles', call.src, call.dst)
    BY <1>1, <1>5, <2>2, ReadFailsForCause
  <2>. QED
    BY <2>1, <2>2 DEF FailsForCause
<1>6. CASE EndFolder
  <2>1. status' # "-1"
    BY <1>6 DEF EndFolder
  <2>. QED
    BY <2>1 DEF FailsForCause
<1>. QED
  BY <1>1, <1>2, <1>3, <1>4, <1>5, <1>6, NextCases

LEMMA FailureFromCause ==
  ASSUME TypeOK, FailsForCause
  PROVE  FailureHasCause
<1>1. \A p : BlockedIn(before, p) => Blocked(p)
  BY DEF BlockedIn, Blocked
<1>2. ASSUME status = "-1", NEW src \in Paths, NEW dst \in Paths, Copying(src, dst), Apart(src, dst)
      PROVE  \/ src \notin DOMAIN before \/ Blocked(dst) \/ handles >= MaxHandles - 1
             \/ closeFailed
             \/ \E r \in Reached(src) :
                  \/ Len(dst \o r) > MaxDepth
                  \/ dst \o r \in DOMAIN before /\ before[dst \o r].kind # before[src \o r].kind
  <2>1. call.name = "CopyFolder" /\ call.src = src /\ call.dst = dst /\ src \in Path
    BY <1>2, PathsArePaths DEF Copying
  <2>2. Cause(before, handles, src, dst) \/ closeFailed
    BY <1>2, <2>1 DEF FailsForCause
  <2>3. \A r \in Path : Reaches(before, src, r) => r \in Reached(src)
    BY <2>1, ReachedMeans DEF Reaches
  <2>4. \A r \in Path : Clash(before, src, dst, r) =>
          /\ r \in Reached(src)
          /\ \/ Len(dst \o r) > MaxDepth
             \/ dst \o r \in DOMAIN before /\ before[dst \o r].kind # before[src \o r].kind
    BY <2>3 DEF Clash
  <2>. QED
    BY <1>1, <2>2, <2>4 DEF Cause
<1>. QED
  BY <1>1, <1>2 DEF FailureHasCause, FailsForCause

\* When CopyFolder to another place or CreateDir returns -1, something that was
\* there before the call was in the way: no source, a file where a folder is to
\* be or the other way round, a path too long, or no handle left; or, for
\* CopyFolder, a file could not be closed.
THEOREM FailuresExplained == Spec => []FailureHasCause
<1>. DEFINE Inv == CopyInv /\ FailsForCause
<1>1. Init => Inv
  BY CopyInvInit DEF Init, FailsForCause
<1>2. Inv /\ [Next]_vars => Inv'
  BY CopyInvStep, FailsForCauseStep
<1>3. Inv => FailureHasCause
  BY FailureFromCause DEF CopyInv
<1>. QED
  BY <1>1, <1>2, <1>3, PTL DEF Spec

-----------------------------------------------------------------------------
(* A folder copied into itself.                                            *)

\* A frame that is going to read a folder on the way to its own target.
Reenters(f) ==
  /\ Under(f.src, f.dst) /\ Len(f.src) < Len(f.dst)
  /\ f.dst[Len(f.src) + 1] \in f.must \ f.read
  /\ \A j \in Len(f.src) + 1 .. Len(f.dst) : f.dst[j] \notin Hidden

IntoItself(src, dst) ==
  /\ Under(src, dst) /\ Len(src) < Len(dst)
  /\ \A i \in Len(src) + 1 .. Len(dst) : dst[i] \notin Hidden

NeverOut ==
  call.name = "CopyFolder" /\ IntoItself(call.src, call.dst) =>
    /\ status # "0"
    /\ status = "running" => \E i \in DOMAIN stack : Reenters(stack[i])

\* The next name on the way from p to q.
LEMMA UnderNext ==
  ASSUME NEW p \in Path, NEW q \in Path, Under(p, q), Len(p) < Len(q)
  PROVE  /\ q[Len(p) + 1] \in Names /\ Append(p, q[Len(p) + 1]) \in Path
         /\ Under(Append(p, q[Len(p) + 1]), q)
<1>1. Len(p) \in Nat /\ Len(q) \in Nat
  BY DEF Path
<1>2. PICK n \in Names : n = q[Len(p) + 1]
  BY <1>1 DEF Path
<1>3. Append(p, n) \in Path /\ Len(Append(p, n)) = Len(p) + 1 /\ Append(p, n)[Len(p) + 1] = n
  BY AppendName
<1>4. \A i \in 1 .. Len(p) : Append(p, n)[i] = p[i]
  BY <1>1 DEF Path
<1>5. \A i \in 1 .. Len(p) : p[i] = q[i]
  BY UnderMeans
<1>6. \A i \in 1 .. Len(Append(p, n)) : Append(p, n)[i] = q[i]
  BY <1>1, <1>2, <1>3, <1>4, <1>5
<1>7. Len(Append(p, n)) <= Len(q)
  BY <1>1, <1>3
<1>8. Under(Append(p, n), q)
  BY <1>3, <1>6, <1>7, UnderMeans
<1>. QED
  BY <1>2, <1>3, <1>8

LEMMA ReentersNew ==
  ASSUME NEW t, IsFileSystem(t), NEW s \in Path, NEW d \in Path, d \in DOMAIN t, IntoItself(s, d)
  PROVE  Reenters(NewFrame(s, d, t))
<1>. DEFINE f == NewFrame(s, d, t)
<1>1. f.src = s /\ f.dst = d /\ f.read = {} /\ f.must = {n \in Names : Append(s, n) \in DOMAIN t}
  BY NewFrameFits
<1>. HIDE DEF f
<1>2. d[Len(s) + 1] \in Names /\ Append(s, d[Len(s) + 1]) \in Path /\ Under(Append(s, d[Len(s) + 1]), d)
  BY UnderNext DEF IntoItself
<1>3. Append(s, d[Len(s) + 1]) \in DOMAIN t
  BY <1>2, WayExists
<1>4. d[Len(s) + 1] \in f.must \ f.read
  BY <1>1, <1>2, <1>3
<1>5. Reenters(f)
  BY <1>1, <1>4 DEF IntoItself, Reenters
<1>. QED
  BY <1>5 DEF f

LEMMA ReentersNext ==
  ASSUME NEW s \in Path, NEW d \in Path, IntoItself(s, d), NEW n \in Names, n = d[Len(s) + 1]
  PROVE  IntoItself(Append(s, n), Append(d, n)) /\ n \notin Hidden /\ Under(Append(s, n), d)
<1>1. Len(s) \in Nat /\ Len(d) \in Nat /\ Len(s) < Len(d)
  BY DEF Path, IntoItself
<1>2. Under(Append(s, n), d)
  BY UnderNext DEF IntoItself
<1>3. /\ Append(s, n) \in Path /\ Len(Append(s, n)) = Len(s) + 1
      /\ Append(d, n) \in Path /\ Len(Append(d, n)) = Len(d) + 1
      /\ Append(d, n)[Len(d) + 1] = n /\ Under(d, Append(d, n))
  BY AppendName
<1>4. Under(Append(s, n), Append(d, n))
  BY <1>2, <1>3, UnderOrder
<1>5. \A i \in 1 .. Len(d) : Append(d, n)[i] = d[i]
  BY <1>1 DEF Path
<1>6. n \notin Hidden
  BY <1>1 DEF IntoItself
<1>7. ASSUME NEW j \in Len(Append(s, n)) + 1 .. Len(Append(d, n)) PROVE Append(d, n)[j] \notin Hidden
  <2>1. j \in Len(s) + 2 .. Len(d) + 1
    BY <1>3
  <2>2. CASE j = Len(d) + 1
    BY <1>3, <1>6, <2>2
  <2>3. CASE j # Len(d) + 1
    <3>1. j \in 1 .. Len(d) /\ j \in Len(s) + 1 .. Len(d)
      BY <1>1, <2>1, <2>3
    <3>. QED
      BY <1>5, <3>1 DEF IntoItself
  <2>. QED
    BY <2>2, <2>3
<1>8. Len(Append(s, n)) < Len(Append(d, n))
  BY <1>1, <1>3
<1>. QED
  BY <1>2, <1>4, <1>6, <1>7, <1>8 DEF IntoItself

LEMMA ReenteringRead ==
  ASSUME TypeOK, NEW n \in Names, ReadEntry(n), stack' # <<>>,
         NEW i \in DOMAIN stack, Reenters(stack[i])
  PROVE  \E j \in DOMAIN stack' : Reenters(stack'[j])
<1>1. status = "running"
  BY ReadEntryCases
<1>2. /\ Outer(n) \in Seq(Frame) /\ Len(Outer(n)) = Len(stack) /\ DOMAIN Outer(n) = DOMAIN stack
      /\ DOMAIN stack = 1 .. Len(stack) /\ Len(stack) \in Nat \ {0} /\ Len(stack) \in DOMAIN stack
      /\ stack[i] \in Frame
  BY <1>1, OuterFrames
<1>3. PICK p \in Path, q \in Path :
        /\ p = Append(stack[Len(stack)].src, n) /\ q = Append(stack[Len(stack)].dst, n)
        /\ p \in DOMAIN fs /\ Reads(n, p, q)
  BY ReadEntryCases
<1>4. PICK s \in Path, d \in Path : s = stack[i].src /\ d = stack[i].dst
  BY <1>2 DEF Frame
<1>5. IntoItself(s, d) /\ d[Len(s) + 1] \in stack[i].must \ stack[i].read
  BY <1>4 DEF Reenters, IntoItself
<1>6. Steady /\ IsFileSystem(fs')
  BY <1>3, OutcomeSteady DEF IsFileSystem, IsTree
<1>7. ASSUME Pushes(p, q, Outer(n))
      PROVE  /\ DOMAIN stack' = 1 .. Len(stack) + 1 /\ \A j \in 1 .. Len(stack) : stack'[j] = Outer(n)[j]
             /\ stack'[Len(stack) + 1] = NewFrame(p, q, fs') /\ q \in DOMAIN fs'
  <2>1. FramesThere(fs', Outer(n))
    BY <1>1, <1>6, FramesStay
  <2>2. q \in DOMAIN fs'
    BY <1>7 DEF Pushes
  <2>. QED
    BY <1>2, <1>6, <1>7, <2>1, <2>2, PushTyped
<1>8. SkipsFolder(n, p) \/ EntersFolder(n, p, q) \/ CopiesFile(n, p, q)
  BY <1>3 DEF Reads, FailsToClose, FailsIn, FailsOn, GivesUp
<1>9. CASE i # Len(stack) \/ n # d[Len(s) + 1]
  <2>1. /\ Outer(n)[i].src = s /\ Outer(n)[i].dst = d /\ Outer(n)[i].must = stack[i].must
        /\ Outer(n)[i].read = IF i = Len(stack) THEN stack[i].read \cup {n} ELSE stack[i].read
    BY <1>1, <1>4, OuterFrames
  <2>2. d[Len(s) + 1] \in Outer(n)[i].must \ Outer(n)[i].read
    BY <1>5, <1>9, <2>1
  <2>3. Reenters(Outer(n)[i])
    BY <1>5, <2>1, <2>2 DEF Reenters, IntoItself
  <2>4. CASE stack' = Outer(n)
    BY <1>2, <2>3, <2>4
  <2>5. CASE Pushes(p, q, Outer(n))
    <3>1. i \in DOMAIN stack' /\ stack'[i] = Outer(n)[i]
      BY <1>2, <1>7, <2>5
    <3>. QED
      BY <2>3, <3>1
  <2>. QED
    BY <1>8, <2>4, <2>5 DEF SkipsFolder, EntersFolder, CopiesFile
<1>10. CASE i = Len(stack) /\ n = d[Len(s) + 1]
  <2>1. p = Append(s, n) /\ q = Append(d, n)
    BY <1>3, <1>4, <1>10
  <2>2. IntoItself(p, q) /\ n \notin Hidden /\ Under(p, d)
    BY <1>5, <1>10, <2>1, ReentersNext
  <2>3. CASE EntersFolder(n, p, q)
    <3>1. Pushes(p, q, Outer(n))
      BY <2>3 DEF EntersFolder
    <3>2. Reenters(NewFrame(p, q, fs'))
      BY <1>6, <1>7, <2>2, <3>1, ReentersNew
    <3>3. Len(stack) + 1 \in DOMAIN stack' /\ stack'[Len(stack) + 1] = NewFrame(p, q, fs')
      BY <1>2, <1>7, <3>1
    <3>. QED
      BY <3>2, <3>3
  <2>4. ~CopiesFile(n, p, q)
    <3>. SUFFICES ASSUME CopiesFile(n, p, q) PROVE FALSE
      OBVIOUS
    <3>1. ~IsDir(p) /\ Writable(q) /\ IsFileSystem(fs) /\ d \in DOMAIN fs
      BY <1>4 DEF CopiesFile, OpensBoth, TypeOK
    <3>2. p = d
      <4>1. p # d => fs[p] = Dir
        BY <2>2, <3>1, WayExists
      <4>. QED
        BY <1>3, <3>1, <4>1 DEF IsDir, HasFile, Dir
    <3>3. q \notin DOMAIN fs
      <4>1. q \in DOMAIN fs => fs[d] = Dir
        BY <2>1, <3>1, ParentExists
      <4>. QED
        BY <3>1, <3>2, <4>1 DEF IsDir, HasFile, Dir
    <3>4. Front(q) = d
      BY <2>1, AppendName
    <3>. QED
      BY <3>1, <3>2, <3>3, <3>4 DEF Writable, IsFile, HasFile
  <2>5. ~SkipsFolder(n, p)
    BY <2>2 DEF SkipsFolder
  <2>. QED
    BY <1>8, <2>3, <2>4, <2>5
<1>. QED
  BY <1>9, <1>10

LEMMA NeverOutStep ==
  ASSUME TypeOK, History, NeverOut, [Next]_vars
  PROVE  NeverOut'
<1>1. CASE UNCHANGED vars
  BY <1>1 DEF vars, NeverOut
<1>2. CASE OtherCall
  BY <1>2 DEF OtherCall, NeverOut
<1>3. ASSUME NEW p \in Path, NEW q \in Path, CopyFolder(p, q)
      PROVE  NeverOut'
  <2>1. /\ before' = before /\ stack = <<>> /\ call'.src = p /\ call'.dst = q
        /\ Grows(before, fs', q) /\ status' \in {"running", "-1", "crashed"}
        /\ status' = "running" => Pushes(p, q, <<>>)
    BY <1>3, BegunFacts
  <2>2. ASSUME status' = "running", IntoItself(p, q) PROVE \E i \in DOMAIN stack' : Reenters(stack'[i])
    <3>1. stack' = Append(<<>>, NewFrame(p, q, fs')) /\ q \in DOMAIN fs' /\ IsFileSystem(fs')
      BY <2>1, <2>2 DEF Pushes, Grows
    <3>2. Reenters(NewFrame(p, q, fs'))
      BY <2>2, <3>1, ReentersNew
    <3>3. 1 \in DOMAIN stack' /\ stack'[1] = NewFrame(p, q, fs')
      BY <3>1
    <3>. QED
      BY <3>2, <3>3
  <2>. QED
    BY <2>1, <2>2 DEF NeverOut
<1>4. ASSUME NEW n \in Names, ReadEntry(n)
      PROVE  NeverOut'
  <2>1. status = "running" /\ UNCHANGED <<call, before>> /\ call.name = "CopyFolder"
    BY <1>4, ReadEntryCases DEF History
  <2>2. TypeOK'
    BY <1>4, ReadEntryTyped
  <2>3. status' # "0"
    BY <1>4, <2>1, ReadEntryCases
    DEF Reads, FailsToClose, SkipsFolder, EntersFolder, CopiesFile, FailsIn, FailsOn, Pushes, GivesUp
  <2>4. ASSUME status' = "running", IntoItself(call.src, call.dst)
        PROVE  \E i \in DOMAIN stack' : Reenters(stack'[i])
    <3>1. PICK i \in DOMAIN stack : Reenters(stack[i])
      BY <2>1, <2>4 DEF NeverOut
    <3>2. stack' # <<>>
      BY <2>2, <2>4 DEF TypeOK
    <3>. QED
      BY <1>4, <3>1, <3>2, ReenteringRead
  <2>. QED
    BY <2>1, <2>3, <2>4 DEF NeverOut
<1>5. CASE EndFolder
  <2>1. /\ status = "running" /\ stack' = Front(stack) /\ UNCHANGED <<call, before>>
        /\ status' = (IF Len(stack) = 1 THEN "0" ELSE status)
        /\ stack[Len(stack)].must \subseteq stack[Len(stack)].read
    BY <1>5 DEF EndFolder, Top
  <2>2. ASSUME call.name = "CopyFolder", IntoItself(call.src, call.dst)
        PROVE  status' # "0" /\ \E i \in DOMAIN stack' : Reenters(stack'[i])
    <3>1. PICK i \in DOMAIN stack : Reenters(stack[i])
      BY <2>1, <2>2 DEF NeverOut
    <3>2. i # Len(stack)
      BY <2>1, <3>1 DEF Reenters
    <3>3. DOMAIN stack = 1 .. Len(stack) /\ Len(stack) \in Nat \ {0}
      BY <2>1, OuterFrames DEF TypeOK
    <3>4. i \in 1 .. Len(stack) - 1
      BY <3>2, <3>3
    <3>5. i \in DOMAIN stack' /\ stack'[i] = stack[i]
      BY <2>1, <3>4, FrontOfStack
    <3>. QED
      BY <2>1, <3>1, <3>3, <3>4, <3>5
  <2>. QED
    BY <2>1, <2>2 DEF NeverOut
<1>. QED
  BY <1>1, <1>2, <1>3, <1>4, <1>5, NextCases

\* CopyFolder never says that it has copied a folder into a folder in itself
\* that it can reach, in whatever order the entries are read.
THEOREM IntoItselfNeverEnds == Spec => []IntoItselfFails
<1>. DEFINE Inv == CopyInv /\ NeverOut
<1>1. Init => Inv
  BY CopyInvInit DEF Init, NeverOut
<1>2. Inv /\ [Next]_vars => Inv'
  BY CopyInvStep, NeverOutStep DEF CopyInv
<1>3. Inv => IntoItselfFails
  <2>. SUFFICES ASSUME Inv, NEW src \in Paths, NEW dst \in Paths,
                       Copying(src, dst), IsStrictPrefix(src, dst),
                       \A i \in Len(src) + 1 .. Len(dst) : dst[i] \notin Hidden
                PROVE  status # "0"
    BY DEF IntoItselfFails
  <2>1. src \in Path /\ dst \in Path
    BY PathsArePaths
  <2>2. Under(src, dst) /\ src # dst
    BY DEF IsStrictPrefix, Under
  <2>3. Len(src) < Len(dst)
    <3>1. Len(src) \in Nat /\ Len(dst) \in Nat
      BY <2>1 DEF Path
    <3>2. Len(src) <= Len(dst)
      BY <2>1, <2>2, UnderMeans
    <3>3. Len(src) # Len(dst)
      BY <2>1, <2>2, UnderMeans, PathsEqual
    <3>. QED
      BY <3>1, <3>2, <3>3
  <2>4. IntoItself(src, dst)
    BY <2>2, <2>3 DEF IntoItself
  <2>5. call.name = "CopyFolder" /\ call.src = src /\ call.dst = dst
    BY DEF Copying
  <2>. QED
    BY <2>4, <2>5 DEF NeverOut
<1>. QED
  BY <1>1, <1>2, <1>3, PTL DEF Spec

-----------------------------------------------------------------------------
(* What CopyFolder has copied when it returns.                             *)

\* The copy of one thing is there.
Done(b, t, src, dst, r) ==
  /\ dst \o r \in DOMAIN t
  /\ b[src \o r].kind = "file" =>
       t[dst \o r].data = Append(b[src \o r].data, EOF)

\* A folder on the way to p is being read, and the next name has not come yet.
Waiting(frames, p) ==
  \E i \in DOMAIN frames : /\ Under(frames[i].src, p) /\ Len(frames[i].src) < Len(p)
                           /\ p[Len(frames[i].src) + 1] \notin frames[i].read

NothingForgotten ==
  call.name = "CopyFolder" /\ Apart(call.src, call.dst) /\ status \in {"running", "0"} =>
    \A r \in Path : Reaches(before, call.src, r) =>
      Done(before, fs, call.src, call.dst, r) \/ Waiting(stack, call.src \o r)

AllCreated ==
  status = "0" /\ call.name = "CreateDir" => \A q \in Prefixes(call.src) : IsDir(q)

LEMMA CreatedAll ==
  ASSUME IsFileSystem(fs), NEW p \in Path, CreatesAll(p), NEW q \in Prefixes(p)
  PROVE  q \in DOMAIN AfterCreateDir(p) /\ AfterCreateDir(p)[q].kind = "dir"
<1>1. q \in Made(p) /\ q \in Path
  BY PrefixesAreUnder DEF CreatesAll
<1>2. ~IsFile(q)
  BY <1>1, UnderOrder, PrefixesAreUnder DEF Made
<1>3. CASE q \in DOMAIN fs
  <2>1. fs[q].kind = "dir"
    BY <1>2, <1>3 DEF IsFile, HasFile, IsFileSystem
  <2>. QED
    BY <1>1, <1>3, <2>1, AfterCreateDirIsFileSystem
<1>4. CASE q \notin DOMAIN fs
  <2>1. q \in DOMAIN AfterCreateDir(p) /\ AfterCreateDir(p)[q] = Dir
    BY <1>1, <1>4, AfterCreateDirIsFileSystem
  <2>. QED
    BY <2>1 DEF Dir
<1>. QED
  BY <1>3, <1>4

\* A frame waits on unless it has just read the name that was waited for.
LEMMA WaitingStays ==
  ASSUME TypeOK, NEW n \in Names, ReadEntry(n), stack' # <<>>, NEW v \in Path,
         NEW i \in DOMAIN stack, Under(stack[i].src, v), Len(stack[i].src) < Len(v),
         v[Len(stack[i].src) + 1] \notin stack[i].read,
         i # Len(stack) \/ n # v[Len(stack[i].src) + 1]
  PROVE  Waiting(stack', v)
<1>1. status = "running"
  BY ReadEntryCases
<1>2. /\ Outer(n) \in Seq(Frame) /\ Len(Outer(n)) = Len(stack) /\ DOMAIN Outer(n) = DOMAIN stack
      /\ DOMAIN stack = 1 .. Len(stack) /\ Len(stack) \in Nat \ {0}
      /\ Outer(n)[i].src = stack[i].src
      /\ Outer(n)[i].read = IF i = Len(stack) THEN stack[i].read \cup {n} ELSE stack[i].read
  BY <1>1, OuterFrames
<1>3. PICK p \in Path, q \in Path : Reads(n, p, q)
  BY ReadEntryCases
<1>4. v[Len(stack[i].src) + 1] \notin Outer(n)[i].read
  BY <1>2
<1>5. CASE stack' = Outer(n)
  BY <1>2, <1>4, <1>5 DEF Waiting
<1>6. CASE Pushes(p, q, Outer(n))
  <2>1. Steady
    BY <1>3, OutcomeSteady
  <2>2. FramesThere(fs', Outer(n))
    BY <1>1, <2>1, FramesStay
  <2>3. DOMAIN stack' = 1 .. Len(stack) + 1 /\ \A j \in 1 .. Len(stack) : stack'[j] = Outer(n)[j]
    BY <1>2, <1>6, <2>1, <2>2, PushTyped
  <2>4. i \in DOMAIN stack' /\ stack'[i] = Outer(n)[i]
    BY <1>2, <2>3
  <2>. QED
    BY <1>2, <1>4, <2>4 DEF Waiting
<1>. QED
  BY <1>3, <1>5, <1>6
  DEF Reads, FailsToClose, SkipsFolder, EntersFolder, CopiesFile, FailsIn, FailsOn, GivesUp

LEMMA ForgottenRead ==
  ASSUME TypeOK, History, KindsKept, FramesFit, OnlyAllowed, NothingForgotten,
         NEW n \in Names, ReadEntry(n), status' \in {"running", "0"}
  PROVE  NothingForgotten'
<1>1. status = "running" /\ UNCHANGED <<call, before>> /\ call.name = "CopyFolder"
  BY ReadEntryCases DEF History
<1>2. PICK S \in Path, D \in Path : S = call.src /\ D = call.dst
  BY DEF TypeOK
<1>. SUFFICES ASSUME Apart(S, D), NEW r \in Path, Reaches(before, S, r)
              PROVE  Done(before, fs', S, D, r) \/ Waiting(stack', S \o r)
  BY <1>1, <1>2 DEF NothingForgotten
<1>. DEFINE f == stack[Len(stack)]
<1>3. PICK p \in Path, q \in Path :
        p = Append(f.src, n) /\ q = Append(f.dst, n) /\ p \in DOMAIN fs /\ Reads(n, p, q)
  BY ReadEntryCases
<1>4. PICK x \in Path :
        /\ f.src = S \o x /\ f.dst = D \o x
        /\ Append(x, n) \in Path /\ Len(Append(x, n)) = Len(x) + 1
        /\ p = S \o Append(x, n) /\ q = D \o Append(x, n)
        /\ Under(S, p) /\ Under(D, q) /\ f.src \in Path
  BY <1>1, <1>2, <1>3, EntryPlace
<1>5. PICK s \in Path : s = f.src /\ s = S \o x /\ p = Append(s, n)
  BY <1>3, <1>4
<1>6. PICK v \in Path : v = S \o r /\ v \in DOMAIN before
  BY Concat DEF Reaches
<1>7. /\ Outer(n) \in Seq(Frame) /\ Len(Outer(n)) = Len(stack)
      /\ DOMAIN stack = 1 .. Len(stack) /\ Len(stack) \in Nat \ {0}
  BY <1>1, OuterFrames
<1>. HIDE DEF f
<1>8. IsFileSystem(fs) /\ IsFileSystem(before)
  BY DEF TypeOK
<1>9. \A w \in DOMAIN before : w \in DOMAIN fs /\ fs[w].kind = before[w].kind
  BY <1>1, CopyingKinds
<1>10. /\ stack' # <<>> /\ TypeOK'
       /\ SkipsFolder(n, p) \/ EntersFolder(n, p, q) \/ CopiesFile(n, p, q)
  <2>1. TypeOK'
    BY ReadEntryTyped
  <2>2. SkipsFolder(n, p) \/ EntersFolder(n, p, q) \/ CopiesFile(n, p, q)
    BY <1>3 DEF Reads, FailsToClose, FailsIn, FailsOn, GivesUp
  <2>3. status' = "running"
    BY <1>1, <2>2 DEF SkipsFolder, EntersFolder, CopiesFile, Pushes
  <2>. QED
    BY <2>1, <2>2, <2>3 DEF TypeOK
<1>11. ASSUME CopiesFile(n, p, q), D \o r = q
       PROVE  Done(before, fs', S, D, r)
  <2>1. Writable(q) /\ fs' = Written(q, Copied(p, q))
    BY <1>11 DEF CopiesFile, OpensBoth
  <2>6. PICK d : d = Copied(p, q)
    OBVIOUS
  <2>2. q \in DOMAIN fs' /\ fs'[q] = File(d)
    BY <2>1, <2>6 DEF Written
  <2>3. r = Append(x, n) /\ v = p
    BY <1>4, <1>6, <1>11, ConcatInjects
  <2>4. d = Append(before[v].data, EOF)
    <3>1. fs[p] = before[p]
      BY <1>1, <1>2, <1>3, <1>4, SourceKept
    <3>2. p # q
      <4>. SUFFICES ASSUME p = q PROVE FALSE
        OBVIOUS
      <4>1. Under(S, p) /\ Under(D, p)
        BY <1>4
      <4>2. Under(S, D) \/ Under(D, S)
        BY <4>1, UnderOrder
      <4>. QED
        BY <4>2 DEF Apart
    <3>. QED
      BY <2>3, <2>6, <3>1, <3>2 DEF Copied
  <2>5. fs'[q].data = d
    BY <2>2 DEF File
  <2>. QED
    BY <1>6, <1>11, <2>2, <2>4, <2>5 DEF Done
<1>12. CASE Done(before, fs, S, D, r)
  <2>1. CASE D \o r \in DOMAIN fs' /\ fs'[D \o r] = fs[D \o r]
    BY <1>12, <2>1 DEF Done
  <2>2. CASE CopiesFile(n, p, q)
    <3>1. CASE D \o r = q
      BY <1>11, <2>2, <3>1
    <3>2. CASE D \o r # q
      <4>1. Writable(q) /\ fs' = Written(q, Copied(p, q))
        BY <2>2 DEF CopiesFile, OpensBoth
      <4>2. DOMAIN fs' = DOMAIN fs \cup {q} /\ \A w \in DOMAIN fs : w # q => fs'[w] = fs[w]
        <5>1. PICK d : fs' = Written(q, d)
          BY <4>1
        <5>. QED
          BY <5>1 DEF Written
      <4>3. D \o r \in DOMAIN fs
        BY <1>12 DEF Done
      <4>4. D \o r \in DOMAIN fs' /\ fs'[D \o r] = fs[D \o r]
        BY <3>2, <4>2, <4>3
      <4>. QED
        BY <2>1, <4>4
    <3>. QED
      BY <3>1, <3>2
  <2>3. CASE UNCHANGED fs \/ Grows(fs, fs', q)
    <3>1. D \o r \in DOMAIN fs
      BY <1>12 DEF Done
    <3>2. D \o r \in DOMAIN fs' /\ fs'[D \o r] = fs[D \o r]
      BY <2>3, <3>1 DEF Grows
    <3>. QED
      BY <2>1, <3>2
  <2>. QED
    BY <1>10, <2>2, <2>3 DEF SkipsFolder, EntersFolder
<1>13. CASE Waiting(stack, v)
  <2>1. PICK i \in DOMAIN stack : /\ Under(stack[i].src, v) /\ Len(stack[i].src) < Len(v)
                                  /\ v[Len(stack[i].src) + 1] \notin stack[i].read
    BY <1>13 DEF Waiting
  <2>2. CASE i # Len(stack) \/ n # v[Len(stack[i].src) + 1]
    BY <1>6, <1>10, <2>1, <2>2, WaitingStays
  <2>3. CASE i = Len(stack) /\ n = v[Len(stack[i].src) + 1]
    <3>1. Under(s, v) /\ Len(s) < Len(v) /\ n = v[Len(s) + 1]
      BY <1>5, <2>1, <2>3 DEF f
    <3>2. Under(p, v)
      BY <1>5, <3>1, UnderNext
    <3>3. v = p \/ before[p] = Dir
      BY <1>6, <1>8, <3>2, WayExists
    <3>4. p \in DOMAIN before
      BY <1>6, <1>8, <3>2, WayExists
    <3>5. CASE SkipsFolder(n, p)
      <4>1. IsDir(p) /\ n \in Hidden
        BY <3>5 DEF SkipsFolder
      <4>2. Len(S) \in Nat /\ Len(x) \in Nat /\ Len(r) \in Nat
        BY DEF Path
      <4>3. Len(s) = Len(S) + Len(x) /\ Len(v) = Len(S) + Len(r) /\ Len(p) = Len(S) + (Len(x) + 1)
        BY <1>4, <1>5, <1>6, Concat
      <4>4. Len(x) + 1 \in 1 .. Len(r) /\ Len(s) + 1 = Len(S) + (Len(x) + 1)
        BY <3>1, <4>2, <4>3
      <4>5. v[Len(S) + (Len(x) + 1)] = r[Len(x) + 1]
        BY <1>6, <4>4, Concat
      <4>6. Len(x) + 1 = Len(r) /\ before[v].kind = "file"
        <5>1. PICK j \in 1 .. Len(r) : j = Len(x) + 1
          BY <4>4
        <5>2. r[j] \in Hidden
          BY <3>1, <4>1, <4>4, <4>5, <5>1
        <5>3. j = Len(r) /\ before[S \o r].kind = "file"
          BY <5>2 DEF Reaches
        <5>. QED
          BY <1>6, <5>1, <5>3
      <4>7. Len(p) = Len(v)
        BY <4>3, <4>6
      <4>8. v = p
        BY <3>2, <4>7, UnderMeans, PathsEqual
      <4>9. fs[p].kind = "file"
        BY <1>6, <1>9, <4>6, <4>8
      <4>. QED
        BY <4>1, <4>9 DEF IsDir
    <3>6. CASE EntersFolder(n, p, q)
      <4>1. Pushes(p, q, Outer(n)) /\ IsDir(p) /\ q \in DOMAIN fs'
        BY <3>6 DEF EntersFolder, Pushes
      <4>2. CASE v = p
        <5>1. r = Append(x, n)
          BY <1>4, <1>6, <4>2, ConcatInjects
        <5>2. before[v].kind # "file"
          BY <1>9, <3>4, <4>1, <4>2 DEF IsDir
        <5>. QED
          BY <1>4, <1>6, <4>1, <5>1, <5>2 DEF Done
      <4>3. CASE v # p
        <5>1. Steady
          BY <1>3, OutcomeSteady
        <5>2. FramesThere(fs', Outer(n))
          BY <1>1, <5>1, FramesStay
        <5>3. DOMAIN stack' = 1 .. Len(stack) + 1 /\ stack'[Len(stack) + 1] = NewFrame(p, q, fs')
          BY <1>7, <4>1, <5>1, <5>2, PushTyped
        <5>4. stack'[Len(stack) + 1].src = p /\ stack'[Len(stack) + 1].read = {}
          BY <5>3, NewFrameFits
        <5>5. Len(p) < Len(v)
          <6>1. Len(p) \in Nat /\ Len(v) \in Nat
            BY DEF Path
          <6>2. Len(p) <= Len(v)
            BY <3>2, UnderMeans
          <6>3. Len(p) # Len(v)
            BY <3>2, <4>3, UnderMeans, PathsEqual
          <6>. QED
            BY <6>1, <6>2, <6>3
        <5>6. Len(stack) + 1 \in DOMAIN stack'
          BY <1>7, <5>3
        <5>7. Waiting(stack', v)
          BY <3>2, <5>4, <5>5, <5>6 DEF Waiting
        <5>. QED
          BY <1>6, <5>7
      <4>. QED
        BY <4>2, <4>3
    <3>7. CASE CopiesFile(n, p, q)
      <4>1. fs[p].kind # "dir"
        BY <1>3, <3>7 DEF CopiesFile, IsDir, HasFile
      <4>2. v = p
        BY <1>9, <3>3, <3>4, <4>1 DEF Dir
      <4>3. r = Append(x, n)
        BY <1>4, <1>6, <4>2, ConcatInjects
      <4>. QED
        BY <1>4, <1>11, <3>7, <4>3
    <3>. QED
      BY <1>10, <3>5, <3>6, <3>7
  <2>. QED
    BY <2>2, <2>3
<1>14. Done(before, fs, S, D, r) \/ Waiting(stack, v)
  BY <1>1, <1>2, <1>6 DEF NothingForgotten
<1>. QED
  BY <1>12, <1>13, <1>14

LEMMA ForgottenCall ==
  ASSUME TypeOK, History, NEW p \in Path, NEW q \in Path, CopyFolder(p, q)
  PROVE  NothingForgotten'
<1>1. /\ fs = before /\ before' = before /\ stack = <<>> /\ call'.src = p /\ call'.dst = q
      /\ status' \in {"running", "-1", "crashed"}
      /\ status' = "running" => Pushes(p, q, <<>>)
  BY BegunFacts
<1>. SUFFICES ASSUME Pushes(p, q, <<>>), NEW r \in Path, Reaches(before, p, r)
              PROVE  Done(before, fs', p, q, r) \/ Waiting(stack', p \o r)
  BY <1>1 DEF NothingForgotten
<1>. DEFINE f == NewFrame(p, q, fs')
<1>2. f.src = p /\ f.read = {}
  BY NewFrameFits
<1>3. stack' = Append(<<>>, f) /\ q \in DOMAIN fs' /\ before[p].kind # "file"
  BY <1>1 DEF Pushes, IsDir
<1>. HIDE DEF f
<1>4. DOMAIN stack' = {1} /\ stack'[1] = f
  BY <1>3
<1>5. CASE r = <<>>
  <2>1. p \o r = p /\ q \o r = q
    BY <1>5 DEF Path
  <2>. QED
    BY <1>3, <2>1 DEF Done
<1>6. CASE r # <<>>
  <2>1. Len(p) \in Nat /\ Len(r) \in Nat \ {0}
    BY <1>6 DEF Path
  <2>2. Under(p, p \o r) /\ Len(p) < Len(p \o r)
    BY <2>1, Concat
  <2>3. Waiting(stack', p \o r)
    BY <1>2, <1>4, <2>2 DEF Waiting
  <2>. QED
    BY <2>3
<1>. QED
  BY <1>5, <1>6

LEMMA ForgottenEnd ==
  ASSUME TypeOK, FramesFit, NothingForgotten, EndFolder
  PROVE  NothingForgotten'
<1>1. /\ status = "running" /\ stack' = Front(stack) /\ UNCHANGED <<fs, call, before>>
      /\ stack[Len(stack)].must \subseteq stack[Len(stack)].read
  BY DEF EndFolder, Top
<1>2. PICK S \in Path, D \in Path : S = call.src /\ D = call.dst
  BY DEF TypeOK
<1>. SUFFICES ASSUME call.name = "CopyFolder", Apart(S, D), NEW r \in Path, Reaches(before, S, r)
              PROVE  Done(before, fs, S, D, r) \/ Waiting(stack', S \o r)
  BY <1>1, <1>2 DEF NothingForgotten
<1>3. PICK v \in Path : v = S \o r /\ v \in DOMAIN before
  BY Concat DEF Reaches
<1>4. Done(before, fs, S, D, r) \/ Waiting(stack, v)
  BY <1>1, <1>2, <1>3 DEF NothingForgotten
<1>5. CASE Waiting(stack, v)
  <2>1. PICK i \in DOMAIN stack : /\ Under(stack[i].src, v) /\ Len(stack[i].src) < Len(v)
                                  /\ v[Len(stack[i].src) + 1] \notin stack[i].read
    BY <1>5 DEF Waiting
  <2>2. PICK s \in Path : s = stack[i].src
    <3>1. stack[i] \in Frame
      BY DEF TypeOK
    <3>. QED
      BY <3>1 DEF Frame
  <2>3. v[Len(s) + 1] \in Names /\ Append(s, v[Len(s) + 1]) \in DOMAIN before
    <3>1. /\ v[Len(s) + 1] \in Names /\ Append(s, v[Len(s) + 1]) \in Path
          /\ Under(Append(s, v[Len(s) + 1]), v)
      BY <2>1, <2>2, UnderNext
    <3>2. IsFileSystem(before)
      BY DEF TypeOK
    <3>. QED
      BY <1>3, <3>1, <3>2, WayExists
  <2>4. v[Len(s) + 1] \in stack[i].must
    BY <2>2, <2>3 DEF FramesFit, Expects
  <2>5. i # Len(stack)
    BY <1>1, <2>1, <2>2, <2>4
  <2>6. DOMAIN stack = 1 .. Len(stack) /\ Len(stack) \in Nat \ {0}
    BY <1>1, OuterFrames DEF TypeOK
  <2>7. i \in 1 .. Len(stack) - 1
    BY <2>5, <2>6
  <2>8. i \in DOMAIN stack' /\ stack'[i] = stack[i]
    BY <1>1, <2>7, FrontOfStack
  <2>9. Waiting(stack', v)
    BY <2>1, <2>8 DEF Waiting
  <2>. QED
    BY <1>3, <2>9
<1>. QED
  BY <1>4, <1>5

LEMMA CompleteStep ==
  ASSUME CopyInv, NothingForgotten, AllCreated, [Next]_vars
  PROVE  NothingForgotten' /\ AllCreated'
<1>1. TypeOK /\ History /\ KindsKept /\ FramesFit /\ OnlyAllowed
  BY DEF CopyInv
<1>2. CASE UNCHANGED vars
  BY <1>2 DEF vars, NothingForgotten, AllCreated, IsDir, HasFile
<1>3. CASE OtherCall
  <2>1. IsFileSystem(fs) /\ call'.name # "CopyFolder"
    BY <1>1, <1>3 DEF OtherCall, TypeOK
  <2>2. ASSUME status' = "0", call'.name = "CreateDir", NEW q \in Prefixes(call'.src)
        PROVE  q \in DOMAIN fs' /\ fs'[q].kind = "dir"
    <3>1. PICK s \in Path : s = call'.src /\ CreatesAll(s) /\ fs' = AfterCreateDir(s)
      BY <1>3, <2>2 DEF OtherCall
    <3>. QED
      BY <2>1, <2>2, <3>1, CreatedAll
  <2>3. AllCreated'
    BY <2>2 DEF AllCreated, IsDir, HasFile
  <2>. QED
    BY <2>1, <2>3 DEF NothingForgotten
<1>4. ASSUME NEW p \in Path, NEW q \in Path, CopyFolder(p, q)
      PROVE  NothingForgotten' /\ AllCreated'
  <2>1. call'.name = "CopyFolder"
    BY <1>1, <1>4, BegunFacts
  <2>2. NothingForgotten'
    BY <1>1, <1>4, ForgottenCall
  <2>. QED
    BY <2>1, <2>2 DEF AllCreated
<1>5. ASSUME NEW n \in Names, ReadEntry(n)
      PROVE  NothingForgotten' /\ AllCreated'
  <2>1. call'.name = "CopyFolder"
    BY <1>1, <1>5, ReadEntryCases DEF History
  <2>2. CASE status' \in {"running", "0"}
    <3>1. NothingForgotten'
      BY <1>1, <1>5, <2>2, ForgottenRead
    <3>. QED
      BY <2>1, <3>1 DEF AllCreated
  <2>3. CASE status' \notin {"running", "0"}
    BY <2>1, <2>3 DEF NothingForgotten, AllCreated
  <2>. QED
    BY <2>2, <2>3
<1>6. CASE EndFolder
  <2>1. call'.name = "CopyFolder"
    BY <1>1, <1>6 DEF History, EndFolder
  <2>2. NothingForgotten'
    BY <1>1, <1>6, ForgottenEnd
  <2>. QED
    BY <2>1, <2>2 DEF AllCreated
<1>. QED
  BY <1>1, <1>2, <1>3, <1>4, <1>5, <1>6, NextCases

\* The files that were there when the call was made consist of bytes.
BytesBefore == \A p \in DOMAIN before : before[p].data \in Seq(Bytes)

LEMMA BytesBeforeInit == Init => BytesBefore
BY TreesAssumption DEF Init, BytesBefore

LEMMA BytesBeforeStep ==
  ASSUME BytesBefore, [Next]_vars
  PROVE  BytesBefore'
<1>1. UNCHANGED before
  BY DEF vars, Next, CreateDir, DeleteFile, WriteFile, CopyFolder, CopyFile, ReadEntry, EndFolder, Calls
<1>. QED
  BY <1>1 DEF BytesBefore

LEMMA AppendKeeps ==
  ASSUME NEW data \in Seq(Bytes), NEW b
  PROVE  IsPrefix(data, Append(data, b))
<1>1. data \in Seq(Bytes \cup {b}) /\ Append(data, b) \in Seq(Bytes \cup {b})
  OBVIOUS
<1>2. Len(data) \in Nat /\ Len(Append(data, b)) = Len(data) + 1
  BY <1>1
<1>3. SubSeq(data, 1, Len(data)) = SubSeq(Append(data, b), 1, Len(data))
  BY <1>1, <1>2
<1>. QED
  BY <1>2, <1>3 DEF IsPrefix

LEMMA CompleteFromForgotten ==
  ASSUME TypeOK, NothingForgotten, AllCreated, BytesBefore
  PROVE  CopyIsComplete
<1>1. ASSUME status = "0", NEW src \in Paths, NEW dst \in Paths, Copying(src, dst),
             Apart(src, dst), NEW r \in Reached(src)
      PROVE  /\ HasFile(dst \o r)
             /\ before[src \o r].kind = "file" =>
                  IsPrefix(before[src \o r].data, fs[dst \o r].data)
  <2>1. call.name = "CopyFolder" /\ call.src = src /\ call.dst = dst /\ src \in Path
    BY <1>1, PathsArePaths DEF Copying
  <2>2. r \in Path /\ Reaches(before, src, r)
    BY <1>1, <2>1, ReachedMeans DEF Reaches
  <2>3. ~Waiting(stack, src \o r)
    BY <1>1 DEF TypeOK, Waiting
  <2>4. Done(before, fs, src, dst, r)
    BY <1>1, <2>1, <2>2, <2>3 DEF NothingForgotten
  <2>5. IsPrefix(before[src \o r].data, Append(before[src \o r].data, EOF))
    BY <2>2, AppendKeeps DEF BytesBefore, Reaches
  <2>. QED
    BY <2>4, <2>5 DEF Done, HasFile
<1>. QED
  BY <1>1 DEF CopyIsComplete, AllCreated

\* When CopyFolder into a place apart returns 0, everything it reaches is under
\* the target, and no file lacks anything of what is in the source, whatever the
\* order of the entries; and when CreateDir returns 0 every folder of the path
\* is there.
THEOREM CopiesAreComplete == Spec => []CopyIsComplete
<1>. DEFINE Inv == CopyInv /\ NothingForgotten /\ AllCreated /\ BytesBefore
<1>1. Init => Inv
  BY CopyInvInit, BytesBeforeInit DEF Init, NothingForgotten, AllCreated
<1>2. Inv /\ [Next]_vars => Inv'
  BY CopyInvStep, CompleteStep, BytesBeforeStep
<1>3. Inv => CopyIsComplete
  BY CompleteFromForgotten DEF CopyInv
<1>. QED
  BY <1>1, <1>2, <1>3, PTL DEF Spec
=============================================================================
