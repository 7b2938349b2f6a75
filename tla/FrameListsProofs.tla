-------------------------- MODULE FrameListsProofs --------------------------
(***************************************************************************)
(* The pointer operations of FrameLists do to the lists what FrameQueues   *)
(* says, for every set of frames and of lists.                             *)
(*                                                                         *)
(* The lemmas are about the pointers nx, pv, the owners o and the          *)
(* sequences q before an operation and those (nx1, pv1, o1, q1) after it.  *)
(* First, what an operation makes of one list, by the pointers forward;    *)
(* then what it makes of all of them, by the rings, in both directions;    *)
(* then the specification.                                                 *)
(***************************************************************************)
EXTENDS FrameLists, SequenceFacts, FiniteSetTheorems

\* The frames s are those of list h, in the order of the pointers nx, each once.
IsList(nx, o, h, s) ==
  /\ s \in Seq(Frames) /\ IsInjective(s)
  /\ Range(s) = {f \in Frames : o[f] = h}
  /\ Follows(nx, h, s)

\* A set of numbers has a least element.
LEMMA Least ==
  ASSUME NEW S \in SUBSET Nat, S # {}
  PROVE  \E m \in S : \A n \in S : m <= n
<1>1. PICK m \in S : \A n \in S : <<n, m>> \notin OpToRel(<, Nat)
  BY NatLessThanWellFounded, WFMin
<1>2. \A n \in S : ~(n < m)
  BY <1>1 DEF OpToRel
<1> QED BY <1>2

\* The head and the frames round a list.
LEMMA AtFacts ==
  ASSUME NEW s \in Seq(Frames), NEW h \in Heads
  PROVE  /\ Len(s) \in Nat /\ DOMAIN s = 1 .. Len(s)
         /\ h \in Cells /\ h \notin Frames
         /\ At(h, s, 0) = h /\ At(h, s, Len(s) + 1) = h
         /\ \A i \in 1 .. Len(s) : At(h, s, i) = s[i] /\ s[i] \in Frames /\ s[i] # h
         /\ \A i \in Nat : At(h, s, i) \in Cells
         /\ \A i \in Nat : At(h, s, i) = h <=> i \notin 1 .. Len(s)
<1>1. /\ Len(s) \in Nat /\ DOMAIN s = 1 .. Len(s)
      /\ h \in Cells /\ h \notin Frames
      /\ \A i \in 1 .. Len(s) : s[i] \in Frames /\ s[i] \in Cells
  BY CellsAssumption DEF Cells
<1> QED BY <1>1 DEF At

\* From one head the pointers lead along one sequence only.
LEMMA OneWalk ==
  ASSUME NEW nx, NEW h \in Heads, NEW s \in Seq(Frames), NEW t \in Seq(Frames),
         Follows(nx, h, s), Follows(nx, h, t)
  PROVE  s = t
<1> DEFINE D == {i \in Nat : At(h, s, i) # At(h, t, i)}
<1>1. ASSUME D # {} PROVE FALSE
  <2>1. PICK m \in D : \A n \in D : m <= n
    BY <1>1, Least
  <2>2. m \in Nat /\ m # 0
    BY AtFacts
  <2>3. \A i \in 0 .. m - 1 : At(h, s, i) = At(h, t, i)
    BY <2>1, <2>2
  <2>4. m - 1 \in 0 .. Len(s) /\ m - 1 \in 0 .. Len(t)
    <3>0. Len(s) \in Nat /\ Len(t) \in Nat
      OBVIOUS
    <3>1. CASE m - 1 > Len(s)
      <4>1. At(h, t, Len(s) + 1) = h
        BY <2>2, <2>3, <3>0, <3>1, AtFacts
      <4>2. Len(s) + 1 > Len(t)
        BY <3>0, <4>1, AtFacts
      <4>3. At(h, s, m) = h /\ At(h, t, m) = h
        BY <2>2, <3>0, <3>1, <4>2, AtFacts
      <4> QED BY <2>1, <4>3
    <3>2. CASE m - 1 > Len(t)
      <4>1. At(h, s, Len(t) + 1) = h
        BY <2>2, <2>3, <3>0, <3>2, AtFacts
      <4>2. Len(t) + 1 > Len(s)
        BY <3>0, <4>1, AtFacts
      <4>3. At(h, s, m) = h /\ At(h, t, m) = h
        BY <2>2, <3>0, <3>2, <4>2, AtFacts
      <4> QED BY <2>1, <4>3
    <3> QED BY <2>2, <3>0, <3>1, <3>2
  <2>5. At(h, s, m - 1) = At(h, t, m - 1)
    BY <2>2, <2>3
  <2>6. At(h, s, (m - 1) + 1) = At(h, t, (m - 1) + 1)
    BY <2>4, <2>5 DEF Follows
  <2>7. (m - 1) + 1 = m
    BY <2>2
  <2> QED BY <2>1, <2>6, <2>7
<1>2. \A i \in Nat : At(h, s, i) = At(h, t, i)
  BY <1>1
<1>3. Len(s) \in Nat /\ Len(t) \in Nat
  OBVIOUS
<1>4. Len(s) = Len(t)
  <2>1. ~(Len(s) < Len(t))
    <3> SUFFICES ASSUME Len(s) < Len(t) PROVE FALSE
      OBVIOUS
    <3>1. Len(s) + 1 \in 1 .. Len(t) /\ Len(s) + 1 \in Nat
      BY <1>3
    <3>2. At(h, s, Len(s) + 1) = h /\ At(h, t, Len(s) + 1) # h
      BY <3>1, AtFacts
    <3> QED BY <1>2, <3>1, <3>2
  <2>2. ~(Len(t) < Len(s))
    <3> SUFFICES ASSUME Len(t) < Len(s) PROVE FALSE
      OBVIOUS
    <3>1. Len(t) + 1 \in 1 .. Len(s) /\ Len(t) + 1 \in Nat
      BY <1>3
    <3>2. At(h, t, Len(t) + 1) = h /\ At(h, s, Len(t) + 1) # h
      BY <3>1, AtFacts
    <3> QED BY <1>2, <3>1, <3>2
  <2> QED BY <1>3, <2>1, <2>2
<1>5. \A i \in 1 .. Len(s) : s[i] = t[i]
  BY <1>2, <1>3, <1>4, AtFacts
<1> QED BY <1>4, <1>5

\* Walk, as a function of the pointers and the owners.
Along(nx, o, h) ==
  LET S == {f \in Frames : o[f] = h}
  IN  CHOOSE s \in [1 .. Cardinality(S) -> S] : Follows(nx, h, s)

\* Walk finds the sequence.
LEMMA WalkList ==
  ASSUME NEW nx, NEW o, NEW h \in Heads, NEW s, IsList(nx, o, h, s)
  PROVE  Along(nx, o, h) = s
<1> DEFINE S == {f \in Frames : o[f] = h}
<1>1. s \in Seq(Frames) /\ IsInjective(s) /\ Range(s) = S /\ Follows(nx, h, s)
  BY DEF IsList
<1>2. Len(s) \in Nat /\ DOMAIN s = 1 .. Len(s)
  BY <1>1
<1>3. s \in [1 .. Len(s) -> S] /\ \A x \in S : \E i \in 1 .. Len(s) : s[i] = x
  BY <1>1, <1>2 DEF Range
<1>4. s \in Bijection(1 .. Len(s), S)
  BY <1>1, <1>2, <1>3 DEF Bijection, Injection, Surjection, IsInjective
<1>5. Cardinality(S) = Len(s)
  BY <1>2, <1>4, FS_CountingElements DEF ExistsBijection
<1>6. \A t \in [1 .. Cardinality(S) -> S] : t \in Seq(Frames)
  <2>1. S \subseteq Frames
    OBVIOUS
  <2>2. \A t \in [1 .. Len(s) -> S] : t \in Seq(Frames)
    BY <1>2, <2>1
  <2> QED BY <1>5, <2>2
<1>7. \A t \in [1 .. Cardinality(S) -> S] : Follows(nx, h, t) => t = s
  BY <1>1, <1>6, OneWalk
<1>8. s \in [1 .. Cardinality(S) -> S]
  BY <1>3, <1>5
<1> HIDE DEF S
<1>9. (CHOOSE t \in [1 .. Cardinality(S) -> S] : Follows(nx, h, t)) = s
  BY <1>1, <1>7, <1>8
<1> QED BY <1>9 DEF Along, S

\* The pointers nx1 are those of nx at the places I of a list.
Kept(nx1, nx, h, s, I) == \A i \in I : nx1[At(h, s, i)] = nx[At(h, s, i)]

\* The pointers of a list from which an operation keeps away.
LEMMA SameList ==
  ASSUME NEW nx, NEW o, NEW h \in Heads, NEW s, IsList(nx, o, h, s),
         NEW nx1, nx1[h] = nx[h], \A f \in Frames : o[f] = h => nx1[f] = nx[f],
         NEW o1, \A f \in Frames : o1[f] = h <=> o[f] = h
  PROVE  IsList(nx1, o1, h, s)
<1>1. s \in Seq(Frames) /\ IsInjective(s) /\ Range(s) = {f \in Frames : o[f] = h}
  BY DEF IsList
<1>2. Range(s) = {f \in Frames : o1[f] = h}
  BY <1>1
<1>3. \A i \in 0 .. Len(s) : nx1[At(h, s, i)] = nx[At(h, s, i)]
  <2> TAKE i \in 0 .. Len(s)
  <2>1. CASE i = 0
    BY <1>1, <2>1, AtFacts
  <2>2. CASE i # 0
    <3>1. i \in 1 .. Len(s) /\ i \in DOMAIN s
      BY <1>1, <2>2
    <3>2. s[i] \in Range(s)
      BY <3>1 DEF Range
    <3>3. At(h, s, i) = s[i]
      BY <1>1, <3>1, AtFacts
    <3> QED BY <1>1, <3>2, <3>3
  <2> QED BY <2>1, <2>2
<1>4. Follows(nx1, h, s)
  BY <1>3 DEF IsList, Follows
<1> QED BY <1>1, <1>2, <1>4 DEF IsList

\* A frame on no list, or on another, is linked in at the end.
LEMMA ListAppend ==
  ASSUME NEW nx, NEW o, NEW h \in Heads, NEW s, IsList(nx, o, h, s),
         NEW f \in Frames, o[f] # h,
         NEW nx1, nx1[f] = h, nx1[At(h, s, Len(s))] = f,
         Kept(nx1, nx, h, s, 0 .. Len(s) - 1),
         NEW o1, \A g \in Frames : o1[g] = h <=> o[g] = h \/ g = f
  PROVE  IsList(nx1, o1, h, Append(s, f))
<1> DEFINE t == Append(s, f)
<1>1. s \in Seq(Frames) /\ IsInjective(s) /\ Range(s) = {g \in Frames : o[g] = h}
      /\ Follows(nx, h, s)
  BY DEF IsList
<1>2. f \notin Range(s)
  BY <1>1
<1>3. t \in Seq(Frames) /\ IsInjective(t) /\ Range(t) = {g \in Frames : o1[g] = h}
  BY <1>1, <1>2, AppendRange
<1>4. /\ Len(t) = Len(s) + 1 /\ Len(s) \in Nat /\ t[Len(s) + 1] = f
      /\ \A i \in 1 .. Len(s) : t[i] = s[i]
  BY <1>1
<1>5. /\ \A i \in 0 .. Len(s) : At(h, t, i) = At(h, s, i)
      /\ At(h, t, Len(s) + 1) = f /\ At(h, t, Len(s) + 2) = h
  <2> HIDE DEF t
  <2> QED BY <1>4 DEF At
<1>6. Follows(nx1, h, t)
  <2> HIDE DEF t
  <2> SUFFICES ASSUME NEW i \in 0 .. Len(t) PROVE nx1[At(h, t, i)] = At(h, t, i + 1)
    BY DEF Follows
  <2>1. CASE i = Len(s) + 1
    BY <1>4, <1>5, <2>1
  <2>2. CASE i = Len(s)
    BY <1>4, <1>5, <2>2
  <2>3. CASE i \in 0 .. Len(s) - 1
    <3>1. i \in 0 .. Len(s) /\ i + 1 \in 0 .. Len(s)
      BY <1>4, <2>3
    <3>2. nx[At(h, s, i)] = At(h, s, i + 1)
      BY <1>1, <3>1 DEF Follows
    <3> QED BY <1>5, <2>3, <3>1, <3>2 DEF Kept
  <2> QED BY <1>4, <2>1, <2>2, <2>3
<1> QED BY <1>3, <1>6 DEF IsList

\* A frame on no list is linked in behind the head.
LEMMA ListCons ==
  ASSUME NEW nx, NEW o, NEW h \in Heads, NEW s, IsList(nx, o, h, s),
         NEW f \in Frames, o[f] # h,
         NEW nx1, nx1[h] = f, nx1[f] = nx[h],
         \A g \in Frames : o[g] = h => nx1[g] = nx[g],
         NEW o1, \A g \in Frames : o1[g] = h <=> o[g] = h \/ g = f
  PROVE  IsList(nx1, o1, h, <<f>> \o s)
<1> DEFINE t == <<f>> \o s
<1>1. s \in Seq(Frames) /\ IsInjective(s) /\ Range(s) = {g \in Frames : o[g] = h}
      /\ Follows(nx, h, s)
  BY DEF IsList
<1>2. f \notin Range(s)
  BY <1>1
<1>3. t \in Seq(Frames) /\ IsInjective(t) /\ Range(t) = {g \in Frames : o1[g] = h}
  BY <1>1, <1>2, ConsRange
<1>4. /\ Len(t) = Len(s) + 1 /\ Len(s) \in Nat /\ t[1] = f
      /\ \A i \in 2 .. Len(s) + 1 : t[i] = s[i - 1]
  BY <1>1
<1>5. /\ \A i \in 2 .. Len(s) + 2 : At(h, t, i) = At(h, s, i - 1)
      /\ At(h, t, 1) = f /\ At(h, t, 0) = h /\ At(h, s, 0) = h
  <2> HIDE DEF t
  <2> QED BY <1>4 DEF At
<1>6. Follows(nx1, h, t)
  <2> HIDE DEF t
  <2> SUFFICES ASSUME NEW i \in 0 .. Len(t) PROVE nx1[At(h, t, i)] = At(h, t, i + 1)
    BY DEF Follows
  <2>1. CASE i = 0
    BY <1>5, <2>1
  <2>2. CASE i = 1
    <3>1. nx[h] = At(h, s, 1)
      BY <1>1, <1>4, <1>5 DEF Follows
    <3> QED BY <1>4, <1>5, <2>2, <3>1
  <2>3. CASE i \in 2 .. Len(s) + 1
    <3>2. /\ i - 1 \in 1 .. Len(s) /\ i - 1 \in DOMAIN s /\ (i - 1) + 1 = i
          /\ i \in 2 .. Len(s) + 2 /\ i + 1 \in 2 .. Len(s) + 2 /\ (i + 1) - 1 = i
      BY <1>1, <1>4, <2>3
    <3>1. nx[At(h, s, i - 1)] = At(h, s, i)
      BY <1>1, <3>2 DEF Follows
    <3>3. At(h, s, i - 1) = s[i - 1] /\ s[i - 1] \in Range(s)
      BY <1>1, <3>2, AtFacts DEF Range
    <3>4. nx1[s[i - 1]] = nx[s[i - 1]]
      BY <1>1, <3>3
    <3> QED BY <1>5, <3>1, <3>2, <3>3, <3>4
  <2> QED BY <1>4, <2>1, <2>2, <2>3
<1> QED BY <1>3, <1>6 DEF IsList

\* The frames of a sequence without the one at k.
LEMMA RemoveFacts ==
  ASSUME NEW s \in Seq(Frames), NEW k \in 1 .. Len(s), IsInjective(s)
  PROVE  LET r == Queues!RemoveAt(s, k)
         IN  /\ r \in Seq(Frames) /\ Len(r) = Len(s) - 1
             /\ \A i \in 1 .. k - 1 : r[i] = s[i]
             /\ \A i \in k .. Len(s) - 1 : r[i] = s[i + 1]
             /\ Range(r) = Range(s) \ {s[k]} /\ IsInjective(r)
<1> DEFINE r == Queues!RemoveAt(s, k)
<1>1. Len(s) \in Nat /\ DOMAIN s = 1 .. Len(s)
  OBVIOUS
<1>2. /\ r \in Seq(Frames) /\ Len(r) = Len(s) - 1 /\ DOMAIN r = 1 .. Len(s) - 1
      /\ \A i \in 1 .. k - 1 : r[i] = s[i]
      /\ \A i \in k .. Len(s) - 1 : r[i] = s[i + 1]
  <2> DEFINE a == SubSeq(s, 1, k - 1)
             b == SubSeq(s, k + 1, Len(s))
  <2>1. a \in Seq(Frames) /\ Len(a) = k - 1 /\ \A i \in 1 .. k - 1 : a[i] = s[i]
    BY <1>1
  <2>2. b \in Seq(Frames) /\ Len(b) = Len(s) - k /\ \A i \in 1 .. Len(s) - k : b[i] = s[k + i]
    <3>1. \A i \in k + 1 .. Len(s) : s[i] \in Frames
      BY <1>1
    <3>2. /\ b \in Seq(Frames)
          /\ Len(b) = IF k + 1 <= Len(s) THEN Len(s) - (k + 1) + 1 ELSE 0
          /\ \A i \in 1 .. Len(s) - (k + 1) + 1 : b[i] = s[(k + 1) + i - 1]
      BY <1>1, <3>1, SubSeqProperties
    <3> HIDE DEF b
    <3>3. Len(b) = Len(s) - k
      <4>1. \A n \in Nat : \A j \in 1 .. n : (IF j + 1 <= n THEN n - (j + 1) + 1 ELSE 0) = n - j
        OBVIOUS
      <4>2. (IF k + 1 <= Len(s) THEN Len(s) - (k + 1) + 1 ELSE 0) = Len(s) - k
        BY <1>1, <4>1
      <4> QED BY <3>2, <4>2
    <3>4. \A i \in 1 .. Len(s) - k : b[i] = s[k + i]
      <4> TAKE i \in 1 .. Len(s) - k
      <4>1. i \in 1 .. Len(s) - (k + 1) + 1 /\ (k + 1) + i - 1 = k + i
        BY <1>1
      <4> QED BY <3>2, <4>1
    <3> QED BY <3>2, <3>3, <3>4
  <2>3. r = a \o b
    BY DEF Queues!RemoveAt
  <2> HIDE DEF a, b, r
  <2>4. /\ a \o b \in Seq(Frames) /\ Len(a \o b) = Len(a) + Len(b)
        /\ \A i \in 1 .. Len(a) : (a \o b)[i] = a[i]
        /\ \A i \in Len(a) + 1 .. Len(a) + Len(b) : (a \o b)[i] = b[i - Len(a)]
    <3>1. Len(a) \in Nat /\ Len(b) \in Nat
      BY <2>1, <2>2
    <3>2. /\ a \o b \in Seq(Frames) /\ Len(a \o b) = Len(a) + Len(b)
          /\ \A i \in 1 .. Len(a) + Len(b) : (a \o b)[i] = IF i <= Len(a) THEN a[i] ELSE b[i - Len(a)]
      BY <2>1, <2>2, ConcatProperties
    <3> QED BY <3>1, <3>2
  <2>5. \A i \in k .. Len(s) - 1 : r[i] = s[i + 1]
    <3> TAKE i \in k .. Len(s) - 1
    <3>1. i \in Len(a) + 1 .. Len(a) + Len(b) /\ i - Len(a) \in 1 .. Len(s) - k
      BY <1>1, <2>1, <2>2
    <3>2. r[i] = s[k + (i - Len(a))]
      BY <2>2, <2>3, <2>4, <3>1
    <3>3. k + (i - Len(a)) = i + 1
      BY <1>1, <2>1
    <3> QED BY <3>2, <3>3
  <2>6. Len(r) = Len(s) - 1 /\ \A i \in 1 .. k - 1 : r[i] = s[i]
    BY <1>1, <2>1, <2>2, <2>3, <2>4
  <2>7. r \in Seq(Frames)
    BY <2>3, <2>4
  <2> QED BY <2>5, <2>6, <2>7
<1> HIDE DEF r
<1>3. \A i \in 1 .. Len(s) - 1 : \E j \in 1 .. Len(s) :
        j # k /\ r[i] = s[j] /\ j = IF i < k THEN i ELSE i + 1
  <2> TAKE i \in 1 .. Len(s) - 1
  <2>1. CASE i < k
    BY <1>1, <1>2, <2>1
  <2>2. CASE k <= i
    BY <1>1, <1>2, <2>2
  <2> QED BY <1>1, <2>1, <2>2
<1>4. \A j \in 1 .. Len(s) : j # k => \E i \in 1 .. Len(s) - 1 : r[i] = s[j]
  <2> SUFFICES ASSUME NEW j \in 1 .. Len(s), j # k PROVE \E i \in 1 .. Len(s) - 1 : r[i] = s[j]
    OBVIOUS
  <2>1. CASE j < k
    BY <1>1, <1>2, <2>1
  <2>2. CASE k < j
    <3>1. j - 1 \in k .. Len(s) - 1 /\ j - 1 \in 1 .. Len(s) - 1 /\ (j - 1) + 1 = j
      BY <1>1, <2>2
    <3> QED BY <1>2, <3>1
  <2> QED BY <2>1, <2>2
<1>5. \A i, j \in 1 .. Len(s) : s[i] = s[j] => i = j
  BY <1>1 DEF IsInjective
<1>6. Range(r) = Range(s) \ {s[k]}
  <2>1. \A x \in Range(r) : x \in Range(s) \ {s[k]}
    BY <1>1, <1>2, <1>3, <1>5 DEF Range
  <2>2. ASSUME NEW x \in Range(s) \ {s[k]} PROVE x \in Range(r)
    <3>1. PICK j \in 1 .. Len(s) : s[j] = x
      BY <1>1 DEF Range
    <3>2. PICK i \in 1 .. Len(s) - 1 : r[i] = x
      BY <1>4, <3>1
    <3> QED BY <1>2, <3>2 DEF Range
  <2> QED BY <2>1, <2>2
<1>7. IsInjective(r)
  <2> SUFFICES ASSUME NEW i \in 1 .. Len(s) - 1, NEW j \in 1 .. Len(s) - 1, r[i] = r[j]
               PROVE  i = j
    BY <1>2 DEF IsInjective
  <2>1. PICK i1 \in 1 .. Len(s) : r[i] = s[i1] /\ i1 = IF i < k THEN i ELSE i + 1
    BY <1>3
  <2>2. PICK j1 \in 1 .. Len(s) : r[j] = s[j1] /\ j1 = IF j < k THEN j ELSE j + 1
    BY <1>3
  <2>3. i1 = j1
    BY <1>5, <2>1, <2>2
  <2> QED BY <1>1, <2>1, <2>2, <2>3
<1> QED BY <1>2, <1>6, <1>7 DEF r

\* The frame at k is linked out.
LEMMA ListRemove ==
  ASSUME NEW nx, NEW o, NEW h \in Heads, NEW s, IsList(nx, o, h, s),
         NEW k \in 1 .. Len(s),
         NEW nx1, nx1[At(h, s, k - 1)] = nx[s[k]],
         Kept(nx1, nx, h, s, (0 .. Len(s)) \ {k - 1, k}),
         NEW o1, \A g \in Frames : o1[g] = h <=> o[g] = h /\ g # s[k]
  PROVE  IsList(nx1, o1, h, Queues!RemoveAt(s, k))
<1> DEFINE r == Queues!RemoveAt(s, k)
<1>1. /\ s \in Seq(Frames) /\ IsInjective(s) /\ Range(s) = {g \in Frames : o[g] = h}
      /\ Follows(nx, h, s) /\ Len(s) \in Nat
  BY DEF IsList
<1>2. /\ r \in Seq(Frames) /\ Len(r) = Len(s) - 1 /\ Range(r) = Range(s) \ {s[k]}
      /\ IsInjective(r)
      /\ \A i \in 1 .. k - 1 : r[i] = s[i]
      /\ \A i \in k .. Len(s) - 1 : r[i] = s[i + 1]
  BY <1>1, RemoveFacts
<1> HIDE DEF r
<1>3. Range(r) = {g \in Frames : o1[g] = h}
  BY <1>1, <1>2
<1>4. /\ \A i \in 0 .. k - 1 : At(h, r, i) = At(h, s, i)
      /\ \A i \in k .. Len(s) : At(h, r, i) = At(h, s, i + 1)
      /\ At(h, s, k) = s[k]
  BY <1>1, <1>2 DEF At
<1>5. Follows(nx1, h, r)
  <2> SUFFICES ASSUME NEW i \in 0 .. Len(r) PROVE nx1[At(h, r, i)] = At(h, r, i + 1)
    BY DEF Follows
  <2>1. CASE i = k - 1
    <3>1. nx[s[k]] = At(h, s, k + 1)
      BY <1>1, <1>4 DEF Follows
    <3> QED BY <1>1, <1>4, <2>1, <3>1
  <2>2. CASE i < k - 1
    <3>1. nx[At(h, s, i)] = At(h, s, i + 1)
      BY <1>1, <1>2, <2>2 DEF Follows
    <3>2. i \in 0 .. k - 1 /\ i + 1 \in 0 .. k - 1 /\ i \in 0 .. Len(s) /\ i \notin {k - 1, k}
      BY <1>1, <1>2, <2>2
    <3> QED BY <1>4, <3>1, <3>2 DEF Kept
  <2>3. CASE k <= i
    <3>1. /\ i + 1 \in 0 .. Len(s) /\ i + 1 \notin {k - 1, k}
          /\ i \in k .. Len(s) /\ i + 1 \in k .. Len(s)
      BY <1>1, <1>2, <2>3
    <3>2. nx[At(h, s, i + 1)] = At(h, s, (i + 1) + 1)
      BY <1>1, <3>1 DEF Follows
    <3>3. At(h, r, i) = At(h, s, i + 1) /\ At(h, r, i + 1) = At(h, s, (i + 1) + 1)
      BY <1>4, <3>1
    <3> QED BY <3>1, <3>2, <3>3 DEF Kept
  <2> QED BY <1>2, <2>1, <2>2, <2>3
<1> QED BY <1>2, <1>3, <1>5 DEF IsList, r

\* The frames of l are linked in behind those of h.
LEMMA ListConcat ==
  ASSUME NEW nx, NEW o, NEW h \in Heads, NEW t, IsList(nx, o, h, t),
         NEW l \in Heads, NEW s, IsList(nx, o, l, s), l # h, s # <<>>,
         NEW nx1, nx1[At(h, t, Len(t))] = nx[l], nx1[At(l, s, Len(s))] = h,
         Kept(nx1, nx, h, t, 0 .. Len(t) - 1), Kept(nx1, nx, l, s, 1 .. Len(s) - 1),
         NEW o1, \A g \in Frames : o1[g] = h <=> o[g] = h \/ o[g] = l
  PROVE  IsList(nx1, o1, h, t \o s)
<1> DEFINE u == t \o s
<1>1. /\ s \in Seq(Frames) /\ IsInjective(s) /\ Range(s) = {g \in Frames : o[g] = l}
      /\ Follows(nx, l, s) /\ Len(s) \in Nat /\ Len(s) # 0
      /\ t \in Seq(Frames) /\ IsInjective(t) /\ Range(t) = {g \in Frames : o[g] = h}
      /\ Follows(nx, h, t) /\ Len(t) \in Nat
  BY DEF IsList
<1>2. Range(t) \cap Range(s) = {}
  BY <1>1
<1>3. /\ u \in Seq(Frames) /\ IsInjective(u) /\ Len(u) = Len(t) + Len(s)
      /\ Range(u) = Range(t) \cup Range(s)
  BY <1>1, <1>2, ConcatRange
<1>4. Range(u) = {g \in Frames : o1[g] = h}
  BY <1>1, <1>3
<1>5. /\ \A i \in 1 .. Len(t) : u[i] = t[i]
      /\ \A i \in Len(t) + 1 .. Len(t) + Len(s) : u[i] = s[i - Len(t)]
  BY <1>1
<1> HIDE DEF u
<1>6. /\ \A i \in 0 .. Len(t) : At(h, u, i) = At(h, t, i)
      /\ \A i \in Len(t) + 1 .. Len(t) + Len(s) : At(h, u, i) = At(l, s, i - Len(t))
      /\ At(h, u, Len(t) + Len(s) + 1) = h
  BY <1>1, <1>3, <1>5 DEF At
<1>7. Follows(nx1, h, u)
  <2> SUFFICES ASSUME NEW i \in 0 .. Len(t) + Len(s)
               PROVE  nx1[At(h, u, i)] = At(h, u, i + 1)
    BY <1>3 DEF Follows
  <2>1. CASE i < Len(t)
    <3>1. nx[At(h, t, i)] = At(h, t, i + 1)
      BY <1>1, <2>1 DEF Follows
    <3> QED BY <1>1, <1>6, <2>1, <3>1 DEF Kept
  <2>2. CASE i = Len(t)
    <3>1. nx[l] = At(l, s, 1)
      BY <1>1, AtFacts DEF Follows
    <3>2. At(h, u, i + 1) = At(l, s, 1)
      BY <1>1, <1>6, <2>2
    <3> QED BY <1>1, <1>6, <2>2, <3>1, <3>2
  <2>3. CASE i = Len(t) + Len(s)
    <3>1. At(h, u, i) = At(l, s, Len(s))
      BY <1>1, <1>6, <2>3
    <3> QED BY <1>6, <2>3, <3>1
  <2>4. CASE Len(t) < i /\ i < Len(t) + Len(s)
    <3> DEFINE j == i - Len(t)
    <3>1. j \in 1 .. Len(s) - 1 /\ j \in 0 .. Len(s) /\ (i + 1) - Len(t) = j + 1
      BY <1>1, <2>4
    <3>2. nx[At(l, s, j)] = At(l, s, j + 1)
      BY <1>1, <3>1 DEF Follows
    <3>3. At(h, u, i) = At(l, s, j) /\ At(h, u, i + 1) = At(l, s, j + 1)
      BY <1>1, <1>6, <2>4, <3>1
    <3> HIDE DEF j
    <3>4. nx1[At(l, s, j)] = nx[At(l, s, j)]
      BY <3>1 DEF Kept
    <3> QED BY <3>2, <3>3, <3>4
  <2>5. i < Len(t) \/ i = Len(t) \/ i = Len(t) + Len(s) \/ (Len(t) < i /\ i < Len(t) + Len(s))
    BY <1>1
  <2> QED BY <2>1, <2>2, <2>3, <2>4, <2>5
<1> QED BY <1>3, <1>4, <1>7 DEF IsList, u

\* A list is empty.
LEMMA ListEmpty ==
  ASSUME NEW h \in Heads, NEW nx, nx[h] = h, NEW o, \A f \in Frames : o[f] # h
  PROVE  IsList(nx, o, h, <<>>)
BY EmptyRange DEF IsList, Follows, At

-----------------------------------------------------------------------------
(* All lists. *)

Own(o, c) == IF c \in Heads THEN c ELSE o[c]

Rings(nx, pv, o) ==
  \A c \in Cells : Own(o, c) # None =>
    /\ Own(o, nx[c]) = Own(o, c) /\ pv[nx[c]] = c
    /\ Own(o, pv[c]) = Own(o, c) /\ nx[pv[c]] = c

\* Pointers in both directions between cells, rings on every list.
Sound(nx, pv, o) ==
  /\ nx \in [Cells -> Cells] /\ pv \in [Cells -> Cells]
  /\ o \in [Frames -> Heads \cup {None}]
  /\ Rings(nx, pv, o)

\* The pointers hold the sequences q.
Well(nx, pv, o, q) ==
  /\ Sound(nx, pv, o)
  /\ q \in [Heads -> Seq(Frames)]
  /\ \A h \in Heads : IsList(nx, o, h, q[h])

\* The pointers and owners after linux_list_add of f between p and n, list_del,
\* list_move_tail and list_splice_tail_init.
Put(o, f, h) == [o EXCEPT ![f] = h]
LinkedNext(nx, f, p, n) == [nx EXCEPT ![f] = n, ![p] = f]
LinkedPrev(pv, f, p, n) == [pv EXCEPT ![f] = p, ![n] = f]
UnlinkedNext(nx, pv, f) == [nx EXCEPT ![pv[f]] = nx[f]]
UnlinkedPrev(nx, pv, f) == [pv EXCEPT ![nx[f]] = pv[f]]
MovedNext(nx, pv, f, h) == [nx EXCEPT ![pv[f]] = nx[f], ![f] = h, ![pv[h]] = f]
MovedPrev(nx, pv, f, h) == [pv EXCEPT ![nx[f]] = pv[f], ![f] = pv[h], ![h] = f]
SplicedNext(nx, pv, l, h) == [nx EXCEPT ![pv[h]] = nx[l], ![pv[l]] = h, ![l] = l]
SplicedPrev(nx, pv, l, h) == [pv EXCEPT ![nx[l]] = pv[h], ![h] = pv[l], ![l] = l]
SplicedOn(o, l, h) == [f \in Frames |-> IF o[f] = l THEN h ELSE o[f]]

\* What is where in a well linked heap.
LEMMA OwnFacts ==
  ASSUME NEW nx, NEW pv, NEW o, NEW q, Well(nx, pv, o, q)
  PROVE  /\ \A h \in Heads : h \in Cells /\ h \notin Frames /\ h # None /\ Own(o, h) = h
         /\ \A f \in Frames : f \in Cells /\ f \notin Heads /\ Own(o, f) = o[f]
         /\ \A c \in Cells : Own(o, c) # None =>
              /\ nx[c] \in Cells /\ Own(o, nx[c]) = Own(o, c) /\ pv[nx[c]] = c
              /\ pv[c] \in Cells /\ Own(o, pv[c]) = Own(o, c) /\ nx[pv[c]] = c
         /\ \A f \in Frames : o[f] # None => nx[f] # f /\ pv[f] # f
<1>1. \A h \in Heads : h \in Cells /\ h \notin Frames /\ h # None /\ Own(o, h) = h
  BY CellsAssumption DEF Cells, Own
<1>2. \A f \in Frames : f \in Cells /\ f \notin Heads /\ Own(o, f) = o[f]
  BY CellsAssumption DEF Cells, Own
<1>3. \A c \in Cells : Own(o, c) # None =>
        /\ nx[c] \in Cells /\ Own(o, nx[c]) = Own(o, c) /\ pv[nx[c]] = c
        /\ pv[c] \in Cells /\ Own(o, pv[c]) = Own(o, c) /\ nx[pv[c]] = c
  BY DEF Well, Sound, Rings
<1>4. ASSUME NEW f \in Frames, o[f] # None PROVE nx[f] # f
  <2> DEFINE h == o[f]
             s == q[h]
  <2>1. h \in Heads /\ s \in Seq(Frames)
    BY <1>4 DEF Well, Sound
  <2>2. IsList(nx, o, h, s)
    BY <2>1 DEF Well
  <2> HIDE DEF h, s
  <2>3. f \in Range(s) /\ IsInjective(s) /\ Follows(nx, h, s)
    BY <2>2 DEF IsList, h
  <2>4. PICK i \in 1 .. Len(s) : s[i] = f
    BY <2>1, <2>3 DEF Range
  <2>5. nx[f] = At(h, s, i + 1)
    BY <2>1, <2>3, <2>4, AtFacts DEF Follows
  <2>6. CASE i = Len(s)
    BY <1>1, <2>1, <2>5, <2>6, AtFacts
  <2>7. CASE i # Len(s)
    <3>1. i + 1 \in 1 .. Len(s) /\ i + 1 # i
      BY <2>1, <2>7
    <3> QED BY <2>1, <2>3, <2>4, <2>5, <3>1, AtFacts DEF IsInjective
  <2> QED BY <2>6, <2>7
<1>5. ASSUME NEW f \in Frames, o[f] # None PROVE pv[f] # f
  BY <1>2, <1>3, <1>4, <1>5
<1> QED BY <1>1, <1>2, <1>3, <1>4, <1>5

\* The neighbours of a cell that is on a list.
LEMMA CellFacts ==
  ASSUME NEW nx, NEW pv, NEW o, NEW q, Well(nx, pv, o, q), NEW c \in Cells, Own(o, c) # None
  PROVE  /\ nx[c] \in Cells /\ Own(o, nx[c]) = Own(o, c) /\ pv[nx[c]] = c
         /\ pv[c] \in Cells /\ Own(o, pv[c]) = Own(o, c) /\ nx[pv[c]] = c
BY OwnFacts

\* Round a list, by the index.
LEMMA RoundFacts ==
  ASSUME NEW nx, NEW pv, NEW o, NEW q, Well(nx, pv, o, q), NEW h \in Heads,
         NEW s, s = q[h]
  PROVE  /\ s \in Seq(Frames) /\ Len(s) \in Nat /\ IsInjective(s)
         /\ \A f \in Frames : o[f] = h <=> f \in Range(s)
         /\ h \in Cells /\ h # None /\ h \notin Frames /\ At(h, s, 0) = h
         /\ \A i \in 1 .. Len(s) : At(h, s, i) = s[i] /\ s[i] \in Frames /\ o[s[i]] = h
         /\ \A i \in Nat : At(h, s, i) \in Cells /\ Own(o, At(h, s, i)) = h
         /\ \A i \in 0 .. Len(s) : /\ nx[At(h, s, i)] = At(h, s, i + 1)
                                   /\ pv[At(h, s, i + 1)] = At(h, s, i)
         /\ pv[h] = At(h, s, Len(s))
         /\ \A i, j \in 0 .. Len(s) : At(h, s, i) = At(h, s, j) => i = j
<1>1. IsList(nx, o, h, s) /\ s \in Seq(Frames) /\ Len(s) \in Nat /\ DOMAIN s = 1 .. Len(s)
  BY DEF Well
<1>2. IsInjective(s) /\ Follows(nx, h, s) /\ Range(s) = {f \in Frames : o[f] = h}
  BY <1>1 DEF IsList
<1>3. \A f \in Frames : o[f] = h <=> f \in Range(s)
  BY <1>2
<1>4. h \in Cells /\ h # None /\ h \notin Frames /\ At(h, s, 0) = h /\ Own(o, h) = h
  BY <1>1, AtFacts, OwnFacts
<1>5. \A i \in 1 .. Len(s) : At(h, s, i) = s[i] /\ s[i] \in Frames /\ o[s[i]] = h
  BY <1>1, <1>3, AtFacts DEF Range
<1>6. ASSUME NEW i \in Nat PROVE At(h, s, i) \in Cells /\ Own(o, At(h, s, i)) = h
  <2>1. CASE i \in 1 .. Len(s)
    BY <1>5, <2>1, OwnFacts
  <2>2. CASE i \notin 1 .. Len(s)
    BY <1>1, <1>4, <2>2, AtFacts
  <2> QED BY <2>1, <2>2
<1>7. ASSUME NEW i \in 0 .. Len(s)
      PROVE  nx[At(h, s, i)] = At(h, s, i + 1) /\ pv[At(h, s, i + 1)] = At(h, s, i)
  <2>1. nx[At(h, s, i)] = At(h, s, i + 1)
    BY <1>2 DEF Follows
  <2>2. At(h, s, i) \in Cells /\ Own(o, At(h, s, i)) # None
    BY <1>4, <1>6
  <2> QED BY <2>1, <2>2, CellFacts
<1>8. pv[h] = At(h, s, Len(s))
  BY <1>1, <1>7, AtFacts
<1>9. ASSUME NEW i \in 0 .. Len(s), NEW j \in 0 .. Len(s), At(h, s, i) = At(h, s, j)
      PROVE  i = j
  <2>1. CASE i = 0 \/ j = 0
    BY <1>1, <1>4, <1>5, <1>9, <2>1
  <2>2. CASE i # 0 /\ j # 0
    BY <1>1, <1>2, <1>5, <1>9, <2>2 DEF IsInjective
  <2> QED BY <2>1, <2>2
<1> QED BY <1>1, <1>2, <1>3, <1>4, <1>5, <1>6, <1>7, <1>8, <1>9

\* linux_list_add of a frame on no list, at either end of a list.
LEMMA LinkKeeps ==
  ASSUME NEW nx, NEW pv, NEW o, NEW q, Well(nx, pv, o, q),
         NEW f \in Frames, o[f] = None, NEW h \in Heads,
         NEW p \in Cells, Own(o, p) = h, p = h \/ nx[p] = h,
         NEW nx1, nx1 = LinkedNext(nx, f, p, nx[p]),
         NEW pv1, pv1 = LinkedPrev(pv, f, p, nx[p]),
         NEW o1, o1 = Put(o, f, h)
  PROVE  Sound(nx1, pv1, o1)
<1> USE DEF LinkedNext, LinkedPrev, Put
<1>1. /\ f \in Cells /\ f \notin Heads /\ Own(o, f) = None /\ h \in Cells /\ h # None
      /\ h \notin Frames
  BY OwnFacts
<1>2. /\ nx[p] \in Cells /\ Own(o, nx[p]) = h /\ pv[nx[p]] = p
      /\ p # f /\ nx[p] # f
  BY OwnFacts, <1>1
<1>3. /\ nx1 \in [Cells -> Cells] /\ pv1 \in [Cells -> Cells]
      /\ o1 \in [Frames -> Heads \cup {None}]
  BY <1>1, <1>2 DEF Well, Sound
<1>4. \A c \in Cells : Own(o1, c) = IF c = f THEN h ELSE Own(o, c)
  BY <1>1 DEF Own, Well, Sound, Cells
<1>12. Own(o1, f) = h /\ Own(o1, p) = h /\ Own(o1, nx[p]) = h
  BY <1>1, <1>2, <1>4
<1>5. /\ nx1[f] = nx[p] /\ pv1[f] = p /\ nx1[p] = f /\ pv1[nx[p]] = f
      /\ \A c \in Cells : c \notin {f, p} => nx1[c] = nx[c]
      /\ \A c \in Cells : c \notin {f, nx[p]} => pv1[c] = pv[c]
  BY <1>1, <1>2 DEF Well, Sound
<1>6. ASSUME NEW c \in Cells, Own(o1, c) # None
      PROVE  /\ Own(o1, nx1[c]) = Own(o1, c) /\ pv1[nx1[c]] = c
             /\ Own(o1, pv1[c]) = Own(o1, c) /\ nx1[pv1[c]] = c
  <2>1. CASE c = f
    BY <1>5, <1>12, <2>1
  <2>2. CASE c # f
    <3>0. Own(o, c) # None /\ Own(o1, c) = Own(o, c)
      BY <1>4, <1>6, <2>2
    <3>1. /\ nx[c] \in Cells /\ Own(o, nx[c]) = Own(o, c) /\ pv[nx[c]] = c
          /\ pv[c] \in Cells /\ Own(o, pv[c]) = Own(o, c) /\ nx[pv[c]] = c
          /\ nx[c] # f /\ pv[c] # f
      BY CellFacts, <1>1, <3>0
    <3>2. Own(o1, nx1[c]) = Own(o1, c) /\ pv1[nx1[c]] = c
      <4>1. CASE c = p
        BY <1>5, <1>12, <4>1
      <4>2. CASE c # p
        <5>1. nx1[c] = nx[c] /\ nx[c] # nx[p]
          BY <1>2, <1>5, <2>2, <3>1, <4>2
        <5>2. Own(o1, nx[c]) = Own(o, nx[c])
          BY <1>4, <3>1
        <5>3. pv1[nx[c]] = pv[nx[c]]
          BY <1>5, <3>1, <5>1
        <5> QED BY <3>0, <3>1, <5>1, <5>2, <5>3
      <4> QED BY <4>1, <4>2
    <3>3. Own(o1, pv1[c]) = Own(o1, c) /\ nx1[pv1[c]] = c
      <4>1. CASE c = nx[p]
        BY <1>5, <1>12, <4>1
      <4>2. CASE c # nx[p]
        <5>1. pv1[c] = pv[c] /\ pv[c] # p
          BY <1>2, <1>5, <2>2, <3>1, <4>2
        <5>2. Own(o1, pv[c]) = Own(o, pv[c])
          BY <1>4, <3>1
        <5>3. nx1[pv[c]] = nx[pv[c]]
          BY <1>5, <3>1, <5>1
        <5> QED BY <3>0, <3>1, <5>1, <5>2, <5>3
      <4> QED BY <4>1, <4>2
    <3> QED BY <3>2, <3>3
  <2> QED BY <2>1, <2>2
<1> QED BY <1>3, <1>6 DEF Sound, Rings

\* list_del of a frame on a list.
LEMMA UnlinkKeeps ==
  ASSUME NEW nx, NEW pv, NEW o, NEW q, Well(nx, pv, o, q),
         NEW f \in Frames, o[f] # None,
         NEW nx1, nx1 = UnlinkedNext(nx, pv, f),
         NEW pv1, pv1 = UnlinkedPrev(nx, pv, f),
         NEW o1, o1 = Put(o, f, None)
  PROVE  Sound(nx1, pv1, o1)
<1> USE DEF UnlinkedNext, UnlinkedPrev, Put
<1>1. /\ f \in Cells /\ f \notin Heads /\ Own(o, f) = o[f]
      /\ nx[f] \in Cells /\ Own(o, nx[f]) = o[f] /\ pv[nx[f]] = f /\ nx[f] # f
      /\ pv[f] \in Cells /\ Own(o, pv[f]) = o[f] /\ nx[pv[f]] = f /\ pv[f] # f
  BY OwnFacts
<1>2. /\ nx1 \in [Cells -> Cells] /\ pv1 \in [Cells -> Cells]
      /\ o1 \in [Frames -> Heads \cup {None}]
  BY <1>1 DEF Well, Sound
<1>3. \A c \in Cells : Own(o1, c) = IF c = f THEN None ELSE Own(o, c)
  BY <1>1 DEF Own, Well, Sound, Cells
<1>12. Own(o1, nx[f]) = o[f] /\ Own(o1, pv[f]) = o[f]
  BY <1>1, <1>3
<1>4. /\ nx1[pv[f]] = nx[f] /\ pv1[nx[f]] = pv[f]
      /\ \A c \in Cells : c \notin {pv[f]} => nx1[c] = nx[c]
      /\ \A c \in Cells : c \notin {nx[f]} => pv1[c] = pv[c]
  BY <1>1 DEF Well, Sound
<1>5. ASSUME NEW c \in Cells, Own(o1, c) # None
      PROVE  /\ Own(o1, nx1[c]) = Own(o1, c) /\ pv1[nx1[c]] = c
             /\ Own(o1, pv1[c]) = Own(o1, c) /\ nx1[pv1[c]] = c
  <2>0. c # f /\ Own(o1, c) = Own(o, c) /\ Own(o, c) # None
    BY <1>3, <1>5
  <2>1. /\ nx[c] \in Cells /\ Own(o, nx[c]) = Own(o, c) /\ pv[nx[c]] = c
        /\ pv[c] \in Cells /\ Own(o, pv[c]) = Own(o, c) /\ nx[pv[c]] = c
        /\ c # f /\ Own(o1, c) = Own(o, c)
    BY CellFacts, <2>0
  <2>2. Own(o1, nx1[c]) = Own(o1, c) /\ pv1[nx1[c]] = c
    <3>1. CASE c = pv[f]
      BY <1>4, <1>12, <3>1
    <3>2. CASE c # pv[f]
      <4>1. nx1[c] = nx[c] /\ nx[c] # f /\ nx[c] # nx[f]
        BY <1>1, <1>4, <2>1, <3>2
      <4>2. Own(o1, nx[c]) = Own(o, nx[c]) /\ pv1[nx[c]] = pv[nx[c]]
        BY <1>3, <1>4, <2>1, <4>1
      <4> QED BY <2>1, <4>1, <4>2
    <3> QED BY <3>1, <3>2
  <2>3. Own(o1, pv1[c]) = Own(o1, c) /\ nx1[pv1[c]] = c
    <3>1. CASE c = nx[f]
      BY <1>4, <1>12, <3>1
    <3>2. CASE c # nx[f]
      <4>1. pv1[c] = pv[c] /\ pv[c] # f /\ pv[c] # pv[f]
        BY <1>1, <1>4, <2>1, <3>2
      <4>2. Own(o1, pv[c]) = Own(o, pv[c]) /\ nx1[pv[c]] = nx[pv[c]]
        BY <1>3, <1>4, <2>1, <4>1
      <4> QED BY <2>1, <4>1, <4>2
    <3> QED BY <3>1, <3>2
  <2> QED BY <2>2, <2>3
<1> QED BY <1>2, <1>5 DEF Sound, Rings

\* list_move_tail of a frame from one list to another.
LEMMA MoveKeeps ==
  ASSUME NEW nx, NEW pv, NEW o, NEW q, Well(nx, pv, o, q),
         NEW f \in Frames, NEW h \in Heads, o[f] # None, o[f] # h,
         NEW nx1, nx1 = MovedNext(nx, pv, f, h),
         NEW pv1, pv1 = MovedPrev(nx, pv, f, h),
         NEW o1, o1 = Put(o, f, h)
  PROVE  Sound(nx1, pv1, o1)
<1> USE DEF MovedNext, MovedPrev, Put
<1>1. /\ f \in Cells /\ f \notin Heads /\ Own(o, f) = o[f]
      /\ nx[f] \in Cells /\ Own(o, nx[f]) = o[f] /\ pv[nx[f]] = f /\ nx[f] # f
      /\ pv[f] \in Cells /\ Own(o, pv[f]) = o[f] /\ nx[pv[f]] = f /\ pv[f] # f
  BY OwnFacts
<1>2. /\ h \in Cells /\ Own(o, h) = h /\ h # None /\ h # f /\ h \notin Frames
      /\ pv[h] \in Cells /\ Own(o, pv[h]) = h /\ nx[pv[h]] = h
      /\ pv[h] # f /\ pv[h] # pv[f] /\ h # nx[f]
  BY OwnFacts, <1>1
<1>3. /\ nx1 \in [Cells -> Cells] /\ pv1 \in [Cells -> Cells]
      /\ o1 \in [Frames -> Heads \cup {None}]
  BY <1>1, <1>2 DEF Well, Sound
<1>4. \A c \in Cells : Own(o1, c) = IF c = f THEN h ELSE Own(o, c)
  BY <1>1 DEF Own, Well, Sound, Cells
<1>12. /\ Own(o1, f) = h /\ Own(o1, h) = h /\ Own(o1, pv[h]) = h
       /\ Own(o1, nx[f]) = o[f] /\ Own(o1, pv[f]) = o[f]
  BY <1>1, <1>2, <1>4
<1>5. /\ nx1[f] = h /\ nx1[pv[h]] = f /\ nx1[pv[f]] = nx[f]
      /\ \A c \in Cells : c \notin {f, pv[f], pv[h]} => nx1[c] = nx[c]
  BY <1>1, <1>2 DEF Well, Sound
<1>6. /\ pv1[f] = pv[h] /\ pv1[h] = f /\ pv1[nx[f]] = pv[f]
      /\ \A c \in Cells : c \notin {f, nx[f], h} => pv1[c] = pv[c]
  BY <1>1, <1>2 DEF Well, Sound
<1>7. ASSUME NEW c \in Cells, Own(o1, c) # None
      PROVE  /\ Own(o1, nx1[c]) = Own(o1, c) /\ pv1[nx1[c]] = c
             /\ Own(o1, pv1[c]) = Own(o1, c) /\ nx1[pv1[c]] = c
  <2>1. CASE c = f
    BY <1>5, <1>6, <1>12, <2>1
  <2>2. CASE c # f
    <3>0. Own(o, c) # None /\ Own(o1, c) = Own(o, c)
      BY <1>4, <1>7, <2>2
    <3>1. /\ nx[c] \in Cells /\ Own(o, nx[c]) = Own(o, c) /\ pv[nx[c]] = c
          /\ pv[c] \in Cells /\ Own(o, pv[c]) = Own(o, c) /\ nx[pv[c]] = c
      BY CellFacts, <3>0
    <3>2. Own(o1, nx1[c]) = Own(o1, c) /\ pv1[nx1[c]] = c
      <4>1. CASE c = pv[f]
        BY <1>5, <1>6, <1>12, <4>1
      <4>2. CASE c = pv[h]
        BY <1>5, <1>6, <1>12, <4>2
      <4>3. CASE c # pv[f] /\ c # pv[h]
        <5>1. nx1[c] = nx[c] /\ nx[c] # f /\ nx[c] # h /\ nx[c] # nx[f]
          BY <1>1, <1>2, <1>5, <2>2, <3>1, <4>3
        <5>2. Own(o1, nx[c]) = Own(o, nx[c])
          BY <1>4, <3>1, <5>1
        <5>3. pv1[nx[c]] = pv[nx[c]]
          BY <1>6, <3>1, <5>1
        <5> QED BY <3>0, <3>1, <5>1, <5>2, <5>3
      <4> QED BY <4>1, <4>2, <4>3
    <3>3. Own(o1, pv1[c]) = Own(o1, c) /\ nx1[pv1[c]] = c
      <4>1. CASE c = nx[f]
        BY <1>5, <1>6, <1>12, <4>1
      <4>2. CASE c = h
        BY <1>5, <1>6, <1>12, <4>2
      <4>3. CASE c # nx[f] /\ c # h
        <5>1. pv1[c] = pv[c] /\ pv[c] # f /\ pv[c] # pv[h] /\ pv[c] # pv[f]
          BY <1>1, <1>2, <1>6, <2>2, <3>1, <4>3
        <5>2. Own(o1, pv[c]) = Own(o, pv[c])
          BY <1>4, <3>1, <5>1
        <5>3. nx1[pv[c]] = nx[pv[c]]
          BY <1>5, <3>1, <5>1
        <5> QED BY <3>0, <3>1, <5>1, <5>2, <5>3
      <4> QED BY <4>1, <4>2, <4>3
    <3> QED BY <3>2, <3>3
  <2> QED BY <2>1, <2>2
<1> QED BY <1>3, <1>7 DEF Sound, Rings

\* list_splice_tail_init of a list that is not empty.
LEMMA SpliceKeeps ==
  ASSUME NEW nx, NEW pv, NEW o, NEW q, Well(nx, pv, o, q),
         NEW l \in Heads, NEW h \in Heads, l # h, nx[l] # l,
         NEW nx1, nx1 = SplicedNext(nx, pv, l, h),
         NEW pv1, pv1 = SplicedPrev(nx, pv, l, h),
         NEW o1, o1 = SplicedOn(o, l, h)
  PROVE  Sound(nx1, pv1, o1)
<1> USE DEF SplicedNext, SplicedPrev, SplicedOn
<1>1. /\ l \in Cells /\ Own(o, l) = l /\ l # None /\ l \notin Frames
      /\ h \in Cells /\ Own(o, h) = h /\ h # None /\ h \notin Frames
  BY OwnFacts
<1>2. /\ nx[l] \in Cells /\ Own(o, nx[l]) = l /\ pv[nx[l]] = l
      /\ pv[l] \in Cells /\ Own(o, pv[l]) = l /\ nx[pv[l]] = l
      /\ pv[h] \in Cells /\ Own(o, pv[h]) = h /\ nx[pv[h]] = h
      /\ pv[l] # l /\ pv[h] # pv[l] /\ nx[l] # h
  BY CellFacts, <1>1
<1>3. /\ nx1 \in [Cells -> Cells] /\ pv1 \in [Cells -> Cells]
      /\ o1 \in [Frames -> Heads \cup {None}]
  BY <1>1, <1>2 DEF Well, Sound
<1>4. \A c \in Cells : Own(o1, c) = IF Own(o, c) = l /\ c # l THEN h ELSE Own(o, c)
  <2> TAKE c \in Cells
  <2>1. CASE c \in Heads
    BY <2>1 DEF Own
  <2>2. CASE c \notin Heads
    BY <1>1, <2>2 DEF Own, Cells
  <2> QED BY <2>1, <2>2
<1>12. /\ Own(o1, l) = l /\ Own(o1, h) = h /\ Own(o1, pv[h]) = h
       /\ Own(o1, nx[l]) = h /\ Own(o1, pv[l]) = h
  BY <1>1, <1>2, <1>4
<1>5. /\ nx1[l] = l /\ nx1[pv[h]] = nx[l] /\ nx1[pv[l]] = h
      /\ \A c \in Cells : c \notin {l, pv[h], pv[l]} => nx1[c] = nx[c]
  BY <1>1, <1>2 DEF Well, Sound
<1>6. /\ pv1[l] = l /\ pv1[nx[l]] = pv[h] /\ pv1[h] = pv[l]
      /\ \A c \in Cells : c \notin {l, nx[l], h} => pv1[c] = pv[c]
  BY <1>1, <1>2 DEF Well, Sound
<1>7. ASSUME NEW c \in Cells, Own(o1, c) # None
      PROVE  /\ Own(o1, nx1[c]) = Own(o1, c) /\ pv1[nx1[c]] = c
             /\ Own(o1, pv1[c]) = Own(o1, c) /\ nx1[pv1[c]] = c
  <2>1. CASE c = l
    BY <1>5, <1>6, <1>12, <2>1
  <2>2. CASE c # l
    <3>0. Own(o, c) # None
      BY <1>1, <1>4, <1>7
    <3>1. /\ nx[c] \in Cells /\ Own(o, nx[c]) = Own(o, c) /\ pv[nx[c]] = c
          /\ pv[c] \in Cells /\ Own(o, pv[c]) = Own(o, c) /\ nx[pv[c]] = c
      BY CellFacts, <3>0
    <3>2. Own(o1, nx1[c]) = Own(o1, c) /\ pv1[nx1[c]] = c
      <4>1. CASE c = pv[h]
        BY <1>5, <1>6, <1>12, <4>1
      <4>2. CASE c = pv[l]
        BY <1>5, <1>6, <1>12, <4>2
      <4>3. CASE c # pv[h] /\ c # pv[l]
        <5>1. nx1[c] = nx[c] /\ nx[c] # l /\ nx[c] # nx[l] /\ nx[c] # h
          BY <1>1, <1>2, <1>5, <2>2, <3>1, <4>3
        <5>2. Own(o1, nx[c]) = Own(o1, c)
          BY <1>4, <2>2, <3>1, <5>1
        <5>3. pv1[nx[c]] = pv[nx[c]]
          BY <1>6, <3>1, <5>1
        <5> QED BY <3>1, <5>1, <5>2, <5>3
      <4> QED BY <4>1, <4>2, <4>3
    <3>3. Own(o1, pv1[c]) = Own(o1, c) /\ nx1[pv1[c]] = c
      <4>1. CASE c = nx[l]
        BY <1>5, <1>6, <1>12, <4>1
      <4>2. CASE c = h
        BY <1>5, <1>6, <1>12, <4>2
      <4>3. CASE c # nx[l] /\ c # h
        <5>1. pv1[c] = pv[c] /\ pv[c] # l /\ pv[c] # pv[h] /\ pv[c] # pv[l]
          BY <1>1, <1>2, <1>6, <2>2, <3>1, <4>3
        <5>2. Own(o1, pv[c]) = Own(o1, c)
          BY <1>4, <2>2, <3>1, <5>1
        <5>3. nx1[pv[c]] = nx[pv[c]]
          BY <1>5, <3>1, <5>1
        <5> QED BY <3>1, <5>1, <5>2, <5>3
      <4> QED BY <4>1, <4>2, <4>3
    <3> QED BY <3>2, <3>3
  <2> QED BY <2>1, <2>2
<1> QED BY <1>3, <1>7 DEF Sound, Rings

\* list_add of a frame on no list.
LEMMA AddFirstDoes ==
  ASSUME NEW nx, NEW pv, NEW o, NEW q, Well(nx, pv, o, q),
         NEW f \in Frames, o[f] = None, NEW h \in Heads
  PROVE  Well(LinkedNext(nx, f, h, nx[h]), LinkedPrev(pv, f, h, nx[h]), Put(o, f, h),
              Queues!AddFirst(q, f, h))
<1> DEFINE nx1 == LinkedNext(nx, f, h, nx[h])
           pv1 == LinkedPrev(pv, f, h, nx[h])
           o1 == Put(o, f, h)
           q1 == Queues!AddFirst(q, f, h)
<1>1. /\ f \in Cells /\ f \notin Heads /\ h \in Cells /\ h # None /\ h \notin Frames
      /\ Own(o, h) = h /\ o[f] # h /\ nx \in [Cells -> Cells]
      /\ o \in [Frames -> Heads \cup {None}]
  BY OwnFacts DEF Well, Sound
<1>2. Sound(nx1, pv1, o1)
  BY <1>1, LinkKeeps
<1>3. q1 = [q EXCEPT ![h] = <<f>> \o q[h]] /\ q \in [Heads -> Seq(Frames)]
  BY DEF Queues!AddFirst, Well
<1>4. /\ nx1[h] = f /\ nx1[f] = nx[h]
      /\ \A c \in Cells : c \notin {f, h} => nx1[c] = nx[c]
      /\ o1[f] = h /\ \A g \in Frames : g # f => o1[g] = o[g]
  BY <1>1 DEF LinkedNext, Put
<1> HIDE DEF nx1, pv1, o1, q1
<1>5. ASSUME NEW g \in Heads PROVE IsList(nx1, o1, g, q1[g])
  <2>1. IsList(nx, o, g, q[g])
    BY DEF Well
  <2>2. CASE g = h
    <3>1. \A e \in Frames : o[e] = h => nx1[e] = nx[e]
      BY <1>1, <1>4 DEF Cells
    <3>2. \A e \in Frames : o1[e] = h <=> o[e] = h \/ e = f
      BY <1>1, <1>4
    <3>3. IsList(nx1, o1, h, <<f>> \o q[h])
      BY <1>1, <1>4, <2>1, <2>2, <3>1, <3>2, ListCons
    <3> QED BY <1>3, <2>2, <3>3
  <2>3. CASE g # h
    <3>0. g \in Cells /\ g # None /\ g # f
      BY <1>1, OwnFacts
    <3>1. nx1[g] = nx[g] /\ \A e \in Frames : o[e] = g => nx1[e] = nx[e]
      BY <1>1, <1>4, <2>3, <3>0 DEF Cells
    <3>2. \A e \in Frames : o1[e] = g <=> o[e] = g
      BY <1>1, <1>4, <2>3, <3>0
    <3>3. IsList(nx1, o1, g, q[g])
      BY <2>1, <3>1, <3>2, SameList
    <3> QED BY <1>3, <2>3, <3>3
  <2> QED BY <2>2, <2>3
<1>6. q1 \in [Heads -> Seq(Frames)]
  BY <1>3, ConsRange
<1> QED BY <1>2, <1>5, <1>6 DEF Well, nx1, pv1, o1, q1

\* list_add_tail of a frame on no list.
LEMMA AddLastDoes ==
  ASSUME NEW nx, NEW pv, NEW o, NEW q, Well(nx, pv, o, q),
         NEW f \in Frames, o[f] = None, NEW h \in Heads
  PROVE  Well(LinkedNext(nx, f, pv[h], h), LinkedPrev(pv, f, pv[h], h), Put(o, f, h),
              Queues!AddLast(q, f, h))
<1> DEFINE nx1 == LinkedNext(nx, f, pv[h], h)
           pv1 == LinkedPrev(pv, f, pv[h], h)
           o1 == Put(o, f, h)
           q1 == Queues!AddLast(q, f, h)
           s == q[h]
           p == pv[h]
<1>1. /\ f \in Cells /\ f \notin Heads /\ h \in Cells /\ h # None /\ h \notin Frames
      /\ Own(o, h) = h /\ Own(o, f) = None /\ nx \in [Cells -> Cells]
      /\ o \in [Frames -> Heads \cup {None}]
  BY OwnFacts DEF Well, Sound
<1>2. p \in Cells /\ Own(o, p) = h /\ nx[p] = h /\ p # f
  BY <1>1, OwnFacts
<1>3. Sound(nx1, pv1, o1)
  BY <1>1, <1>2, LinkKeeps
<1>4. q1 = [q EXCEPT ![h] = Append(s, f)] /\ q \in [Heads -> Seq(Frames)]
  BY DEF Queues!AddLast, Well
<1>5. /\ s \in Seq(Frames) /\ Len(s) \in Nat /\ pv[h] = At(h, s, Len(s))
      /\ \A i \in Nat : At(h, s, i) \in Cells /\ Own(o, At(h, s, i)) = h
      /\ \A i, j \in 0 .. Len(s) : At(h, s, i) = At(h, s, j) => i = j
  BY RoundFacts
<1>6. /\ nx1[f] = h /\ nx1[p] = f
      /\ \A c \in Cells : c \notin {f, p} => nx1[c] = nx[c]
      /\ o1[f] = h /\ \A g \in Frames : g # f => o1[g] = o[g]
  BY <1>1, <1>2 DEF LinkedNext, Put
<1> HIDE DEF nx1, pv1, o1, q1, s, p
<1>7. ASSUME NEW g \in Heads PROVE IsList(nx1, o1, g, q1[g])
  <2>1. IsList(nx, o, g, q[g])
    BY DEF Well
  <2>2. CASE g = h
    <3>1. Kept(nx1, nx, h, s, 0 .. Len(s) - 1)
      <4> SUFFICES ASSUME NEW i \in 0 .. Len(s) - 1 PROVE nx1[At(h, s, i)] = nx[At(h, s, i)]
        BY DEF Kept
      <4>1. At(h, s, i) # p /\ At(h, s, i) \in Cells /\ At(h, s, i) # f
        BY <1>1, <1>5 DEF p
      <4> QED BY <1>6, <4>1
    <3>2. \A e \in Frames : o1[e] = h <=> o[e] = h \/ e = f
      BY <1>1, <1>6
    <3>3. IsList(nx, o, h, s) /\ o[f] # h
      BY <1>1, <2>1, <2>2 DEF s
    <3>4. IsList(nx1, o1, h, Append(s, f))
      BY <1>5, <1>6, <3>1, <3>2, <3>3, ListAppend DEF p
    <3> QED BY <1>4, <2>2, <3>4
  <2>3. CASE g # h
    <3>0. g \in Cells /\ g # None /\ g # f /\ Own(o, g) = g /\ \A e \in Frames : Own(o, e) = o[e]
      BY <1>1, OwnFacts
    <3>1. nx1[g] = nx[g] /\ \A e \in Frames : o[e] = g => nx1[e] = nx[e]
      BY <1>1, <1>2, <1>6, <2>3, <3>0 DEF Cells
    <3>2. \A e \in Frames : o1[e] = g <=> o[e] = g
      BY <1>1, <1>6, <2>3, <3>0
    <3>3. IsList(nx1, o1, g, q[g])
      BY <2>1, <3>1, <3>2, SameList
    <3> QED BY <1>4, <2>3, <3>3
  <2> QED BY <2>2, <2>3
<1>8. q1 \in [Heads -> Seq(Frames)]
  BY <1>4, <1>5
<1> QED BY <1>3, <1>7, <1>8 DEF Well, nx1, pv1, o1, q1

\* list_del of the first frame of a list.
LEMMA TakeDoes ==
  ASSUME NEW nx, NEW pv, NEW o, NEW q, Well(nx, pv, o, q),
         NEW h \in Heads, nx[h] # h, NEW f, f = nx[h]
  PROVE  /\ q[h] # <<>>
         /\ Well(UnlinkedNext(nx, pv, f), UnlinkedPrev(nx, pv, f), Put(o, f, None),
                 Queues!Take(q, h))
<1> DEFINE nx1 == UnlinkedNext(nx, pv, f)
           pv1 == UnlinkedPrev(nx, pv, f)
           o1 == Put(o, f, None)
           q1 == Queues!Take(q, h)
           s == q[h]
<1>1. /\ s \in Seq(Frames) /\ Len(s) \in Nat /\ IsInjective(s)
      /\ h \in Cells /\ h # None /\ h \notin Frames /\ At(h, s, 0) = h
      /\ \A i \in 1 .. Len(s) : At(h, s, i) = s[i] /\ s[i] \in Frames /\ o[s[i]] = h
      /\ \A i \in 0 .. Len(s) : /\ nx[At(h, s, i)] = At(h, s, i + 1)
                                /\ pv[At(h, s, i + 1)] = At(h, s, i)
      /\ \A i \in Nat : At(h, s, i) \in Cells /\ Own(o, At(h, s, i)) = h
      /\ \A i, j \in 0 .. Len(s) : At(h, s, i) = At(h, s, j) => i = j
  BY RoundFacts
<1>2. nx \in [Cells -> Cells] /\ o \in [Frames -> Heads \cup {None}] /\ q \in [Heads -> Seq(Frames)]
  BY DEF Well, Sound
<1>3. q1 = [q EXCEPT ![h] = Tail(s)]
  BY DEF Queues!Take
<1> HIDE DEF q1, s
<1>4. Len(s) # 0
  <2> SUFFICES ASSUME Len(s) = 0 PROVE FALSE
    OBVIOUS
  <2>1. nx[h] = At(h, s, 1)
    BY <1>1
  <2>2. At(h, s, 1) = h
    BY DEF At
  <2> QED BY <2>1, <2>2
<1>5. 1 \in 1 .. Len(s) /\ s # <<>>
  BY <1>1, <1>4
<1>6. f = s[1] /\ f \in Frames /\ o[f] = h /\ pv[f] = h /\ At(h, s, 1) = f
  <2>1. f = At(h, s, 0 + 1) /\ pv[At(h, s, 0 + 1)] = h
    BY <1>1
  <2>2. At(h, s, 1) = s[1] /\ s[1] \in Frames /\ o[s[1]] = h
    BY <1>1, <1>5
  <2> QED BY <2>1, <2>2
<1>7. Sound(nx1, pv1, o1)
  BY <1>1, <1>6, UnlinkKeeps
<1>8. /\ nx1[h] = nx[f] /\ \A c \in Cells : c # h => nx1[c] = nx[c]
      /\ o1[f] = None /\ \A g \in Frames : g # f => o1[g] = o[g]
  BY <1>1, <1>2, <1>6 DEF UnlinkedNext, Put
<1> HIDE DEF nx1, pv1, o1
<1>9. Tail(s) = Queues!RemoveAt(s, 1) /\ Tail(s) \in Seq(Frames)
  <2> DEFINE r == Queues!RemoveAt(s, 1)
  <2>1. /\ r \in Seq(Frames) /\ Len(r) = Len(s) - 1
        /\ \A i \in 1 .. Len(s) - 1 : r[i] = s[i + 1]
    BY <1>1, <1>5, RemoveFacts
  <2>2. /\ Tail(s) \in Seq(Frames) /\ Len(Tail(s)) = Len(s) - 1
        /\ \A i \in 1 .. Len(s) - 1 : Tail(s)[i] = s[i + 1]
    BY <1>1, <1>5
  <2> HIDE DEF r
  <2>3. Tail(s) = r
    BY <1>1, <2>1, <2>2
  <2> QED BY <2>2, <2>3 DEF r
<1>10. ASSUME NEW g \in Heads PROVE IsList(nx1, o1, g, q1[g])
  <2>1. IsList(nx, o, g, q[g])
    BY DEF Well
  <2>2. CASE g = h
    <3>1. IsList(nx, o, h, s)
      BY <2>1, <2>2 DEF s
    <3>2. nx1[At(h, s, 1 - 1)] = nx[s[1]]
      BY <1>1, <1>6, <1>8
    <3>3. Kept(nx1, nx, h, s, (0 .. Len(s)) \ {1 - 1, 1})
      <4> SUFFICES ASSUME NEW i \in (0 .. Len(s)) \ {1 - 1, 1}
                   PROVE  nx1[At(h, s, i)] = nx[At(h, s, i)]
        BY DEF Kept
      <4>1. At(h, s, i) # h /\ At(h, s, i) \in Cells
        BY <1>1
      <4> QED BY <1>8, <4>1
    <3>4. \A e \in Frames : o1[e] = h <=> o[e] = h /\ e # s[1]
      BY <1>1, <1>6, <1>8
    <3>5. IsList(nx1, o1, h, Queues!RemoveAt(s, 1))
      BY <1>5, <3>1, <3>2, <3>3, <3>4, ListRemove
    <3> QED BY <1>2, <1>3, <1>9, <2>2, <3>5
  <2>3. CASE g # h
    <3>0. g \in Cells /\ g # None
      BY OwnFacts
    <3>1. nx1[g] = nx[g] /\ \A e \in Frames : o[e] = g => nx1[e] = nx[e]
      BY <1>1, <1>8, <2>3, <3>0 DEF Cells
    <3>2. \A e \in Frames : o1[e] = g <=> o[e] = g
      BY <1>6, <1>8, <2>3, <3>0
    <3>3. IsList(nx1, o1, g, q[g])
      BY <2>1, <3>1, <3>2, SameList
    <3> QED BY <1>2, <1>3, <2>3, <3>3
  <2> QED BY <2>2, <2>3
<1>11. q1 \in [Heads -> Seq(Frames)]
  BY <1>2, <1>3, <1>9
<1> QED BY <1>5, <1>7, <1>10, <1>11 DEF Well, nx1, pv1, o1, q1, s

\* list_splice_tail_init to the pool of a list that is not empty.
LEMMA FlushDoes ==
  ASSUME NEW nx, NEW pv, NEW o, NEW q, Well(nx, pv, o, q),
         NEW l \in Heads, l # Pool, nx[l] # l
  PROVE  Well(SplicedNext(nx, pv, l, Pool), SplicedPrev(nx, pv, l, Pool),
              SplicedOn(o, l, Pool), Queues!Flush(q, l))
<1> DEFINE nx1 == SplicedNext(nx, pv, l, Pool)
           pv1 == SplicedPrev(nx, pv, l, Pool)
           o1 == SplicedOn(o, l, Pool)
           q1 == Queues!Flush(q, l)
           s == q[l]
           t == q[Pool]
<1>0. Pool \in Heads
  BY CellsAssumption
<1>1. /\ s \in Seq(Frames) /\ Len(s) \in Nat
      /\ l \in Cells /\ l # None /\ l \notin Frames
      /\ \A i \in Nat : At(l, s, i) \in Cells /\ Own(o, At(l, s, i)) = l
      /\ pv[l] = At(l, s, Len(s)) /\ nx[l] = At(l, s, 1) /\ At(l, s, 0) = l
      /\ \A i, j \in 0 .. Len(s) : At(l, s, i) = At(l, s, j) => i = j
  <2>1. /\ s \in Seq(Frames) /\ Len(s) \in Nat
        /\ l \in Cells /\ l # None /\ l \notin Frames
        /\ \A i \in Nat : At(l, s, i) \in Cells /\ Own(o, At(l, s, i)) = l
        /\ pv[l] = At(l, s, Len(s)) /\ At(l, s, 0) = l
        /\ \A i, j \in 0 .. Len(s) : At(l, s, i) = At(l, s, j) => i = j
        /\ \A i \in 0 .. Len(s) : nx[At(l, s, i)] = At(l, s, i + 1)
    BY RoundFacts
  <2>2. nx[l] = At(l, s, 1)
    BY <2>1
  <2> QED BY <2>1, <2>2
<1>2. /\ t \in Seq(Frames) /\ Len(t) \in Nat
      /\ Pool \in Cells /\ Pool # None /\ Pool \notin Frames
      /\ \A i \in Nat : At(Pool, t, i) \in Cells /\ Own(o, At(Pool, t, i)) = Pool
      /\ pv[Pool] = At(Pool, t, Len(t))
      /\ \A i, j \in 0 .. Len(t) : At(Pool, t, i) = At(Pool, t, j) => i = j
  BY <1>0, RoundFacts
<1>3. /\ nx \in [Cells -> Cells] /\ o \in [Frames -> Heads \cup {None}]
      /\ q \in [Heads -> Seq(Frames)]
      /\ \A f \in Frames : f \in Cells /\ Own(o, f) = o[f]
  BY OwnFacts DEF Well, Sound
<1>4. s # <<>>
  BY <1>1 DEF At
<1>5. Sound(nx1, pv1, o1)
  BY <1>0, SpliceKeeps
<1>6. q1 = [q EXCEPT ![l] = <<>>, ![Pool] = t \o s]
  BY <1>3 DEF Queues!Flush
<1>7. /\ nx1[l] = l /\ nx1[pv[Pool]] = nx[l] /\ nx1[pv[l]] = Pool
      /\ \A c \in Cells : c \notin {l, pv[Pool], pv[l]} => nx1[c] = nx[c]
  <2>1. pv[Pool] \in Cells /\ pv[l] \in Cells /\ pv[Pool] # l /\ pv[Pool] # pv[l]
    BY <1>1, <1>2
  <2>2. pv[l] # l
    <3>1. At(l, s, Len(s)) # At(l, s, 0)
      BY <1>1, <1>4
    <3> QED BY <1>1, <3>1
  <2> QED BY <1>1, <1>3, <2>1, <2>2 DEF SplicedNext
<1>8. \A f \in Frames : o1[f] = IF o[f] = l THEN Pool ELSE o[f]
  BY DEF SplicedOn
<1> HIDE DEF nx1, pv1, o1, q1, s, t
<1>9. ASSUME NEW g \in Heads PROVE IsList(nx1, o1, g, q1[g])
  <2>1. IsList(nx, o, g, q[g]) /\ g \in Cells /\ Own(o, g) = g
    BY OwnFacts DEF Well
  <2>2. CASE g = l
    <3>1. \A f \in Frames : o1[f] # l
      BY <1>8
    <3>2. IsList(nx1, o1, l, <<>>)
      BY <1>7, <3>1, ListEmpty
    <3> QED BY <1>3, <1>6, <2>2, <3>2
  <2>3. CASE g = Pool
    <3>1. IsList(nx, o, Pool, t) /\ IsList(nx, o, l, s)
      BY <1>0 DEF Well, s, t
    <3>2. nx1[At(Pool, t, Len(t))] = nx[l] /\ nx1[At(l, s, Len(s))] = Pool
      BY <1>1, <1>2, <1>7
    <3>3. Kept(nx1, nx, Pool, t, 0 .. Len(t) - 1)
      <4> SUFFICES ASSUME NEW i \in 0 .. Len(t) - 1 PROVE nx1[At(Pool, t, i)] = nx[At(Pool, t, i)]
        BY DEF Kept
      <4>1. i \in Nat /\ i \in 0 .. Len(t) /\ Len(t) \in 0 .. Len(t) /\ i # Len(t)
        BY <1>2
      <4>2. At(Pool, t, i) \in Cells /\ Own(o, At(Pool, t, i)) = Pool
            /\ At(Pool, t, i) # pv[Pool]
        BY <1>2, <4>1
      <4>3. At(Pool, t, i) # l /\ At(Pool, t, i) # pv[l]
        BY <1>1, <4>2
      <4> QED BY <1>7, <4>2, <4>3
    <3>4. Kept(nx1, nx, l, s, 1 .. Len(s) - 1)
      <4> SUFFICES ASSUME NEW i \in 1 .. Len(s) - 1 PROVE nx1[At(l, s, i)] = nx[At(l, s, i)]
        BY DEF Kept
      <4>1. i \in Nat /\ i \in 0 .. Len(s) /\ Len(s) \in 0 .. Len(s) /\ 0 \in 0 .. Len(s)
            /\ i # Len(s) /\ i # 0
        BY <1>1
      <4>2. At(l, s, i) \in Cells /\ Own(o, At(l, s, i)) = l
            /\ At(l, s, i) # pv[l] /\ At(l, s, i) # l
        BY <1>1, <4>1
      <4>3. At(l, s, i) # pv[Pool]
        BY <1>2, <4>2
      <4> QED BY <1>7, <4>2, <4>3
    <3>5. \A f \in Frames : o1[f] = Pool <=> o[f] = Pool \/ o[f] = l
      BY <1>8
    <3>6. IsList(nx1, o1, Pool, t \o s)
      BY <1>0, <1>4, <3>1, <3>2, <3>3, <3>4, <3>5, ListConcat
    <3> QED BY <1>0, <1>3, <1>6, <2>3, <3>6
  <2>4. CASE g # l /\ g # Pool
    <3>1. ASSUME NEW c \in Cells, Own(o, c) = g PROVE nx1[c] = nx[c]
      <4>1. Own(o, l) = l /\ Own(o, pv[l]) = l /\ Own(o, pv[Pool]) = Pool
        BY <1>1, <1>2
      <4>2. c \notin {l, pv[Pool], pv[l]}
        BY <2>4, <3>1, <4>1
      <4> QED BY <1>7, <4>2
    <3>2. nx1[g] = nx[g] /\ \A f \in Frames : o[f] = g => nx1[f] = nx[f]
      BY <1>3, <2>1, <3>1
    <3>3. \A f \in Frames : o1[f] = g <=> o[f] = g
      BY <1>8, <2>4
    <3>4. IsList(nx1, o1, g, q[g])
      BY <2>1, <3>2, <3>3, SameList
    <3> QED BY <1>3, <1>6, <2>4, <3>4
  <2> QED BY <2>2, <2>3, <2>4
<1>10. q1 \in [Heads -> Seq(Frames)]
  <2>1. <<>> \in Seq(Frames) /\ t \o s \in Seq(Frames)
    BY <1>1, <1>2, ConcatProperties
  <2> QED BY <1>3, <1>6, <2>1
<1> QED BY <1>5, <1>9, <1>10 DEF Well, nx1, pv1, o1, q1

\* list_move_tail to the pool of a frame of the list to the host.
LEMMA DropDoes ==
  ASSUME NEW nx, NEW pv, NEW o, NEW q, Well(nx, pv, o, q),
         NEW k \in 1 .. Len(q[ToHost]),
         NEW f, f = q[ToHost][k]
  PROVE  Well(MovedNext(nx, pv, f, Pool), MovedPrev(nx, pv, f, Pool), Put(o, f, Pool),
              Queues!Drop(q, k))
<1> DEFINE nx1 == MovedNext(nx, pv, f, Pool)
           pv1 == MovedPrev(nx, pv, f, Pool)
           o1 == Put(o, f, Pool)
           q1 == Queues!Drop(q, k)
           s == q[ToHost]
           t == q[Pool]
<1>0. Pool \in Heads /\ ToHost \in Heads /\ Pool # ToHost
  BY CellsAssumption
<1>1. /\ s \in Seq(Frames) /\ Len(s) \in Nat /\ IsInjective(s)
      /\ ToHost \in Cells /\ ToHost # None /\ ToHost \notin Frames
      /\ \A i \in 1 .. Len(s) : At(ToHost, s, i) = s[i] /\ s[i] \in Frames /\ o[s[i]] = ToHost
      /\ \A i \in Nat : At(ToHost, s, i) \in Cells /\ Own(o, At(ToHost, s, i)) = ToHost
      /\ \A i \in 0 .. Len(s) : pv[At(ToHost, s, i + 1)] = At(ToHost, s, i)
      /\ \A i, j \in 0 .. Len(s) : At(ToHost, s, i) = At(ToHost, s, j) => i = j
  BY <1>0, RoundFacts
<1>2. /\ t \in Seq(Frames) /\ Len(t) \in Nat
      /\ Pool \in Cells /\ Pool # None /\ Pool \notin Frames
      /\ \A i \in Nat : At(Pool, t, i) \in Cells /\ Own(o, At(Pool, t, i)) = Pool
      /\ pv[Pool] = At(Pool, t, Len(t))
      /\ \A i, j \in 0 .. Len(t) : At(Pool, t, i) = At(Pool, t, j) => i = j
  BY <1>0, RoundFacts
<1>3. /\ nx \in [Cells -> Cells] /\ o \in [Frames -> Heads \cup {None}]
      /\ q \in [Heads -> Seq(Frames)]
      /\ \A g \in Frames : g \in Cells /\ Own(o, g) = o[g]
  BY OwnFacts DEF Well, Sound
<1>4. /\ f \in Frames /\ o[f] = ToHost /\ At(ToHost, s, k) = f
      /\ k - 1 \in 0 .. Len(s) /\ k \in 0 .. Len(s) /\ k \in Nat /\ k - 1 \in Nat /\ k # k - 1
      /\ pv[f] = At(ToHost, s, k - 1)
  <2>1. /\ f \in Frames /\ o[f] = ToHost /\ At(ToHost, s, k) = f
    BY <1>1
  <2>2. /\ k - 1 \in 0 .. Len(s) /\ k \in 0 .. Len(s) /\ k \in Nat /\ k - 1 \in Nat
        /\ k # k - 1 /\ (k - 1) + 1 = k
    BY <1>1
  <2> QED BY <1>1, <2>1, <2>2
<1>5. Sound(nx1, pv1, o1)
  BY <1>0, <1>1, <1>4, MoveKeeps
<1>6. q1 = [q EXCEPT ![ToHost] = Queues!RemoveAt(s, k), ![Pool] = Append(t, f)]
  BY <1>0, <1>3 DEF Queues!Drop
<1>7. /\ nx1[pv[f]] = nx[f] /\ nx1[f] = Pool /\ nx1[pv[Pool]] = f
      /\ \A c \in Cells : c \notin {f, pv[f], pv[Pool]} => nx1[c] = nx[c]
  <2>1. /\ f \in Cells /\ pv[f] \in Cells /\ pv[Pool] \in Cells
        /\ Own(o, f) = ToHost /\ Own(o, pv[f]) = ToHost /\ Own(o, pv[Pool]) = Pool
    BY <1>1, <1>2, <1>3, <1>4
  <2>2. pv[f] # f
    BY <1>1, <1>4
  <2> QED BY <1>0, <1>3, <2>1, <2>2 DEF MovedNext
<1>8. o1[f] = Pool /\ \A g \in Frames : g # f => o1[g] = o[g]
  BY <1>3, <1>4 DEF Put
<1>9. k \in 1 .. Len(s) /\ f = s[k]
  OBVIOUS
<1> HIDE DEF nx1, pv1, o1, q1, s, t
<1>10. ASSUME NEW g \in Heads PROVE IsList(nx1, o1, g, q1[g])
  <2>1. IsList(nx, o, g, q[g]) /\ g \in Cells /\ Own(o, g) = g
    BY OwnFacts DEF Well
  <2>2. CASE g = ToHost
    <3>1. IsList(nx, o, ToHost, s)
      BY <2>1, <2>2 DEF s
    <3>2. nx1[At(ToHost, s, k - 1)] = nx[s[k]]
      BY <1>4, <1>7, <1>9
    <3>3. Kept(nx1, nx, ToHost, s, (0 .. Len(s)) \ {k - 1, k})
      <4> SUFFICES ASSUME NEW i \in (0 .. Len(s)) \ {k - 1, k}
                   PROVE  nx1[At(ToHost, s, i)] = nx[At(ToHost, s, i)]
        BY DEF Kept
      <4>1. At(ToHost, s, i) \in Cells /\ At(ToHost, s, i) # f /\ At(ToHost, s, i) # pv[f]
        BY <1>1, <1>4
      <4>2. At(ToHost, s, i) # pv[Pool]
        BY <1>0, <1>1, <1>2
      <4> QED BY <1>7, <4>1, <4>2
    <3>4. \A e \in Frames : o1[e] = ToHost <=> o[e] = ToHost /\ e # s[k]
      BY <1>0, <1>4, <1>8, <1>9
    <3>5. IsList(nx1, o1, ToHost, Queues!RemoveAt(s, k))
      BY <1>0, <1>9, <3>1, <3>2, <3>3, <3>4, ListRemove, ZenonT(60)
    <3> QED BY <1>0, <1>3, <1>6, <2>2, <3>5
  <2>3. CASE g = Pool
    <3>1. IsList(nx, o, Pool, t) /\ o[f] # Pool
      BY <1>0, <1>4, <2>1, <2>3 DEF t
    <3>2. nx1[At(Pool, t, Len(t))] = f
      BY <1>2, <1>7
    <3>3. Kept(nx1, nx, Pool, t, 0 .. Len(t) - 1)
      <4> SUFFICES ASSUME NEW i \in 0 .. Len(t) - 1 PROVE nx1[At(Pool, t, i)] = nx[At(Pool, t, i)]
        BY DEF Kept
      <4>1. i \in Nat /\ i \in 0 .. Len(t) /\ Len(t) \in 0 .. Len(t) /\ i # Len(t)
        BY <1>2
      <4>2. At(Pool, t, i) \in Cells /\ Own(o, At(Pool, t, i)) = Pool
            /\ At(Pool, t, i) # pv[Pool]
        BY <1>2, <4>1
      <4>3. At(Pool, t, i) # f /\ At(Pool, t, i) # pv[f]
        BY <1>0, <1>1, <1>3, <1>4, <4>2
      <4> QED BY <1>7, <4>2, <4>3
    <3>4. \A e \in Frames : o1[e] = Pool <=> o[e] = Pool \/ e = f
      BY <1>8
    <3>5. IsList(nx1, o1, Pool, Append(t, f))
      BY <1>0, <1>4, <1>7, <3>1, <3>2, <3>3, <3>4, ListAppend
    <3> QED BY <1>0, <1>3, <1>6, <2>3, <3>5
  <2>4. CASE g # ToHost /\ g # Pool
    <3>1. ASSUME NEW c \in Cells, Own(o, c) = g PROVE nx1[c] = nx[c]
      <4>1. Own(o, f) = ToHost /\ Own(o, pv[f]) = ToHost /\ Own(o, pv[Pool]) = Pool
        BY <1>1, <1>2, <1>3, <1>4
      <4>2. c \notin {f, pv[f], pv[Pool]}
        BY <2>4, <3>1, <4>1
      <4> QED BY <1>7, <4>2
    <3>2. nx1[g] = nx[g] /\ \A e \in Frames : o[e] = g => nx1[e] = nx[e]
      BY <1>3, <2>1, <3>1
    <3>3. \A e \in Frames : o1[e] = g <=> o[e] = g
      BY <1>4, <1>8, <2>4
    <3>4. IsList(nx1, o1, g, q[g])
      BY <2>1, <3>2, <3>3, SameList
    <3> QED BY <1>3, <1>6, <2>4, <3>4
  <2> QED BY <2>2, <2>3, <2>4
<1>11. q1 \in [Heads -> Seq(Frames)]
  <2>1. Queues!RemoveAt(s, k) \in Seq(Frames)
    BY <1>1, <1>9, RemoveFacts
  <2>2. Append(t, f) \in Seq(Frames)
    BY <1>2, <1>4
  <2> QED BY <1>3, <1>6, <2>1, <2>2
<1> QED BY <1>5, <1>10, <1>11 DEF Well, nx1, pv1, o1, q1

-----------------------------------------------------------------------------
(* The specification. *)

\* The frames of the lists, as FrameQueues sees them.
Queue == [h \in Heads |-> Walk(h)]

\* The frames a purge has passed and left in the list to the host are not of the
\* channel that is purged; iter is the next one.
Passed ==
  purging # None =>
    \E k \in 1 .. Len(Queue[ToHost]) + 1 :
      /\ iter = At(ToHost, Queue[ToHost], k)
      /\ \A i \in 1 .. k - 1 : chan[Queue[ToHost][i]] # purging

\* The inductive invariant.
Inv ==
  /\ Well(next, prev, on, Queue) /\ LoopOnList /\ Passed
  /\ chan \in [Frames -> Channels]
  /\ purging \in Channels \cup {None} /\ iter \in Cells /\ after \in Cells

\* Queue as a function of the pointers and the owners.
Walks(nx, o) == [h \in Heads |-> Along(nx, o, h)]

LEMMA QueueWalks == Queue = Walks(next, on) /\ Queue' = Walks(next', on')
BY DEF Queue, Walk, On, Walks, Along, Follows, At

\* The sequences the pointers hold are those that Walk finds.
LEMMA WellWalks ==
  ASSUME NEW nx, NEW pv, NEW o, NEW q, Well(nx, pv, o, q)
  PROVE  Walks(nx, o) = q
<1>1. q \in [Heads -> Seq(Frames)] /\ \A h \in Heads : IsList(nx, o, h, q[h])
  BY DEF Well
<1>2. \A h \in Heads : Along(nx, o, h) = q[h]
  BY <1>1, WalkList
<1> QED BY <1>1, <1>2 DEF Walks

\* The lists after a step.
LEMMA QueueAfter ==
  ASSUME NEW q, Well(next', prev', on', q)
  PROVE  Queue' = q /\ Well(next, prev, on, Queue)'
<1>1. Queue' = q
  BY QueueWalks, WellWalks
<1> QED BY <1>1

\* It says what WellLinked says.
LEMMA InvWellLinked == Inv => WellLinked
BY DEF Inv, Well, Sound, Rings, Own, WellLinked, TypeOK, Ring, Linked, Owner

\* At the end of the purge every frame of the list to the host has been passed.
LEMMA InvPurgeComplete == Inv => PurgeComplete
<1> DEFINE s == Queue[ToHost]
<1> SUFFICES ASSUME Inv, purging # None, iter = ToHost,
                    NEW f \in Frames, on[f] = ToHost
             PROVE  chan[f] # purging
  BY DEF PurgeComplete
<1>1. /\ s \in Seq(Frames) /\ Len(s) \in Nat /\ f \in Range(s)
  BY CellsAssumption, RoundFacts DEF Inv
<1>2. PICK k \in 1 .. Len(s) + 1 : /\ ToHost = At(ToHost, s, k)
                                   /\ \A i \in 1 .. k - 1 : chan[s[i]] # purging
  BY DEF Inv, Passed
<1>3. PICK j \in 1 .. Len(s) : s[j] = f
  BY <1>1 DEF Range
<1> HIDE DEF s
<1>4. k \notin 1 .. Len(s)
  BY <1>1, <1>2, CellsAssumption, AtFacts
<1>5. j \in 1 .. k - 1
  BY <1>1, <1>4
<1> QED BY <1>2, <1>3, <1>5

\* All lists are empty at first.
LEMMA InitInv == Init => Inv /\ Queues!Init
<1> SUFFICES ASSUME Init PROVE Inv /\ Queues!Init
  OBVIOUS
<1> DEFINE q == [h \in Heads |-> <<>>]
<1>1. Sound(next, prev, on)
  BY DEF Init, Sound, Rings, Own
<1>2. ASSUME NEW h \in Heads PROVE IsList(next, on, h, <<>>)
  <2>1. next[h] = h /\ \A f \in Frames : on[f] # h
    BY CellsAssumption DEF Init, Cells
  <2> QED BY <2>1, ListEmpty
<1>3. Well(next, prev, on, q)
  <2>1. q \in [Heads -> Seq(Frames)] /\ \A h \in Heads : q[h] = <<>>
    OBVIOUS
  <2> HIDE DEF q
  <2> QED BY <1>1, <1>2, <2>1 DEF Well
<1>4. Queue = q
  BY <1>3, QueueWalks, WellWalks
<1>5. Queues!Init
  BY <1>4 DEF Queues!Init, Queue
<1>6. Inv
  BY <1>3, <1>4, CellsAssumption DEF Init, Inv, LoopOnList, Passed, Cells
<1> QED BY <1>5, <1>6

\* The lists change by one of the operations of FrameQueues.
Changes == Queue' \in Queues!After(Queue)

LEMMA ChangesNext == Changes => Queues!Next
BY DEF Changes, Queues!Next, Queue

\* What FrameQueues allows.
LEMMA AfterHas ==
  ASSUME NEW q
  PROVE  /\ \A f \in Frames \ Queues!Listed(q), h \in Heads :
              /\ Queues!AddFirst(q, f, h) \in Queues!After(q)
              /\ Queues!AddLast(q, f, h) \in Queues!After(q)
         /\ \A h \in Heads : q[h] # <<>> => Queues!Take(q, h) \in Queues!After(q)
         /\ \A h \in Heads \ {Pool} : Queues!Flush(q, h) \in Queues!After(q)
         /\ \A k \in DOMAIN q[ToHost] : Queues!Drop(q, k) \in Queues!After(q)
BY DEF Queues!After

\* A frame nobody owns is on no list.
LEMMA Unlisted ==
  ASSUME Inv, NEW f \in Frames, on[f] = None
  PROVE  f \in Frames \ Queues!Listed(Queue)
<1>1. ASSUME NEW h \in Heads, f \in Queues!ToSet(Queue[h]) PROVE FALSE
  <2>1. f \in Range(Queue[h])
    BY <1>1 DEF Queues!ToSet, Range
  <2>2. on[f] = h /\ h # None
    BY <2>1, CellsAssumption, RoundFacts DEF Inv
  <2> QED BY <2>2
<1> QED BY <1>1 DEF Queues!Listed

\* Between purges only the pointers, the owners and the channels change.
LEMMA IdleStep ==
  ASSUME Inv, Idle, UNCHANGED loopVars, chan' \in [Frames -> Channels],
         NEW q \in Queues!After(Queue), Well(next', prev', on', q)
  PROVE  Inv' /\ Changes
<1>1. Queue' = q /\ Well(next, prev, on, Queue)'
  BY QueueAfter
<1>2. purging' = None /\ iter' = iter /\ after' = after
  BY DEF Idle, loopVars
<1> QED BY <1>1, <1>2 DEF Inv, LoopOnList, Passed, Changes

LEMMA AddFrontDoes ==
  ASSUME Inv, NEW f \in Frames, NEW h \in Heads, AddFront(f, h)
  PROVE  Inv' /\ Changes
<1>1. Well(next, prev, on, Queue) /\ on[f] = None
  BY DEF Inv, AddFront
<1>2. /\ next' = LinkedNext(next, f, h, next[h])
      /\ prev' = LinkedPrev(prev, f, h, next[h])
      /\ on' = Put(on, f, h)
  BY DEF AddFront, LinkBetween, LinkedNext, LinkedPrev, Put
<1>3. Well(next', prev', on', Queues!AddFirst(Queue, f, h))
  BY <1>1, <1>2, AddFirstDoes
<1>4. Queues!AddFirst(Queue, f, h) \in Queues!After(Queue)
  BY <1>1, Unlisted, AfterHas
<1> QED BY <1>3, <1>4, IdleStep DEF AddFront, Inv

LEMMA AddTailDoes ==
  ASSUME Inv, NEW f \in Frames, NEW h \in Heads, NEW c \in Channels, AddTail(f, h, c)
  PROVE  Inv' /\ Changes
<1>1. Well(next, prev, on, Queue) /\ on[f] = None
  BY DEF Inv, AddTail
<1>2. /\ next' = LinkedNext(next, f, prev[h], h)
      /\ prev' = LinkedPrev(prev, f, prev[h], h)
      /\ on' = Put(on, f, h)
  BY DEF AddTail, LinkBetween, LinkedNext, LinkedPrev, Put
<1>3. Well(next', prev', on', Queues!AddLast(Queue, f, h))
  BY <1>1, <1>2, AddLastDoes
<1>4. Queues!AddLast(Queue, f, h) \in Queues!After(Queue)
  BY <1>1, Unlisted, AfterHas
<1>5. chan' \in [Frames -> Channels]
  BY DEF AddTail, Inv
<1> QED BY <1>3, <1>4, <1>5, IdleStep DEF AddTail

LEMMA TakeFirstDoes ==
  ASSUME Inv, NEW h \in Heads, TakeFirst(h)
  PROVE  Inv' /\ Changes
<1>1. Well(next, prev, on, Queue) /\ next[h] # h
  BY DEF Inv, TakeFirst
<1>2. /\ next' = UnlinkedNext(next, prev, next[h])
      /\ prev' = UnlinkedPrev(next, prev, next[h])
      /\ on' = Put(on, next[h], None)
  BY DEF TakeFirst, Unlink, UnlinkedNext, UnlinkedPrev, Put
<1>3. Queue[h] # <<>> /\ Well(next', prev', on', Queues!Take(Queue, h))
  BY <1>1, <1>2, TakeDoes
<1>4. Queues!Take(Queue, h) \in Queues!After(Queue)
  BY <1>3, AfterHas
<1> QED BY <1>3, <1>4, IdleStep DEF TakeFirst, Inv

LEMMA FlushStep ==
  ASSUME Inv, NEW h \in Heads, Flush(h)
  PROVE  Inv' /\ Changes
<1>1. Well(next, prev, on, Queue) /\ next[h] # h /\ h # Pool
  BY DEF Inv, Flush
<1>2. /\ next' = SplicedNext(next, prev, h, Pool)
      /\ prev' = SplicedPrev(next, prev, h, Pool)
      /\ on' = SplicedOn(on, h, Pool)
  BY DEF Flush, SpliceTail, SplicedNext, SplicedPrev, SplicedOn
<1>3. Well(next', prev', on', Queues!Flush(Queue, h))
  BY <1>1, <1>2, FlushDoes
<1>4. Queues!Flush(Queue, h) \in Queues!After(Queue)
  BY <1>1, AfterHas
<1> QED BY <1>3, <1>4, IdleStep DEF Flush, Inv

\* The purge begins at the first frame.
LEMMA PurgeBeginDoes ==
  ASSUME Inv, NEW c \in Channels, PurgeBegin(c)
  PROVE  Inv' /\ Queue' = Queue
<1> DEFINE s == Queue[ToHost]
<1>1. Well(next, prev, on, Queue) /\ next' = next /\ prev' = prev /\ on' = on /\ chan' = chan
  BY DEF Inv, PurgeBegin, pointers
<1>2. Queue' = Queue /\ Well(next, prev, on, Queue)'
  BY <1>1, QueueAfter
<1>3. /\ Len(s) \in Nat /\ At(ToHost, s, 0) = ToHost
      /\ \A i \in Nat : At(ToHost, s, i) \in Cells /\ Own(on, At(ToHost, s, i)) = ToHost
      /\ \A i \in 0 .. Len(s) : next[At(ToHost, s, i)] = At(ToHost, s, i + 1)
  BY <1>1, CellsAssumption, RoundFacts
<1>4. /\ iter' = At(ToHost, s, 1) /\ iter' \in Cells /\ Own(on, iter') = ToHost
  <2>1. next[At(ToHost, s, 0)] = At(ToHost, s, 0 + 1)
    BY <1>3
  <2> QED BY <1>3, <2>1 DEF PurgeBegin
<1>5. after' = next[iter'] /\ after' \in Cells
  <2>1. after' = next[iter']
    BY DEF PurgeBegin
  <2> QED BY <1>1, <1>4, <2>1 DEF Well, Sound
<1>6. LoopOnList'
  BY <1>1, <1>4, <1>5 DEF LoopOnList, Owner, Own
<1>7. Passed'
  <2>1. 1 \in 1 .. Len(s) + 1 /\ \A i \in 1 .. 1 - 1 : FALSE
    BY <1>3
  <2> QED BY <1>1, <1>2, <1>4, <2>1 DEF Passed
<1> QED BY <1>1, <1>2, <1>4, <1>5, <1>6, <1>7 DEF Inv, PurgeBegin

\* A turn of the purge.
LEMMA PurgeStepDoes ==
  ASSUME Inv, PurgeStep
  PROVE  Inv' /\ (Changes \/ Queue' = Queue)
<1> DEFINE s == Queue[ToHost]
<1>0. Pool \in Heads /\ ToHost \in Heads /\ Pool # ToHost
  BY CellsAssumption
<1>1. /\ Well(next, prev, on, Queue) /\ purging # None /\ purging' = purging /\ chan' = chan
      /\ iter # ToHost /\ iter' = after /\ after' = next'[after] /\ after = next[iter]
  BY DEF Inv, PurgeStep, Idle, LoopOnList
<1>2. PICK k \in 1 .. Len(s) + 1 : /\ iter = At(ToHost, s, k)
                                   /\ \A i \in 1 .. k - 1 : chan[s[i]] # purging
  BY <1>1 DEF Inv, Passed
<1>3. /\ s \in Seq(Frames) /\ Len(s) \in Nat /\ IsInjective(s)
      /\ ToHost \in Cells /\ ToHost # None /\ ToHost \notin Frames
      /\ \A i \in 1 .. Len(s) : At(ToHost, s, i) = s[i] /\ s[i] \in Frames /\ on[s[i]] = ToHost
      /\ \A i \in Nat : At(ToHost, s, i) \in Cells /\ Own(on, At(ToHost, s, i)) = ToHost
      /\ \A i \in 0 .. Len(s) : next[At(ToHost, s, i)] = At(ToHost, s, i + 1)
  BY <1>0, <1>1, RoundFacts
<1>4. k \in 1 .. Len(s) /\ iter = s[k] /\ iter \in Frames /\ on[iter] = ToHost
  <2>1. k \in Nat
    BY <1>3
  <2>2. k \in 1 .. Len(s)
    BY <1>0, <1>1, <1>2, <1>3, <2>1, AtFacts
  <2> QED BY <1>2, <1>3, <2>2
<1>5. after = At(ToHost, s, k + 1) /\ after \in Cells
  <2>1. k \in 0 .. Len(s) /\ k + 1 \in Nat
    BY <1>3, <1>4
  <2> QED BY <1>1, <1>2, <1>3, <2>1
<1>6. ASSUME chan[iter] = purging
      PROVE  Well(next, prev, on, Queue)' /\ Passed' /\ Changes
  <2> DEFINE r == Queues!RemoveAt(s, k)
             q1 == Queues!Drop(Queue, k)
  <2>1. /\ next' = MovedNext(next, prev, iter, Pool)
        /\ prev' = MovedPrev(next, prev, iter, Pool)
        /\ on' = Put(on, iter, Pool)
    BY <1>6 DEF PurgeStep, PurgeBody, MoveTail, MovedNext, MovedPrev, Put
  <2>2. Well(next', prev', on', q1)
    BY <1>1, <1>4, <2>1, DropDoes
  <2>3. Queue' = q1 /\ Well(next, prev, on, Queue)'
    BY <2>2, QueueAfter
  <2>4. Changes
    <3>1. k \in DOMAIN Queue[ToHost]
      BY <1>3, <1>4
    <3> QED BY <2>3, <3>1, AfterHas DEF Changes
  <2>5. Queue'[ToHost] = r
    <3>1. Queue \in [Heads -> Seq(Frames)]
      BY <1>1 DEF Well
    <3> QED BY <1>0, <2>3, <3>1 DEF Queues!Drop
  <2>6. /\ Len(r) = Len(s) - 1
        /\ \A i \in 1 .. k - 1 : r[i] = s[i]
        /\ \A i \in k .. Len(s) - 1 : r[i] = s[i + 1]
    BY <1>3, <1>4, RemoveFacts
  <2> HIDE DEF r, q1, s
  <2>7. At(ToHost, r, k) = At(ToHost, s, k + 1) /\ k \in 1 .. Len(r) + 1
    <3>1. CASE k < Len(s)
      BY <1>3, <1>4, <2>6, <3>1 DEF At
    <3>2. CASE k = Len(s)
      BY <1>3, <1>4, <2>6, <3>2 DEF At
    <3> QED BY <1>3, <1>4, <3>1, <3>2
  <2>8. Passed'
    <3>1. \A i \in 1 .. k - 1 : chan[r[i]] # purging
      BY <1>2, <2>6
    <3>2. iter' = At(ToHost, r, k)
      BY <1>1, <1>5, <2>7
    <3>3. /\ k \in 1 .. Len(Queue'[ToHost]) + 1 /\ iter' = At(ToHost, Queue'[ToHost], k)
          /\ \A i \in 1 .. k - 1 : chan'[Queue'[ToHost][i]] # purging'
      BY <1>1, <2>5, <2>7, <3>1, <3>2
    <3> QED BY <3>3 DEF Passed
  <2> QED BY <2>3, <2>4, <2>8
<1>7. ASSUME chan[iter] # purging
      PROVE  Well(next, prev, on, Queue)' /\ Passed' /\ Queue' = Queue
  <2>1. next' = next /\ prev' = prev /\ on' = on
    BY <1>7 DEF PurgeStep, PurgeBody, pointers
  <2>2. Queue' = Queue /\ Well(next, prev, on, Queue)'
    BY <1>1, <2>1, QueueAfter
  <2>3. k + 1 \in 1 .. Len(s) + 1 /\ (k + 1) - 1 = k
    BY <1>3, <1>4
  <2>4. \A i \in 1 .. k : chan[s[i]] # purging
    <3>1. \A i \in 1 .. k : i \in 1 .. k - 1 \/ i = k
      BY <1>3, <1>4
    <3> QED BY <1>2, <1>4, <1>7, <3>1
  <2> HIDE DEF s
  <2>5. Passed'
    <3>1. /\ k + 1 \in 1 .. Len(Queue'[ToHost]) + 1 /\ iter' = At(ToHost, Queue'[ToHost], k + 1)
          /\ \A i \in 1 .. (k + 1) - 1 : chan'[Queue'[ToHost][i]] # purging'
      BY <1>1, <1>5, <2>2, <2>3, <2>4 DEF s
    <3> QED BY <3>1 DEF Passed
  <2> QED BY <2>2, <2>5
<1>8. Well(next', prev', on', Queue') /\ Passed' /\ (Changes \/ Queue' = Queue)
  BY <1>1, <1>6, <1>7
<1>9. iter' \in Cells /\ after' \in Cells /\ after' = next'[iter']
  BY <1>1, <1>5, <1>8 DEF Well, Sound
<1>10. Own(on', iter') = ToHost
  <2>1. PICK j \in 1 .. Len(Queue'[ToHost]) + 1 : iter' = At(ToHost, Queue'[ToHost], j)
    BY <1>1, <1>8 DEF Passed
  <2>2. /\ Len(Queue'[ToHost]) \in Nat
        /\ \A i \in Nat : Own(on', At(ToHost, Queue'[ToHost], i)) = ToHost
    BY <1>0, <1>8, RoundFacts
  <2>3. j \in Nat
    BY <2>2
  <2> QED BY <2>1, <2>2, <2>3
<1>11. LoopOnList'
  BY <1>9, <1>10 DEF LoopOnList, Owner, Own
<1> QED BY <1>1, <1>8, <1>9, <1>11 DEF Inv

\* Every step keeps the invariant and changes the lists as FrameQueues says, or
\* not at all.
LEMMA NextInv == Inv /\ [Next]_vars => Inv' /\ [Queues!Next]_Queue
<1> SUFFICES ASSUME Inv, [Next]_vars PROVE Inv' /\ (Changes \/ Queue' = Queue)
  BY ChangesNext
<1>1. CASE \E f \in Frames, h \in Heads : AddFront(f, h) \/ \E c \in Channels : AddTail(f, h, c)
  BY <1>1, AddFrontDoes, AddTailDoes
<1>2. CASE \E h \in Heads : TakeFirst(h) \/ Flush(h)
  BY <1>2, TakeFirstDoes, FlushStep
<1>3. CASE \E c \in Channels : PurgeBegin(c)
  BY <1>3, PurgeBeginDoes
<1>4. CASE PurgeStep
  BY <1>4, PurgeStepDoes
<1>5. CASE PurgeEnd \/ UNCHANGED vars
  <2>1. /\ next' = next /\ prev' = prev /\ on' = on /\ chan' = chan
        /\ iter' = iter /\ after' = after
        /\ purging' = purging \/ purging' = None
    BY <1>5 DEF PurgeEnd, vars, pointers, loopVars
  <2>2. Well(next, prev, on, Queue)
    BY DEF Inv
  <2>3. Queue' = Queue /\ Well(next, prev, on, Queue)'
    BY <2>1, <2>2, QueueAfter
  <2>4. LoopOnList' /\ Passed'
    BY <2>1, <2>3 DEF Inv, LoopOnList, Passed, Owner
  <2> QED BY <2>1, <2>3, <2>4 DEF Inv
<1> QED BY <1>1, <1>2, <1>3, <1>4, <1>5 DEF Next, Purge

\* The lists are well linked in every reachable state: each is a ring in both
\* directions, nobody else's frame is in it, and the purge stays on the list it
\* walks along.
THEOREM WellLinkedCorrect == Spec => []WellLinked
<1> QED BY InitInv, NextInv, InvWellLinked, PTL DEF Spec

\* When the purge of a channel ends, the list to the host has no frame of that
\* channel left, though each turn took entries out of the list it walks along.
THEOREM PurgeCompleteCorrect == Spec => []PurgeComplete
<1> QED BY InitInv, NextInv, InvPurgeComplete, PTL DEF Spec

\* Every pointer operation is the operation on sequences that FrameQueues names:
\* the order of the frames in every list it does not mention stays as it was.
THEOREM ImplementsQueuesCorrect == Spec => ImplementsQueues
<1>1. Spec => [][Queues!Next]_Queue
  BY InitInv, NextInv, PTL DEF Spec
<1>2. Spec => Queues!Init
  BY InitInv, PTL DEF Spec
<1> QED BY <1>1, <1>2, PTL DEF ImplementsQueues, Queues!Spec, Queue
=============================================================================
