---------------------------- MODULE DocumentProofs ----------------------------
(***************************************************************************)
(* The paths of a document: prefixes, cuts and joins.                      *)
(***************************************************************************)
EXTENDS Documents, SequenceTheorems, WellFoundedInduction, TLAPS

\* The lengths and the cuts of a path.
LEMMA PathBasics ==
    ASSUME NEW p \in Path
    PROVE  /\ Len(p) \in Nat /\ SubSeq(p, 1, 0) = <<>> /\ SubSeq(p, 1, Len(p)) = p
           /\ p = <<>> <=> Len(p) = 0
BY SubSeqEmpty, SubSeqFull, LenProperties, EmptySeq DEF Path

\* The way to a node, cut after some keys.
LEMMA CutPath ==
    ASSUME NEW p \in Path, NEW n \in 0..Len(p)
    PROVE  /\ SubSeq(p, 1, n) \in Path /\ Len(SubSeq(p, 1, n)) = n
           /\ \A i \in 1..n : SubSeq(p, 1, n)[i] = p[i]
<1>1. \A i \in 1..n : p[i] \in STRING
    BY ElementOfSeq DEF Path
<1> QED
    BY <1>1, SubSeqProperties DEF Path

\* A prefix of a path is the path, cut.
LEMMA PrefixIsCut ==
    ASSUME NEW p \in Path, NEW r \in Path
    PROVE  IsPrefix(r, p) <=> Len(r) \in 0..Len(p) /\ r = SubSeq(p, 1, Len(r))
BY PathBasics DEF IsPrefix

\* A prefix of a path has the same keys as far as it goes.
LEMMA PrefixElements ==
    ASSUME NEW p \in Path, NEW r \in Path
    PROVE  IsPrefix(r, p) <=> Len(r) <= Len(p) /\ \A i \in 1..Len(r) : r[i] = p[i]
<1>1. ASSUME IsPrefix(r, p) PROVE Len(r) <= Len(p) /\ \A i \in 1..Len(r) : r[i] = p[i]
    BY <1>1, PrefixIsCut, CutPath
<1>2. ASSUME Len(r) <= Len(p), \A i \in 1..Len(r) : r[i] = p[i] PROVE IsPrefix(r, p)
  <2>1. Len(r) \in 0..Len(p)
      BY <1>2, PathBasics
  <2>2. SubSeq(p, 1, Len(r)) = r
      BY <1>2, <2>1, CutPath, SeqEqual DEF Path
  <2> QED
      BY <2>1, <2>2, PrefixIsCut
<1> QED
    BY <1>1, <1>2

\* Prefixes are an order in which what is above a path is a chain.
LEMMA PrefixOrder ==
    ASSUME NEW p \in Path, NEW q \in Path, NEW r \in Path
    PROVE  /\ IsPrefix(p, p) /\ IsPrefix(<<>>, p)
           /\ IsPrefix(p, q) /\ IsPrefix(q, r) => IsPrefix(p, r)
           /\ IsPrefix(p, r) /\ IsPrefix(q, r) => Overlap(p, q)
           /\ IsStrictPrefix(p, q) <=> IsPrefix(p, q) /\ Len(p) < Len(q)
<1>1. <<>> \in Path /\ Len(<<>>) = 0 /\ Len(p) \in Nat /\ Len(q) \in Nat /\ Len(r) \in Nat
    BY PathBasics, EmptySeq DEF Path
<1>2. IsPrefix(p, p) /\ IsPrefix(<<>>, p)
    BY <1>1, PrefixElements
<1>3. IsPrefix(p, q) /\ IsPrefix(q, r) => IsPrefix(p, r)
    BY <1>1, PrefixElements
<1>4. IsPrefix(p, r) /\ IsPrefix(q, r) => Overlap(p, q)
    BY <1>1, PrefixElements DEF Overlap
<1>5. IsStrictPrefix(p, q) <=> IsPrefix(p, q) /\ Len(p) < Len(q)
    BY <1>1, PrefixIsCut, PathBasics DEF IsStrictPrefix
<1> QED
    BY <1>2, <1>3, <1>4, <1>5

\* A path that is cut is a prefix.
LEMMA CutIsPrefix ==
    ASSUME NEW p \in Path, NEW n \in 0..Len(p)
    PROVE  IsPrefix(SubSeq(p, 1, n), p)
<1>1. SubSeq(p, 1, n) \in Path /\ Len(SubSeq(p, 1, n)) = n /\ n <= Len(p)
    BY CutPath, PathBasics
<1> QED
    BY <1>1, CutPath, PrefixElements

\* A path below another one is that path and the rest.
LEMMA Rest ==
    ASSUME NEW p \in Path, NEW x \in Path, IsPrefix(p, x)
    PROVE  /\ SubSeq(x, Len(p) + 1, Len(x)) \in Path
           /\ x = p \o SubSeq(x, Len(p) + 1, Len(x))
<1>1. Len(p) \in 0..Len(x) /\ p = SubSeq(x, 1, Len(p)) /\ Len(x) \in Nat
    BY PrefixIsCut, PathBasics
<1>2. \A i \in (Len(p) + 1)..Len(x) : x[i] \in STRING
    BY <1>1, ElementOfSeq DEF Path
<1>3. SubSeq(x, Len(p) + 1, Len(x)) \in Path
    BY <1>1, <1>2, SubSeqProperties DEF Path
<1>4. SubSeq(x, 1, Len(p)) \o SubSeq(x, Len(p) + 1, Len(x)) = SubSeq(x, 1, Len(x))
  <2>1. 1 \in 1..(Len(x) + 1) /\ Len(p) \in (1 - 1)..Len(x) /\ Len(x) \in Len(p)..Len(x)
      BY <1>1
  <2> QED
      BY <2>1, ConcatAdjacentSubSeq DEF Path
<1> QED
    BY <1>1, <1>3, <1>4, PathBasics

\* A path after another one, and what is left when that is taken away.
LEMMA JoinedPath ==
    ASSUME NEW p \in Path, NEW q \in Path
    PROVE  /\ p \o q \in Path /\ IsPrefix(p, p \o q)
           /\ SubSeq(p \o q, Len(p) + 1, Len(p \o q)) = q
           /\ p \o q = p <=> q = <<>>
           /\ ~IsStrictPrefix(p \o q, p)
<1>1. /\ p \o q \in Path /\ Len(p \o q) = Len(p) + Len(q)
      /\ Len(p) \in Nat /\ Len(q) \in Nat
      /\ \A i \in 1..(Len(p) + Len(q)) : (p \o q)[i] = IF i <= Len(p) THEN p[i] ELSE q[i - Len(p)]
    BY ConcatProperties, PathBasics DEF Path
<1>2. IsPrefix(p, p \o q)
  <2>1. Len(p) <= Len(p \o q) /\ \A i \in 1..Len(p) : (p \o q)[i] = p[i]
      BY <1>1
  <2> QED
      BY <1>1, <2>1, PrefixElements
<1>3. /\ SubSeq(p \o q, Len(p) + 1, Len(p \o q)) \in Path
      /\ p \o q = p \o SubSeq(p \o q, Len(p) + 1, Len(p \o q))
    BY <1>1, <1>2, Rest
<1>4. SubSeq(p \o q, Len(p) + 1, Len(p \o q)) = q
    BY <1>3, ConcatSimplifications DEF Path
<1>5. p \o q = p <=> q = <<>>
    BY ConcatEqualIffEmpty DEF Path
<1>6. ~IsStrictPrefix(p \o q, p)
  <2>1. ~(Len(p \o q) < Len(p))
      BY <1>1
  <2>2. IsStrictPrefix(p \o q, p) => Len(p \o q) < Len(p)
      BY <1>1, PrefixOrder, Zenon
  <2> QED
      BY <2>1, <2>2
<1> QED
    BY <1>1, <1>2, <1>4, <1>5, <1>6

\* What is above a joined path is above its first part or inside the second.
LEMMA CutJoined ==
    ASSUME NEW p \in Path, NEW q \in Path, NEW r \in Path, IsPrefix(r, p \o q)
    PROVE  IsStrictPrefix(r, p) \/ \E n \in 0..Len(q) : r = p \o SubSeq(q, 1, n)
<1>1. p \o q \in Path /\ IsPrefix(p, p \o q)
    BY JoinedPath
<1>2. CASE IsPrefix(r, p)
  <2>1. r = p => r = p \o SubSeq(q, 1, 0)
      BY PathBasics, ConcatEmptySeq DEF Path
  <2> QED
      BY <1>2, <2>1, PathBasics DEF IsStrictPrefix
<1>3. CASE ~IsPrefix(r, p)
  <2>1. IsPrefix(p, r)
      BY <1>1, <1>3, PrefixOrder DEF Overlap
  <2> DEFINE n == Len(r) - Len(p)
  <2>2. /\ Len(p) <= Len(r) /\ Len(r) <= Len(p) + Len(q) /\ Len(p \o q) = Len(p) + Len(q)
        /\ Len(r) \in Nat /\ Len(p) \in Nat /\ Len(q) \in Nat
    <3>1. Len(p \o q) = Len(p) + Len(q)
        BY ConcatProperties DEF Path
    <3>2. Len(p) <= Len(r) /\ Len(r) <= Len(p \o q)
        BY <1>1, <2>1, PrefixElements
    <3> QED
        BY <3>1, <3>2, PathBasics
  <2>3. n \in 0..Len(q)
      BY <2>2
  <2>4. SubSeq(q, 1, n) \in Path /\ Len(SubSeq(q, 1, n)) = n
      BY <2>3, CutPath
  <2>5. p \o SubSeq(q, 1, n) \in Path /\ Len(p \o SubSeq(q, 1, n)) = Len(r)
      BY <2>2, <2>4, ConcatProperties DEF Path
  <2>6. ASSUME NEW i \in 1..Len(r) PROVE r[i] = (p \o SubSeq(q, 1, n))[i]
    <3>1. r[i] = (p \o q)[i]
        BY <1>1, PrefixElements
    <3>2. (p \o q)[i] = IF i <= Len(p) THEN p[i] ELSE q[i - Len(p)]
        BY <2>2, ConcatProperties DEF Path
    <3>3. (p \o SubSeq(q, 1, n))[i] = IF i <= Len(p) THEN p[i] ELSE SubSeq(q, 1, n)[i - Len(p)]
        BY <2>2, <2>4, <2>5, ConcatProperties DEF Path
    <3>4. i > Len(p) => SubSeq(q, 1, n)[i - Len(p)] = q[i - Len(p)]
        BY <2>2, <2>3, CutPath
    <3> QED
        BY <3>1, <3>2, <3>3, <3>4, <2>2
  <2>7. r = p \o SubSeq(q, 1, n)
      BY <2>5, <2>6, SeqEqual DEF Path
  <2> QED
      BY <2>3, <2>7
<1> QED
    BY <1>2, <1>3

\* Joining to the same path keeps the order.
LEMMA JoinedBelow ==
    ASSUME NEW p \in Path, NEW q \in Path, NEW r \in Path
    PROVE  /\ p \o r \in Path
           /\ IsPrefix(r, q) <=> IsPrefix(p \o r, p \o q)
           /\ IsStrictPrefix(r, q) <=> IsStrictPrefix(p \o r, p \o q)
           /\ p \o r = p \o q => r = q
<1>1. /\ p \o r \in Path /\ p \o q \in Path
      /\ Len(p) \in Nat /\ Len(q) \in Nat /\ Len(r) \in Nat
      /\ Len(p \o q) = Len(p) + Len(q) /\ Len(p \o r) = Len(p) + Len(r)
    BY JoinedPath, PathBasics, ConcatProperties DEF Path
<1>2. /\ \A i \in 1..(Len(p) + Len(q)) : (p \o q)[i] = IF i <= Len(p) THEN p[i] ELSE q[i - Len(p)]
      /\ \A i \in 1..(Len(p) + Len(r)) : (p \o r)[i] = IF i <= Len(p) THEN p[i] ELSE r[i - Len(p)]
    BY ConcatProperties DEF Path
<1>3. ASSUME IsPrefix(r, q) PROVE IsPrefix(p \o r, p \o q)
  <2>1. Len(r) <= Len(q) /\ \A i \in 1..Len(r) : r[i] = q[i]
      BY <1>3, PrefixElements
  <2>2. \A i \in 1..(Len(p) + Len(r)) : (p \o r)[i] = (p \o q)[i]
      BY <1>1, <1>2, <2>1
  <2>3. Len(p \o r) <= Len(p \o q) /\ \A i \in 1..Len(p \o r) : (p \o r)[i] = (p \o q)[i]
      BY <1>1, <2>1, <2>2
  <2> QED
      BY <1>1, <2>3, PrefixElements
<1>4. ASSUME IsPrefix(p \o r, p \o q) PROVE IsPrefix(r, q)
  <2>1. /\ Len(p) + Len(r) <= Len(p) + Len(q)
        /\ \A i \in 1..(Len(p) + Len(r)) : (p \o r)[i] = (p \o q)[i]
      BY <1>1, <1>4, PrefixElements
  <2>2. ASSUME NEW i \in 1..Len(r) PROVE r[i] = q[i]
    <3>1. Len(p) + i \in 1..(Len(p) + Len(r)) /\ ~(Len(p) + i <= Len(p)) /\ (Len(p) + i) - Len(p) = i
        BY <1>1
    <3>2. Len(p) + i \in 1..(Len(p) + Len(q))
        BY <1>1, <2>1
    <3> QED
        BY <1>2, <2>1, <3>1, <3>2
  <2> QED
      BY <1>1, <2>1, <2>2, PrefixElements
<1>5. Len(r) < Len(q) <=> Len(p \o r) < Len(p \o q)
    BY <1>1
<1>6. p \o r = p \o q => r = q
    BY ConcatSimplifications DEF Path
<1> QED
    BY <1>1, <1>3, <1>4, <1>5, <1>6, PrefixOrder

\* The last key of a path, and what is before it.
LEMMA AppendedKey ==
    ASSUME NEW p \in Path, NEW k
    PROVE  Append(p, k) # <<>> /\ Last(Append(p, k)) = k /\ Front(Append(p, k)) = p
<1> DEFINE S == STRING \cup {k}
           a == Append(p, k)
<1>1. p \in Seq(S) /\ k \in S /\ Len(p) \in Nat
    BY SeqMonotonic, PathBasics DEF Path
<1>2. a \in Seq(S) /\ a # <<>> /\ Len(a) = Len(p) + 1
    BY <1>1, AppendProperties
<1>3. a[Len(p) + 1] = k
    BY <1>1, AppendProperties, LenProperties
<1>4. \A i \in 1..Len(p) : a[i] = p[i]
    BY <1>1, AppendProperties, LenProperties
<1> HIDE DEF S, a
<1>5. Last(a) = k
    BY <1>2, <1>3 DEF Last
<1>6. Front(a) = SubSeq(a, 1, Len(p))
    BY <1>1, <1>2 DEF Front
<1>7. SubSeq(a, 1, Len(p)) = p
  <2>1. \A i \in 1..Len(p) : a[i] \in S
      BY <1>1, <1>4, ElementOfSeq
  <2>2. /\ SubSeq(a, 1, Len(p)) \in Seq(S) /\ Len(SubSeq(a, 1, Len(p))) = Len(p)
        /\ \A i \in 1..Len(p) : SubSeq(a, 1, Len(p))[i] = a[i]
      BY <1>1, <2>1, SubSeqProperties
  <2> QED
      BY <1>1, <1>4, <2>2, SeqEqual
<1> QED
    BY <1>2, <1>5, <1>6, <1>7 DEF a

==============================================================================
