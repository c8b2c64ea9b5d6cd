-------------------------- MODULE LineOrderProofs --------------------------
(***************************************************************************)
(* What the list and version-vector operators of LineOrder compute, for    *)
(* every input.  Without is a recursive function, so its facts go by       *)
(* induction on the prefix length; the induction principle is derived from *)
(* the least-element property of a well-founded relation.                  *)
(***************************************************************************)
EXTENDS LineOrder, WellFoundedInduction, SequenceTheorems, TLAPS

(* Less-than on the naturals is well founded. *)
LEMMA LessWellFounded == IsWellFoundedOn({p \in Nat \X Nat : p[1] < p[2]}, Nat)
  BY NatLessThanWellFounded DEF OpToRel

(* Every non-empty set of naturals has a least element. *)
LEMMA LeastNatural ==
  ASSUME NEW T, T \subseteq Nat, T # {}
  PROVE  \E x \in T : \A y \in T : x <= y
<1> DEFINE R == {p \in Nat \X Nat : p[1] < p[2]}
<1>1. PICK x \in T : \A y \in T : <<y, x>> \notin R
  <2>1. IsWellFoundedOn(R, Nat)
    BY LessWellFounded
  <2> HIDE DEF R
  <2> QED
    BY <2>1, WFMin
<1>2. ASSUME NEW y \in T PROVE x <= y
  <2>1. x \in Nat /\ y \in Nat /\ <<y, x>> \notin R
    BY <1>1
  <2>2. ~(y < x)
    BY <2>1
  <2> QED
    BY <2>1, <2>2
<1> QED
  BY <1>2

(* Induction, with the property given as the set of numbers that have it. *)
LEMMA SetInduction ==
  ASSUME NEW S, 0 \in S, \A n \in Nat : n \in S => n + 1 \in S
  PROVE  \A n \in Nat : n \in S
<1> SUFFICES ASSUME Nat \ S # {} PROVE FALSE
  OBVIOUS
<1>1. PICK x \in Nat \ S : \A y \in Nat \ S : x <= y
  BY LeastNatural
<1>2. x # 0
  BY <1>1
<1>3. x - 1 \in Nat /\ x - 1 \in S
  BY <1>1, <1>2
<1> QED
  BY <1>1, <1>3

-----------------------------------------------------------------------------
(* Version vectors are ordered pointwise, and merge_vv is an upper bound. *)
LEMMA MergeVVProperties ==
  ASSUME NEW a \in VV, NEW b \in VV
  PROVE  /\ MergeVV(a, b) \in VV
         /\ Leq(a, MergeVV(a, b))
         /\ Leq(b, MergeVV(a, b))
  BY DEF VV, MergeVV, Leq

LEMMA LeqReflexive ==
  ASSUME NEW a \in VV PROVE Leq(a, a)
  BY DEF VV, Leq

LEMMA LeqTransitive ==
  ASSUME NEW a \in VV, NEW b \in VV, NEW c \in VV, Leq(a, b), Leq(b, c)
  PROVE  Leq(a, c)
<1> SUFFICES ASSUME NEW d \in Device PROVE a[d] <= c[d]
  BY DEF Leq
<1>1. a[d] \in Nat /\ b[d] \in Nat /\ c[d] \in Nat
  BY DEF VV
<1>2. a[d] <= b[d] /\ b[d] <= c[d]
  BY DEF Leq
<1> QED
  BY <1>1, <1>2

-----------------------------------------------------------------------------
(* position_after returns an index the block can be spliced at. *)
LEMMA PositionAfterRange ==
  ASSUME NEW s \in Seq(Line), NEW after \in Line \cup {Top}, HasPosition(s, after)
  PROVE  PositionAfter(s, after) \in 0 .. Len(s)
<1>1. CASE after = Top
  BY <1>1 DEF PositionAfter
<1>2. CASE after # Top
  <2> DEFINE T == {i \in 1 .. Len(s) : s[i] = after}
  <2>1. T \subseteq Nat /\ T # {}
    BY <1>2 DEF HasPosition, Ids
  <2>2. PICK x \in T : \A y \in T : x <= y
    BY <2>1, LeastNatural
  <2>3. x \in 1 .. Len(s) /\ s[x] = after /\ \A j \in 1 .. (x - 1) : s[j] # after
    BY <2>2
  <2>4. (CHOOSE i \in 1 .. Len(s) : /\ s[i] = after
                                    /\ \A j \in 1 .. (i - 1) : s[j] # after) \in 1 .. Len(s)
    BY <2>3
  <2> QED
    BY <1>2, <2>4 DEF PositionAfter
<1> QED
  BY <1>1, <1>2

(* Splicing a block in adds exactly its ids. *)
LEMMA SpliceAtElements ==
  ASSUME NEW s \in Seq(Line), NEW block \in Seq(Line), NEW p \in 0 .. Len(s)
  PROVE  /\ SpliceAt(s, p, block) \in Seq(Line)
         /\ Len(SpliceAt(s, p, block)) = Len(s) + Len(block)
         /\ \A i \in 1 .. (Len(s) + Len(block)) :
              SpliceAt(s, p, block)[i] =
                IF i <= p THEN s[i]
                ELSE IF i <= p + Len(block) THEN block[i - p]
                ELSE s[i - Len(block)]
         /\ Ids(SpliceAt(s, p, block)) = Ids(s) \cup Ids(block)
<1> DEFINE a == SubSeq(s, 1, p)
           c == SubSeq(s, p + 1, Len(s))
           t == SpliceAt(s, p, block)
<1>1. Len(s) \in Nat /\ Len(block) \in Nat
  BY LenProperties
<1>2. a \in Seq(Line) /\ Len(a) = p /\ \A i \in 1 .. p : a[i] = s[i]
  BY <1>1, SubSeqProperties
<1>3. c \in Seq(Line) /\ Len(c) = Len(s) - p /\ \A i \in 1 .. (Len(s) - p) : c[i] = s[p + i]
  BY <1>1, SubSeqProperties
<1>4. t = (a \o block) \o c
  BY DEF SpliceAt
<1> HIDE DEF a, c
<1>5. /\ a \o block \in Seq(Line) /\ Len(a \o block) = p + Len(block)
      /\ \A i \in 1 .. (p + Len(block)) :
           (a \o block)[i] = IF i <= p THEN s[i] ELSE block[i - p]
  <2>1. /\ a \o block \in Seq(Line) /\ Len(a \o block) = Len(a) + Len(block)
        /\ \A i \in 1 .. (Len(a) + Len(block)) :
             (a \o block)[i] = IF i <= Len(a) THEN a[i] ELSE block[i - Len(a)]
    BY <1>2, ConcatProperties
  <2>2. \A i \in 1 .. (p + Len(block)) : i <= p => i \in 1 .. p
    BY <1>1
  <2> QED
    BY <1>2, <2>1, <2>2
<1>6. /\ t \in Seq(Line) /\ Len(t) = Len(s) + Len(block)
      /\ \A i \in 1 .. (Len(s) + Len(block)) :
           t[i] = IF i <= p + Len(block) THEN (a \o block)[i] ELSE c[i - (p + Len(block))]
  BY <1>1, <1>3, <1>4, <1>5, ConcatProperties, SMTT(30)
<1> HIDE DEF t
<1>7. \A i \in 1 .. (Len(s) + Len(block)) :
        t[i] = IF i <= p THEN s[i]
               ELSE IF i <= p + Len(block) THEN block[i - p]
               ELSE s[i - Len(block)]
  <2> SUFFICES ASSUME NEW i \in 1 .. (Len(s) + Len(block))
               PROVE  t[i] = IF i <= p THEN s[i]
                             ELSE IF i <= p + Len(block) THEN block[i - p]
                             ELSE s[i - Len(block)]
    OBVIOUS
  <2>1. CASE i <= p + Len(block)
    BY <1>1, <1>5, <1>6, <2>1, SMTT(30)
  <2>2. CASE i > p + Len(block)
    <3>1. i - (p + Len(block)) \in 1 .. (Len(s) - p)
      BY <1>1, <2>2
    <3>2. p + (i - (p + Len(block))) = i - Len(block)
      BY <1>1
    <3>3. t[i] = c[i - (p + Len(block))]
      BY <1>1, <1>6, <2>2
    <3>4. c[i - (p + Len(block))] = s[i - Len(block)]
      BY <1>3, <3>1, <3>2
    <3> QED
      BY <1>1, <2>2, <3>3, <3>4
  <2> QED
    BY <1>1, <2>1, <2>2
<1>a. ASSUME NEW i \in 1 .. (Len(s) + Len(block)), i > p + Len(block)
      PROVE  t[i] = s[i - Len(block)]
  <2>1. ~(i <= p) /\ ~(i <= p + Len(block))
    BY <1>1, <1>a
  <2> QED
    BY <1>7, <2>1
<1>8. Ids(t) \subseteq Ids(s) \cup Ids(block)
  <2> SUFFICES ASSUME NEW i \in 1 .. Len(t) PROVE t[i] \in Ids(s) \cup Ids(block)
    BY DEF Ids
  <2>1. CASE i <= p
    BY <1>1, <1>6, <1>7, <2>1, SMTT(30) DEF Ids
  <2>2. CASE i > p /\ i <= p + Len(block)
    <3>1. t[i] = block[i - p] /\ i - p \in 1 .. Len(block)
      BY <1>1, <1>6, <1>7, <2>2
    <3> QED BY <3>1 DEF Ids
  <2>3. CASE i > p + Len(block)
    <3>1. t[i] = s[i - Len(block)] /\ i - Len(block) \in 1 .. Len(s)
      BY <1>1, <1>6, <1>a, <2>3
    <3> QED BY <3>1 DEF Ids
  <2> QED
    BY <1>1, <1>6, <2>1, <2>2, <2>3
<1>9. Ids(s) \subseteq Ids(t)
  <2> SUFFICES ASSUME NEW i \in 1 .. Len(s) PROVE s[i] \in Ids(t)
    BY DEF Ids
  <2>1. CASE i <= p
    <3>1. i \in 1 .. Len(t) /\ t[i] = s[i]
      BY <1>1, <1>6, <1>7, <2>1
    <3> QED BY <3>1 DEF Ids
  <2>2. CASE i > p
    <3>1. PICK j \in 1 .. (Len(s) + Len(block)) :
            j > p + Len(block) /\ j - Len(block) = i
      <4> WITNESS i + Len(block) \in 1 .. (Len(s) + Len(block))
      <4> QED BY <1>1, <2>2
    <3>2. t[j] = s[j - Len(block)]
      BY <1>a, <3>1
    <3> QED BY <1>6, <3>1, <3>2 DEF Ids
  <2> QED
    BY <1>1, <2>1, <2>2
<1>10. Ids(block) \subseteq Ids(t)
  <2> SUFFICES ASSUME NEW i \in 1 .. Len(block) PROVE block[i] \in Ids(t)
    BY DEF Ids
  <2>1. i + p \in 1 .. Len(t) /\ (i + p) - p = i /\ i + p > p /\ i + p <= p + Len(block)
    BY <1>1, <1>6
  <2>2. t[i + p] = block[i]
    BY <1>1, <1>6, <1>7, <2>1
  <2> QED BY <2>1, <2>2 DEF Ids
<1> QED
  BY <1>6, <1>7, <1>8, <1>9, <1>10 DEF t

LEMMA SpliceAtIds ==
  ASSUME NEW s \in Seq(Line), NEW block \in Seq(Line), NEW p \in 0 .. Len(s)
  PROVE  /\ SpliceAt(s, p, block) \in Seq(Line)
         /\ Ids(SpliceAt(s, p, block)) = Ids(s) \cup Ids(block)
  BY SpliceAtElements

(* Splicing a distinct block of new ids into a distinct list. *)
LEMMA SpliceAtDistinct ==
  ASSUME NEW s \in Seq(Line), NEW block \in Seq(Line), NEW p \in 0 .. Len(s),
         Distinct(s), Distinct(block), Ids(s) \cap Ids(block) = {}
  PROVE  Distinct(SpliceAt(s, p, block))
<1> DEFINE t == SpliceAt(s, p, block)
           n == Len(block)
           src(i) == IF i <= p THEN i ELSE i - n
<1>1. Len(s) \in Nat /\ n \in Nat
  BY LenProperties
<1>2. /\ Len(t) = Len(s) + n
      /\ \A i \in 1 .. (Len(s) + n) :
           t[i] = IF i <= p THEN s[i] ELSE IF i <= p + n THEN block[i - p] ELSE s[i - n]
  BY SpliceAtElements
<1> HIDE DEF t, n
<1> SUFFICES ASSUME NEW i \in 1 .. Len(t), NEW j \in 1 .. Len(t), t[i] = t[j]
             PROVE  i = j
  BY DEF Distinct, t
<1> DEFINE InBlock(k) == p < k /\ k <= p + n
<1>3. ASSUME NEW k \in 1 .. Len(t), InBlock(k)
      PROVE  k - p \in 1 .. n /\ t[k] = block[k - p] /\ t[k] \in Ids(block)
  <2>1. k - p \in 1 .. n /\ t[k] = block[k - p]
    BY <1>1, <1>2, <1>3
  <2> QED
    BY <2>1 DEF Ids, n
<1>4. ASSUME NEW k \in 1 .. Len(t), ~InBlock(k)
      PROVE  src(k) \in 1 .. Len(s) /\ t[k] = s[src(k)] /\ t[k] \in Ids(s)
  <2>1. src(k) \in 1 .. Len(s) /\ t[k] = s[src(k)]
    BY <1>1, <1>2, <1>4
  <2> QED
    BY <2>1 DEF Ids
<1>5. CASE InBlock(i) /\ InBlock(j)
  <2>1. i - p = j - p
    BY <1>3, <1>5 DEF Distinct, n
  <2> QED
    BY <1>1, <1>2, <2>1
<1>6. CASE ~InBlock(i) /\ ~InBlock(j)
  <2>1. src(i) = src(j)
    <3> HIDE DEF src
    <3> QED BY <1>4, <1>6, SMTT(30) DEF Distinct
  <2> QED
    BY <1>1, <1>2, <1>6, <2>1
<1> HIDE DEF InBlock
<1>7. CASE InBlock(i) /\ ~InBlock(j)
  BY <1>3, <1>4, <1>7
<1>8. CASE ~InBlock(i) /\ InBlock(j)
  BY <1>3, <1>4, <1>8
<1> QED
  BY <1>5, <1>6, <1>7, <1>8

-----------------------------------------------------------------------------
(* The recursive function inside Without, as a predicate on its graph. *)
IsFilter(f, s, gone, n) ==
  f = [i \in 0 .. n |-> IF i = 0 THEN << >>
                        ELSE IF s[i] \in gone THEN f[i - 1]
                        ELSE Append(f[i - 1], s[i])]

(* A function that satisfies the recursion exists for every prefix. *)
LEMMA FilterExists ==
  ASSUME NEW s, NEW gone
  PROVE  \A n \in Nat : \E f : IsFilter(f, s, gone, n)
<1> DEFINE S == {n \in Nat : \E f : IsFilter(f, s, gone, n)}
<1>1. 0 \in S
  <2> DEFINE f == [i \in 0 .. 0 |-> << >>]
  <2>1. IsFilter(f, s, gone, 0)
    BY DEF IsFilter
  <2> QED
    BY <2>1
<1>2. ASSUME NEW n \in Nat, n \in S PROVE n + 1 \in S
  <2>1. PICK f : IsFilter(f, s, gone, n)
    BY <1>2
  <2> DEFINE last == IF s[n + 1] \in gone THEN f[n] ELSE Append(f[n], s[n + 1])
             g == [i \in 0 .. (n + 1) |-> IF i = n + 1 THEN last ELSE f[i]]
  <2>2. \A i \in 0 .. n : g[i] = f[i]
    OBVIOUS
  <2>3. g[n + 1] = last
    OBVIOUS
  <2>4. ASSUME NEW i \in 0 .. (n + 1)
        PROVE  g[i] = IF i = 0 THEN << >>
                      ELSE IF s[i] \in gone THEN g[i - 1] ELSE Append(g[i - 1], s[i])
    <3>1. CASE i = n + 1
      <4>1. i # 0 /\ i - 1 = n /\ g[i - 1] = f[n]
        BY <2>2, <3>1
      <4> HIDE DEF g
      <4> QED BY <2>3, <3>1, <4>1
    <3>2. CASE i # n + 1
      <4>1. i \in 0 .. n /\ (i # 0 => i - 1 \in 0 .. n)
        BY <3>2
      <4>2. f[i] = IF i = 0 THEN << >>
                   ELSE IF s[i] \in gone THEN f[i - 1] ELSE Append(f[i - 1], s[i])
        BY <2>1, <4>1 DEF IsFilter
      <4> HIDE DEF g
      <4> QED BY <2>2, <4>1, <4>2
    <3> QED BY <3>1, <3>2
  <2>5. IsFilter(g, s, gone, n + 1)
    <3>1. g = [i \in 0 .. (n + 1) |-> g[i]]
      OBVIOUS
    <3> HIDE DEF g
    <3> QED BY <2>4, <3>1 DEF IsFilter
  <2> HIDE DEF g
  <2> QED BY <2>5
<1> HIDE DEF S
<1>3. \A n \in Nat : n \in S
  BY <1>1, <1>2, SetInduction
<1> QED
  BY <1>3 DEF S

(* Appending a new id to a list. *)
LEMMA AppendIds ==
  ASSUME NEW t \in Seq(Line), NEW x \in Line
  PROVE  /\ Append(t, x) \in Seq(Line)
         /\ Ids(Append(t, x)) = Ids(t) \cup {x}
         /\ Distinct(t) /\ x \notin Ids(t) => Distinct(Append(t, x))
<1> DEFINE u == Append(t, x)
<1>1. Len(t) \in Nat
  BY LenProperties
<1>2. /\ u \in Seq(Line) /\ Len(u) = Len(t) + 1 /\ u[Len(t) + 1] = x
      /\ \A i \in 1 .. Len(t) : u[i] = t[i]
  BY <1>1, AppendProperties
<1> HIDE DEF u
<1>3. 1 .. Len(u) = (1 .. Len(t)) \cup {Len(t) + 1}
  BY <1>1, <1>2
<1>4. Ids(u) = Ids(t) \cup {x}
  BY <1>2, <1>3, SMTT(30) DEF Ids
<1>5. ASSUME Distinct(t), x \notin Ids(t) PROVE Distinct(u)
  BY <1>2, <1>3, <1>5, SMTT(30) DEF Distinct, Ids
<1> QED
  BY <1>2, <1>4, <1>5 DEF u

(* Without keeps exactly the ids that are not gone, each as often as it was. *)
LEMMA WithoutProperties ==
  ASSUME NEW s \in Seq(Line), NEW gone
  PROVE  /\ Without(s, gone) \in Seq(Line)
         /\ Ids(Without(s, gone)) = Ids(s) \ gone
         /\ Distinct(s) => Distinct(Without(s, gone))
<1> DEFINE N == Len(s)
           f == CHOOSE g : IsFilter(g, s, gone, N)
           prefix(n) == {s[i] : i \in 1 .. n}
           Good(n) == /\ f[n] \in Seq(Line)
                      /\ Ids(f[n]) = prefix(n) \ gone
                      /\ Distinct(s) => Distinct(f[n])
           S == {n \in Nat : n <= N => Good(n)}
<1>1. N \in Nat /\ \A i \in 1 .. N : s[i] \in Line
  BY LenProperties, ElementOfSeq
<1>2. IsFilter(f, s, gone, N)
  BY <1>1, FilterExists
<1>3. Without(s, gone) = f[N]
  BY DEF Without, IsFilter
<1> HIDE DEF f, N
<1>4. 0 \in S
  <2>1. f[0] = << >>
    BY <1>1, <1>2 DEF IsFilter
  <2>2. Ids(<< >>) = {} /\ prefix(0) = {} /\ Distinct(<< >>)
    BY DEF Ids, Distinct
  <2>3. Good(0)
    <3> HIDE DEF prefix
    <3> QED BY <2>1, <2>2, EmptySeq
  <2> QED
    BY <2>3
<1>5. ASSUME NEW n \in Nat, n \in S PROVE n + 1 \in S
  <2> SUFFICES ASSUME n + 1 <= N PROVE Good(n + 1)
    OBVIOUS
  <2>1. Good(n)
    BY <1>1, <1>5
  <2>2. f[n + 1] = IF s[n + 1] \in gone THEN f[n] ELSE Append(f[n], s[n + 1])
    <3>1. n + 1 \in 0 .. N /\ n + 1 # 0 /\ (n + 1) - 1 = n
      BY <1>1
    <3> QED
      BY <1>2, <3>1 DEF IsFilter
  <2>3. n + 1 \in 1 .. N /\ s[n + 1] \in Line
    BY <1>1
  <2>4. prefix(n + 1) = prefix(n) \cup {s[n + 1]}
    <3>1. 1 .. (n + 1) = (1 .. n) \cup {n + 1}
      OBVIOUS
    <3> QED
      BY <3>1
  <2>5. Distinct(s) => s[n + 1] \notin prefix(n)
    BY <1>1, <2>3 DEF Distinct, N
  <2> HIDE DEF prefix
  <2>6. CASE s[n + 1] \in gone
    BY <2>1, <2>2, <2>4, <2>6
  <2>7. CASE s[n + 1] \notin gone
    BY <2>1, <2>2, <2>3, <2>4, <2>5, <2>7, AppendIds
  <2> QED
    BY <2>6, <2>7
<1>6. N \in S
  <2> HIDE DEF S
  <2> QED BY <1>1, <1>4, <1>5, SetInduction
<1>7. Good(N)
  BY <1>1, <1>6
<1> QED
  BY <1>3, <1>7 DEF Ids, N
=============================================================================
