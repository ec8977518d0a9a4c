------------------------------ MODULE TextProofs -------------------------------
(***************************************************************************)
(* What is read and written, for texts of every length: the catalog        *)
(* functions' patterns, lists of types and rows, the parser's depth,       *)
(* statements and identifiers.                                             *)
(***************************************************************************)
EXTENDS JsonReading, Catalog, Names, Request, SequenceTheorems, FiniteSetTheorems,
        WellFoundedInduction, TLAPS

------------------------------------------------------------------------------
\* Recursion over the places of a text

\* Whatever numbers a property fails for, there is a first of them.
LEMMA LeastOf ==
    ASSUME NEW S, S \subseteq Nat, S # {}
    PROVE  \E least \in S : \A n \in S : least <= n
<1> DEFINE R == OpToRel(<, Nat)
<1>1. IsWellFoundedOn(R, Nat) /\ R = {ss \in Nat \X Nat : ss[1] < ss[2]}
  BY NatLessThanWellFounded DEF OpToRel
<1> HIDE DEF R
<1>2. PICK least \in S : \A n \in S : ~(<<n, least>> \in R)
  BY <1>1, WFMin
<1>3. ASSUME NEW n \in S PROVE least <= n
  <2>1. n \in Nat /\ least \in Nat
    BY <1>2
  <2>2. <<n, least>> \in Nat \X Nat
    BY <2>1
  <2>3. ~(n < least)
    BY <1>1, <1>2, <2>2
  <2>4. QED
    BY <2>1, <2>3
<1>4. QED
  BY <1>2, <1>3

\* And below a bound there is a last one.
LEMMA GreatestOf ==
    ASSUME NEW bound \in Nat, NEW S, S \subseteq 0..bound, S # {}
    PROVE  \E greatest \in S : \A n \in S : n <= greatest
<1> DEFINE Mirrored == {bound - n : n \in S}
<1>1. Mirrored \subseteq Nat /\ Mirrored # {}
  <2>1. \A n \in S : bound - n \in Nat
    OBVIOUS
  <2>2. PICK n \in S : TRUE
    OBVIOUS
  <2>3. bound - n \in Mirrored
    OBVIOUS
  <2>4. QED
    BY <2>1, <2>3
<1>2. PICK least \in Mirrored : \A n \in Mirrored : least <= n
  BY <1>1, LeastOf
<1>3. PICK greatest \in S : least = bound - greatest
  BY <1>2
<1>4. ASSUME NEW n \in S PROVE n <= greatest
  <2>1. bound - n \in Mirrored /\ n \in 0..bound /\ greatest \in 0..bound
    OBVIOUS
  <2>2. bound - greatest <= bound - n
    BY <1>2, <1>3, <2>1
  <2>3. QED
    BY <2>1, <2>2
<1>5. QED
  BY <1>4

\* G says what f is at each place, and looks at later places only.
Solves(f, G, first, last, V) ==
    f \in [first..last -> V] /\ \A i \in first..last : f[i] = G[i][f]

LooksAhead(G, first, last, V) ==
    \A i \in first..last : \A f, g \in [first..last -> V] :
        (\A j \in i + 1..last : f[j] = g[j]) => G[i][f] = G[i][g]

\* A definition that goes from each place to later ones defines a function.
LEMMA RecursionAhead ==
    ASSUME NEW first \in Nat, NEW last \in Nat, NEW V, V # {},
           NEW G \in [first..last -> [[first..last -> V] -> V]],
           LooksAhead(G, first, last, V)
    PROVE  \E f : Solves(f, G, first, last, V)
<1> DEFINE Holds(f, at) == \A i \in at..last : i \in first..last => f[i] = G[i][f]
           Missing == {n \in Nat : ~ \E f \in [first..last -> V] : Holds(f, last + 1 - n)}
<1>1. SUFFICES Missing = {}
  <2>1. last + 1 \notin Missing
    BY <1>1
  <2>2. PICK f \in [first..last -> V] : Holds(f, last + 1 - (last + 1))
    BY <2>1
  <2>3. \A i \in first..last : i \in (last + 1 - (last + 1))..last
    OBVIOUS
  <2>4. QED
    BY <2>2, <2>3 DEF Solves
<1>2. SUFFICES ASSUME Missing # {} PROVE FALSE
  OBVIOUS
<1>3. PICK least \in Missing : \A n \in Missing : least <= n
  BY <1>2, LeastOf
<1>4. least # 0
  <2>1. PICK v : v \in V
    OBVIOUS
  <2>2. [i \in first..last |-> v] \in [first..last -> V]
    BY <2>1
  <2>3. Holds([i \in first..last |-> v], last + 1 - 0)
    OBVIOUS
  <2>4. QED
    BY <2>2, <2>3
<1>5. least \in Nat /\ least - 1 \in Nat /\ ~(least <= least - 1)
  BY <1>4
<1>6. PICK f \in [first..last -> V] : Holds(f, last + 1 - (least - 1))
  BY <1>3, <1>5
<1> DEFINE at == last + 1 - least
           g == [f EXCEPT ![at] = G[at][f]]
<1>7. at \in Int /\ last + 1 - (least - 1) = at + 1
  BY <1>5
<1>8. CASE at \notin first..last
  <2>1. Holds(f, at)
    <3>1. ASSUME NEW i \in at..last, i \in first..last PROVE f[i] = G[i][f]
      <4>1. i \in at + 1..last
        BY <1>7, <1>8, <3>1
      <4>2. QED
        BY <1>6, <1>7, <3>1, <4>1
    <3>2. QED
      BY <3>1
  <2>2. QED
    BY <1>3, <2>1
<1>9. CASE at \in first..last
  <2>1. G[at][f] \in V
    BY <1>9
  <2>2. g \in [first..last -> V] /\ g[at] = G[at][f]
    BY <1>9, <2>1
  <2>3. \A j \in at + 1..last : g[j] = f[j]
    BY <1>7
  <2> HIDE DEF g, at
  <2>4. ASSUME NEW i \in at..last, i \in first..last PROVE g[i] = G[i][g]
    <3>1. \A j \in i + 1..last : g[j] = f[j]
      BY <1>7, <2>3, <2>4
    <3>2. G[i][g] = G[i][f]
      <4>1. \A h \in [first..last -> V] :
                (\A j \in i + 1..last : g[j] = h[j]) => G[i][g] = G[i][h]
        BY <2>2, <2>4 DEF LooksAhead
      <4>2. QED
        BY <1>6, <3>1, <4>1
    <3>3. i = at \/ i \in at + 1..last
      BY <1>7, <2>4
    <3>4. i \in at + 1..last => g[i] = f[i] /\ f[i] = G[i][f]
      BY <1>6, <1>7, <2>3, <2>4
    <3>5. QED
      BY <2>2, <3>2, <3>3, <3>4
  <2>5. Holds(g, at)
    BY <2>4
  <2>6. QED
    BY <1>3, <2>2, <2>5 DEF at
<1>10. QED
  BY <1>8, <1>9

------------------------------------------------------------------------------
\* Sequences put together from pieces

\* The function FlattenSeq defines, for its first n pieces.
IsFlat(f, pieces, n) ==
    f = [i \in 1..n |-> IF i = 1 THEN pieces[i] ELSE f[i - 1] \o pieces[i]]

LEMMA FlatExists ==
    ASSUME NEW pieces, NEW length \in Nat
    PROVE  \E f : IsFlat(f, pieces, length)
<1> DEFINE Missing == {n \in Nat : ~ \E f : IsFlat(f, pieces, n)}
<1>1. SUFFICES ASSUME Missing # {} PROVE FALSE
  OBVIOUS
<1>2. PICK least \in Missing : \A n \in Missing : least <= n
  BY <1>1, LeastOf
<1>3. CASE least = 0
  <2> DEFINE f == [i \in 1..0 |-> pieces[i]]
  <2>1. f = [i \in 1..0 |-> IF i = 1 THEN pieces[i] ELSE f[i - 1] \o pieces[i]]
    OBVIOUS
  <2>2. IsFlat(f, pieces, 0)
    BY <2>1 DEF IsFlat
  <2>3. QED
    BY <1>2, <1>3, <2>2
<1>4. CASE least # 0
  <2>1. least \in Nat /\ least - 1 \in Nat /\ ~(least <= least - 1)
    BY <1>2, <1>4
  <2>2. PICK f : IsFlat(f, pieces, least - 1)
    BY <1>2, <2>1
  <2> DEFINE last == IF least = 1 THEN pieces[least] ELSE f[least - 1] \o pieces[least]
             g == [i \in 1..least |-> IF i < least THEN f[i] ELSE last]
  <2>3. ASSUME NEW i \in 1..least
        PROVE  g[i] = IF i = 1 THEN pieces[i] ELSE g[i - 1] \o pieces[i]
    <3>0. i # 1 => i - 1 \in 1..least /\ i - 1 < least
      BY <2>1
    <3>1. CASE i < least
      <4>1. i \in 1..(least - 1) /\ g[i] = f[i]
        BY <2>1, <3>1
      <4>2. f[i] = IF i = 1 THEN pieces[i] ELSE f[i - 1] \o pieces[i]
        BY <2>2, <4>1 DEF IsFlat
      <4>3. i # 1 => g[i - 1] = f[i - 1]
        BY <3>0
      <4>4. QED
        BY <4>1, <4>2, <4>3
    <3>2. CASE ~(i < least)
      <4>1. i = least /\ g[i] = last
        BY <2>1, <3>2
      <4>2. i # 1 => g[i - 1] = f[i - 1]
        BY <3>0
      <4>3. QED
        BY <4>1, <4>2
    <3>3. QED
      BY <3>1, <3>2
  <2>4. g = [i \in 1..least |-> IF i = 1 THEN pieces[i] ELSE g[i - 1] \o pieces[i]]
    BY <2>3
  <2>5. IsFlat(g, pieces, least)
    BY <2>4 DEF IsFlat
  <2>6. QED
    BY <1>2, <2>5
<1>5. QED
  BY <1>3, <1>4

\* One sequence behind another: where its elements are.
LEMMA Joined ==
    ASSUME NEW T, NEW s \in Seq(T), NEW t \in Seq(T)
    PROVE  /\ s \o t \in Seq(T)
           /\ Len(s) \in Nat /\ Len(t) \in Nat
           /\ Len(s \o t) = Len(s) + Len(t)
           /\ \A j \in 1..Len(s) : (s \o t)[j] = s[j]
           /\ \A j \in 1..Len(t) : (s \o t)[Len(s) + j] = t[j]
<1> DEFINE a == Len(s)
           b == Len(t)
           both == s \o t
<1>1. a \in Nat /\ b \in Nat /\ both \in Seq(T) /\ Len(both) = a + b
  BY ConcatProperties
<1>2. \A i \in 1..a + b : both[i] = IF i <= a THEN s[i] ELSE t[i - a]
  BY ConcatProperties
<1>3. (\A j \in 1..a : both[j] = s[j]) /\ \A j \in 1..b : both[a + j] = t[j]
  <2> HIDE DEF a, b, both
  <2>1. \A j \in 1..a : j \in 1..a + b /\ j <= a
    BY <1>1
  <2>2. \A j \in 1..b : a + j \in 1..a + b /\ ~(a + j <= a) /\ a + j - a = j
    BY <1>1
  <2>3. ASSUME NEW j \in 1..a PROVE both[j] = s[j]
    BY <1>2, <2>1
  <2>4. ASSUME NEW j \in 1..b PROVE both[a + j] = t[j]
    <3>1. PICK i \in 1..a + b : i = a + j /\ ~(i <= a) /\ i - a = j
      BY <1>1, <2>2
    <3>2. both[i] = t[j]
      BY <1>2, <3>1
    <3>3. QED
      BY <3>1, <3>2
  <2>5. QED
    BY <2>3, <2>4
<1>4. QED
  BY <1>1, <1>3

\* Where each of the pieces ends.
Ends(at, pieces, whole) ==
    /\ at \in [0..Len(pieces) -> Nat]
    /\ at[0] = 0
    /\ at[Len(pieces)] = Len(whole)
    /\ \A k \in 1..Len(pieces) :
        /\ at[k] = at[k - 1] + Len(pieces[k])
        /\ at[k] <= Len(whole)
        /\ \A j \in 1..Len(pieces[k]) : whole[at[k - 1] + j] = pieces[k][j]

\* Pieces put together stand one behind the other.
LEMMA Flattened ==
    ASSUME NEW T, NEW pieces \in Seq(Seq(T))
    PROVE  /\ FlattenSeq(pieces) \in Seq(T)
           /\ \E at : Ends(at, pieces, FlattenSeq(pieces))
<1> DEFINE n == Len(pieces)
<1>1. n \in Nat /\ \A k \in 1..n : pieces[k] \in Seq(T) /\ Len(pieces[k]) \in Nat
  OBVIOUS
<1>2. CASE n = 0
  <2>1. FlattenSeq(pieces) = <<>> /\ pieces = <<>>
    BY <1>2 DEF FlattenSeq
  <2>2. [k \in 0..0 |-> 0] \in [0..0 -> Nat] /\ [k \in 0..0 |-> 0][0] = 0
    OBVIOUS
  <2>3. Ends([k \in 0..0 |-> 0], pieces, <<>>)
    BY <2>1, <2>2, <1>2 DEF Ends
  <2>4. QED
    BY <2>1, <2>3
<1>3. CASE n # 0
  <2> DEFINE flat == CHOOSE f : IsFlat(f, pieces, n)
  <2>1. FlattenSeq(pieces) = flat[n]
    BY <1>3 DEF FlattenSeq, IsFlat
  <2>2. IsFlat(flat, pieces, n)
    BY <1>1, FlatExists
  <2>3. flat = [i \in 1..n |-> IF i = 1 THEN pieces[i] ELSE flat[i - 1] \o pieces[i]]
    BY <2>2 DEF IsFlat
  <2> HIDE DEF flat
  <2> DEFINE F == [k \in 0..n |-> IF k = 0 THEN <<>> ELSE flat[k]]
  <2>4. F[0] = <<>> /\ F[n] = FlattenSeq(pieces)
    BY <1>1, <1>3, <2>1
  <2>5. ASSUME NEW k \in 1..n, F[k - 1] \in Seq(T)
        PROVE  F[k] = F[k - 1] \o pieces[k]
    <3>0. k \in 0..n /\ k - 1 \in 0..n /\ k # 0
      BY <1>1
    <3>1. F[k] = IF k = 1 THEN pieces[k] ELSE flat[k - 1] \o pieces[k]
      <4>1. F[k] = flat[k]
        BY <3>0
      <4>2. flat[k] = IF k = 1 THEN pieces[k] ELSE flat[k - 1] \o pieces[k]
        BY <2>3
      <4>3. QED
        BY <4>1, <4>2
    <3>2. k = 1 => F[k - 1] = <<>>
      BY <2>4
    <3>3. k # 1 => F[k - 1] = flat[k - 1]
      BY <3>0
    <3>4. <<>> \o pieces[k] = pieces[k]
      BY <1>1, ConcatEmptySeq
    <3>5. QED
      BY <3>1, <3>2, <3>3, <3>4
  <2> HIDE DEF F
  \* What is said of all places fails at none: else at a first one.
  <2> DEFINE Bad == {k \in 0..n : F[k] \notin Seq(T)}
  <2>6. Bad = {}
    <3>1. SUFFICES ASSUME Bad # {} PROVE FALSE
      OBVIOUS
    <3>2. PICK k \in Bad : \A m \in Bad : k <= m
      <4>1. Bad \subseteq Nat
        OBVIOUS
      <4>2. QED
        BY <3>1, <4>1, LeastOf
    <3>3. k # 0
      <4>1. F[0] \in Seq(T)
        BY <2>4, EmptySeq
      <4>2. QED
        BY <4>1
    <3>4. k \in 1..n /\ k - 1 \in 0..n /\ ~(k <= k - 1)
      BY <1>1, <3>3
    <3>5. F[k - 1] \in Seq(T)
      BY <3>2, <3>4
    <3>6. F[k] = F[k - 1] \o pieces[k]
      BY <2>5, <3>4, <3>5
    <3>7. F[k] \in Seq(T)
      <4>1. pieces[k] \in Seq(T)
        BY <1>1, <3>4
      <4>2. QED
        BY <3>5, <3>6, <4>1, ConcatProperties
    <3>8. QED
      BY <3>2, <3>7
  <2>7. \A k \in 0..n : F[k] \in Seq(T) /\ Len(F[k]) \in Nat
    <3>1. \A k \in 0..n : F[k] \in Seq(T)
      BY <2>6
    <3>2. QED
      BY <3>1
  <2>8. ASSUME NEW k \in 1..n
        PROVE  /\ F[k] = F[k - 1] \o pieces[k]
               /\ Len(F[k]) = Len(F[k - 1]) + Len(pieces[k])
               /\ \A j \in 1..Len(F[k - 1]) : F[k][j] = F[k - 1][j]
               /\ \A j \in 1..Len(pieces[k]) : F[k][Len(F[k - 1]) + j] = pieces[k][j]
    <3>1. k - 1 \in 0..n
      BY <1>1
    <3>2. F[k - 1] \in Seq(T) /\ pieces[k] \in Seq(T)
      BY <1>1, <2>7, <3>1
    <3>3. F[k] = F[k - 1] \o pieces[k]
      BY <2>5, <3>2
    <3>4. PICK s \in Seq(T) : s = F[k - 1]
      BY <3>2
    <3>5. PICK t \in Seq(T) : t = pieces[k]
      BY <3>2
    <3>6. F[k] = s \o t
      BY <3>3, <3>4, <3>5
    <3>7. /\ Len(s \o t) = Len(s) + Len(t)
          /\ \A j \in 1..Len(s) : (s \o t)[j] = s[j]
          /\ \A j \in 1..Len(t) : (s \o t)[Len(s) + j] = t[j]
      BY Joined
    <3>8. QED
      BY <3>4, <3>5, <3>6, <3>7, Zenon
  <2>9. ASSUME NEW k \in 0..n
        PROVE  /\ Len(F[k]) <= Len(F[n])
               /\ \A j \in 1..Len(F[k]) : F[n][j] = F[k][j]
    <3> DEFINE Short(m) == /\ Len(F[m]) <= Len(F[n])
                           /\ \A j \in 1..Len(F[m]) : F[n][j] = F[m][j]
               Wrong == {m \in 0..n : ~Short(m)}
    <3>1. SUFFICES ASSUME Wrong # {} PROVE FALSE
      OBVIOUS
    <3>2. PICK m \in Wrong : \A l \in Wrong : l <= m
      BY <1>1, <3>1, GreatestOf
    <3>3. m # n
      <4>1. n \in 0..n
        BY <1>1
      <4>2. Short(n)
        BY <2>7, <4>1
      <4>3. QED
        BY <3>2, <4>2
    <3>4. m + 1 \in 1..n /\ m + 1 \in 0..n /\ ~(m + 1 <= m) /\ m + 1 - 1 = m
      BY <1>1, <3>3
    <3>5. Short(m + 1)
      BY <3>2, <3>4
    <3>6. /\ Len(F[m + 1]) = Len(F[m]) + Len(pieces[m + 1])
          /\ \A j \in 1..Len(F[m]) : F[m + 1][j] = F[m][j]
      <4>1. \A l \in 1..n : /\ Len(F[l]) = Len(F[l - 1]) + Len(pieces[l])
                            /\ \A j \in 1..Len(F[l - 1]) : F[l][j] = F[l - 1][j]
        BY <2>8
      <4>2. PICK l \in 1..n : l = m + 1
        BY <3>4
      <4>3. l - 1 = m
        BY <3>4, <4>2
      <4>4. QED
        BY <4>1, <4>2, <4>3
    <3>7. Len(F[m]) \in Nat /\ Len(pieces[m + 1]) \in Nat /\ Len(F[n]) \in Nat
      <4>1. n \in 0..n /\ m \in 0..n
        BY <1>1
      <4>2. QED
        BY <1>1, <2>7, <3>4, <4>1
    <3>8. Short(m)
      <4> DEFINE a == Len(F[m])
                 b == Len(pieces[m + 1])
                 c == Len(F[n])
                 d == Len(F[m + 1])
      <4>0. /\ d = a + b /\ a \in Nat /\ b \in Nat /\ c \in Nat /\ d <= c
            /\ \A j \in 1..a : F[m + 1][j] = F[m][j]
            /\ \A j \in 1..d : F[n][j] = F[m + 1][j]
        BY <3>5, <3>6, <3>7
      <4>1. a <= c /\ \A j \in 1..a : F[n][j] = F[m][j]
        <5> HIDE DEF a, b, c, d
        <5>1. a <= c /\ \A j \in 1..a : j \in 1..d
          BY <4>0
        <5>2. QED
          BY <4>0, <5>1
      <4>2. QED
        BY <4>1
    <3>9. QED
      BY <3>2, <3>8
  <2> DEFINE at == [k \in 0..n |-> Len(F[k])]
  <2>10. Ends(at, pieces, F[n])
    <3>1. at \in [0..n -> Nat]
      BY <2>7
    <3>2. 0 \in 0..n /\ n \in 0..n
      BY <1>1
    <3>3. at[0] = 0 /\ at[n] = Len(F[n])
      BY <2>4, <3>2
    <3>4. ASSUME NEW k \in 1..n
          PROVE  /\ at[k] = at[k - 1] + Len(pieces[k])
                 /\ at[k] <= Len(F[n])
                 /\ \A j \in 1..Len(pieces[k]) : F[n][at[k - 1] + j] = pieces[k][j]
      <4>1. k \in 0..n /\ k - 1 \in 0..n
        BY <1>1
      <4>2. at[k] = Len(F[k]) /\ at[k - 1] = Len(F[k - 1])
        BY <4>1
      <4>3. /\ Len(F[k]) <= Len(F[n])
            /\ \A j \in 1..Len(F[k]) : F[n][j] = F[k][j]
        BY <2>9, <4>1
      <4>4. /\ Len(F[k]) = Len(F[k - 1]) + Len(pieces[k])
            /\ \A j \in 1..Len(pieces[k]) : F[k][Len(F[k - 1]) + j] = pieces[k][j]
        BY <2>8
      <4>5. Len(F[k - 1]) \in Nat /\ Len(pieces[k]) \in Nat
        BY <1>1, <2>7, <4>1
      <4>6. \A j \in 1..Len(pieces[k]) : Len(F[k - 1]) + j \in 1..Len(F[k])
        <5> DEFINE a == Len(F[k - 1])
                   b == Len(pieces[k])
        <5>1. a \in Nat /\ b \in Nat /\ Len(F[k]) = a + b
          BY <4>4, <4>5
        <5> HIDE DEF a, b
        <5>2. \A j \in 1..b : a + j \in 1..a + b
          BY <5>1
        <5>3. QED
          BY <5>1, <5>2 DEF a, b
      <4>7. QED
        BY <4>2, <4>3, <4>4, <4>6
    <3>5. QED
      BY <3>1, <3>3, <3>4 DEF Ends
  <2>11. F[n] \in Seq(T)
    <3>1. n \in 0..n
      BY <1>1
    <3>2. QED
      BY <2>7, <3>1
  <2>12. QED
    BY <2>4, <2>10, <2>11
<1>4. QED
  BY <1>2, <1>3

------------------------------------------------------------------------------
\* Texts in quotes

\* `both` is s with t behind it.
Behind(T, both, s, t) ==
    /\ both \in Seq(T)
    /\ Len(s) \in Nat /\ Len(t) \in Nat
    /\ Len(both) = Len(s) + Len(t)
    /\ \A j \in 1..Len(s) : both[j] = s[j]
    /\ \A j \in 1..Len(t) : both[Len(s) + j] = t[j]

LEMMA JoinedBehind ==
    ASSUME NEW T, NEW s \in Seq(T), NEW t \in Seq(T)
    PROVE  Behind(T, s \o t, s, t)
BY Joined DEF Behind

\* A text between two marks, and what follows it: where all of it stands.
LEMMA Enclosed ==
    ASSUME NEW T, NEW mark \in T, NEW inner \in Seq(T), NEW rest \in Seq(T)
    PROVE  LET closed == <<mark>> \o inner \o <<mark>>
               s == closed \o rest
               size == Len(inner)
           IN  /\ closed \in Seq(T) /\ s \in Seq(T)
               /\ size \in Nat /\ Len(rest) \in Nat
               /\ Len(closed) = size + 2 /\ Len(s) = size + 2 + Len(rest)
               /\ s[1] = mark /\ s[size + 2] = mark
               /\ \A j \in 1..size : s[j + 1] = inner[j]
               /\ \A j \in 1..Len(rest) : s[size + 2 + j] = rest[j]
<1> DEFINE quote == <<mark>>
           size == Len(inner)
           opened == quote \o inner
           closed == opened \o quote
           s == closed \o rest
<1>1. quote \in Seq(T) /\ Len(quote) = 1 /\ quote[1] = mark
  OBVIOUS
<1> HIDE DEF quote
<1>2. Behind(T, opened, quote, inner)
  BY <1>1, JoinedBehind
<1>3. /\ opened \in Seq(T) /\ size \in Nat /\ Len(opened) = 1 + size
      /\ opened[1] = mark
      /\ \A j \in 1..size : opened[1 + j] = inner[j]
  BY <1>1, <1>2 DEF Behind
<1> HIDE DEF opened
<1>4. Behind(T, closed, opened, quote)
  BY <1>1, <1>3, JoinedBehind
<1>5. /\ closed \in Seq(T) /\ Len(closed) = Len(opened) + 1
      /\ \A j \in 1..Len(opened) : closed[j] = opened[j]
      /\ closed[Len(opened) + 1] = mark
  <2>1. 1 \in 1..Len(quote)
    BY <1>1
  <2>2. QED
    BY <1>1, <1>4, <2>1 DEF Behind
<1> HIDE DEF closed
<1>6. Behind(T, s, closed, rest)
  BY <1>5, JoinedBehind
<1>7. /\ s \in Seq(T) /\ Len(rest) \in Nat /\ Len(s) = Len(closed) + Len(rest)
      /\ \A j \in 1..Len(closed) : s[j] = closed[j]
      /\ \A j \in 1..Len(rest) : s[Len(closed) + j] = rest[j]
  BY <1>6 DEF Behind
<1> HIDE DEF size, s
<1>8. Len(closed) = size + 2 /\ Len(opened) + 1 = size + 2
  BY <1>3, <1>5
<1>9. s[1] = mark /\ s[size + 2] = mark
  <2>1. size + 2 \in 1..size + 2 /\ 1 \in 1..size + 2 /\ 1 \in 1..1 + size
    BY <1>3
  <2>2. QED
    BY <1>3, <1>5, <1>7, <1>8, <2>1
<1>10. ASSUME NEW j \in 1..size PROVE s[j + 1] = inner[j]
  <2>1. j + 1 \in 1..size + 2 /\ j + 1 \in 1..1 + size /\ j + 1 = 1 + j
    BY <1>3
  <2>2. QED
    BY <1>3, <1>5, <1>7, <1>8, <2>1
<1>11. QED
  BY <1>3, <1>5, <1>7, <1>8, <1>9, <1>10 DEF s, closed, opened, quote, size

------------------------------------------------------------------------------
\* Texts with some of their characters doubled, in quotes

Doubled(word, marks) ==
    [i \in DOMAIN word |-> IF word[i] \in marks THEN <<word[i], word[i]>>
                           ELSE <<word[i]>>]

InQuotes(mark, word, marks) == <<mark>> \o FlattenSeq(Doubled(word, marks)) \o <<mark>>

\* s begins with it: where each character is, one or two of it.
Spread(at, s, mark, word, marks, rest) ==
    LET n == Len(word)
    IN  /\ at \in [0..n -> Nat]
        /\ at[0] = 0
        /\ Len(s) = at[n] + 2 + Len(rest)
        /\ s[1] = mark /\ s[at[n] + 2] = mark
        /\ \A j \in 1..Len(rest) : s[at[n] + 2 + j] = rest[j]
        /\ \A k \in 1..n :
            /\ at[k] <= at[n]
            /\ word[k] \in marks =>
                /\ at[k] = at[k - 1] + 2
                /\ s[at[k - 1] + 2] = word[k] /\ s[at[k - 1] + 3] = word[k]
            /\ word[k] \notin marks =>
                at[k] = at[k - 1] + 1 /\ s[at[k - 1] + 2] = word[k]

LEMMA QuotesShape ==
    ASSUME NEW T, NEW mark \in T, NEW marks, NEW word \in Seq(T), NEW rest \in Seq(T)
    PROVE  /\ InQuotes(mark, word, marks) \in Seq(T)
           /\ InQuotes(mark, word, marks) \o rest \in Seq(T)
           /\ \E at : Spread(at, InQuotes(mark, word, marks) \o rest, mark, word, marks, rest)
<1> DEFINE n == Len(word)
           pieces == Doubled(word, marks)
           inner == FlattenSeq(pieces)
           quote == <<mark>>
           s == InQuotes(mark, word, marks) \o rest
           size == Len(inner)
<1>1. n \in Nat /\ DOMAIN word = 1..n /\ \A k \in 1..n : word[k] \in T
  OBVIOUS
<1>2. pieces \in Seq(Seq(T)) /\ Len(pieces) = n
  <2>1. \A k \in 1..n : pieces[k] \in Seq(T)
    <3>1. ASSUME NEW k \in 1..n PROVE pieces[k] \in Seq(T)
      <4>1. word[k] \in T
        BY <1>1
      <4>2. pieces[k] \in {<<word[k], word[k]>>, <<word[k]>>}
        BY <1>1 DEF Doubled
      <4>3. \A x \in T : <<x, x>> \in Seq(T) /\ <<x>> \in Seq(T)
        OBVIOUS
      <4>4. QED
        BY <4>1, <4>2, <4>3
    <3>2. QED
      BY <3>1
  <2>2. pieces = [k \in 1..n |-> pieces[k]]
    BY <1>1 DEF Doubled
  <2>3. QED
    BY <1>1, <2>1, <2>2
<1>3. \A k \in 1..n :
        /\ word[k] \in marks =>
            Len(pieces[k]) = 2 /\ pieces[k][1] = word[k] /\ pieces[k][2] = word[k]
        /\ word[k] \notin marks => Len(pieces[k]) = 1 /\ pieces[k][1] = word[k]
  BY <1>1 DEF Doubled
<1>4. inner \in Seq(T) /\ \E at : Ends(at, pieces, inner)
  <2>1. pieces \in Seq(Seq(T))
    BY <1>2
  <2> HIDE DEF pieces
  <2>2. QED
    BY <2>1, Flattened
<1>5. PICK at : Ends(at, pieces, inner)
  BY <1>4
<1>6. /\ at \in [0..n -> Nat] /\ at[0] = 0 /\ at[n] = size
      /\ \A k \in 1..n :
            /\ at[k] = at[k - 1] + Len(pieces[k])
            /\ at[k] <= size
            /\ \A j \in 1..Len(pieces[k]) : inner[at[k - 1] + j] = pieces[k][j]
  BY <1>2, <1>5 DEF Ends
<1>7. /\ InQuotes(mark, word, marks) \in Seq(T)
      /\ s \in Seq(T) /\ Len(s) = size + 2 + Len(rest) /\ size \in Nat /\ Len(rest) \in Nat
      /\ \A j \in 1..size : s[j + 1] = inner[j]
      /\ s[1] = mark /\ s[size + 2] = mark
      /\ \A j \in 1..Len(rest) : s[size + 2 + j] = rest[j]
  <2>1. InQuotes(mark, word, marks) = (quote \o inner) \o quote
    BY Zenon DEF InQuotes
  <2> HIDE DEF inner, s, size
  <2>2. QED
    BY <1>4, <2>1, Enclosed, SMTT(30) DEF s, size
<1> HIDE DEF s, size, inner, pieces
<1>8. ASSUME NEW k \in 1..n
      PROVE  /\ at[k] <= at[n]
             /\ word[k] \in marks =>
                    /\ at[k] = at[k - 1] + 2
                    /\ s[at[k - 1] + 2] = word[k] /\ s[at[k - 1] + 3] = word[k]
             /\ word[k] \notin marks =>
                    at[k] = at[k - 1] + 1 /\ s[at[k - 1] + 2] = word[k]
  <2> DEFINE a == at[k - 1]
  <2>1. a \in Nat /\ k \in 0..n
    BY <1>1, <1>6
  <2>2. at[k] = a + Len(pieces[k]) /\ at[k] <= size /\ at[k] \in Nat
    BY <1>6, <2>1
  <2>3. \A j \in 1..Len(pieces[k]) : inner[a + j] = pieces[k][j]
    BY <1>6
  <2> HIDE DEF a
  <2>4. CASE word[k] \in marks
    <3>1. Len(pieces[k]) = 2 /\ pieces[k][1] = word[k] /\ pieces[k][2] = word[k]
      BY <1>3, <2>4
    <3>2. inner[a + 1] = word[k] /\ inner[a + 2] = word[k]
      <4>1. 1 \in 1..2 /\ 2 \in 1..2
        OBVIOUS
      <4>2. QED
        BY <2>3, <3>1, <4>1
    <3>3. a + 1 \in 1..size /\ a + 2 \in 1..size /\ a + 1 + 1 = a + 2 /\ a + 2 + 1 = a + 3
      BY <1>7, <2>1, <2>2, <3>1
    <3>4. s[a + 2] = word[k] /\ s[a + 3] = word[k]
      <4>1. s[a + 1 + 1] = inner[a + 1] /\ s[a + 2 + 1] = inner[a + 2]
        BY <1>7, <3>3
      <4>2. QED
        BY <3>2, <3>3, <4>1
    <3>5. QED
      BY <1>6, <2>2, <2>4, <3>1, <3>4 DEF a
  <2>5. CASE word[k] \notin marks
    <3>1. Len(pieces[k]) = 1 /\ pieces[k][1] = word[k]
      BY <1>3, <2>5
    <3>2. inner[a + 1] = word[k]
      <4>1. 1 \in 1..1
        OBVIOUS
      <4>2. QED
        BY <2>3, <3>1, <4>1
    <3>3. a + 1 \in 1..size /\ a + 1 + 1 = a + 2
      BY <1>7, <2>1, <2>2, <3>1
    <3>4. s[a + 2] = word[k]
      <4>1. s[a + 1 + 1] = inner[a + 1]
        BY <1>7, <3>3
      <4>2. QED
        BY <3>2, <3>3, <4>1
    <3>5. QED
      BY <1>6, <2>2, <2>5, <3>1, <3>4 DEF a
  <2>6. QED
    BY <2>4, <2>5
<1>9. QED
  BY <1>1, <1>6, <1>7, <1>8 DEF s, Spread

------------------------------------------------------------------------------
\* A literal, as it is written and as the engine reads it

Texts == Seq(Characters)

Literals == [ok : BOOLEAN, text : Texts, rest : Texts]

\* What ReadLiteral says of one place, given what it says of those behind.
LiteralAt(s, from, i) ==
    IF i > Len(s) THEN [ok |-> FALSE, text |-> <<>>, rest |-> <<>>]
    ELSE LET pair == i < Len(s) /\ (s[i] = "\\" \/ (s[i] = "'" /\ s[i + 1] = "'"))
             next == from[IF pair THEN i + 2 ELSE i + 1]
         IN  IF s[i] = "'" /\ ~pair
             THEN [ok |-> TRUE, text |-> <<>>, rest |-> SubSeq(s, i + 1, Len(s))]
             ELSE [ok |-> next.ok, rest |-> next.rest,
                   text |-> <<IF pair THEN s[i + 1] ELSE s[i]>> \o next.text]

LEMMA LiteralAtType ==
    ASSUME NEW s \in Texts, NEW i \in 2..Len(s) + 2, NEW f \in [2..Len(s) + 2 -> Literals]
    PROVE  LiteralAt(s, f, i) \in Literals
<1> DEFINE pair == i < Len(s) /\ (s[i] = "\\" \/ (s[i] = "'" /\ s[i + 1] = "'"))
           next == f[IF pair THEN i + 2 ELSE i + 1]
           char == IF pair THEN s[i + 1] ELSE s[i]
<1>1. Len(s) \in Nat /\ \A k \in 1..Len(s) : s[k] \in Characters
  BY DEF Texts
<1>2. <<>> \in Texts /\ SubSeq(s, i + 1, Len(s)) \in Texts
  <2>1. \A k \in i + 1..Len(s) : s[k] \in Characters
    BY <1>1
  <2>2. QED
    BY <1>1, <2>1, SubSeqProperties, EmptySeq DEF Texts
<1>3. CASE i > Len(s)
  BY <1>2, <1>3 DEF LiteralAt, Literals
<1>4. CASE ~(i > Len(s)) /\ s[i] = "'" /\ ~pair
  BY <1>2, <1>4 DEF LiteralAt, Literals
<1>5. CASE ~(i > Len(s)) /\ ~(s[i] = "'" /\ ~pair)
  <2>1. LiteralAt(s, f, i) = [ok |-> next.ok, rest |-> next.rest, text |-> <<char>> \o next.text]
    BY <1>5 DEF LiteralAt
  <2>2. char \in Characters /\ next \in Literals
    <3>1. i \in 1..Len(s) /\ i + 1 \in 2..Len(s) + 2
      BY <1>1, <1>5
    <3>2. pair => i + 1 \in 1..Len(s) /\ i + 2 \in 2..Len(s) + 2
      BY <1>1
    <3>3. QED
      BY <1>1, <3>1, <3>2
  <2>3. <<char>> \o next.text \in Texts /\ next.ok \in BOOLEAN /\ next.rest \in Texts
    <3>1. next.text \in Seq(Characters) /\ next.ok \in BOOLEAN /\ next.rest \in Texts
      BY <2>2 DEF Literals, Texts
    <3>2. <<char>> \in Seq(Characters)
      BY <2>2
    <3>3. QED
      BY <3>1, <3>2, ConcatProperties DEF Texts
  <2> HIDE DEF next, char
  <2>4. [ok |-> next.ok, rest |-> next.rest, text |-> <<char>> \o next.text] \in Literals
    BY <2>2, <2>3 DEF Literals
  <2>5. QED
    BY <2>1, <2>4
<1>6. QED
  BY <1>3, <1>4, <1>5

\* The function in ReadLiteral.
Literally(s) == CHOOSE f : f = [i \in 2..Len(s) + 2 |-> LiteralAt(s, f, i)]

LEMMA LiteralSteps ==
    ASSUME NEW s \in Texts
    PROVE  /\ ReadLiteral(s) = Literally(s)[2]
           /\ \A i \in 2..Len(s) + 2 : Literally(s)[i] = LiteralAt(s, Literally(s), i)
<1> DEFINE last == Len(s) + 2
           G == [i \in 2..last |-> [f \in [2..last -> Literals] |-> LiteralAt(s, f, i)]]
<1>1. last \in Nat
  BY DEF Texts
<1>2. G \in [2..last -> [[2..last -> Literals] -> Literals]]
  BY LiteralAtType
<1>3. LooksAhead(G, 2, last, Literals)
  <2>1. ASSUME NEW i \in 2..last, NEW f \in [2..last -> Literals], NEW g \in [2..last -> Literals],
               \A j \in i + 1..last : f[j] = g[j]
        PROVE  G[i][f] = G[i][g]
    <3>1. CASE i > Len(s)
      BY <3>1 DEF LiteralAt
    <3>2. CASE ~(i > Len(s))
      <4>1. i + 1 \in i + 1..last /\ i + 2 \in i + 1..last
        BY <1>1, <3>2
      <4>2. f[i + 1] = g[i + 1] /\ f[i + 2] = g[i + 2]
        BY <2>1, <4>1
      <4>3. LiteralAt(s, f, i) = LiteralAt(s, g, i)
        BY <4>2 DEF LiteralAt
      <4>4. QED
        BY <4>3
    <3>3. QED
      BY <3>1, <3>2
  <2>2. QED
    BY <2>1 DEF LooksAhead
<1>4. [ok |-> FALSE, text |-> <<>>, rest |-> <<>>] \in Literals
  BY EmptySeq DEF Literals, Texts
<1>5. PICK f : Solves(f, G, 2, last, Literals)
  <2> HIDE DEF G, last
  <2>1. 2 \in Nat /\ Literals # {}
    BY <1>4
  <2>2. QED
    BY <1>1, <1>2, <1>3, <2>1, RecursionAhead, Zenon
<1>6. f = [i \in 2..last |-> LiteralAt(s, f, i)]
  <2>1. f \in [2..last -> Literals] /\ \A i \in 2..last : f[i] = LiteralAt(s, f, i)
    BY <1>5 DEF Solves
  <2>2. QED
    BY <2>1
<1> DEFINE L == Literally(s)
<1>7. L = [i \in 2..last |-> LiteralAt(s, L, i)]
  BY <1>6 DEF Literally
<1>8. ReadLiteral(s) = L[2]
  BY DEF ReadLiteral, Literally, LiteralAt
<1> HIDE DEF L
<1>9. \A i \in 2..last : L[i] = LiteralAt(s, L, i)
  BY <1>7
<1>10. QED
  BY <1>8, <1>9 DEF L

\* The literal, as append_like writes it.
LEMMA LiteralShape ==
    ASSUME NEW pattern \in Texts, NEW rest \in Texts
    PROVE  /\ Literal(pattern) \in Texts /\ Literal(pattern) \o rest \in Texts
           /\ \E at : Spread(at, Literal(pattern) \o rest, "'", pattern, {"'", "\\"}, rest)
<1>1. Literal(pattern) = InQuotes("'", pattern, {"'", "\\"})
  BY Zenon DEF Literal, InQuotes, Doubled
<1>2. "'" \in Characters
  BY CharactersAssumption
<1>3. QED
  BY <1>1, <1>2, QuotesShape DEF Texts

\* Whatever characters a pattern is made of, and however long it is: the
\* engine reads that pattern, and goes on behind its closing quote, unless
\* one more quote stands there (append_like, catalog.c:52-71).
THEOREM LiteralRead ==
    ASSUME NEW pattern \in Texts, NEW rest \in Texts, rest # <<>> => rest[1] # "'"
    PROVE  ReadLiteral(Literal(pattern) \o rest) = [ok |-> TRUE, text |-> pattern, rest |-> rest]
<1> DEFINE n == Len(pattern)
           s == Literal(pattern) \o rest
           L == Literally(s)
           Further(k, next) == [ok |-> next.ok, rest |-> next.rest,
                                text |-> <<pattern[k]>> \o next.text]
           From(k) == [ok |-> TRUE, text |-> SubSeq(pattern, k + 1, n), rest |-> rest]
<1>1. s \in Texts /\ n \in Nat /\ Len(s) \in Nat
  BY LiteralShape DEF Texts
<1>2. PICK at \in [0..n -> Nat] :
        /\ at[0] = 0
        /\ Len(s) = at[n] + 2 + Len(rest)
        /\ s[at[n] + 2] = "'"
        /\ \A j \in 1..Len(rest) : s[at[n] + 2 + j] = rest[j]
        /\ \A k \in 1..n :
            /\ at[k] <= at[n]
            /\ pattern[k] \in {"'", "\\"} =>
                /\ at[k] = at[k - 1] + 2
                /\ s[at[k - 1] + 2] = pattern[k] /\ s[at[k - 1] + 3] = pattern[k]
            /\ pattern[k] \notin {"'", "\\"} =>
                at[k] = at[k - 1] + 1 /\ s[at[k - 1] + 2] = pattern[k]
  BY LiteralShape, ZenonT(30) DEF Spread
<1>3. ReadLiteral(s) = L[2] /\ \A i \in 2..Len(s) + 2 : L[i] = LiteralAt(s, L, i)
  BY <1>1, LiteralSteps
<1> HIDE DEF s, L
<1>4. Len(rest) \in Nat /\ at[n] \in Nat /\ n \in 0..n /\ 0 \in 0..n
  BY <1>1, <1>2 DEF Texts
<1>5. L[at[n] + 2] = From(n)
  <2> DEFINE i == at[n] + 2
  <2>1. i \in 2..Len(s) + 2 /\ ~(i > Len(s))
    BY <1>1, <1>2, <1>4
  <2>2. i < Len(s) => s[i + 1] # "'"
    <3>1. SUFFICES ASSUME i < Len(s) PROVE s[i + 1] # "'"
      OBVIOUS
    <3>2. 1 \in 1..Len(rest) /\ rest # <<>>
      BY <1>2, <1>4, <3>1
    <3>3. s[i + 1] = rest[1]
      BY <1>2, <3>2
    <3>4. QED
      BY <3>2, <3>3
  <2>3. SubSeq(s, i + 1, Len(s)) = rest
    <3>1. \A k \in i + 1..Len(s) : s[k] \in Characters
      BY <1>1, <1>4 DEF Texts
    <3>2. i + 1 \in Int /\ Len(s) \in Int /\ Len(s) - (i + 1) + 1 = Len(rest)
      BY <1>1, <1>2, <1>4, SMTT(30)
    <3> DEFINE sub == SubSeq(s, i + 1, Len(s))
    <3>3. /\ sub \in Seq(Characters)
          /\ Len(sub) = IF i + 1 <= Len(s) THEN Len(s) - (i + 1) + 1 ELSE 0
          /\ \A j \in 1..Len(s) - (i + 1) + 1 : sub[j] = s[i + 1 + j - 1]
      BY <3>1, <3>2, SubSeqProperties, SMTT(30)
    <3> HIDE DEF sub
    <3>4. Len(sub) = Len(rest)
      BY <1>1, <1>2, <1>4, <3>2, <3>3
    <3>5. ASSUME NEW j \in 1..Len(sub) PROVE sub[j] = rest[j]
      <4>1. j \in 1..Len(rest) /\ i + 1 + j - 1 = i + j
        BY <1>4, <3>4
      <4>2. sub[j] = s[i + 1 + j - 1]
        BY <3>2, <3>3, <4>1
      <4>3. s[i + j] = rest[j]
        BY <1>2, <4>1
      <4>4. QED
        BY <4>1, <4>2, <4>3
    <3>6. sub = rest
      BY <3>3, <3>4, <3>5, SeqEqual DEF Texts
    <3>7. QED
      BY <3>6 DEF sub
  <2>4. SubSeq(pattern, n + 1, n) = <<>>
    BY <1>1, SubSeqEmpty
  <2>5. s[i] = "'"
    BY <1>2
  <2> HIDE DEF i
  <2>6. LiteralAt(s, L, i) = [ok |-> TRUE, text |-> <<>>, rest |-> SubSeq(s, i + 1, Len(s))]
    BY <2>1, <2>2, <2>5 DEF LiteralAt
  <2>7. L[i] = LiteralAt(s, L, i)
    BY <1>3, <2>1
  <2>8. QED
    BY <2>3, <2>4, <2>6, <2>7 DEF i
<1>6. ASSUME NEW k \in 1..n, L[at[k] + 2] = From(k)
      PROVE  L[at[k - 1] + 2] = From(k - 1)
  <2> DEFINE i == at[k - 1] + 2
  <2>1. /\ i \in Nat /\ i >= 2 /\ at[k] \in Nat /\ at[k] <= at[n]
        /\ at[k - 1] + 1 = i - 1 /\ at[k - 1] + 2 = i /\ at[k - 1] + 3 = i + 1
    <3>1. k - 1 \in 0..n /\ k \in 0..n
      BY <1>1
    <3>2. at[k - 1] \in Nat /\ at[k] \in Nat
      BY <3>1
    <3>3. at[k] <= at[n]
      BY <1>2
    <3>4. QED
      BY <3>2, <3>3
  <2>2. SubSeq(pattern, k, n) = <<pattern[k]>> \o SubSeq(pattern, k + 1, n)
    <3>1. k \in 1..Len(pattern) /\ n \in k..Len(pattern)
      BY <1>1
    <3>2. QED
      BY <3>1, SubSeqRecursiveFirst DEF Texts
  <2>3. From(k - 1) = Further(k, From(k))
    <3>1. k - 1 + 1 = k
      BY <1>1
    <3>2. From(k - 1) = [ok |-> TRUE, text |-> SubSeq(pattern, k, n), rest |-> rest]
      BY <3>1
    <3>3. Further(k, From(k))
            = [ok |-> TRUE, text |-> <<pattern[k]>> \o SubSeq(pattern, k + 1, n), rest |-> rest]
      OBVIOUS
    <3>4. QED
      BY <2>2, <3>2, <3>3
  <2> HIDE DEF From
  <2>4. CASE pattern[k] \in {"'", "\\"}
    <3>1. at[k] = i /\ s[i] = pattern[k] /\ s[i + 1] = pattern[k]
      <4>1. /\ at[k] = at[k - 1] + 2
            /\ s[at[k - 1] + 2] = pattern[k] /\ s[at[k - 1] + 3] = pattern[k]
        BY <1>2, <2>4
      <4>2. QED
        BY <2>1, <4>1
    <3>2. i < Len(s) /\ i \in 2..Len(s) + 2 /\ ~(i > Len(s))
      <4>1. i <= at[n] + 1 /\ Len(s) = at[n] + 2 + Len(rest)
        BY <1>2, <1>4, <2>1, <3>1
      <4> HIDE DEF i
      <4>2. QED
        BY <1>1, <1>4, <2>1, <4>1, SMTT(30)
    <3> HIDE DEF i
    <3>3. LiteralAt(s, L, i) = Further(k, L[i + 2])
      BY <2>4, <3>1, <3>2 DEF LiteralAt
    <3>4. L[i] = LiteralAt(s, L, i)
      BY <1>3, <3>2
    <3>5. L[i + 2] = From(k)
      BY <1>6, <3>1
    <3>6. QED
      BY <2>3, <3>3, <3>4, <3>5 DEF i
  <2>5. CASE pattern[k] \notin {"'", "\\"}
    <3>1. at[k] + 2 = i + 1 /\ s[i] = pattern[k]
      <4>1. at[k] = at[k - 1] + 1 /\ s[at[k - 1] + 2] = pattern[k]
        BY <1>2, <2>5
      <4>2. QED
        BY <2>1, <4>1
    <3>2. i < Len(s) /\ i \in 2..Len(s) + 2 /\ ~(i > Len(s))
      <4>1. i <= at[n] + 1 /\ Len(s) = at[n] + 2 + Len(rest)
        BY <1>2, <1>4, <2>1, <3>1
      <4> HIDE DEF i
      <4>2. QED
        BY <1>1, <1>4, <2>1, <4>1, SMTT(30)
    <3> HIDE DEF i
    <3>3. LiteralAt(s, L, i) = Further(k, L[i + 1])
      BY <2>5, <3>1, <3>2 DEF LiteralAt
    <3>4. L[i] = LiteralAt(s, L, i)
      BY <1>3, <3>2
    <3>5. L[i + 1] = From(k)
      BY <1>6, <3>1
    <3>6. QED
      BY <2>3, <3>3, <3>4, <3>5 DEF i
  <2>6. QED
    BY <2>4, <2>5
<1>7. L[at[0] + 2] = From(0)
  <2> DEFINE Wrong == {k \in 0..n : L[at[k] + 2] # From(k)}
  <2>1. SUFFICES ASSUME Wrong # {} PROVE FALSE
    BY <1>4
  <2>2. PICK k \in Wrong : \A m \in Wrong : m <= k
    BY <1>1, <2>1, GreatestOf
  <2>3. k # n
    BY <1>5
  <2>4. k + 1 \in 1..n /\ k + 1 \in 0..n /\ ~(k + 1 <= k) /\ k + 1 - 1 = k
    BY <1>1, <2>3
  <2>5. L[at[k + 1] + 2] = From(k + 1)
    BY <2>2, <2>4
  <2>6. PICK m \in 1..n : m = k + 1
    BY <2>4
  <2>7. L[at[m - 1] + 2] = From(m - 1)
    BY <1>6, <2>5, <2>6
  <2>8. QED
    BY <2>2, <2>4, <2>6, <2>7
<1>8. From(0) = [ok |-> TRUE, text |-> pattern, rest |-> rest]
  <2>1. SubSeq(pattern, 1, n) = pattern
    BY SubSeqFull DEF Texts
  <2>2. 0 + 1 = 1
    OBVIOUS
  <2>3. QED
    BY <2>1, <2>2
<1>9. QED
  <2>1. at[0] + 2 = 2
    BY <1>2
  <2>2. QED
    BY <1>3, <1>7, <1>8, <2>1 DEF s

\* Where Like finds a name like the rest of a pattern, for each of its places.
Matching(f, name, pattern) ==
    f = [j \in 1..Len(pattern) + 1 |->
            IF j > Len(pattern) THEN {Len(name) + 1}
            ELSE IF pattern[j] = "%"
                 THEN {i \in 1..Len(name) + 1 : \E k \in f[j + 1] : i <= k}
            ELSE {i \in 1..Len(name) : pattern[j] \in {"_", name[i]} /\ i + 1 \in f[j + 1]}]

\* Every name is like "%".
LEMMA LikeAny ==
    ASSUME NEW name \in Texts
    PROVE  Like(name, <<"%">>)
<1> DEFINE n == Len(name)
           any == <<"%">>
           f == [j \in 1..2 |-> IF j = 2 THEN {n + 1} ELSE 1..n + 1]
           M == CHOOSE g : Matching(g, name, any)
<1>1. n \in Nat /\ Len(any) = 1 /\ any[1] = "%"
  BY DEF Texts
<1>2. Like(name, any) <=> 1 \in M[1]
  BY Zenon DEF Like, Matching
<1> HIDE DEF any
<1>3. Matching(f, name, any)
  <2>1. f[1] = {i \in 1..n + 1 : \E k \in f[2] : i <= k} /\ f[2] = {n + 1}
    BY <1>1
  <2>2. f[1] = {i \in 1..n + 1 : \E k \in f[1 + 1] : i <= k}
    BY <2>1
  <2> DEFINE At(j) == IF j > Len(any) THEN {n + 1}
                      ELSE IF any[j] = "%" THEN {i \in 1..n + 1 : \E k \in f[j + 1] : i <= k}
                      ELSE {i \in 1..n : any[j] \in {"_", name[i]} /\ i + 1 \in f[j + 1]}
  <2>3. At(1) = f[1] /\ At(2) = f[2]
    BY <1>1, <2>1, <2>2
  <2>4. 1..Len(any) + 1 = 1..2 /\ \A j \in 1..2 : j = 1 \/ j = 2
    BY <1>1
  <2> HIDE DEF At
  <2>5. \A j \in 1..2 : f[j] = At(j)
    BY <2>3, <2>4, Zenon
  <2>6. f = [j \in 1..Len(any) + 1 |-> At(j)]
    BY <2>4, <2>5
  <2>7. QED
    BY <2>6, Zenon DEF Matching, At
<1>4. Matching(M, name, any)
  BY <1>3
<1> HIDE DEF M, f
<1>5. /\ M[1] = {i \in 1..n + 1 : \E k \in M[2] : i <= k}
      /\ M[2] = {n + 1}
  <2>1. 1..Len(any) + 1 = 1..2 /\ 1 \in 1..2 /\ 2 \in 1..2 /\ 1 + 1 = 2
    BY <1>1
  <2>2. QED
    BY <1>1, <1>4, <2>1 DEF Matching
<1>6. 1 \in M[1]
  BY <1>1, <1>5
<1>7. QED
  BY <1>2, <1>6 DEF any

------------------------------------------------------------------------------
\* A list of types, as the driver goes through it and as it is meant

LEMMA MinOf ==
    ASSUME NEW S, S \subseteq Nat, S # {}
    PROVE  Min(S) \in S /\ \A n \in S : Min(S) <= n
BY LeastOf DEF Min

LEMMA MaxOf ==
    ASSUME NEW bound \in Nat, NEW S, S \subseteq 0..bound, S # {}
    PROVE  Max(S) \in S /\ \A n \in S : n <= Max(S)
<1>1. PICK greatest \in S : \A n \in S : n <= greatest
  BY GreatestOf
<1>2. \A n \in S : greatest >= n
  BY <1>1
<1>3. QED
  BY <1>2 DEF Max

\* What a list has beside its names.
Space == " "
Separators == {",", "'"}
Filling == {" ", ",", "'"}

LEMMA FillingParts ==
    Filling = Separators \cup {Space} /\ Space \notin Separators
BY Zenon DEF Filling, Separators, Space

Bounds(list) == {i \in DOMAIN list : list[i] \in Separators} \cup {0, Len(list) + 1}

\* Between two bounds stands the wanted word, with nothing but spaces around it.
Lone(list, wanted, m) ==
    /\ m \in 1..Len(list) /\ list[m] = wanted
    /\ \E a, b \in Bounds(list) :
        /\ a < m /\ m < b
        /\ \A k \in a + 1..b - 1 : k # m => list[k] = Space

\* One turn of the loop in type_list_contains: the name from i on, and its end.
NameStart(list, i) ==
    Min({k \in i..Len(list) : list[k] \notin Filling} \cup {Len(list) + 1})
NameStop(list, i) ==
    Min({k \in NameStart(list, i)..Len(list) : list[k] \in Separators} \cup {Len(list) + 1})
NameEnd(list, i) ==
    Max({k \in NameStart(list, i)..NameStop(list, i) - 1 : list[k] # Space}
            \cup {NameStart(list, i) - 1})

ContainsAt(list, wanted, from, i) ==
    /\ i <= Len(list)
    /\ SubSeq(list, NameStart(list, i), NameEnd(list, i)) = <<wanted>> \/ from[NameStop(list, i)]

LEMMA NameExtent ==
    ASSUME NEW list \in Texts, NEW i \in 1..Len(list) + 1
    PROVE  LET n == Len(list)
               start == NameStart(list, i)
               stop == NameStop(list, i)
               end == NameEnd(list, i)
           IN  /\ n \in Nat
               /\ start \in i..n + 1
               /\ \A k \in i..start - 1 : list[k] \in Filling
               /\ start <= n => list[start] \notin Filling
               /\ stop \in start..n + 1
               /\ \A k \in start..stop - 1 : list[k] \notin Separators
               /\ stop <= n => list[stop] \in Separators
               /\ i <= n => i < stop
               /\ end \in start - 1..stop - 1
               /\ \A k \in end + 1..stop - 1 : list[k] = Space
               /\ start <= n => start <= end /\ list[end] # Space
<1> DEFINE n == Len(list)
           Begun == {k \in i..n : list[k] \notin Filling} \cup {n + 1}
           start == NameStart(list, i)
           Sep == {k \in start..n : list[k] \in Separators} \cup {n + 1}
           stop == NameStop(list, i)
           Own == {k \in start..stop - 1 : list[k] # Space} \cup {start - 1}
           end == NameEnd(list, i)
<1>1. n \in Nat /\ i \in 1..n + 1
  BY DEF Texts
<1>2. start = Min(Begun) /\ stop = Min(Sep) /\ end = Max(Own)
  BY DEF NameStart, NameStop, NameEnd
<1> HIDE DEF n, start, stop, end
<1>3. start \in Begun /\ \A k \in Begun : start <= k
  <2>1. Begun \subseteq Nat /\ Begun # {}
    BY <1>1
  <2> HIDE DEF Begun
  <2>2. QED
    BY <1>2, <2>1, MinOf
<1>4. /\ start \in i..n + 1
      /\ \A k \in i..start - 1 : list[k] \in Filling
      /\ start <= n => list[start] \notin Filling
  <2>1. i \in Nat /\ i >= 1 /\ i <= n + 1
    BY <1>1
  <2>2. start \in i..n + 1 /\ (start <= n => list[start] \notin Filling)
    BY <1>1, <1>3, <2>1
  <2>3. ASSUME NEW k \in i..start - 1, list[k] \notin Filling PROVE FALSE
    <3>1. k \in i..n /\ ~(start <= k)
      BY <1>1, <2>1, <2>2
    <3>2. k \in Begun
      BY <2>3, <3>1
    <3>3. QED
      BY <1>3, <3>1, <3>2
  <2>4. QED
    BY <2>2, <2>3
<1> HIDE DEF Begun
<1>5. start \in Nat /\ start >= 1
  BY <1>1, <1>4
<1>6. stop \in Sep /\ \A k \in Sep : stop <= k
  <2>1. Sep \subseteq Nat /\ Sep # {}
    BY <1>1, <1>5
  <2> HIDE DEF Sep
  <2>2. QED
    BY <1>2, <2>1, MinOf
<1>7. /\ stop \in start..n + 1
      /\ \A k \in start..stop - 1 : list[k] \notin Separators
      /\ stop <= n => list[stop] \in Separators
  <2>2. stop \in start..n + 1 /\ (stop <= n => list[stop] \in Separators)
    BY <1>1, <1>4, <1>5, <1>6
  <2>3. ASSUME NEW k \in start..stop - 1, list[k] \in Separators PROVE FALSE
    <3>1. k \in start..n /\ ~(stop <= k)
      BY <1>1, <1>5, <2>2
    <3>2. k \in Sep
      BY <2>3, <3>1
    <3>3. QED
      BY <1>6, <3>1, <3>2
  <2>4. QED
    BY <2>2, <2>3
<1> HIDE DEF Sep
<1>8. stop \in Nat /\ (i <= n => i < stop) /\ (start <= n => start < stop)
  <2>1. start <= n => stop # start
    BY <1>4, <1>7, FillingParts
  <2>2. start > n => stop = n + 1
    BY <1>1, <1>5, <1>7
  <2>3. i \in Nat /\ i <= start
    BY <1>4, <1>5
  <2>4. QED
    BY <1>1, <1>5, <1>7, <2>1, <2>2, <2>3
<1>9. end \in Own /\ \A k \in Own : k <= end
  <2>1. Own \subseteq 0..n /\ Own # {}
    BY <1>1, <1>5, <1>7, <1>8, <1>4
  <2> HIDE DEF Own
  <2>2. QED
    BY <1>1, <1>2, <2>1, MaxOf
<1>10. end \in start - 1..stop - 1 /\ (start <= n => start <= end /\ list[end] # Space)
  <2>1. start - 1 <= stop - 1
    BY <1>5, <1>7, <1>8
  <2>2. end \in start - 1..stop - 1
    BY <1>5, <1>8, <1>9, <2>1
  <2>3. start <= n => start \in Own
    BY <1>4, <1>5, <1>8, FillingParts
  <2>4. start <= n => start <= end /\ end # start - 1
    BY <1>5, <1>8, <1>9, <2>2, <2>3
  <2>5. QED
    BY <1>9, <2>2, <2>4
<1>11. ASSUME NEW k \in end + 1..stop - 1 PROVE list[k] = Space
  <2>1. k \in start..stop - 1 /\ ~(k <= end)
    BY <1>5, <1>8, <1>10
  <2>2. k \notin Own
    BY <1>9, <2>1
  <2>3. QED
    BY <2>1, <2>2
<1>12. QED
  BY <1>1, <1>4, <1>7, <1>8, <1>10, <1>11 DEF n, start, stop, end

\* Where the loop comes by: at the beginning, at bounds and at the end.
Visited(list, i) ==
    i \in 1..Len(list) + 1 /\ (i = 1 \/ i = Len(list) + 1 \/ list[i] \in Separators)

\* What lies before a place without a bound between it and the place.
LEMMA BoundBefore ==
    ASSUME NEW list \in Texts, NEW m \in 1..Len(list) + 1
    PROVE  \E a \in Bounds(list) : a < m /\ \A k \in a + 1..m - 1 : list[k] \notin Separators
<1> DEFINE n == Len(list)
           Earlier == {a \in Bounds(list) : a < m}
<1>1. n \in Nat /\ DOMAIN list = 1..n /\ m \in 1..n + 1
  BY DEF Texts
<1>2. Bounds(list) = {k \in 1..n : list[k] \in Separators} \cup {0, n + 1}
  BY <1>1, Zenon DEF Bounds
<1> HIDE DEF n
<1>3. Earlier \subseteq 0..n + 1 /\ Earlier # {}
  <2>1. 0 \in Earlier
    BY <1>1, <1>2
  <2>2. \A a \in Bounds(list) : a \in 0..n + 1
    BY <1>1, <1>2
  <2>3. QED
    BY <2>1, <2>2
<1>4. PICK a \in Earlier : \A l \in Earlier : l <= a
  <2> HIDE DEF Earlier
  <2>1. n + 1 \in Nat
    BY <1>1
  <2>2. QED
    BY <1>3, <2>1, GreatestOf
<1>5. ASSUME NEW k \in a + 1..m - 1, list[k] \in Separators PROVE FALSE
  <2>1. k \in 1..n /\ k < m /\ ~(k <= a)
    BY <1>1, <1>3
  <2>2. k \in Bounds(list)
    BY <1>2, <1>5, <2>1
  <2>3. QED
    BY <1>4, <2>1, <2>2
<1>6. QED
  BY <1>5

\* One turn finds the word it stands before, or leaves it to later turns.
LEMMA NameStep ==
    ASSUME NEW list \in Texts, NEW wanted, wanted \notin Filling,
           NEW i \in 1..Len(list), Visited(list, i)
    PROVE  (\E m \in i..Len(list) : Lone(list, wanted, m))
             <=> \/ SubSeq(list, NameStart(list, i), NameEnd(list, i)) = <<wanted>>
                 \/ \E m \in NameStop(list, i)..Len(list) : Lone(list, wanted, m)
<1> DEFINE n == Len(list)
           start == NameStart(list, i)
           stop == NameStop(list, i)
           end == NameEnd(list, i)
<1>1. /\ n \in Nat /\ DOMAIN list = 1..n /\ i \in 1..n
      /\ \A k \in 1..n : list[k] \in Characters
  BY DEF Texts
<1>2. Bounds(list) = {k \in 1..n : list[k] \in Separators} \cup {0, n + 1}
  BY <1>1, Zenon DEF Bounds
<1>3. /\ start \in i..n + 1
      /\ \A k \in i..start - 1 : list[k] \in Filling
      /\ start <= n => list[start] \notin Filling
      /\ stop \in start..n + 1
      /\ \A k \in start..stop - 1 : list[k] \notin Separators
      /\ stop <= n => list[stop] \in Separators
      /\ i < stop
      /\ end \in start - 1..stop - 1
      /\ \A k \in end + 1..stop - 1 : list[k] = Space
      /\ start <= n => start <= end /\ list[end] # Space
  <2>1. i \in 1..Len(list) + 1 /\ i <= n
    BY <1>1
  <2>2. QED
    BY <2>1, NameExtent
<1>4. \A m : Lone(list, wanted, m) <=>
        /\ m \in 1..n /\ list[m] = wanted
        /\ \E a, b \in Bounds(list) :
            a < m /\ m < b /\ \A k \in a + 1..b - 1 : k # m => list[k] = Space
  BY Zenon DEF Lone, Space
<1>5. i = 1 \/ list[i] \in Separators
  BY <1>1 DEF Visited
<1>6. SubSeq(list, start, end) = <<wanted>> <=> start <= n /\ end = start /\ list[start] = wanted
  <2> DEFINE sub == SubSeq(list, start, end)
  <2> HIDE DEF start, stop, end
  <2>1. /\ Len(sub) = IF start <= end THEN end - start + 1 ELSE 0
        /\ \A j \in 1..end - start + 1 : sub[j] = list[start + j - 1]
        /\ sub \in Seq(Characters)
    <3>1. \A k \in start..end : list[k] \in Characters
      BY <1>1, <1>3
    <3>2. start \in Int /\ end \in Int
      BY <1>1, <1>3
    <3>3. QED
      BY <3>1, <3>2, SubSeqProperties
  <2> HIDE DEF sub
  <2>2. Len(<<wanted>>) = 1 /\ <<wanted>>[1] = wanted
    OBVIOUS
  <2>3. ASSUME sub = <<wanted>> PROVE start <= n /\ end = start /\ list[start] = wanted
    <3>1. start <= end /\ end - start + 1 = 1
      BY <1>1, <1>3, <2>1, <2>2, <2>3
    <3>2. end = start /\ start <= n
      BY <1>1, <1>3, <3>1
    <3>3. 1 \in 1..end - start + 1 /\ start + 1 - 1 = start
      BY <1>1, <1>3, <3>1
    <3>4. sub[1] = list[start + 1 - 1]
      BY <2>1, <3>3
    <3>5. QED
      BY <2>2, <2>3, <3>2, <3>3, <3>4
  <2>4. ASSUME start <= n, end = start, list[start] = wanted PROVE sub = <<wanted>>
    <3>1. Len(sub) = 1 /\ 1 \in 1..end - start + 1 /\ start + 1 - 1 = start
      BY <1>1, <1>3, <2>1, <2>4
    <3>2. sub[1] = wanted
      <4>1. sub[1] = list[start + 1 - 1]
        BY <2>1, <3>1
      <4>2. QED
        BY <2>4, <3>1, <4>1
    <3>3. sub = <<sub[1]>>
      BY <2>1, <3>1
    <3>4. QED
      BY <3>2, <3>3
  <2>5. QED
    BY <2>3, <2>4 DEF sub
<1> HIDE DEF n, start, stop, end
<1>7. ASSUME start <= n, end = start, list[start] = wanted
      PROVE  Lone(list, wanted, start)
  <2>1. PICK a \in Bounds(list) : a < start /\ \A k \in a + 1..start - 1 : list[k] \notin Separators
    <3>1. start \in 1..Len(list) + 1
      BY <1>1, <1>3 DEF n
    <3>2. QED
      BY <3>1, BoundBefore
  <2>2. a \in Nat /\ (i # 1 => a >= i)
    <3>1. a \in Nat
      BY <1>1, <1>2
    <3>2. ASSUME i # 1, ~(a >= i) PROVE FALSE
      <4>1. i \in a + 1..start - 1 \/ i = start
        BY <1>1, <1>3, <3>1, <3>2
      <4>2. i = start => list[i] \notin Separators
        BY <1>3, <1>7, FillingParts
      <4>3. QED
        BY <1>5, <2>1, <3>2, <4>1, <4>2
    <3>3. QED
      BY <3>1, <3>2
  <2>3. stop \in Bounds(list)
    BY <1>1, <1>2, <1>3
  <2>4. ASSUME NEW k \in a + 1..stop - 1, k # start PROVE list[k] = Space
    <3>1. k \in a + 1..start - 1 \/ k \in end + 1..stop - 1
      BY <1>1, <1>3, <1>7, <2>2, <2>4
    <3>2. k \in a + 1..start - 1 => k \in i..start - 1
      BY <1>1, <1>3, <2>2
    <3>3. QED
      BY <1>3, <2>1, <3>1, <3>2, FillingParts
  <2>5. start < stop /\ start \in 1..n
    BY <1>1, <1>3, <1>7
  <2>6. QED
    BY <1>4, <1>7, <2>1, <2>3, <2>4, <2>5
<1>8. ASSUME NEW m \in i..n, Lone(list, wanted, m), m < stop
      PROVE  start <= n /\ end = start /\ list[start] = wanted
  <2>1. PICK a, b \in Bounds(list) :
            a < m /\ m < b /\ \A k \in a + 1..b - 1 : k # m => list[k] = Space
    BY <1>4, <1>8
  <2>2. list[m] = wanted /\ m \in 1..n /\ a \in Nat /\ b \in Nat
    BY <1>1, <1>2, <1>4, <1>8
  <2>3. start <= m /\ start <= n
    BY <1>1, <1>3, <1>8, <2>2
  <2>4. a < start
    <3>1. SUFFICES ASSUME ~(a < start) PROVE FALSE
      OBVIOUS
    <3>2. a \in start..stop - 1 /\ a \in 1..n
      BY <1>1, <1>3, <1>8, <2>1, <2>2, <3>1
    <3>3. a # 0 /\ a # n + 1
      BY <1>1, <3>2
    <3>4. QED
      BY <1>2, <1>3, <3>2, <3>3
  <2>5. start = m
    <3>1. start \in a + 1..b - 1
      BY <1>1, <1>3, <2>1, <2>2, <2>3, <2>4
    <3>2. list[start] # Space
      BY <1>3, <2>3, FillingParts
    <3>3. QED
      BY <2>1, <3>1, <3>2
  <2>6. stop <= b
    <3>1. SUFFICES ASSUME ~(stop <= b) PROVE FALSE
      OBVIOUS
    <3>2. b \in start..stop - 1 /\ b \in 1..n
      BY <1>1, <1>3, <2>1, <2>2, <2>5, <3>1
    <3>3. b # 0 /\ b # n + 1
      BY <1>1, <3>2
    <3>4. QED
      BY <1>2, <1>3, <3>2, <3>3
  <2>7. end = start
    <3>1. SUFFICES ASSUME end # start PROVE FALSE
      OBVIOUS
    <3>2. end \in a + 1..b - 1 /\ end # m /\ end \in start..stop - 1
      BY <1>1, <1>3, <2>1, <2>2, <2>3, <2>5, <2>6, <3>1
    <3>3. list[end] = Space
      BY <2>1, <3>2
    <3>4. list[end] # Space
      BY <1>3, <2>3
    <3>5. QED
      BY <3>3, <3>4
  <2>8. QED
    BY <2>2, <2>3, <2>5, <2>7
<1>9. ASSUME NEW m \in i..n, Lone(list, wanted, m)
      PROVE  (start <= n /\ end = start /\ list[start] = wanted) \/ m \in stop..n
  BY <1>1, <1>3, <1>8, <1>9
<1>10. (start <= n => start \in i..n) /\ \A m \in stop..n : m \in i..n
  BY <1>1, <1>3
<1>11. (\E m \in i..n : Lone(list, wanted, m))
         <=> \/ start <= n /\ end = start /\ list[start] = wanted
             \/ \E m \in stop..n : Lone(list, wanted, m)
  BY <1>7, <1>9, <1>10
<1>12. QED
  BY <1>6, <1>11 DEF n, start, stop, end

\* The function in TypeListContains.
ListFrom(list, wanted) ==
    CHOOSE f : f = [i \in 1..Len(list) + 1 |-> ContainsAt(list, wanted, f, i)]

LEMMA ListSteps ==
    ASSUME NEW list \in Texts, NEW wanted
    PROVE  /\ TypeListContains(list, wanted) <=> IsEmptyOrAll(list) \/ ListFrom(list, wanted)[1]
           /\ \A i \in 1..Len(list) + 1 :
                ListFrom(list, wanted)[i] = ContainsAt(list, wanted, ListFrom(list, wanted), i)
<1> DEFINE last == Len(list) + 1
           At(f, i) == ContainsAt(list, wanted, f, i)
           G == [i \in 1..last |-> [f \in [1..last -> BOOLEAN] |-> At(f, i)]]
<1>1. last \in Nat /\ 1 \in Nat
  BY DEF Texts
<1>2. \A f, i : At(f, i) \in BOOLEAN
  BY Zenon DEF ContainsAt
<1>3. \A i \in 1..last : i <= Len(list) => NameStop(list, i) \in i + 1..last
  <2>1. ASSUME NEW i \in 1..last, i <= Len(list) PROVE NameStop(list, i) \in i + 1..last
    <3> DEFINE start == NameStart(list, i)
               stop == NameStop(list, i)
    <3>1. start \in i..last /\ stop \in start..last /\ i < stop
      BY <2>1, NameExtent
    <3> HIDE DEF start, stop, last
    <3>2. stop \in i + 1..last
      BY <1>1, <3>1
    <3>3. QED
      BY <3>2 DEF stop
  <2>2. QED
    BY <2>1
<1>4. ASSUME NEW i \in 1..last, NEW f, NEW g, \A j \in i + 1..last : f[j] = g[j]
      PROVE  At(f, i) = At(g, i)
  <2>1. i <= Len(list) => f[NameStop(list, i)] = g[NameStop(list, i)]
    BY <1>3, <1>4, Zenon
  <2>2. QED
    BY <2>1, Zenon DEF ContainsAt
<1>5. TypeListContains(list, wanted) <=> IsEmptyOrAll(list) \/ ListFrom(list, wanted)[1]
  BY Zenon DEF TypeListContains, ListFrom, ContainsAt, NameStart, NameStop, NameEnd,
               Filling, Separators, Space
<1> HIDE DEF At, last
<1>6. G \in [1..last -> [[1..last -> BOOLEAN] -> BOOLEAN]]
  BY <1>2, Zenon
<1>7. LooksAhead(G, 1, last, BOOLEAN)
  <2>1. ASSUME NEW i \in 1..last, NEW f \in [1..last -> BOOLEAN], NEW g \in [1..last -> BOOLEAN],
               \A j \in i + 1..last : f[j] = g[j]
        PROVE  G[i][f] = G[i][g]
    <3>1. G[i][f] = At(f, i) /\ G[i][g] = At(g, i)
      BY Zenon
    <3>2. QED
      BY <1>4, <2>1, <3>1, Zenon
  <2> HIDE DEF G
  <2>2. QED
    BY <2>1, Zenon DEF LooksAhead
<1>8. PICK f : Solves(f, G, 1, last, BOOLEAN)
  <2> HIDE DEF G
  <2>1. BOOLEAN # {}
    BY Zenon
  <2>2. QED
    BY <1>1, <1>6, <1>7, <2>1, RecursionAhead, Zenon
<1>9. f = [i \in 1..last |-> At(f, i)]
  <2>1. f \in [1..last -> BOOLEAN] /\ \A i \in 1..last : f[i] = G[i][f]
    BY <1>8, Zenon DEF Solves
  <2>2. \A i \in 1..last : G[i][f] = At(f, i)
    BY <2>1, Zenon
  <2> HIDE DEF G
  <2>3. \A i \in 1..last : f[i] = At(f, i)
    BY <2>1, <2>2, Zenon
  <2>4. QED
    BY <2>1, <2>3, Zenon
<1> DEFINE L == ListFrom(list, wanted)
<1>10. L = [i \in 1..last |-> At(L, i)]
  BY <1>9, Zenon DEF ListFrom, At, last
<1> HIDE DEF L
<1>11. \A i \in 1..last : L[i] = At(L, i)
  BY <1>10, Zenon
<1>12. QED
  BY <1>5, <1>11, Zenon DEF L, At, last

\* The loop finds a word where it stands alone between two bounds.
LEMMA LoneFound ==
    ASSUME NEW list \in Texts, NEW wanted, wanted \notin Filling
    PROVE  TypeListContains(list, wanted)
             <=> IsEmptyOrAll(list) \/ \E m \in 1..Len(list) : Lone(list, wanted, m)
<1> DEFINE n == Len(list)
           L == ListFrom(list, wanted)
           Ahead(i) == \E m \in i..n : Lone(list, wanted, m)
           Wrong == {i \in 1..n + 1 : Visited(list, i) /\ ~(L[i] <=> Ahead(i))}
<1>1. n \in Nat
  BY DEF Texts
<1>2. /\ TypeListContains(list, wanted) <=> IsEmptyOrAll(list) \/ L[1]
      /\ \A i \in 1..n + 1 : L[i] = ContainsAt(list, wanted, L, i)
  BY ListSteps, Zenon
<1>3. \A i \in 1..n + 1 : L[i] <=>
        /\ i <= n
        /\ \/ SubSeq(list, NameStart(list, i), NameEnd(list, i)) = <<wanted>>
           \/ L[NameStop(list, i)]
  BY <1>2, Zenon DEF ContainsAt
<1> HIDE DEF L
<1>4. ASSUME Wrong # {} PROVE FALSE
  <2>1. PICK i \in Wrong : \A j \in Wrong : j <= i
    <3>1. Wrong \subseteq 0..n + 1 /\ n + 1 \in Nat
      BY <1>1
    <3> HIDE DEF Wrong
    <3>2. QED
      BY <1>4, <3>1, GreatestOf
  <2>2. i \in 1..n + 1 /\ Visited(list, i)
    OBVIOUS
  <2>3. CASE i <= n
    <3> DEFINE stop == NameStop(list, i)
    <3>1. stop \in i + 1..n + 1 /\ (stop <= n => list[stop] \in Separators)
      <4>1. i < stop /\ stop \in NameStart(list, i)..n + 1 /\ NameStart(list, i) \in i..n + 1
            /\ (stop <= n => list[stop] \in Separators)
        BY <2>2, <2>3, NameExtent
      <4> HIDE DEF stop, n
      <4>2. QED
        BY <1>1, <2>2, <4>1
    <3>2. stop \in 1..n + 1 /\ ~(stop <= i) /\ (stop = n + 1 \/ list[stop] \in Separators)
      <4> HIDE DEF stop, n
      <4>1. QED
        BY <1>1, <2>2, <3>1
    <3>3. Visited(list, stop)
      BY <3>2 DEF Visited
    <3>4. L[stop] <=> Ahead(stop)
      <4>1. stop \notin Wrong
        BY <2>1, <3>2
      <4>2. QED
        BY <3>2, <3>3, <4>1, Zenon
    <3>5. Ahead(i) <=> \/ SubSeq(list, NameStart(list, i), NameEnd(list, i)) = <<wanted>>
                       \/ Ahead(stop)
      <4>1. i \in 1..n
        BY <1>1, <2>2, <2>3
      <4>2. QED
        BY <2>2, <4>1, NameStep, Zenon
    <3>6. QED
      BY <1>3, <2>2, <2>3, <3>4, <3>5, Zenon
  <2>4. CASE ~(i <= n)
    <3>1. ~Ahead(i)
      BY <1>1, <2>2, <2>4
    <3>2. ~L[i]
      BY <1>3, <2>2, <2>4, Zenon
    <3>3. QED
      BY <3>1, <3>2, Zenon
  <2>5. QED
    BY <2>3, <2>4
<1>5. L[1] <=> Ahead(1)
  <2>1. 1 \in 1..n + 1 /\ 1 \notin Wrong
    BY <1>1, <1>4
  <2>2. Visited(list, 1)
    BY <2>1 DEF Visited
  <2>3. QED
    BY <2>1, <2>2, Zenon
<1>6. QED
  BY <1>2, <1>5, Zenon

\* Those words are the names of the list.
LEMMA LoneNamed ==
    ASSUME NEW list \in Texts, NEW wanted, wanted \notin Filling
    PROVE  <<wanted>> \in NamesOf(list) <=> \E m \in 1..Len(list) : Lone(list, wanted, m)
<1> DEFINE n == Len(list)
           Marks(s) == {i \in DOMAIN s : s[i] # Space}
           Bare(s) == IF Marks(s) = {} THEN <<>> ELSE SubSeq(s, Min(Marks(s)), Max(Marks(s)))
           Gap(a, b) == /\ a \in Bounds(list) /\ b \in Bounds(list) /\ a < b
                        /\ ~\E k \in Bounds(list) : a < k /\ k < b
           Between(a, b) == SubSeq(list, a + 1, b - 1)
<1>1. n \in Nat /\ DOMAIN list = 1..n /\ \A k \in 1..n : list[k] \in Characters
  BY DEF Texts
<1>2. Bounds(list) = {k \in 1..n : list[k] \in Separators} \cup {0, n + 1}
  BY <1>1, Zenon DEF Bounds
<1>3. <<wanted>> \in NamesOf(list) <=> \E a, b : Gap(a, b) /\ <<wanted>> = Bare(Between(a, b))
  <2> DEFINE gaps == {gap \in Bounds(list) \X Bounds(list) : gap[1] < gap[2]
                        /\ ~\E k \in Bounds(list) : gap[1] < k /\ k < gap[2]}
  <2>1. NamesOf(list) = {Bare(Between(gap[1], gap[2])) : gap \in gaps}
    BY Zenon DEF NamesOf, Bounds, Separators, Space
  <2> HIDE DEF Bare, Between
  <2>2. \A gap \in gaps : Gap(gap[1], gap[2])
    OBVIOUS
  <2>3. \A a, b : Gap(a, b) => <<a, b>> \in gaps /\ <<a, b>>[1] = a /\ <<a, b>>[2] = b
    OBVIOUS
  <2> HIDE DEF gaps, Gap
  <2>4. ASSUME NEW a, NEW b, Gap(a, b), <<wanted>> = Bare(Between(a, b))
        PROVE  <<wanted>> \in NamesOf(list)
    <3>1. PICK gap \in gaps : gap[1] = a /\ gap[2] = b
      BY <2>3, <2>4
    <3>2. QED
      BY <2>1, <2>4, <3>1
  <2>5. QED
    BY <2>1, <2>2, <2>4
<1>4. \A m : Lone(list, wanted, m) <=>
        /\ m \in 1..n /\ list[m] = wanted
        /\ \E a, b \in Bounds(list) :
            a < m /\ m < b /\ \A k \in a + 1..b - 1 : k # m => list[k] = Space
  BY Zenon DEF Lone, Space
<1> HIDE DEF n
<1>5. ASSUME NEW a \in Bounds(list), NEW b \in Bounds(list), a < b
      PROVE  /\ a \in 0..n + 1 /\ b \in 0..n + 1
             /\ Between(a, b) \in Texts
             /\ DOMAIN Between(a, b) = 1..b - a - 1 /\ Len(Between(a, b)) = b - a - 1
             /\ \A j \in 1..b - a - 1 : Between(a, b)[j] = list[a + j] /\ a + j \in a + 1..b - 1
             /\ \A k \in a + 1..b - 1 : k - a \in 1..b - a - 1 /\ a + (k - a) = k
  <2>1. a \in 0..n + 1 /\ b \in 0..n + 1
    BY <1>1, <1>2
  <2>2. /\ a + 1 \in Int /\ b - 1 \in Int /\ \A k \in a + 1..b - 1 : list[k] \in Characters
        /\ b - 1 - (a + 1) + 1 = b - a - 1
        /\ (IF a + 1 <= b - 1 THEN b - 1 - (a + 1) + 1 ELSE 0) = b - a - 1
    <3>1. \A k \in a + 1..b - 1 : k \in 1..n
      BY <1>1, <1>5, <2>1
    <3>2. QED
      BY <1>1, <1>5, <2>1, <3>1
  <2>3. /\ Between(a, b) \in Seq(Characters)
        /\ Len(Between(a, b)) = IF a + 1 <= b - 1 THEN b - 1 - (a + 1) + 1 ELSE 0
        /\ \A j \in 1..b - 1 - (a + 1) + 1 : Between(a, b)[j] = list[a + 1 + j - 1]
    BY <2>2, SubSeqProperties
  <2> HIDE DEF Between
  <2>4. Len(Between(a, b)) = b - a - 1
    BY <2>2, <2>3
  <2>5. DOMAIN Between(a, b) = 1..b - a - 1
    BY <2>3, <2>4
  <2>6. \A j \in 1..b - a - 1 : a + 1 + j - 1 = a + j /\ a + j \in a + 1..b - 1
    BY <2>1
  <2>7. \A j \in 1..b - a - 1 : Between(a, b)[j] = list[a + j]
    BY <2>2, <2>3, <2>6
  <2>8. \A k \in a + 1..b - 1 : k - a \in 1..b - a - 1 /\ a + (k - a) = k
    BY <2>1
  <2>9. QED
    BY <2>1, <2>3, <2>4, <2>5, <2>6, <2>7, <2>8 DEF Texts
<1>6. ASSUME NEW a, NEW b, Gap(a, b), <<wanted>> = Bare(Between(a, b))
      PROVE  \E m \in 1..n : Lone(list, wanted, m)
  <2> DEFINE s == Between(a, b)
             d == b - a - 1
             p == Min(Marks(s))
             q == Max(Marks(s))
  <2>1. /\ a \in 0..n + 1 /\ b \in 0..n + 1 /\ s \in Texts /\ DOMAIN s = 1..d
        /\ \A j \in 1..d : s[j] = list[a + j]
        /\ \A k \in a + 1..b - 1 : k - a \in 1..d /\ a + (k - a) = k
    BY <1>5, <1>6
  <2>2. d \in Int
    BY <1>1, <2>1
  <2>3. <<wanted>> # <<>> /\ Len(<<wanted>>) = 1 /\ <<wanted>>[1] = wanted
    OBVIOUS
  <2>4. Marks(s) # {} /\ <<wanted>> = SubSeq(s, p, q)
    BY <1>6, <2>3
  <2> HIDE DEF s, d, Bare, Between
  <2>5. Marks(s) \subseteq 0..n + 1 /\ Marks(s) \subseteq 1..d /\ Marks(s) \subseteq Nat /\ n + 1 \in Nat
    BY <1>1, <2>1 DEF d
  <2> HIDE DEF Marks
  <2>6. p \in Marks(s) /\ q \in Marks(s) /\ \A j \in Marks(s) : p <= j /\ j <= q
    <3>1. p \in Marks(s) /\ \A j \in Marks(s) : p <= j
      BY <2>4, <2>5, MinOf
    <3>2. q \in Marks(s) /\ \A j \in Marks(s) : j <= q
      BY <2>4, <2>5, MaxOf
    <3>3. QED
      BY <3>1, <3>2
  <2> HIDE DEF p, q
  <2>7. p = q /\ s[p] = wanted
    <3>1. p \in 1..d /\ q \in 1..d /\ p <= q
      BY <2>5, <2>6
    <3>2. \A j \in p..q : s[j] \in Characters
      BY <2>1, <2>2, <3>1 DEF Texts
    <3>3. /\ Len(SubSeq(s, p, q)) = IF p <= q THEN q - p + 1 ELSE 0
          /\ \A j \in 1..q - p + 1 : SubSeq(s, p, q)[j] = s[p + j - 1]
      BY <2>2, <3>1, <3>2, SubSeqProperties
    <3>4. q - p + 1 = 1
      BY <2>3, <2>4, <3>1, <3>3
    <3>5. 1 \in 1..q - p + 1 /\ p + 1 - 1 = p
      BY <3>1, <3>4
    <3>6. SubSeq(s, p, q)[1] = s[p + 1 - 1]
      BY <3>3, <3>5
    <3>7. QED
      BY <2>3, <2>4, <3>1, <3>4, <3>5, <3>6
  <2> DEFINE m == a + p
  <2>8. p \in 1..d /\ m \in Nat /\ a < m /\ m < b /\ m \in 1..n /\ list[m] = wanted
    <3>1. p \in 1..d
      BY <2>5, <2>6
    <3>2. m \in Nat /\ a < m /\ m < b /\ m \in 1..n
      BY <1>1, <2>1, <2>2, <3>1 DEF d
    <3>3. list[m] = s[p]
      BY <2>1, <3>1
    <3>4. QED
      BY <2>7, <3>1, <3>2, <3>3
  <2>9. ASSUME NEW k \in a + 1..b - 1, k # m PROVE list[k] = Space
    <3>1. k - a \in 1..d /\ s[k - a] = list[k]
      <4>1. k - a \in 1..d /\ a + (k - a) = k
        BY <2>1
      <4>2. s[k - a] = list[a + (k - a)]
        BY <2>1, <4>1
      <4>3. QED
        BY <4>1, <4>2
    <3>2. k - a # p
      BY <2>1, <2>8, <2>9
    <3>3. k - a \notin Marks(s)
      <4>1. SUFFICES ASSUME k - a \in Marks(s) PROVE FALSE
        OBVIOUS
      <4>2. p <= k - a /\ k - a <= q
        BY <2>6, <4>1
      <4>3. QED
        BY <2>1, <2>7, <2>8, <3>2, <4>2
    <3>4. s[k - a] = Space
      BY <2>1, <3>1, <3>3 DEF Marks
    <3>5. QED
      BY <3>1, <3>4
  <2>10. QED
    BY <1>4, <1>6, <2>8, <2>9
<1>7. ASSUME NEW m \in 1..n, Lone(list, wanted, m)
      PROVE  \E a, b : Gap(a, b) /\ <<wanted>> = Bare(Between(a, b))
  <2>1. PICK a \in Bounds(list), b \in Bounds(list) :
            /\ a < m /\ m < b
            /\ \A k \in a + 1..b - 1 : k # m => list[k] = Space
    BY <1>4, <1>7
  <2>2. list[m] = wanted /\ wanted # Space /\ wanted \notin Separators
    BY <1>4, <1>7, FillingParts
  <2> DEFINE s == Between(a, b)
             d == b - a - 1
             p == m - a
  <2>3. a \in 0..n + 1 /\ b \in 0..n + 1 /\ a < b
    BY <1>1, <1>2, <2>1
  <2>4. /\ s \in Texts /\ DOMAIN s = 1..d /\ Len(s) = d
        /\ \A j \in 1..d : s[j] = list[a + j] /\ a + j \in a + 1..b - 1
        /\ \A k \in a + 1..b - 1 : k - a \in 1..d /\ a + (k - a) = k
    BY <1>5, <2>3
  <2>5. d \in Nat /\ p \in 1..d /\ a + p = m
    BY <1>1, <2>1, <2>3
  <2>6. Gap(a, b)
    <3>1. ASSUME NEW k \in Bounds(list), a < k, k < b PROVE FALSE
      <4>1. k \in a + 1..b - 1 /\ k \in 1..n
        BY <1>1, <1>2, <2>3, <3>1
      <4>2. list[k] \in Separators
        <5>1. k # 0 /\ k # n + 1
          BY <1>1, <4>1
        <5>2. QED
          BY <1>2, <5>1
      <4>3. list[k] = Space \/ list[k] = wanted
        BY <2>1, <2>2, <4>1
      <4>4. QED
        BY <2>2, <4>2, <4>3, FillingParts
    <3>2. QED
      BY <2>3, <3>1
  <2> HIDE DEF s, d, p, Gap
  <2>7. Marks(s) = {p}
    <3>1. p \in Marks(s)
      BY <2>2, <2>4, <2>5
    <3>2. ASSUME NEW j \in Marks(s) PROVE j = p
      <4>1. j \in 1..d /\ s[j] # Space /\ s[j] = list[a + j] /\ a + j \in a + 1..b - 1
        BY <2>4
      <4>2. a + j = m
        BY <2>1, <4>1
      <4>3. QED
        BY <2>3, <2>5, <4>1, <4>2
    <3>3. QED
      BY <3>1, <3>2
  <2> HIDE DEF Marks
  <2>8. Min(Marks(s)) = p /\ Max(Marks(s)) = p
    <3>1. Marks(s) # {} /\ Marks(s) \subseteq Nat /\ Marks(s) \subseteq 0..d
      BY <2>5, <2>7
    <3>2. Min(Marks(s)) \in Marks(s) /\ Max(Marks(s)) \in Marks(s)
      BY <2>5, <3>1, MinOf, MaxOf
    <3>3. QED
      BY <2>7, <3>2
  <2>9. SubSeq(s, p, p) = <<wanted>>
    <3> DEFINE t == SubSeq(s, p, p)
    <3>1. \A j \in p..p : s[j] \in Characters
      BY <2>4, <2>5 DEF Texts
    <3>2. /\ t \in Seq(Characters) /\ Len(t) = IF p <= p THEN p - p + 1 ELSE 0
          /\ \A j \in 1..p - p + 1 : t[j] = s[p + j - 1]
      BY <2>5, <3>1, SubSeqProperties
    <3> HIDE DEF t
    <3>3. Len(t) = 1 /\ 1 \in 1..p - p + 1 /\ p + 1 - 1 = p
      BY <2>5, <3>2
    <3>4. t[1] = s[p + 1 - 1]
      BY <3>2, <3>3
    <3>5. s[p] = wanted
      BY <2>2, <2>4, <2>5
    <3>6. t = <<t[1]>>
      BY <3>2, <3>3
    <3>7. QED
      BY <3>3, <3>4, <3>5, <3>6 DEF t
  <2>10. Marks(s) # {}
    BY <2>7
  <2>11. Bare(s) = <<wanted>>
    BY <2>8, <2>9, <2>10
  <2>12. QED
    BY <2>6, <2>11 DEF s
<1>8. QED
  BY <1>3, <1>6, <1>7 DEF n

\* A list's own names are what is found in it.
LEMMA ListRead ==
    ASSUME NEW list \in Texts, NEW wanted, wanted \notin Filling
    PROVE  TypeListContains(list, wanted) <=> IsEmptyOrAll(list) \/ <<wanted>> \in NamesOf(list)
BY LoneFound, LoneNamed, Zenon

\* A type is found in a list exactly when it is one of the list's names,
\* however these are quoted and spaced, in lists of every length
\* (type_list_contains, catalog.c:137).
THEOREM ListsRead == \A list \in Texts : ListNamesItsTypes(list)
<1>1. {"T", "V"} \cap Filling = {}
  BY Zenon DEF Filling
<1>2. QED
  BY <1>1, ListRead, Zenon DEF ListNamesItsTypes

------------------------------------------------------------------------------
\* The rows that are shown

Conditions == [column : {"schema", "name", "column"}, literal : Texts]

Meets(row, condition) ==
    Like(row[condition.column], ReadLiteral(condition.literal).text)

MeetsAll(row, where) == \A i \in DOMAIN where : Meets(row, where[i])

\* A condition says what the pattern says; one that says nothing is left out.
LEMMA ConditionMet ==
    ASSUME NEW row, NEW column \in {"schema", "name", "column"}, row[column] \in Texts,
           NEW pattern \in Texts \cup {Null}
    PROVE  /\ Condition(column, pattern) \in Seq(Conditions)
           /\ MeetsAll(row, Condition(column, pattern))
                <=> pattern \in {Null, <<>>} \/ Like(row[column], pattern)
<1>1. CASE IsEmptyOrAll(pattern)
  <2>1. Condition(column, pattern) = <<>>
    BY <1>1 DEF Condition
  <2>2. MeetsAll(row, <<>>) /\ <<>> \in Seq(Conditions)
    BY DEF MeetsAll
  <2>3. pattern \in {Null, <<>>} \/ Like(row[column], pattern)
    BY <1>1, LikeAny, Zenon DEF IsEmptyOrAll
  <2>4. QED
    BY <2>1, <2>2, <2>3
<1>2. CASE ~IsEmptyOrAll(pattern)
  <2> DEFINE condition == [column |-> column, literal |-> Literal(pattern)]
  <2>1. pattern \in Texts /\ pattern \notin {Null, <<>>}
    BY <1>2, Zenon DEF IsEmptyOrAll
  <2>2. Literal(pattern) \in Texts /\ <<>> \in Texts
    <3>1. <<>> \in Texts
      BY DEF Texts
    <3>2. QED
      BY <2>1, <3>1, LiteralShape
  <2>3. ReadLiteral(Literal(pattern)).text = pattern
    <3>1. Literal(pattern) \o <<>> = Literal(pattern)
      BY <2>2, ConcatEmptySeq DEF Texts
    <3>2. ReadLiteral(Literal(pattern) \o <<>>) = [ok |-> TRUE, text |-> pattern, rest |-> <<>>]
      BY <2>1, <2>2, LiteralRead
    <3>3. QED
      BY <3>1, <3>2
  <2>4. Condition(column, pattern) = <<condition>>
    BY <1>2 DEF Condition
  <2>5. condition \in Conditions /\ condition.column = column
        /\ condition.literal = Literal(pattern)
    BY <2>2 DEF Conditions
  <2> HIDE DEF condition
  <2>6. <<condition>> \in Seq(Conditions)
    BY <2>5
  <2>7. MeetsAll(row, <<condition>>) <=> Meets(row, condition)
    BY DEF MeetsAll
  <2>8. Meets(row, condition) <=> Like(row[column], pattern)
    BY <2>3, <2>5, Zenon DEF Meets
  <2>9. QED
    BY <2>1, <2>4, <2>6, <2>7, <2>8, Zenon
<1>3. QED
  BY <1>1, <1>2

\* Conditions one behind another hold together.
LEMMA BothMet ==
    ASSUME NEW row, NEW some \in Seq(Conditions), NEW more \in Seq(Conditions)
    PROVE  /\ some \o more \in Seq(Conditions)
           /\ MeetsAll(row, some \o more) <=> MeetsAll(row, some) /\ MeetsAll(row, more)
<1> DEFINE a == Len(some)
           b == Len(more)
           all == some \o more
<1>1. /\ all \in Seq(Conditions)
      /\ a \in Nat /\ b \in Nat
      /\ Len(all) = a + b
      /\ \A j \in 1..a : all[j] = some[j]
      /\ \A j \in 1..b : all[a + j] = more[j]
  BY Joined
<1>2. DOMAIN some = 1..a /\ DOMAIN more = 1..b /\ DOMAIN all = 1..a + b
  <2>1. DOMAIN all = 1..Len(all)
    BY <1>1
  <2>2. QED
    BY <1>1, <2>1
<1> HIDE DEF a, b, all
<1>3. ASSUME MeetsAll(row, all) PROVE MeetsAll(row, some) /\ MeetsAll(row, more)
  <2>1. ASSUME NEW j \in 1..a PROVE Meets(row, some[j])
    <3>1. j \in 1..a + b /\ all[j] = some[j]
      BY <1>1
    <3>2. Meets(row, all[j])
      BY <1>2, <1>3, <3>1 DEF MeetsAll
    <3>3. QED
      BY <3>1, <3>2
  <2>2. ASSUME NEW j \in 1..b PROVE Meets(row, more[j])
    <3>1. a + j \in 1..a + b /\ all[a + j] = more[j]
      BY <1>1
    <3>2. Meets(row, all[a + j])
      BY <1>2, <1>3, <3>1 DEF MeetsAll
    <3>3. QED
      BY <3>1, <3>2
  <2>3. QED
    BY <1>2, <2>1, <2>2 DEF MeetsAll
<1>4. ASSUME MeetsAll(row, some), MeetsAll(row, more) PROVE MeetsAll(row, all)
  <2>1. ASSUME NEW j \in 1..a + b PROVE Meets(row, all[j])
    <3>1. CASE j <= a
      <4>1. j \in 1..a /\ all[j] = some[j]
        BY <1>1, <3>1
      <4>2. QED
        BY <1>2, <1>4, <4>1 DEF MeetsAll
    <3>2. CASE ~(j <= a)
      <4>1. PICK k \in 1..b : a + k = j
        <5>1. j - a \in 1..b /\ a + (j - a) = j
          BY <1>1, <3>2
        <5>2. QED
          BY <5>1
      <4>2. all[j] = more[k]
        BY <1>1, <4>1
      <4>3. Meets(row, more[k])
        BY <1>2, <1>4 DEF MeetsAll
      <4>4. QED
        BY <4>2, <4>3
    <3>3. QED
      BY <3>1, <3>2
  <2>2. QED
    BY <1>2, <2>1 DEF MeetsAll
<1>5. QED
  BY <1>1, <1>3, <1>4 DEF all

Fits(value, pattern) == pattern \in {Null, <<>>} \/ Like(value, pattern)

Asked(args) == IF args.catalog \in {Null, <<>>} THEN Current ELSE args.catalog

Found(row, args) ==
    row.database = Asked(args) /\ Fits(row.schema, args.schema) /\ Fits(row.name, args.table)

Listed(type, types) ==
    types \in {Null, <<>>, <<"%">>} \/ <<MappedType(type)>> \in NamesOf(types)

\* What ListedAsAsked says of one call.
RowsAsAsked(call, args, rows) ==
    call \in {"tables", "columns"} /\ ~Wildcard(args.catalog) /\ Unescaped(args)
        /\ ~(call = "tables" /\ (AllCatalogs(args) \/ AllTypes(args)))
    => rows = IF call = "tables"
              THEN {TableRow(t) : t \in {t \in Tables : Found(t, args) /\ Listed(t.type, args.types)}}
              ELSE {ColumnRow(c) : c \in {c \in TableColumns :
                        Found(c, args) /\ Fits(c.column, args.column)}}

\* A catalog name without a wildcard goes into the query as it is.
LEMMA Qualified ==
    ASSUME NEW args, ~Wildcard(args.catalog)
    PROVE  Asked(args) = IF Qualifier(args.catalog) = Null THEN Current ELSE Qualifier(args.catalog)
<1>1. args.catalog # <<"%">>
  <2>1. Len(<<"%">>) = 1 /\ <<"%">>[1] = "%" /\ 1 \in 1..1
    OBVIOUS
  <2>2. Contains(<<"%">>, "%")
    BY <2>1 DEF Contains
  <2>3. QED
    BY <2>2, Zenon DEF Wildcard
<1>2. IsEmptyOrAll(args.catalog) <=> args.catalog \in {Null, <<>>}
  BY <1>1, Zenon DEF IsEmptyOrAll
<1>3. Qualifier(args.catalog) = IF args.catalog \in {Null, <<>>} THEN Null ELSE args.catalog
  BY <1>2, Zenon DEF Qualifier, Wildcard
<1>4. QED
  BY <1>3, Zenon DEF Asked

\* The texts a row and a call are made of.
LEMMA TableTexts ==
    ASSUME NEW t \in Tables
    PROVE  t.schema \in Texts /\ t.name \in Texts /\ MappedType(t.type) \notin Filling
<1>1. t.schema \in Texts /\ t.name \in Texts /\ t.type \notin Filling
  BY TablesAssumption, Zenon DEF Texts, Filling
<1>2. "T" \notin Filling
  BY Zenon DEF Filling
<1>3. QED
  BY <1>1, <1>2, Zenon DEF MappedType

LEMMA ColumnTexts ==
    ASSUME NEW c \in TableColumns
    PROVE  c.schema \in Texts /\ c.name \in Texts /\ c.column \in Texts
BY TablesAssumption, Zenon DEF Texts

LEMMA ArgumentTexts ==
    ASSUME NEW args \in Arguments
    PROVE  {args.catalog, args.schema, args.table, args.column, args.types} \subseteq Texts \cup {Null}
BY ArgumentsAssumption, Zenon DEF Texts

\* The query selects the tables that were asked for.
LEMMA TablesSelected ==
    ASSUME NEW t \in Tables, NEW args \in Arguments, ~Wildcard(args.catalog)
    PROVE  Selects(TablesQuery(args), t) <=> Found(t, args)
<1> DEFINE schema == Condition("schema", args.schema)
           name == Condition("name", args.table)
<1>1. /\ args.schema \in Texts \cup {Null} /\ args.table \in Texts \cup {Null}
      /\ t["schema"] \in Texts /\ t["name"] \in Texts
      /\ t["schema"] = t.schema /\ t["name"] = t.name
  BY ArgumentTexts, TableTexts
<1>2. schema \in Seq(Conditions) /\ (MeetsAll(t, schema) <=> Fits(t.schema, args.schema))
  BY <1>1, ConditionMet DEF Fits
<1>3. name \in Seq(Conditions) /\ (MeetsAll(t, name) <=> Fits(t.name, args.table))
  BY <1>1, ConditionMet DEF Fits
<1>4. MeetsAll(t, schema \o name) <=> MeetsAll(t, schema) /\ MeetsAll(t, name)
  BY <1>2, <1>3, BothMet
<1>5. TablesQuery(args).database = Qualifier(args.catalog) /\ TablesQuery(args).where = schema \o name
  BY DEF TablesQuery
<1>6. Selects(TablesQuery(args), t)
        <=> /\ t.database = IF Qualifier(args.catalog) = Null THEN Current
                            ELSE Qualifier(args.catalog)
            /\ MeetsAll(t, schema \o name)
  <2> HIDE DEF schema, name
  <2>1. QED
    BY <1>5, Zenon DEF Selects, MeetsAll, Meets
<1>7. QED
  BY <1>2, <1>3, <1>4, <1>6, Qualified, Zenon DEF Found

\* And the columns.
LEMMA ColumnsSelected ==
    ASSUME NEW c \in TableColumns, NEW args \in Arguments, ~Wildcard(args.catalog)
    PROVE  Selects(ColumnsQuery(args), c) <=> Found(c, args) /\ Fits(c.column, args.column)
<1> DEFINE schema == Condition("schema", args.schema)
           name == Condition("name", args.table)
           column == Condition("column", args.column)
<1>1. /\ args.schema \in Texts \cup {Null} /\ args.table \in Texts \cup {Null}
      /\ args.column \in Texts \cup {Null}
      /\ c["schema"] \in Texts /\ c["name"] \in Texts /\ c["column"] \in Texts
      /\ c["schema"] = c.schema /\ c["name"] = c.name /\ c["column"] = c.column
  BY ArgumentTexts, ColumnTexts
<1>2. schema \in Seq(Conditions) /\ (MeetsAll(c, schema) <=> Fits(c.schema, args.schema))
  BY <1>1, ConditionMet DEF Fits
<1>3. name \in Seq(Conditions) /\ (MeetsAll(c, name) <=> Fits(c.name, args.table))
  BY <1>1, ConditionMet DEF Fits
<1>4. column \in Seq(Conditions) /\ (MeetsAll(c, column) <=> Fits(c.column, args.column))
  BY <1>1, ConditionMet DEF Fits
<1>5. /\ schema \o name \in Seq(Conditions)
      /\ MeetsAll(c, schema \o name) <=> MeetsAll(c, schema) /\ MeetsAll(c, name)
  BY <1>2, <1>3, BothMet
<1>6. MeetsAll(c, (schema \o name) \o column)
        <=> MeetsAll(c, schema \o name) /\ MeetsAll(c, column)
  BY <1>4, <1>5, BothMet
<1>7. /\ ColumnsQuery(args).database = Qualifier(args.catalog)
      /\ ColumnsQuery(args).where = (schema \o name) \o column
  BY DEF ColumnsQuery
<1>8. Selects(ColumnsQuery(args), c)
        <=> /\ c.database = IF Qualifier(args.catalog) = Null THEN Current
                            ELSE Qualifier(args.catalog)
            /\ MeetsAll(c, (schema \o name) \o column)
  <2> HIDE DEF schema, name, column
  <2>1. QED
    BY <1>7, Zenon DEF Selects, MeetsAll, Meets
<1>9. QED
  BY <1>2, <1>3, <1>4, <1>5, <1>6, <1>8, Qualified, Zenon DEF Found

\* The list lets the types through that it names.
LEMMA TypeListed ==
    ASSUME NEW t \in Tables, NEW args \in Arguments
    PROVE  TypeListContains(args.types, MappedType(t.type)) <=> Listed(t.type, args.types)
<1>1. IsEmptyOrAll(args.types) <=> args.types \in {Null, <<>>, <<"%">>}
  BY Zenon DEF IsEmptyOrAll
<1>2. CASE IsEmptyOrAll(args.types)
  <2>1. TypeListContains(args.types, MappedType(t.type))
    BY <1>2, Zenon DEF TypeListContains
  <2>2. QED
    BY <1>1, <1>2, <2>1, Zenon DEF Listed
<1>3. CASE ~IsEmptyOrAll(args.types)
  <2>1. args.types \in Texts
    BY <1>3, ArgumentTexts, Zenon DEF IsEmptyOrAll
  <2>2. QED
    BY <1>1, <1>3, <2>1, TableTexts, ListRead, Zenon DEF Listed
<1>4. QED
  BY <1>2, <1>3

LEMMA TablesShown ==
    ASSUME NEW args \in Arguments
    PROVE  AllCatalogs(args) \/ AllTypes(args)
           \/ RowsAsAsked("tables", args,
                TableRows({t \in Tables : Selects(TablesQuery(args), t)}, args.types))
<1> SUFFICES ASSUME ~Wildcard(args.catalog)
             PROVE  TableRows({t \in Tables : Selects(TablesQuery(args), t)}, args.types)
                    = {TableRow(t) : t \in {t \in Tables : Found(t, args) /\ Listed(t.type, args.types)}}
  BY Zenon DEF RowsAsAsked
<1>1. {t \in {t \in Tables : Selects(TablesQuery(args), t)} :
            TypeListContains(args.types, MappedType(t.type))}
        = {t \in Tables : Found(t, args) /\ Listed(t.type, args.types)}
  BY TablesSelected, TypeListed, Zenon
<1>2. QED
  BY <1>1, Zenon DEF TableRows

LEMMA ColumnsShown ==
    ASSUME NEW args \in Arguments
    PROVE  RowsAsAsked("columns", args,
                {ColumnRow(c) : c \in {c \in TableColumns : Selects(ColumnsQuery(args), c)}})
<1> SUFFICES ASSUME ~Wildcard(args.catalog)
             PROVE  {ColumnRow(c) : c \in {c \in TableColumns : Selects(ColumnsQuery(args), c)}}
                    = {ColumnRow(c) : c \in {c \in TableColumns :
                            Found(c, args) /\ Fits(c.column, args.column)}}
  BY Zenon DEF RowsAsAsked
<1>1. {c \in TableColumns : Selects(ColumnsQuery(args), c)}
        = {c \in TableColumns : Found(c, args) /\ Fits(c.column, args.column)}
  BY ColumnsSelected, Zenon
<1>2. QED
  BY <1>1, Zenon

\* Of the database that is named, or else the session's, a call that succeeds
\* shows exactly the tables and columns that its patterns and its list of
\* types let through (SQLTables, SQLColumns, catalog.c; ListedAsAsked). It says
\* nothing of patterns that hold the escape character, whatever the engine's
\* LIKE makes of it (Unescaped).
THEOREM ListedExactly == CatalogSpec => []ListedAsAsked
<1>1. ListedAsAsked <=> (returned = "ok" => RowsAsAsked(asked.call, asked.args, shown))
  BY Zenon DEF ListedAsAsked, RowsAsAsked, Found, Fits, Asked, Listed
<1>2. CatalogInit => ListedAsAsked
  BY <1>1, Zenon DEF CatalogInit
<1>3. ListedAsAsked /\ [CatalogNext]_catalogVars => ListedAsAsked'
  <2> SUFFICES ASSUME ListedAsAsked, [CatalogNext]_catalogVars PROVE ListedAsAsked'
    OBVIOUS
  <2>1. ListedAsAsked' <=> (returned' = "ok" => RowsAsAsked(asked'.call, asked'.args, shown'))
    BY Zenon DEF ListedAsAsked, RowsAsAsked, Found, Fits, Asked, Listed
  <2>2. CASE UNCHANGED catalogVars
    BY <1>1, <2>1, <2>2, Zenon DEF catalogVars
  <2>3. ASSUME NEW args \in Arguments, SQLTables(args) PROVE ListedAsAsked'
    <3>1. asked'.call = "tables" /\ asked'.args = args
      BY <2>3 DEF SQLTables
    <3>2. CASE AllCatalogs(args) \/ AllTypes(args)
      BY <2>1, <3>1, <3>2, Zenon DEF RowsAsAsked
    <3>3. CASE ~(AllCatalogs(args) \/ AllTypes(args))
      <4>1. \/ shown' = TableRows({t \in Tables : Selects(TablesQuery(args), t)}, args.types)
            \/ returned' = "error"
        BY <2>3, <3>3, Zenon DEF SQLTables, Install, QueryFails
      <4>2. returned' = "error" => returned' # "ok"
        OBVIOUS
      <4>3. QED
        BY <2>1, <3>1, <3>3, <4>1, <4>2, TablesShown, Zenon
    <3>4. QED
      BY <3>2, <3>3
  <2>4. ASSUME NEW args \in Arguments, SQLColumns(args) PROVE ListedAsAsked'
    <3>1. asked'.call = "columns" /\ asked'.args = args
      BY <2>4 DEF SQLColumns
    <3>2. \/ shown' = {ColumnRow(c) : c \in {c \in TableColumns : Selects(ColumnsQuery(args), c)}}
          \/ returned' = "error"
      BY <2>4, Zenon DEF SQLColumns, Install, QueryFails
    <3>3. returned' = "error" => returned' # "ok"
      OBVIOUS
    <3>4. QED
      BY <2>1, <3>1, <3>2, <3>3, ColumnsShown, Zenon
  <2>5. ASSUME asked'.call \notin {"tables", "columns"} PROVE ListedAsAsked'
    BY <2>1, <2>5, Zenon DEF RowsAsAsked
  <2>6. ASSUME NEW dataType, SQLGetTypeInfo(dataType) PROVE ListedAsAsked'
    <3>1. asked'.call = "typeinfo"
      BY <2>6 DEF SQLGetTypeInfo
    <3>2. QED
      BY <2>5, <3>1
  <2>7. ASSUME EmptyResult PROVE ListedAsAsked'
    <3>1. asked'.call = "empty"
      BY <2>7 DEF EmptyResult
    <3>2. QED
      BY <2>5, <3>1
  <2>8. QED
    BY <2>2, <2>3, <2>4, <2>6, <2>7, Zenon DEF CatalogNext
<1>4. QED
  BY <1>2, <1>3, PTL DEF CatalogSpec

------------------------------------------------------------------------------
\* The parser
\* What the parser knows between two tokens.
Shape(p) ==
    /\ p \in [place : Places, open : Seq(Brackets), depth : Nat]
    /\ p.depth = Len(p.open)
    /\ p.depth <= MaxDepth
    /\ p.place \in {"first_key", "first_item"} => p.open # <<>>

\* The types of a parser's parts.
LEMMA Fields ==
    ASSUME NEW p, Shape(p)
    PROVE  p.place \in Places /\ p.open \in Seq(Brackets) /\ p.depth \in Nat
BY DEF Shape

\* Giving up loses nothing of what is known.
LEMMA FailedShape == Shape(Failed)
BY MaxDepthAssumption DEF Shape, Failed, Places

\* Moving on inside the brackets that are open.
LEMMA GotoShape ==
    ASSUME NEW p, Shape(p), NEW place \in Places \ {"first_key", "first_item"}
    PROVE  Shape(Goto(p, place))
BY DEF Shape, Goto

\* A bracket opens one level, unless the limit is reached (parse_value, json.c:435-444).
LEMMA OpenShape ==
    ASSUME NEW p, Shape(p), NEW token \in Brackets
    PROVE  Shape(Open(p, token))
<1>1. CASE p.depth >= MaxDepth
  BY <1>1, FailedShape DEF Open
<1>2. CASE ~(p.depth >= MaxDepth)
  <2>1. /\ <<token>> \o p.open \in Seq(Brackets)
        /\ Len(<<token>> \o p.open) = p.depth + 1
        /\ <<token>> \o p.open # <<>>
    <3>1. p.open \in Seq(Brackets) /\ Len(p.open) = p.depth /\ p.depth \in Nat
      BY Fields DEF Shape
    <3>2. <<token>> \in Seq(Brackets) /\ Len(<<token>>) = 1
      OBVIOUS
    <3>3. /\ <<token>> \o p.open \in Seq(Brackets)
          /\ Len(<<token>> \o p.open) = 1 + Len(p.open)
      BY <3>1, <3>2, ConcatProperties
    <3>4. QED
      BY <3>1, <3>3, EmptySeq
  <2>2. p.depth + 1 \in Nat /\ p.depth + 1 <= MaxDepth
    BY <1>2, Fields, MaxDepthAssumption
  <2>3. QED
    BY <1>2, <2>1, <2>2 DEF Open, Shape, Places
<1>3. QED
  BY <1>1, <1>2

\* With a bracket open, closing it takes one level off.
LEMMA CloseShape ==
    ASSUME NEW p, Shape(p), p.open # <<>>
    PROVE  Shape(Close(p))
<1>1. /\ Tail(p.open) \in Seq(Brackets)
      /\ Len(Tail(p.open)) = p.depth - 1
      /\ p.depth - 1 \in Nat
  BY Fields, HeadTailProperties, EmptySeq DEF Shape
<1>2. p.depth \in Nat /\ p.depth <= MaxDepth
  BY Fields DEF Shape
<1>3. p.depth - 1 <= MaxDepth
  BY <1>2, MaxDepthAssumption
<1>4. QED
  BY <1>1, <1>3 DEF Shape, Close, Places

\* Whatever a value begins with (parse_value).
LEMMA BeginValueShape ==
    ASSUME NEW p, Shape(p), NEW token \in Tokens
    PROVE  Shape(BeginValue(p, token))
<1>1. Shape(Goto(p, "in_string")) /\ Shape(Goto(p, "after")) /\ Shape(Goto(p, "in_number"))
  BY GotoShape DEF Places
<1>2. token \in Brackets => Shape(Open(p, token))
  BY OpenShape
<1>3. QED
  BY <1>1, <1>2, FailedShape DEF BeginValue

\* Whatever follows a value (parse_array, parse_object).
LEMMA FollowValueShape ==
    ASSUME NEW p, Shape(p), NEW token \in Tokens
    PROVE  Shape(FollowValue(p, token))
<1>1. Shape(Goto(p, "key")) /\ Shape(Goto(p, "value"))
  BY GotoShape DEF Places
<1>2. p.open # <<>> => Shape(Close(p))
  BY CloseShape
<1>3. CASE p.open = <<>>
  BY <1>3, FailedShape DEF FollowValue
<1>4. CASE p.open # <<>>
  BY <1>1, <1>2, <1>4, FailedShape DEF FollowValue
<1>5. QED
  BY <1>3, <1>4

\* One token, whatever it is and wherever it comes.
LEMMA StepShape ==
    ASSUME NEW p, Shape(p), NEW token \in Tokens
    PROVE  Shape(Step(p, token))
<1>1. /\ Shape(Goto(p, "after")) /\ Shape(Goto(p, "colon")) /\ Shape(Goto(p, "in_key"))
      /\ Shape(Goto(p, "in_string")) /\ Shape(Goto(p, "key_escape"))
      /\ Shape(Goto(p, "string_escape")) /\ Shape(Goto(p, "value"))
  BY GotoShape DEF Places
<1>2. Shape(InString(p, token)) /\ Shape(Escaped(p, token))
  BY <1>1, FailedShape DEF InString, Escaped
<1>3. ASSUME NEW q, Shape(q), q.place \in {"after", "value", "first_item", "colon", "first_key", "key"}
      PROVE  Shape(Solid(q, token))
  <2>1. Shape(Goto(q, "value")) /\ Shape(Goto(q, "in_key"))
    BY <1>3, GotoShape DEF Places
  <2>2. q.place \in {"first_key", "first_item"} => Shape(Close(q))
    BY <1>3, CloseShape DEF Shape
  <2>3. Shape(FollowValue(q, token)) /\ Shape(BeginValue(q, token))
    BY <1>3, FollowValueShape, BeginValueShape
  <2>4. QED
    BY <1>3, <2>1, <2>2, <2>3, FailedShape DEF Solid
<1>4. CASE p.place \in {"failed", "in_key", "in_string", "key_escape", "string_escape"}
  BY <1>2, <1>4, FailedShape DEF Step
<1>5. CASE p.place = "in_number"
  <2>1. Goto(p, "after").place = "after"
    BY DEF Goto, Shape
  <2>2. Shape(Solid(Goto(p, "after"), token))
    BY <1>1, <1>3, <2>1
  <2>3. QED
    BY <1>1, <1>5, <2>2 DEF Step
<1>6. CASE p.place \in {"after", "value", "first_item", "colon", "first_key", "key"}
  BY <1>3, <1>6 DEF Step
<1>7. QED
  BY <1>4, <1>5, <1>6 DEF Shape, Places

\* However long a text, and however its brackets follow each other, the
\* parser's recursion is as deep as the brackets that are open and no deeper
\* than the limit (json.c:23-27).
THEOREM DepthStaysBounded == ReadingSpec => []DepthBounded
<1>1. ReadingInit => Shape(parser)
  BY MaxDepthAssumption DEF ReadingInit, Start, Shape, Places
<1>2. Shape(parser) /\ [ReadingNext]_readingVars => Shape(parser)'
  <2> SUFFICES ASSUME Shape(parser), [ReadingNext]_readingVars
               PROVE  Shape(parser')
    BY DEF Shape
  <2>1. CASE ReadingNext
    BY <2>1, StepShape DEF ReadingNext, Read
  <2>2. CASE UNCHANGED readingVars
    BY <2>2 DEF readingVars
  <2>3. QED
    BY <2>1, <2>2
<1>3. Shape(parser) => DepthBounded
  BY DEF Shape, DepthBounded
<1>4. QED
  BY <1>1, <1>2, <1>3, PTL DEF ReadingSpec
------------------------------------------------------------------------------
\* A statement in the string of a request

\* The function Parsed defines, for the first n tokens.
IsParse(f, word, n) ==
    f = [i \in 0..n |-> IF i = 0 THEN Start ELSE Step(f[i - 1], word[i])]

LEMMA ParseExists ==
    ASSUME NEW word, NEW length \in Nat
    PROVE  \E f : IsParse(f, word, length)
<1> DEFINE Missing == {n \in Nat : ~ \E f : IsParse(f, word, n)}
<1>1. SUFFICES ASSUME Missing # {} PROVE FALSE
  OBVIOUS
<1>2. PICK least \in Missing : \A n \in Missing : least <= n
  BY <1>1, LeastOf
<1>3. CASE least = 0
  <2> DEFINE f == [i \in 0..0 |-> Start]
  <2>1. f = [i \in 0..0 |-> IF i = 0 THEN Start ELSE Step(f[i - 1], word[i])]
    OBVIOUS
  <2>2. IsParse(f, word, 0)
    BY <2>1 DEF IsParse
  <2>3. QED
    BY <1>2, <1>3, <2>2
<1>4. CASE least # 0
  <2>1. least \in Nat /\ least - 1 \in Nat /\ ~(least <= least - 1)
    BY <1>2, <1>4
  <2>2. PICK f : IsParse(f, word, least - 1)
    BY <1>2, <2>1
  <2> DEFINE g == [i \in 0..least |-> IF i < least THEN f[i] ELSE Step(f[least - 1], word[least])]
  <2>3. ASSUME NEW i \in 0..least
        PROVE  g[i] = IF i = 0 THEN Start ELSE Step(g[i - 1], word[i])
    <3>1. i # 0 => i - 1 \in 0..least /\ i - 1 < least
      BY <2>1
    <3>2. i # 0 => g[i - 1] = f[i - 1]
      BY <3>1
    <3>3. CASE i < least
      <4>1. i \in 0..(least - 1) /\ g[i] = f[i]
        BY <2>1, <3>3
      <4>2. f[i] = IF i = 0 THEN Start ELSE Step(f[i - 1], word[i])
        BY <2>2, <4>1 DEF IsParse
      <4>3. QED
        BY <3>2, <4>1, <4>2
    <3>4. CASE ~(i < least)
      <4>1. i = least /\ g[i] = Step(f[least - 1], word[least])
        BY <2>1, <3>4
      <4>2. QED
        BY <1>4, <3>2, <4>1
    <3>5. QED
      BY <3>3, <3>4
  <2>4. g = [i \in 0..least |-> IF i = 0 THEN Start ELSE Step(g[i - 1], word[i])]
    BY <2>3
  <2>5. IsParse(g, word, least)
    BY <2>4 DEF IsParse
  <2>6. QED
    BY <1>2, <2>5
<1>5. QED
  BY <1>3, <1>4

LEMMA ParsedSteps ==
    ASSUME NEW word, Len(word) \in Nat
    PROVE  /\ Parsed(word)[0] = Start
           /\ \A i \in 1..Len(word) : Parsed(word)[i] = Step(Parsed(word)[i - 1], word[i])
<1> DEFINE n == Len(word)
           P == CHOOSE f : IsParse(f, word, n)
<1>1. Parsed(word) = P
  BY Zenon DEF Parsed, IsParse
<1>2. IsParse(P, word, n)
  BY ParseExists
<1> HIDE DEF P, n
<1>3. P = [i \in 0..n |-> IF i = 0 THEN Start ELSE Step(P[i - 1], word[i])]
  BY <1>2 DEF IsParse
<1>4. \A i \in 0..n : P[i] = IF i = 0 THEN Start ELSE Step(P[i - 1], word[i])
  BY <1>3, Zenon
<1>5. n \in Nat /\ 0 \in 0..n /\ \A i \in 1..n : i \in 0..n /\ i # 0
  BY DEF n
<1>6. QED
  BY <1>1, <1>4, <1>5 DEF n

\* What stands for each character of a statement.
Pieces(sql) ==
    [i \in DOMAIN sql |->
        CASE sql[i] \in {"quote", "backslash"} -> <<"backslash", sql[i]>>
          [] sql[i] = "control" -> <<"backslash", "char">>
          [] OTHER -> <<sql[i]>>]

SqlTokens == Tokens \cup {"control"}

\* The parser inside of a string at the top, and behind a backslash there.
Inside == Goto(Start, "in_string")
BehindSlash == Goto(Start, "string_escape")

LEMMA InsideSteps ==
    /\ Step(Start, "quote") = Inside
    /\ Step(Inside, "quote") = Goto(Start, "after")
    /\ Step(Inside, "backslash") = BehindSlash
    /\ \A token : token \notin {"quote", "backslash"} => Step(Inside, token) = Inside
    /\ \A token \in {"quote", "backslash", "char"} : Step(BehindSlash, token) = Inside
    /\ Inside.place = "in_string" /\ BehindSlash.place = "string_escape"
    /\ Goto(Start, "after").place = "after"
<1>1. /\ Inside = [place |-> "in_string", open |-> <<>>, depth |-> 0]
      /\ BehindSlash = [place |-> "string_escape", open |-> <<>>, depth |-> 0]
      /\ Goto(Inside, "after") = Goto(Start, "after")
      /\ Goto(Inside, "string_escape") = BehindSlash
      /\ Goto(BehindSlash, "in_string") = Inside
      /\ Goto(Start, "after").place = "after"
  <2>1. \A place : Goto(Start, place) = [place |-> place, open |-> <<>>, depth |-> 0]
    BY DEF Goto, Start
  <2>2. /\ Inside = [place |-> "in_string", open |-> <<>>, depth |-> 0]
        /\ BehindSlash = [place |-> "string_escape", open |-> <<>>, depth |-> 0]
    BY <2>1 DEF Inside, BehindSlash
  <2>3. \A place : Goto(Inside, place) = [place |-> place, open |-> <<>>, depth |-> 0]
    BY <2>2 DEF Goto
  <2>4. \A place : Goto(BehindSlash, place) = [place |-> place, open |-> <<>>, depth |-> 0]
    BY <2>2 DEF Goto
  <2>5. QED
    BY <2>1, <2>2, <2>3, <2>4
<1>2. Step(Start, "quote") = Inside
  BY DEF Step, Solid, BeginValue, Start, Inside, Brackets
<1>3. \A token : Step(Inside, token) = InString(Inside, token)
  BY <1>1 DEF Step
<1>4. \A token : Step(BehindSlash, token) = Escaped(BehindSlash, token)
  BY <1>1 DEF Step
<1>5. /\ InString(Inside, "quote") = Goto(Start, "after")
      /\ InString(Inside, "backslash") = BehindSlash
      /\ \A token : token \notin {"quote", "backslash"} => InString(Inside, token) = Inside
  BY <1>1 DEF InString
<1>6. \A token \in {"quote", "backslash", "char"} : Escaped(BehindSlash, token) = Inside
  BY <1>1 DEF Escaped
<1>7. QED
  BY <1>1, <1>2, <1>3, <1>4, <1>5, <1>6

LEMMA PiecesShape ==
    ASSUME NEW sql \in Seq(SqlTokens)
    PROVE  /\ Pieces(sql) \in Seq(Seq(Tokens)) /\ Len(Pieces(sql)) = Len(sql)
           /\ \A k \in 1..Len(sql) :
                \/ /\ Len(Pieces(sql)[k]) = 2
                   /\ Pieces(sql)[k][1] = "backslash"
                   /\ Pieces(sql)[k][2] \in {"quote", "backslash", "char"}
                \/ /\ Len(Pieces(sql)[k]) = 1
                   /\ Pieces(sql)[k][1] \notin {"quote", "backslash", "control"}
<1> DEFINE n == Len(sql)
<1>1. n \in Nat /\ DOMAIN sql = 1..n /\ \A k \in 1..n : sql[k] \in SqlTokens
  OBVIOUS
<1>2. ASSUME NEW k \in 1..n
      PROVE  \/ \E x \in {"quote", "backslash", "char"} : Pieces(sql)[k] = <<"backslash", x>>
             \/ \E x \in Tokens \ {"quote", "backslash"} : Pieces(sql)[k] = <<x>>
  <2>1. CASE sql[k] \in {"quote", "backslash"}
    BY <1>1, <2>1 DEF Pieces
  <2>2. CASE sql[k] = "control"
    BY <1>1, <2>2 DEF Pieces
  <2>3. CASE sql[k] \notin {"quote", "backslash", "control"}
    <3>1. Pieces(sql)[k] = <<sql[k]>>
      BY <1>1, <2>3 DEF Pieces
    <3>2. sql[k] \in Tokens \ {"quote", "backslash"}
      BY <1>1, <2>3 DEF SqlTokens
    <3>3. QED
      BY <3>1, <3>2
  <2>4. QED
    BY <2>1, <2>2, <2>3
<1>3. {"quote", "backslash", "char"} \subseteq Tokens /\ "control" \notin Tokens
  BY DEF Tokens, Brackets
<1>4. \A k \in 1..n : Pieces(sql)[k] \in Seq(Tokens)
  <2>1. \A x, y \in Tokens : <<x, y>> \in Seq(Tokens) /\ <<x>> \in Seq(Tokens)
    OBVIOUS
  <2>2. QED
    BY <1>2, <1>3, <2>1
<1>5. Pieces(sql) = [k \in 1..n |-> Pieces(sql)[k]]
  BY <1>1 DEF Pieces
<1>6. Pieces(sql) \in Seq(Seq(Tokens)) /\ Len(Pieces(sql)) = n
  BY <1>1, <1>4, <1>5
<1>7. /\ \A x : /\ Len(<<"backslash", x>>) = 2 /\ <<"backslash", x>>[1] = "backslash"
               /\ <<"backslash", x>>[2] = x
      /\ \A x : Len(<<x>>) = 1 /\ <<x>>[1] = x
  OBVIOUS
<1>8. ASSUME NEW k \in 1..n
      PROVE  \/ /\ Len(Pieces(sql)[k]) = 2
                /\ Pieces(sql)[k][1] = "backslash"
                /\ Pieces(sql)[k][2] \in {"quote", "backslash", "char"}
             \/ /\ Len(Pieces(sql)[k]) = 1
                /\ Pieces(sql)[k][1] \notin {"quote", "backslash", "control"}
  <2>1. ASSUME NEW x \in {"quote", "backslash", "char"}, Pieces(sql)[k] = <<"backslash", x>>
        PROVE  /\ Len(Pieces(sql)[k]) = 2
               /\ Pieces(sql)[k][1] = "backslash"
               /\ Pieces(sql)[k][2] \in {"quote", "backslash", "char"}
    BY <1>7, <2>1
  <2>2. ASSUME NEW x \in Tokens \ {"quote", "backslash"}, Pieces(sql)[k] = <<x>>
        PROVE  /\ Len(Pieces(sql)[k]) = 1
               /\ Pieces(sql)[k][1] \notin {"quote", "backslash", "control"}
    BY <1>3, <1>7, <2>2
  <2>3. QED
    BY <1>2, <2>1, <2>2
<1>9. QED
  BY <1>6, <1>8

\* However long a statement is and whatever it is made of: its string goes on
\* to the last quote that was written and no further, and holds no bare control
\* character (fl_strbuf_append_json_string, json.c).
THEOREM StatementsHeld == \A sql \in Seq(SqlTokens) : HeldByItsString(sql)
<1> SUFFICES ASSUME NEW sql \in Seq(SqlTokens) PROVE HeldByItsString(sql)
  OBVIOUS
<1> DEFINE n == Len(sql)
           pieces == Pieces(sql)
           inner == FlattenSeq(pieces)
           size == Len(inner)
           s == WriteString(sql)
           P == Parsed(s)
<1>1. /\ n \in Nat /\ pieces \in Seq(Seq(Tokens)) /\ Len(pieces) = n
      /\ \A k \in 1..n :
            \/ /\ Len(pieces[k]) = 2
               /\ pieces[k][1] = "backslash" /\ pieces[k][2] \in {"quote", "backslash", "char"}
            \/ Len(pieces[k]) = 1 /\ pieces[k][1] \notin {"quote", "backslash", "control"}
  BY PiecesShape
<1>2. inner \in Seq(Tokens) /\ \E at : Ends(at, pieces, inner)
  <2> HIDE DEF pieces
  <2>1. QED
    BY <1>1, Flattened
<1>3. PICK at : Ends(at, pieces, inner)
  BY <1>2
<1>4. /\ at \in [0..n -> Nat] /\ at[0] = 0 /\ at[n] = size
      /\ \A k \in 1..n :
            /\ at[k] = at[k - 1] + Len(pieces[k])
            /\ at[k] <= size
            /\ \A j \in 1..Len(pieces[k]) : inner[at[k - 1] + j] = pieces[k][j]
  BY <1>1, <1>3 DEF Ends
<1>5. /\ size \in Nat /\ Len(s) = size + 2
      /\ s[1] = "quote" /\ s[size + 2] = "quote"
      /\ \A j \in 1..size : s[j + 1] = inner[j]
  <2>1. s = <<"quote">> \o inner \o <<"quote">>
    BY Zenon DEF WriteString, Pieces
  <2>2. "quote" \in Tokens /\ <<>> \in Seq(Tokens)
    BY DEF Tokens
  <2> HIDE DEF inner
  <2>3. QED
    BY <1>2, <2>1, <2>2, Enclosed
<1> HIDE DEF s
<1>6. P[0] = Start /\ \A i \in 1..size + 2 : P[i] = Step(P[i - 1], s[i])
  <2>1. Len(s) \in Nat
    BY <1>5
  <2>2. QED
    BY <1>5, <2>1, ParsedSteps
<1> HIDE DEF n, pieces, inner, size, P
\* Behind every piece the parser is inside of the string.
<1> DEFINE Kept(i) == P[i] \in {Inside, BehindSlash} /\ s[i] # "control"
           Holds(k) == P[at[k] + 1] = Inside /\ \A i \in 1..at[k] + 1 : Kept(i)
<1>7. Holds(0)
  <2>1. 1 \in 1..size + 2 /\ 1 - 1 = 0
    BY <1>5
  <2>2. P[1] = Inside
    BY <1>5, <1>6, <2>1, InsideSteps
  <2>3. at[0] + 1 = 1 /\ \A i \in 1..1 : i = 1
    BY <1>4
  <2>4. Kept(1)
    BY <1>5, <2>2
  <2> HIDE DEF Kept
  <2>5. QED
    BY <2>2, <2>3, <2>4
<1>8. ASSUME NEW k \in 1..n, Holds(k - 1) PROVE Holds(k)
  <2> DEFINE a == at[k - 1]
  <2>1. /\ a \in Nat /\ at[k] \in Nat /\ at[k] <= size
        /\ at[k] = a + Len(pieces[k])
        /\ \A j \in 1..Len(pieces[k]) : inner[a + j] = pieces[k][j]
    <3>1. k \in 0..n /\ k - 1 \in 0..n
      BY <1>1
    <3>2. QED
      BY <1>4, <3>1
  <2>2. P[a + 1] = Inside /\ \A i \in 1..a + 1 : Kept(i)
    BY <1>8
  <2> HIDE DEF a
  <2>3. CASE /\ Len(pieces[k]) = 2
             /\ pieces[k][1] = "backslash" /\ pieces[k][2] \in {"quote", "backslash", "char"}
    <3>1. /\ a + 1 \in 1..size /\ a + 2 \in 1..size /\ a + 1 + 1 = a + 2 /\ a + 2 + 1 = a + 3
          /\ a + 2 \in 1..size + 2 /\ a + 3 \in 1..size + 2 /\ a + 2 - 1 = a + 1 /\ a + 3 - 1 = a + 2
          /\ at[k] = a + 2 /\ 1 \in 1..2 /\ 2 \in 1..2
      BY <1>5, <2>1, <2>3
    <3>2. s[a + 2] = "backslash" /\ s[a + 3] \in {"quote", "backslash", "char"}
      <4>1. s[a + 1 + 1] = inner[a + 1] /\ s[a + 2 + 1] = inner[a + 2]
        BY <1>5, <3>1
      <4>2. inner[a + 1] = pieces[k][1] /\ inner[a + 2] = pieces[k][2]
        BY <2>1, <2>3, <3>1
      <4>3. QED
        BY <2>3, <3>1, <4>1, <4>2
    <3>3. P[a + 2] = BehindSlash
      <4>1. P[a + 2] = Step(P[a + 2 - 1], s[a + 2])
        BY <1>6, <3>1
      <4>2. QED
        BY <2>2, <3>1, <3>2, <4>1, InsideSteps
    <3>4. P[a + 3] = Inside
      <4>1. P[a + 3] = Step(P[a + 3 - 1], s[a + 3])
        BY <1>6, <3>1
      <4>2. QED
        BY <3>1, <3>2, <3>3, <4>1, InsideSteps
    <3>5. Kept(a + 2) /\ Kept(a + 3)
      BY <3>2, <3>3, <3>4
    <3>6. at[k] + 1 = a + 3 /\ \A i \in 1..a + 3 : i \in 1..a + 1 \/ i = a + 2 \/ i = a + 3
      BY <2>1, <3>1
    <3> HIDE DEF Kept
    <3>7. \A i \in 1..a + 3 : Kept(i)
      BY <2>2, <3>5, <3>6
    <3>8. QED
      BY <3>4, <3>6, <3>7
  <2>4. CASE Len(pieces[k]) = 1 /\ pieces[k][1] \notin {"quote", "backslash", "control"}
    <3>1. /\ a + 1 \in 1..size /\ a + 1 + 1 = a + 2 /\ a + 2 \in 1..size + 2 /\ a + 2 - 1 = a + 1
          /\ at[k] = a + 1 /\ 1 \in 1..1
      BY <1>5, <2>1, <2>4
    <3>2. s[a + 2] \notin {"quote", "backslash", "control"}
      <4>1. s[a + 1 + 1] = inner[a + 1]
        BY <1>5, <3>1
      <4>2. inner[a + 1] = pieces[k][1]
        BY <2>1, <2>4, <3>1
      <4>3. QED
        BY <2>4, <3>1, <4>1, <4>2
    <3>3. P[a + 2] = Inside
      <4>1. P[a + 2] = Step(P[a + 2 - 1], s[a + 2])
        BY <1>6, <3>1
      <4>2. QED
        BY <2>2, <3>1, <3>2, <4>1, InsideSteps
    <3>4. Kept(a + 2)
      BY <3>2, <3>3
    <3>5. at[k] + 1 = a + 2 /\ \A i \in 1..a + 2 : i \in 1..a + 1 \/ i = a + 2
      BY <2>1, <3>1
    <3> HIDE DEF Kept
    <3>6. \A i \in 1..a + 2 : Kept(i)
      BY <2>2, <3>4, <3>5
    <3>7. QED
      BY <3>3, <3>5, <3>6
  <2>5. QED
    BY <1>1, <2>3, <2>4
<1> HIDE DEF Kept
<1>9. Holds(n)
  <2> DEFINE Failing == {k \in 0..n : ~Holds(k)}
  <2> HIDE DEF Holds
  <2>1. SUFFICES ASSUME Failing # {} PROVE FALSE
    BY <1>1
  <2>2. Failing \subseteq Nat
    BY <1>1
  <2>3. PICK k \in Failing : \A m \in Failing : k <= m
    <3> HIDE DEF Failing
    <3>1. QED
      BY <2>1, <2>2, LeastOf
  <2>4. k # 0
    BY <1>7, <2>3
  <2>5. k \in 1..n /\ k - 1 \in 0..n /\ ~(k <= k - 1)
    BY <1>1, <2>3, <2>4
  <2>6. Holds(k - 1)
    BY <2>3, <2>5
  <2>7. Holds(k)
    BY <1>8, <2>5, <2>6
  <2>8. QED
    BY <2>3, <2>7
<1>10. P[size + 1] = Inside /\ \A i \in 1..size + 1 : Kept(i)
  BY <1>4, <1>9
<1>11. P[size + 2].place = "after"
  <2>1. PICK last \in 1..size + 2 : last = size + 2 /\ last - 1 = size + 1
    BY <1>5
  <2>2. P[size + 2] = Step(P[size + 1], s[size + 2])
    <3>1. P[last] = Step(P[last - 1], s[last])
      BY <1>6
    <3>2. QED
      BY <2>1, <3>1
  <2>3. QED
    BY <1>5, <1>10, <2>2, InsideSteps
<1>12. \A i \in 1..Len(s) - 1 : P[i].place \in {"in_string", "string_escape"}
  <2>1. \A i \in 1..Len(s) - 1 : i \in 1..size + 1
    BY <1>5
  <2>2. QED
    BY <1>10, <2>1, InsideSteps DEF Kept
<1>13. ~Contains(s, "control")
  <2>1. \A i \in 1..Len(s) : i \in 1..size + 1 \/ i = size + 2
    BY <1>5
  <2>2. \A i \in 1..Len(s) : s[i] # "control"
    BY <1>5, <1>10, <2>1 DEF Kept
  <2>3. QED
    BY <2>2 DEF Contains
<1>14. QED
  BY <1>5, <1>11, <1>12, <1>13, Zenon DEF HeldByItsString, P, s

------------------------------------------------------------------------------
\* Identifiers

NameLetters == {"quote", "a", "1", " "}

\* And what stands for the end of a name that is not closed.
Letters == NameLetters \cup {"unclosed"}
Words == Seq(Letters)

LEMMA LettersHeld ==
    /\ {"quote", "a", "1", "unclosed", Space} \subseteq Letters
    /\ Space \notin {"quote", "a", "1"}
BY Zenon DEF Letters, NameLetters, Space

\* What ReadIdentifier says of one place, given what it says of those behind.
IdentifierAt(s, from, i) ==
    LET pair == i < Len(s) /\ s[i] = "quote" /\ s[i + 1] = "quote"
        next == from[IF pair THEN i + 2 ELSE i + 1]
    IN  IF i > Len(s) THEN [name |-> <<>>, quoted |-> TRUE, rest |-> <<"unclosed">>]
        ELSE IF s[i] = "quote" /\ ~pair
        THEN [name |-> <<>>, quoted |-> TRUE, rest |-> SubSeq(s, i + 1, Len(s))]
        ELSE [name |-> <<s[i]>> \o next.name, quoted |-> TRUE, rest |-> next.rest]

Identified == [name : Words, quoted : {TRUE}, rest : Words]

LEMMA IdentifierAtType ==
    ASSUME NEW s \in Words, NEW i \in 2..Len(s) + 2, NEW f \in [2..Len(s) + 2 -> Identified]
    PROVE  IdentifierAt(s, f, i) \in Identified
<1> DEFINE pair == i < Len(s) /\ s[i] = "quote" /\ s[i + 1] = "quote"
           next == f[IF pair THEN i + 2 ELSE i + 1]
<1>1. Len(s) \in Nat /\ \A k \in 1..Len(s) : s[k] \in Letters
  BY DEF Words
<1>2. <<>> \in Words /\ <<"unclosed">> \in Words /\ SubSeq(s, i + 1, Len(s)) \in Words
  <2>1. \A k \in i + 1..Len(s) : s[k] \in Letters
    BY <1>1
  <2>2. SubSeq(s, i + 1, Len(s)) \in Words
    BY <1>1, <2>1, SubSeqProperties DEF Words
  <2>3. "unclosed" \in Letters
    BY LettersHeld
  <2>4. QED
    BY <2>2, <2>3 DEF Words
<1>3. CASE i > Len(s)
  <2>1. IdentifierAt(s, f, i) = [name |-> <<>>, quoted |-> TRUE, rest |-> <<"unclosed">>]
    BY <1>3, Zenon DEF IdentifierAt
  <2>2. QED
    BY <1>2, <2>1 DEF Identified
<1>4. CASE ~(i > Len(s)) /\ s[i] = "quote" /\ ~pair
  <2>1. IdentifierAt(s, f, i) = [name |-> <<>>, quoted |-> TRUE, rest |-> SubSeq(s, i + 1, Len(s))]
    BY <1>4, Zenon DEF IdentifierAt
  <2>2. QED
    BY <1>2, <2>1 DEF Identified
<1>5. CASE ~(i > Len(s)) /\ ~(s[i] = "quote" /\ ~pair)
  <2>1. IdentifierAt(s, f, i) = [name |-> <<s[i]>> \o next.name, quoted |-> TRUE, rest |-> next.rest]
    BY <1>5, Zenon DEF IdentifierAt
  <2>2. s[i] \in Letters /\ next \in Identified
    <3>1. i \in 1..Len(s) /\ i + 1 \in 2..Len(s) + 2
      BY <1>1, <1>5
    <3>2. pair => i + 2 \in 2..Len(s) + 2
      BY <1>1
    <3>3. QED
      BY <1>1, <3>1, <3>2
  <2>3. <<s[i]>> \o next.name \in Words /\ next.rest \in Words
    <3>1. next.name \in Seq(Letters) /\ next.rest \in Words
      BY <2>2 DEF Identified, Words
    <3>2. <<s[i]>> \in Seq(Letters)
      BY <2>2
    <3>3. QED
      BY <3>1, <3>2, ConcatProperties DEF Words
  <2> HIDE DEF next
  <2>4. QED
    BY <2>1, <2>3 DEF Identified
<1>6. QED
  BY <1>3, <1>4, <1>5

\* The function in ReadIdentifier, for what begins with a quote.
Identifying(s) == CHOOSE f : f = [i \in 2..Len(s) + 2 |-> IdentifierAt(s, f, i)]

LEMMA IdentifierSteps ==
    ASSUME NEW s \in Words, s[1] = "quote"
    PROVE  /\ ReadIdentifier(s) = Identifying(s)[2]
           /\ \A i \in 2..Len(s) + 2 : Identifying(s)[i] = IdentifierAt(s, Identifying(s), i)
<1> DEFINE last == Len(s) + 2
           G == [i \in 2..last |-> [f \in [2..last -> Identified] |-> IdentifierAt(s, f, i)]]
<1>1. last \in Nat
  BY DEF Words
<1>2. G \in [2..last -> [[2..last -> Identified] -> Identified]]
  BY IdentifierAtType
<1>3. LooksAhead(G, 2, last, Identified)
  <2>1. ASSUME NEW i \in 2..last,
               NEW f \in [2..last -> Identified], NEW g \in [2..last -> Identified],
               \A j \in i + 1..last : f[j] = g[j]
        PROVE  G[i][f] = G[i][g]
    <3>1. CASE i > Len(s)
      BY <3>1 DEF IdentifierAt
    <3>2. CASE ~(i > Len(s))
      <4>1. i + 1 \in i + 1..last /\ i + 2 \in i + 1..last
        BY <1>1, <3>2
      <4>2. f[i + 1] = g[i + 1] /\ f[i + 2] = g[i + 2]
        BY <2>1, <4>1
      <4>3. IdentifierAt(s, f, i) = IdentifierAt(s, g, i)
        BY <4>2 DEF IdentifierAt
      <4>4. QED
        BY <4>3
    <3>3. QED
      BY <3>1, <3>2
  <2>2. QED
    BY <2>1 DEF LooksAhead
<1>4. Identified # {}
  <2>1. <<>> \in Words
    BY DEF Words
  <2>2. [name |-> <<>>, quoted |-> TRUE, rest |-> <<>>] \in Identified
    BY <2>1 DEF Identified
  <2>3. QED
    BY <2>2
<1>5. PICK f : Solves(f, G, 2, last, Identified)
  <2> HIDE DEF G, last
  <2>1. 2 \in Nat
    OBVIOUS
  <2>2. QED
    BY <1>1, <1>2, <1>3, <1>4, <2>1, RecursionAhead, Zenon
<1>6. f = [i \in 2..last |-> IdentifierAt(s, f, i)]
  <2>1. f \in [2..last -> Identified] /\ \A i \in 2..last : f[i] = IdentifierAt(s, f, i)
    BY <1>5 DEF Solves
  <2>2. QED
    BY <2>1
<1> DEFINE I == Identifying(s)
<1>7. I = [i \in 2..last |-> IdentifierAt(s, I, i)]
  BY <1>6 DEF Identifying
<1>8. ReadIdentifier(s) = I[2]
  BY Zenon DEF ReadIdentifier, Identifying, IdentifierAt
<1> HIDE DEF I
<1>9. \A i \in 2..last : I[i] = IdentifierAt(s, I, i)
  BY <1>7
<1>10. QED
  BY <1>8, <1>9 DEF I

LEMMA QuotedShape ==
    ASSUME NEW name \in Words, NEW rest \in Words
    PROVE  /\ Quoted(name) \in Words /\ Quoted(name) \o rest \in Words
           /\ \E at : Spread(at, Quoted(name) \o rest, "quote", name, {"quote"}, rest)
<1>1. Quoted(name) = InQuotes("quote", name, {"quote"})
  <2>1. \A x : x \in {"quote"} <=> x = "quote"
    OBVIOUS
  <2>2. [i \in DOMAIN name |-> IF name[i] = "quote" THEN <<"quote", "quote">> ELSE <<name[i]>>]
            = Doubled(name, {"quote"})
    BY <2>1 DEF Doubled
  <2>3. QED
    BY <2>2, Zenon DEF Quoted, InQuotes
<1>2. "quote" \in Letters
  BY LettersHeld
<1>3. QED
  BY <1>1, <1>2, QuotesShape DEF Words

\* In quotes every name is read as what it is.
LEMMA QuotedRead ==
    ASSUME NEW name \in Words, NEW rest \in Words, rest # <<>> => rest[1] # "quote"
    PROVE  ReadIdentifier(Quoted(name) \o rest) = [name |-> name, quoted |-> TRUE, rest |-> rest]
<1> DEFINE n == Len(name)
           s == Quoted(name) \o rest
           I == Identifying(s)
           Further(k, next) == [name |-> <<name[k]>> \o next.name, quoted |-> TRUE, rest |-> next.rest]
           From(k) == [name |-> SubSeq(name, k + 1, n), quoted |-> TRUE, rest |-> rest]
<1>1. s \in Words /\ n \in Nat /\ Len(s) \in Nat
  BY QuotedShape DEF Words
<1>2. PICK at \in [0..n -> Nat] :
        /\ at[0] = 0
        /\ Len(s) = at[n] + 2 + Len(rest)
        /\ s[1] = "quote" /\ s[at[n] + 2] = "quote"
        /\ \A j \in 1..Len(rest) : s[at[n] + 2 + j] = rest[j]
        /\ \A k \in 1..n :
            /\ at[k] <= at[n]
            /\ name[k] \in {"quote"} =>
                /\ at[k] = at[k - 1] + 2
                /\ s[at[k - 1] + 2] = name[k] /\ s[at[k - 1] + 3] = name[k]
            /\ name[k] \notin {"quote"} =>
                at[k] = at[k - 1] + 1 /\ s[at[k - 1] + 2] = name[k]
  BY QuotedShape, ZenonT(30) DEF Spread
<1>3. ReadIdentifier(s) = I[2] /\ \A i \in 2..Len(s) + 2 : I[i] = IdentifierAt(s, I, i)
  BY <1>1, <1>2, IdentifierSteps
<1> HIDE DEF s, I
<1>4. Len(rest) \in Nat /\ at[n] \in Nat /\ n \in 0..n /\ 0 \in 0..n
  BY <1>1, <1>2 DEF Words
<1>5. I[at[n] + 2] = From(n)
  <2> DEFINE i == at[n] + 2
  <2>1. i \in 2..Len(s) + 2 /\ ~(i > Len(s))
    BY <1>1, <1>2, <1>4
  <2>2. i < Len(s) => s[i + 1] # "quote"
    <3>1. SUFFICES ASSUME i < Len(s) PROVE s[i + 1] # "quote"
      OBVIOUS
    <3>2. 1 \in 1..Len(rest) /\ rest # <<>>
      BY <1>2, <1>4, <3>1
    <3>3. s[i + 1] = rest[1]
      BY <1>2, <3>2
    <3>4. QED
      BY <3>2, <3>3
  <2>3. SubSeq(s, i + 1, Len(s)) = rest
    <3>1. \A k \in i + 1..Len(s) : s[k] \in Letters
      BY <1>1, <1>4 DEF Words
    <3>2. i + 1 \in Int /\ Len(s) \in Int /\ Len(s) - (i + 1) + 1 = Len(rest)
      BY <1>1, <1>2, <1>4
    <3> DEFINE sub == SubSeq(s, i + 1, Len(s))
    <3>3. /\ sub \in Seq(Letters)
          /\ Len(sub) = IF i + 1 <= Len(s) THEN Len(s) - (i + 1) + 1 ELSE 0
          /\ \A j \in 1..Len(s) - (i + 1) + 1 : sub[j] = s[i + 1 + j - 1]
      BY <3>1, <3>2, SubSeqProperties, SMTT(30)
    <3> HIDE DEF sub
    <3>4. Len(sub) = Len(rest)
      BY <1>1, <1>2, <1>4, <3>2, <3>3
    <3>5. ASSUME NEW j \in 1..Len(sub) PROVE sub[j] = rest[j]
      <4>1. j \in 1..Len(rest) /\ i + 1 + j - 1 = i + j
        BY <1>4, <3>4
      <4>2. sub[j] = s[i + 1 + j - 1]
        BY <3>2, <3>3, <4>1
      <4>3. s[i + j] = rest[j]
        BY <1>2, <4>1
      <4>4. QED
        BY <4>1, <4>2, <4>3
    <3>6. sub = rest
      BY <3>3, <3>4, <3>5, SeqEqual DEF Words
    <3>7. QED
      BY <3>6 DEF sub
  <2>4. SubSeq(name, n + 1, n) = <<>>
    BY <1>1, SubSeqEmpty
  <2>5. s[i] = "quote"
    BY <1>2
  <2> HIDE DEF i
  <2>6. IdentifierAt(s, I, i) = [name |-> <<>>, quoted |-> TRUE, rest |-> SubSeq(s, i + 1, Len(s))]
    BY <2>1, <2>2, <2>5 DEF IdentifierAt
  <2>7. I[i] = IdentifierAt(s, I, i)
    BY <1>3, <2>1
  <2>8. QED
    BY <2>3, <2>4, <2>6, <2>7 DEF i
<1>6. ASSUME NEW k \in 1..n, I[at[k] + 2] = From(k)
      PROVE  I[at[k - 1] + 2] = From(k - 1)
  <2> DEFINE i == at[k - 1] + 2
  <2>1. /\ i \in Nat /\ i >= 2 /\ at[k] \in Nat /\ at[k] <= at[n]
        /\ at[k - 1] + 1 = i - 1 /\ at[k - 1] + 2 = i /\ at[k - 1] + 3 = i + 1
    <3>1. k - 1 \in 0..n /\ k \in 0..n
      BY <1>1
    <3>2. at[k - 1] \in Nat /\ at[k] \in Nat
      BY <3>1
    <3>3. at[k] <= at[n]
      BY <1>2
    <3>4. QED
      BY <3>2, <3>3
  <2>2. SubSeq(name, k, n) = <<name[k]>> \o SubSeq(name, k + 1, n)
    <3>1. k \in 1..Len(name) /\ n \in k..Len(name)
      BY <1>1
    <3>2. QED
      BY <3>1, SubSeqRecursiveFirst DEF Words
  <2>3. From(k - 1) = Further(k, From(k))
    <3>1. k - 1 + 1 = k
      BY <1>1
    <3>2. From(k - 1) = [name |-> SubSeq(name, k, n), quoted |-> TRUE, rest |-> rest]
      BY <3>1
    <3>3. Further(k, From(k))
            = [name |-> <<name[k]>> \o SubSeq(name, k + 1, n), quoted |-> TRUE, rest |-> rest]
      OBVIOUS
    <3>4. QED
      BY <2>2, <3>2, <3>3
  <2> HIDE DEF From
  <2>4. CASE name[k] = "quote"
    <3>1. at[k] = i /\ s[i] = name[k] /\ s[i + 1] = name[k]
      <4>1. /\ at[k] = at[k - 1] + 2
            /\ s[at[k - 1] + 2] = name[k] /\ s[at[k - 1] + 3] = name[k]
        BY <1>2, <2>4
      <4>2. QED
        BY <2>1, <4>1
    <3>2. i < Len(s) /\ i \in 2..Len(s) + 2 /\ ~(i > Len(s))
      <4>1. i <= at[n] + 1 /\ Len(s) = at[n] + 2 + Len(rest)
        BY <1>2, <1>4, <2>1, <3>1
      <4> HIDE DEF i
      <4>2. QED
        BY <1>1, <1>4, <2>1, <4>1, SMTT(30)
    <3> HIDE DEF i
    <3>3. IdentifierAt(s, I, i) = Further(k, I[i + 2])
      BY <2>4, <3>1, <3>2 DEF IdentifierAt
    <3>4. I[i] = IdentifierAt(s, I, i)
      BY <1>3, <3>2
    <3>5. I[i + 2] = From(k)
      BY <1>6, <3>1
    <3>6. QED
      BY <2>3, <3>3, <3>4, <3>5 DEF i
  <2>5. CASE name[k] # "quote"
    <3>1. at[k] + 2 = i + 1 /\ s[i] = name[k]
      <4>1. at[k] = at[k - 1] + 1 /\ s[at[k - 1] + 2] = name[k]
        BY <1>2, <2>5
      <4>2. QED
        BY <2>1, <4>1
    <3>2. i < Len(s) /\ i \in 2..Len(s) + 2 /\ ~(i > Len(s))
      <4>1. i <= at[n] + 1 /\ Len(s) = at[n] + 2 + Len(rest)
        BY <1>2, <1>4, <2>1, <3>1, SMTT(30)
      <4> HIDE DEF i
      <4>2. QED
        BY <1>1, <1>4, <2>1, <4>1, SMTT(30)
    <3> HIDE DEF i
    <3>3. IdentifierAt(s, I, i) = Further(k, I[i + 1])
      BY <2>5, <3>1, <3>2 DEF IdentifierAt
    <3>4. I[i] = IdentifierAt(s, I, i)
      BY <1>3, <3>2
    <3>5. I[i + 1] = From(k)
      BY <1>6, <3>1
    <3>6. QED
      BY <2>3, <3>3, <3>4, <3>5 DEF i
  <2>6. QED
    BY <2>4, <2>5
<1>7. I[at[0] + 2] = From(0)
  <2> DEFINE Wrong == {k \in 0..n : I[at[k] + 2] # From(k)}
  <2>1. SUFFICES ASSUME Wrong # {} PROVE FALSE
    BY <1>4
  <2>2. PICK k \in Wrong : \A m \in Wrong : m <= k
    BY <1>1, <2>1, GreatestOf
  <2>3. k # n
    BY <1>5
  <2>4. k + 1 \in 1..n /\ k + 1 \in 0..n /\ ~(k + 1 <= k) /\ k + 1 - 1 = k
    BY <1>1, <2>3
  <2>5. I[at[k + 1] + 2] = From(k + 1)
    BY <2>2, <2>4
  <2>6. PICK m \in 1..n : m = k + 1
    BY <2>4
  <2>7. I[at[m - 1] + 2] = From(m - 1)
    BY <1>6, <2>5, <2>6
  <2>8. QED
    BY <2>2, <2>4, <2>6, <2>7
<1>8. From(0) = [name |-> name, quoted |-> TRUE, rest |-> rest]
  <2>1. SubSeq(name, 1, n) = name
    BY SubSeqFull DEF Words
  <2>2. 0 + 1 = 1
    OBVIOUS
  <2>3. QED
    BY <2>1, <2>2
<1>9. QED
  <2>1. at[0] + 2 = 2
    BY <1>2
  <2>2. QED
    BY <1>3, <1>7, <1>8, <2>1 DEF s

\* Putting one more piece behind the others.
LEMMA FlattenAppend ==
    ASSUME NEW T, NEW pieces \in Seq(Seq(T)), NEW piece \in Seq(T)
    PROVE  FlattenSeq(Append(pieces, piece)) = FlattenSeq(pieces) \o piece
<1> DEFINE n == Len(pieces)
           more == Append(pieces, piece)
           F(ps, k) == CHOOSE f : IsFlat(f, ps, k)
<1>1. n \in Nat /\ Len(more) = n + 1 /\ more[n + 1] = piece /\ \A k \in 1..n : more[k] = pieces[k]
  OBVIOUS
<1>2. FlattenSeq(more) = F(more, n + 1)[n + 1]
  <2> HIDE DEF more, n
  <2>1. Len(more) = n + 1 /\ Len(more) # 0
    BY <1>1
  <2>2. FlattenSeq(more) = F(more, Len(more))[Len(more)]
    BY <2>1 DEF FlattenSeq, IsFlat
  <2> HIDE DEF F
  <2>3. QED
    BY <2>1, <2>2
<1>3. n # 0 => FlattenSeq(pieces) = F(pieces, n)[n]
  BY DEF FlattenSeq, IsFlat
<1>4. n = 0 => FlattenSeq(pieces) = <<>>
  BY DEF FlattenSeq
<1>5. PICK f : f = F(more, n + 1) /\ IsFlat(f, more, n + 1)
  <2>1. n + 1 \in Nat
    BY <1>1
  <2> HIDE DEF more, n
  <2>2. QED
    BY <2>1, FlatExists
<1>6. PICK g : g = F(pieces, n) /\ IsFlat(g, pieces, n)
  BY <1>1, FlatExists
<1> HIDE DEF F, more
<1>7. \A i \in 1..n + 1 : f[i] = IF i = 1 THEN more[i] ELSE f[i - 1] \o more[i]
  BY <1>5 DEF IsFlat
<1>8. \A i \in 1..n : g[i] = IF i = 1 THEN pieces[i] ELSE g[i - 1] \o pieces[i]
  BY <1>6 DEF IsFlat
<1> HIDE DEF n
<1>9. \A i \in 1..n : f[i] = g[i]
  <2> DEFINE Differing == {i \in 1..n : f[i] # g[i]}
  <2>1. SUFFICES ASSUME Differing # {} PROVE FALSE
    OBVIOUS
  <2>2. PICK i \in Differing : \A m \in Differing : i <= m
    <3>1. Differing \subseteq Nat
      BY <1>1
    <3> HIDE DEF Differing
    <3>2. QED
      BY <2>1, <3>1, LeastOf
  <2>3. i \in 1..n /\ i \in 1..n + 1 /\ (i # 1 => i - 1 \in 1..n /\ ~(i <= i - 1))
    BY <1>1
  <2>4. i # 1 => f[i - 1] = g[i - 1]
    BY <2>2, <2>3
  <2>5. f[i] = g[i]
    BY <1>1, <1>7, <1>8, <2>3, <2>4
  <2>6. QED
    BY <2>2, <2>5
<1>10. n + 1 \in 1..n + 1 /\ n + 1 - 1 = n /\ (n # 0 => n \in 1..n /\ n + 1 # 1)
  BY <1>1
<1>11. CASE n = 0
  <2>1. f[1] = piece
    BY <1>1, <1>7, <1>10, <1>11
  <2>2. <<>> \o piece = piece
    BY ConcatEmptySeq
  <2>3. QED
    BY <1>2, <1>4, <1>5, <1>11, <2>1, <2>2 DEF more
<1>12. CASE n # 0
  <2>1. PICK i \in 1..n + 1 : i = n + 1
    BY <1>10
  <2>2. f[n + 1] = f[n] \o piece
    <3>1. f[i] = IF i = 1 THEN more[i] ELSE f[i - 1] \o more[i]
      BY <1>7
    <3>2. i # 1 /\ i - 1 = n
      BY <1>10, <1>12, <2>1
    <3>3. f[i] = f[n] \o more[i]
      BY <3>1, <3>2
    <3>4. QED
      BY <1>1, <2>1, <3>3 DEF more
  <2>3. QED
    BY <1>2, <1>3, <1>5, <1>6, <1>9, <1>10, <1>12, <2>2 DEF more
<1>13. QED
  BY <1>11, <1>12

LEMMA DoubledAppend ==
    ASSUME NEW T, NEW word \in Seq(T), NEW x \in T, NEW marks
    PROVE  /\ FlattenSeq(Doubled(Append(word, x), marks))
                = FlattenSeq(Doubled(word, marks)) \o (IF x \in marks THEN <<x, x>> ELSE <<x>>)
           /\ FlattenSeq(Doubled(word, marks)) \in Seq(T)
<1> DEFINE n == Len(word)
           more == Append(word, x)
           piece == IF x \in marks THEN <<x, x>> ELSE <<x>>
<1>1. n \in Nat /\ DOMAIN word = 1..n /\ \A k \in 1..n : word[k] \in T
  OBVIOUS
<1>2. DOMAIN more = 1..n + 1 /\ more[n + 1] = x /\ \A k \in 1..n : more[k] = word[k]
  OBVIOUS
<1>3. piece \in Seq(T)
  OBVIOUS
<1>4. Doubled(word, marks) \in Seq(Seq(T)) /\ Len(Doubled(word, marks)) = n
  <2>1. \A k \in 1..n : Doubled(word, marks)[k] \in Seq(T)
    <3>1. ASSUME NEW k \in 1..n PROVE Doubled(word, marks)[k] \in Seq(T)
      <4>1. Doubled(word, marks)[k] \in {<<word[k], word[k]>>, <<word[k]>>}
        BY <1>1 DEF Doubled
      <4>2. \A y \in T : <<y, y>> \in Seq(T) /\ <<y>> \in Seq(T)
        OBVIOUS
      <4>3. QED
        BY <1>1, <4>1, <4>2
    <3>2. QED
      BY <3>1
  <2>2. Doubled(word, marks) = [k \in 1..n |-> Doubled(word, marks)[k]]
    BY <1>1 DEF Doubled
  <2>3. QED
    BY <1>1, <2>1, <2>2
<1>5. Doubled(more, marks) = Append(Doubled(word, marks), piece)
  <2> DEFINE D == Doubled(word, marks)
             E == Append(D, piece)
  <2>1. Len(D) = n /\ D \in Seq(Seq(T))
    BY <1>4
  <2>2. \A k \in 1..n : D[k] = IF word[k] \in marks THEN <<word[k], word[k]>> ELSE <<word[k]>>
    BY <1>1 DEF Doubled
  <2> HIDE DEF D
  <2>3. E = [k \in 1..n + 1 |-> IF k = n + 1 THEN piece ELSE D[k]]
    BY <1>1, <2>1
  <2>4. Doubled(more, marks)
            = [k \in 1..n + 1 |-> IF more[k] \in marks THEN <<more[k], more[k]>> ELSE <<more[k]>>]
    BY <1>2 DEF Doubled
  <2> HIDE DEF more, n
  <2>5. ASSUME NEW k \in 1..n + 1
        PROVE  (IF more[k] \in marks THEN <<more[k], more[k]>> ELSE <<more[k]>>)
                = IF k = n + 1 THEN piece ELSE D[k]
    <3>1. CASE k = n + 1
      BY <1>2, <3>1
    <3>2. CASE k # n + 1
      <4>1. k \in 1..n
        BY <1>1, <3>2
      <4>2. QED
        BY <1>2, <2>2, <3>2, <4>1
    <3>3. QED
      BY <3>1, <3>2
  <2> HIDE DEF piece
  <2>6. QED
    BY <2>3, <2>4, <2>5 DEF D
<1>6. QED
  <2> HIDE DEF piece
  <2>1. FlattenSeq(Append(Doubled(word, marks), piece)) = FlattenSeq(Doubled(word, marks)) \o piece
    BY <1>3, <1>4, FlattenAppend
  <2>2. FlattenSeq(Doubled(word, marks)) \in Seq(T)
    BY <1>4, Flattened
  <2>3. QED
    BY <1>5, <2>1, <2>2 DEF piece, more

\* What ident_is_quoted says of one place, given what it says of those behind.
PairedAt(name, from, i) ==
    IF i >= Len(name) THEN TRUE
    ELSE IF name[i] # "quote" THEN from[i + 1]
    ELSE i + 1 < Len(name) /\ name[i + 1] = "quote" /\ from[i + 2]

Pairing(name) == CHOOSE f : f = [i \in 2..Len(name) + 1 |-> PairedAt(name, f, i)]

LEMMA PairedSteps ==
    ASSUME NEW name \in Words
    PROVE  /\ IsQuoted(name) <=> /\ Len(name) >= 2
                                 /\ name[1] = "quote" /\ name[Len(name)] = "quote"
                                 /\ Pairing(name)[2]
           /\ \A i \in 2..Len(name) + 1 : Pairing(name)[i] = PairedAt(name, Pairing(name), i)
           /\ \A i \in 2..Len(name) + 1 : Pairing(name)[i] \in BOOLEAN
<1> DEFINE last == Len(name) + 1
           At(f, i) == PairedAt(name, f, i)
           G == [i \in 2..last |-> [f \in [2..last -> BOOLEAN] |-> At(f, i)]]
<1>1. last \in Nat /\ 2 \in Nat
  BY DEF Words
<1>2. ASSUME NEW i \in 2..last, NEW f \in [2..last -> BOOLEAN] PROVE At(f, i) \in BOOLEAN
  <2>1. i < Len(name) => i + 1 \in 2..last /\ i + 2 \in 2..last
    BY <1>1
  <2>2. i < Len(name) => f[i + 1] \in BOOLEAN /\ f[i + 2] \in BOOLEAN
    BY <2>1, Zenon
  <2>3. ~(i >= Len(name)) => i < Len(name)
    BY <1>1
  <2>4. QED
    BY <2>2, <2>3, Zenon DEF PairedAt
<1>3. ASSUME NEW i \in 2..last, NEW f, NEW g, \A j \in i + 1..last : f[j] = g[j]
      PROVE  At(f, i) = At(g, i)
  <2>1. ~(i >= Len(name)) => i + 1 \in i + 1..last /\ i + 2 \in i + 1..last
    BY <1>1
  <2>2. ~(i >= Len(name)) => f[i + 1] = g[i + 1] /\ f[i + 2] = g[i + 2]
    BY <1>3, <2>1, Zenon
  <2>3. QED
    BY <2>2, Zenon DEF PairedAt
<1>4. IsQuoted(name) <=> /\ Len(name) >= 2
                         /\ name[1] = "quote" /\ name[Len(name)] = "quote"
                         /\ Pairing(name)[2]
  BY Zenon DEF IsQuoted, Pairing, PairedAt
<1> HIDE DEF At, last
<1>5. G \in [2..last -> [[2..last -> BOOLEAN] -> BOOLEAN]]
  BY <1>2, Zenon
<1>6. LooksAhead(G, 2, last, BOOLEAN)
  <2>1. ASSUME NEW i \in 2..last, NEW f \in [2..last -> BOOLEAN], NEW g \in [2..last -> BOOLEAN],
               \A j \in i + 1..last : f[j] = g[j]
        PROVE  G[i][f] = G[i][g]
    <3>1. G[i][f] = At(f, i) /\ G[i][g] = At(g, i)
      BY Zenon
    <3>2. QED
      BY <1>3, <2>1, <3>1, Zenon
  <2> HIDE DEF G
  <2>2. QED
    BY <2>1, Zenon DEF LooksAhead
<1>7. PICK f : Solves(f, G, 2, last, BOOLEAN)
  <2> HIDE DEF G
  <2>1. BOOLEAN # {}
    BY Zenon
  <2>2. QED
    BY <1>1, <1>5, <1>6, <2>1, RecursionAhead, Zenon
<1>8. f \in [2..last -> BOOLEAN] /\ f = [i \in 2..last |-> At(f, i)]
  <2>1. f \in [2..last -> BOOLEAN] /\ \A i \in 2..last : f[i] = G[i][f]
    BY <1>7, Zenon DEF Solves
  <2>2. \A i \in 2..last : G[i][f] = At(f, i)
    BY <2>1, Zenon
  <2> HIDE DEF G
  <2>3. \A i \in 2..last : f[i] = At(f, i)
    BY <2>1, <2>2, Zenon
  <2>4. QED
    BY <2>1, <2>3, Zenon
<1> DEFINE P == Pairing(name)
<1>9. P = [i \in 2..last |-> At(P, i)]
  BY <1>8, Zenon DEF Pairing, At, last
<1> HIDE DEF P
<1>10. \A i \in 2..last : P[i] = At(P, i)
  BY <1>9, Zenon
<1>11. \A i \in 2..last : P[i] \in BOOLEAN
  <2> DEFINE Loose == {i \in 2..last : P[i] \notin BOOLEAN}
  <2>1. SUFFICES ASSUME Loose # {} PROVE FALSE
    OBVIOUS
  <2>2. PICK i \in Loose : \A m \in Loose : m <= i
    <3>1. Loose \subseteq 0..last
      BY <1>1
    <3> HIDE DEF Loose
    <3>2. QED
      BY <1>1, <2>1, <3>1, GreatestOf
  <2>3. ~(i >= Len(name)) => /\ i + 1 \in 2..last /\ i + 2 \in 2..last
                             /\ ~(i + 1 <= i) /\ ~(i + 2 <= i)
    BY <1>1 DEF last
  <2>4. ~(i >= Len(name)) => P[i + 1] \in BOOLEAN /\ P[i + 2] \in BOOLEAN
    BY <2>2, <2>3, Zenon
  <2>5. At(P, i) \in BOOLEAN
    BY <2>4, Zenon DEF At, PairedAt
  <2>6. QED
    BY <1>10, <2>2, <2>5, Zenon
<1>12. QED
  BY <1>4, <1>10, <1>11, Zenon DEF P, At, last

\* The quotes that end at a place, no further back than a first one.
Run(name, first, i) == {j \in first..i : \A k \in j..i : name[k] = "quote"}

RunEnds(name, i) == name[i] = "quote" /\ (i + 1 = Len(name) \/ name[i + 1] # "quote")

EvenFrom(name, first) ==
    \A i \in first..Len(name) - 1 : RunEnds(name, i) => Cardinality(Run(name, first, i)) % 2 = 0

LEMMA EvenSteps ==
    ASSUME NEW name \in Words, NEW i \in 2..Len(name) - 1
    PROVE  /\ name[i] # "quote" => (EvenFrom(name, i) <=> EvenFrom(name, i + 1))
           /\ name[i] = "quote" /\ i + 1 < Len(name) /\ name[i + 1] = "quote"
                => (EvenFrom(name, i) <=> EvenFrom(name, i + 2))
           /\ RunEnds(name, i) => ~EvenFrom(name, i)
<1> DEFINE n == Len(name)
<1>1. n \in Nat /\ i \in 2..n - 1
  BY DEF Words
<1> HIDE DEF n
<1>2. ASSUME name[i] # "quote" PROVE EvenFrom(name, i) <=> EvenFrom(name, i + 1)
  <2>1. ~RunEnds(name, i)
    BY <1>2 DEF RunEnds
  <2>2. \A e \in i..n - 1 : e = i \/ e \in i + 1..n - 1
    BY <1>1
  <2>3. \A e \in i + 1..n - 1 : e \in i..n - 1
    BY <1>1
  <2>4. ASSUME NEW e \in i + 1..n - 1 PROVE Run(name, i, e) = Run(name, i + 1, e)
    <3>1. \A j \in i..e : j = i \/ j \in i + 1..e
      BY <1>1
    <3>2. \A j \in i + 1..e : j \in i..e
      BY <1>1
    <3>3. i \in i..e
      BY <1>1
    <3>4. QED
      BY <1>2, <3>1, <3>2, <3>3 DEF Run
  <2>5. QED
    BY <2>1, <2>2, <2>3, <2>4 DEF EvenFrom, n
<1>3. ASSUME name[i] = "quote", i + 1 < n, name[i + 1] = "quote"
      PROVE  EvenFrom(name, i) <=> EvenFrom(name, i + 2)
  <2>1. ~RunEnds(name, i)
    BY <1>1, <1>3 DEF RunEnds, n
  <2>2. \A e \in i..n - 1 : e = i \/ e = i + 1 \/ e \in i + 2..n - 1
    BY <1>1
  <2>3. \A e \in i + 2..n - 1 : e \in i..n - 1
    BY <1>1
  <2>4. Cardinality(Run(name, i, i + 1)) % 2 = 0
    <3>1. \A k \in i..i + 1 : name[k] = "quote"
      <4>1. \A k \in i..i + 1 : k = i \/ k = i + 1
        BY <1>1
      <4>2. QED
        BY <1>3, <4>1
    <3>2. \A j \in i..i + 1 : \A k \in j..i + 1 : k \in i..i + 1
      BY <1>1
    <3>3. Run(name, i, i + 1) = i..i + 1
      BY <3>1, <3>2 DEF Run
    <3>4. Cardinality(i..i + 1) = 2
      <4>1. i \in Int /\ i + 1 \in Int /\ ~(i > i + 1) /\ i + 1 - i + 1 = 2
        BY <1>1
      <4>2. QED
        BY <4>1, FS_Interval
    <3>5. QED
      BY <3>3, <3>4
  <2>5. ASSUME NEW e \in i + 2..n - 1
        PROVE  Cardinality(Run(name, i, e)) % 2 = Cardinality(Run(name, i + 2, e)) % 2
    <3> DEFINE R == Run(name, i + 2, e)
    <3>1. /\ \A j \in i..e : j = i \/ j = i + 1 \/ j \in i + 2..e
          /\ \A j \in i + 2..e : j \in i..e /\ j # i /\ j # i + 1
          /\ i \in i..e /\ i + 1 \in i..e
          /\ \A k \in i + 2..e : k \in i..e /\ k \in i + 1..e
          /\ \A k \in i + 1..e : k = i + 1 \/ k \in i + 2..e
      BY <1>1
    <3>2. IsFiniteSet(R) /\ Cardinality(R) \in Nat
      <4>1. R \in SUBSET (i + 2..e)
        BY DEF Run
      <4>2. i + 2 \in Int /\ e \in Int
        BY <1>1
      <4> HIDE DEF R
      <4>3. IsFiniteSet(i + 2..e)
        BY <4>2, FS_Interval
      <4>4. IsFiniteSet(R)
        BY <4>1, <4>3, FS_Subset
      <4>5. QED
        BY <4>4, FS_CardinalityType
    <3>3. CASE \A k \in i + 2..e : name[k] = "quote"
      <4>1. Run(name, i, e) = (R \cup {i}) \cup {i + 1}
        <5>1. \A k \in i..e : name[k] = "quote"
          BY <1>3, <3>1, <3>3
        <5>2. \A j \in i..e : \A k \in j..e : k \in i..e
          BY <1>1
        <5>3. Run(name, i, e) = i..e
          BY <5>1, <5>2 DEF Run
        <5>4. \A j \in i + 2..e : \A k \in j..e : k \in i + 2..e
          BY <1>1
        <5>5. R = i + 2..e
          BY <3>3, <5>4 DEF Run
        <5> HIDE DEF R
        <5>6. i..e = ((i + 2..e) \cup {i}) \cup {i + 1}
          BY <3>1
        <5>7. QED
          BY <5>3, <5>5, <5>6
      <4>2. i \notin R /\ i + 1 \notin R \cup {i}
        <5>1. R \subseteq i + 2..e /\ i + 1 # i
          BY <1>1 DEF Run
        <5>2. QED
          BY <3>1, <5>1
      <4> HIDE DEF R
      <4>3. IsFiniteSet(R \cup {i}) /\ Cardinality(R \cup {i}) = Cardinality(R) + 1
        BY <3>2, <4>2, FS_AddElement
      <4>4. Cardinality((R \cup {i}) \cup {i + 1}) = Cardinality(R \cup {i}) + 1
        BY <4>2, <4>3, FS_AddElement
      <4>5. PICK c \in Nat : c = Cardinality(R)
        BY <3>2
      <4>6. Cardinality(Run(name, i, e)) = c + 2
        BY <4>1, <4>3, <4>4, <4>5
      <4>7. (c + 2) % 2 = c % 2
        OBVIOUS
      <4>8. QED
        BY <4>5, <4>6, <4>7 DEF R
    <3>4. CASE ~\A k \in i + 2..e : name[k] = "quote"
      <4>1. PICK k \in i + 2..e : name[k] # "quote"
        BY <3>4
      <4>2. i \notin Run(name, i, e) /\ i + 1 \notin Run(name, i, e)
        BY <3>1, <4>1 DEF Run
      <4>3. Run(name, i, e) = R
        BY <3>1, <4>2 DEF Run
      <4>4. QED
        BY <4>3
    <3>5. QED
      BY <3>3, <3>4
  <2>6. QED
    BY <2>1, <2>2, <2>3, <2>4, <2>5 DEF EvenFrom, n
<1>4. ASSUME RunEnds(name, i) PROVE ~EvenFrom(name, i)
  <2>1. \A j \in i..i : j = i
    BY <1>1
  <2>2. i \in i..i /\ i \in i..n - 1
    BY <1>1
  <2>3. Run(name, i, i) = {i}
    BY <1>4, <2>1, <2>2 DEF Run, RunEnds
  <2>4. Cardinality(Run(name, i, i)) = 1
    BY <2>3, FS_Singleton
  <2>5. 1 % 2 # 0
    OBVIOUS
  <2>6. QED
    BY <1>4, <2>2, <2>4, <2>5 DEF EvenFrom, n
<1>5. QED
  BY <1>2, <1>3, <1>4 DEF n

\* Quotes come in pairs exactly when every run of them has an even length.
LEMMA PairedEven ==
    ASSUME NEW name \in Words, NEW first \in 2..Len(name) + 1
    PROVE  Pairing(name)[first] <=> EvenFrom(name, first)
<1> DEFINE n == Len(name)
           P == Pairing(name)
           Wrong == {i \in 2..n + 1 : ~(P[i] <=> EvenFrom(name, i))}
<1>1. n \in Nat
  BY DEF Words
<1>2. \A i \in 2..n + 1 : P[i] = PairedAt(name, P, i)
  BY PairedSteps, Zenon
<1> HIDE DEF P
<1>3. SUFFICES ASSUME Wrong # {} PROVE FALSE
  BY Zenon DEF P
<1>4. PICK i \in Wrong : \A m \in Wrong : m <= i
  <2>1. Wrong \subseteq 0..n + 1 /\ n + 1 \in Nat
    BY <1>1
  <2> HIDE DEF Wrong
  <2>2. QED
    BY <1>3, <2>1, GreatestOf
<1>5. i \in 2..n + 1 /\ ~(P[i] <=> EvenFrom(name, i))
  BY <1>4, Zenon
<1>6. \A m \in 2..n + 1 : ~(m <= i) => (P[m] <=> EvenFrom(name, m))
  BY <1>4, Zenon
<1>7. CASE i >= n
  <2>1. EvenFrom(name, i)
    BY <1>1, <1>5, <1>7 DEF EvenFrom
  <2>2. P[i]
    BY <1>2, <1>5, <1>7, Zenon DEF PairedAt
  <2>3. QED
    BY <1>5, <2>1, <2>2, Zenon
<1>8. CASE ~(i >= n)
  <2>1. /\ i \in 2..n - 1 /\ i + 1 \in 2..n + 1 /\ i + 2 \in 2..n + 1
        /\ ~(i + 1 <= i) /\ ~(i + 2 <= i)
        /\ i + 1 < n \/ i + 1 = n
    BY <1>1, <1>5, <1>8
  <2>2. (P[i + 1] <=> EvenFrom(name, i + 1)) /\ (P[i + 2] <=> EvenFrom(name, i + 2))
    BY <1>6, <2>1, Zenon
  <2>3. P[i] <=> \/ name[i] # "quote" /\ P[i + 1]
                 \/ name[i] = "quote" /\ i + 1 < n /\ name[i + 1] = "quote" /\ P[i + 2]
    BY <1>2, <1>5, <1>8, Zenon DEF PairedAt
  <2>4. /\ name[i] # "quote" => (EvenFrom(name, i) <=> EvenFrom(name, i + 1))
        /\ name[i] = "quote" /\ i + 1 < n /\ name[i + 1] = "quote"
             => (EvenFrom(name, i) <=> EvenFrom(name, i + 2))
        /\ name[i] = "quote" /\ (i + 1 = n \/ name[i + 1] # "quote") => ~EvenFrom(name, i)
    BY <2>1, EvenSteps, Zenon DEF RunEnds
  <2>5. ~(i + 1 < n) => i + 1 = n
    BY <2>1
  <2>6. QED
    BY <1>5, <2>2, <2>3, <2>4, <2>5, Zenon
<1>9. QED
  BY <1>7, <1>8

\* One or two characters of a text.
LEMMA ShortSubs ==
    ASSUME NEW T, NEW s \in Seq(T), NEW i \in 1..Len(s)
    PROVE  /\ SubSeq(s, i, i) = <<s[i]>>
           /\ i + 1 <= Len(s) => SubSeq(s, i, i + 1) = <<s[i], s[i + 1]>>
<1>1. Len(s) \in Nat /\ i \in Int /\ i + 1 \in Int /\ \A k \in 1..Len(s) : s[k] \in T
  OBVIOUS
<1>2. SubSeq(s, i, i) = <<s[i]>>
  <2>1. PICK e \in Int : e = i
    BY <1>1
  <2> DEFINE t == SubSeq(s, i, e)
  <2>2. \A k \in i..e : s[k] \in T
    BY <1>1, <2>1
  <2>3. /\ t \in Seq(T) /\ Len(t) = IF i <= e THEN e - i + 1 ELSE 0
        /\ \A j \in 1..e - i + 1 : t[j] = s[i + j - 1]
    BY <1>1, <2>2, SubSeqProperties
  <2> HIDE DEF t
  <2>4. Len(t) = 1 /\ 1 \in 1..e - i + 1 /\ i + 1 - 1 = i
    BY <1>1, <2>1, <2>3
  <2>5. t[1] = s[i + 1 - 1]
    BY <2>3, <2>4
  <2>6. t = <<t[1]>>
    BY <2>3, <2>4
  <2>7. QED
    BY <2>1, <2>4, <2>5, <2>6 DEF t
<1>3. ASSUME i + 1 <= Len(s) PROVE SubSeq(s, i, i + 1) = <<s[i], s[i + 1]>>
  <2> DEFINE t == SubSeq(s, i, i + 1)
  <2>1. \A k \in i..i + 1 : s[k] \in T
    BY <1>1, <1>3
  <2>2. /\ t \in Seq(T) /\ Len(t) = IF i <= i + 1 THEN i + 1 - i + 1 ELSE 0
        /\ \A j \in 1..i + 1 - i + 1 : t[j] = s[i + j - 1]
    BY <1>1, <2>1, SubSeqProperties
  <2> HIDE DEF t
  <2>3. /\ Len(t) = 2 /\ 1 \in 1..i + 1 - i + 1 /\ 2 \in 1..i + 1 - i + 1
        /\ i + 1 - 1 = i /\ i + 2 - 1 = i + 1
    BY <1>1, <2>2
  <2>4. t[1] = s[i + 1 - 1] /\ t[2] = s[i + 2 - 1]
    BY <2>2, <2>3
  <2>5. t = <<t[1], t[2]>>
    BY <2>2, <2>3
  <2>6. QED
    BY <2>3, <2>4, <2>5 DEF t
<1>4. QED
  BY <1>2, <1>3

\* What is well quoted says a name in quotes.
LEMMA QuotedName ==
    ASSUME NEW name \in Words, IsQuoted(name)
    PROVE  \E inner \in Words : name = Quoted(inner)
<1> DEFINE n == Len(name)
           P == Pairing(name)
           open == <<"quote">>
           Flat(u) == FlattenSeq(Doubled(u, {"quote"}))
           Reached == {i \in 2..n : /\ P[i] = TRUE
                                    /\ \E u \in Words : SubSeq(name, 1, i - 1) = open \o Flat(u)}
<1>1. n \in Nat /\ n >= 2 /\ \A k \in 1..n : name[k] \in Letters
  BY PairedSteps DEF Words
<1>2. name[1] = "quote" /\ name[n] = "quote" /\ P[2]
  BY PairedSteps, Zenon
<1>3. \A i \in 2..n + 1 : P[i] = PairedAt(name, P, i) /\ P[i] \in BOOLEAN
  BY PairedSteps, Zenon
<1> HIDE DEF P
<1>4. \A u \in Words : Quoted(u) = open \o Flat(u) \o <<"quote">>
  <2>1. ASSUME NEW u \in Words
        PROVE  [i \in DOMAIN u |-> IF u[i] = "quote" THEN <<"quote", "quote">> ELSE <<u[i]>>]
                = Doubled(u, {"quote"})
    <3>1. \A x : x \in {"quote"} <=> x = "quote"
      OBVIOUS
    <3>2. QED
      BY <3>1 DEF Doubled
  <2>2. QED
    BY <2>1, Zenon DEF Quoted
<1>5. ASSUME NEW u \in Words, NEW x \in Letters
      PROVE  /\ Append(u, x) \in Words
             /\ Flat(u) \in Seq(Letters)
             /\ Flat(Append(u, x)) = Flat(u) \o (IF x = "quote" THEN <<x, x>> ELSE <<x>>)
  <2>1. u \in Seq(Letters)
    BY DEF Words
  <2>2. Append(u, x) \in Words
    BY <2>1 DEF Words
  <2>3. x \in {"quote"} <=> x = "quote"
    OBVIOUS
  <2>4. /\ Flat(Append(u, x)) = Flat(u) \o (IF x \in {"quote"} THEN <<x, x>> ELSE <<x>>)
        /\ Flat(u) \in Seq(Letters)
    BY <2>1, DoubledAppend
  <2>5. QED
    BY <2>2, <2>3, <2>4, Zenon
<1>6. open \in Seq(Letters)
  BY LettersHeld
<1> HIDE DEF n, open, Flat
<1>7. \A i, j : i \in 1..n /\ j \in 0..i - 1
            => SubSeq(name, 1, i) = SubSeq(name, 1, j) \o SubSeq(name, j + 1, i)
  <2>1. name \in Seq(Letters)
    BY DEF Words
  <2>2. QED
    BY <1>1, <2>1 DEF n
<1>8. 2 \in Reached
  <2>1. <<>> \in Words
    BY DEF Words
  <2>2. Flat(<<>>) = <<>>
    BY DEF Flat, Doubled, FlattenSeq
  <2>3. SubSeq(name, 1, 2 - 1) = open
    <3>1. 2 - 1 = 1 /\ 1 \in 1..n
      BY <1>1
    <3>2. QED
      BY <1>2, <3>1, ShortSubs DEF Words, n, open
  <2>4. open \o <<>> = open
    BY <1>6, ConcatEmptySeq
  <2>5. 2 \in 2..n /\ P[2] = TRUE
    <3>1. 2 \in 2..n /\ 2 \in 2..n + 1
      BY <1>1
    <3>2. QED
      BY <1>2, <1>3, <3>1, Zenon
  <2>6. QED
    BY <2>1, <2>2, <2>3, <2>4, <2>5
<1>9. PICK i \in Reached : \A m \in Reached : m <= i
  <2>1. Reached \subseteq 0..n /\ Reached # {}
    BY <1>1, <1>8
  <2> HIDE DEF Reached
  <2>2. QED
    BY <1>1, <2>1, GreatestOf
<1>10. PICK u \in Words : SubSeq(name, 1, i - 1) = open \o Flat(u)
  BY <1>9
<1>11. i \in 2..n /\ P[i] = TRUE
  BY <1>9
<1>12. ASSUME NEW x \in Letters, NEW m \in i + 1..n, P[m] = TRUE,
              SubSeq(name, i, m - 1) = IF x = "quote" THEN <<x, x>> ELSE <<x>>
       PROVE  FALSE
  <2> DEFINE piece == IF x = "quote" THEN <<x, x>> ELSE <<x>>
  <2>1. m \in 2..n /\ m - 1 \in 1..n /\ i - 1 \in 0..m - 2 /\ i - 1 + 1 = i /\ ~(m <= i)
        /\ m - 1 - 1 = m - 2
    BY <1>1, <1>11
  <2>2. SubSeq(name, 1, m - 1) = SubSeq(name, 1, i - 1) \o SubSeq(name, i, m - 1)
    BY <1>7, <2>1
  <2>3. piece \in Seq(Letters)
    OBVIOUS
  <2>4. Flat(u) \in Seq(Letters) /\ Append(u, x) \in Words /\ Flat(Append(u, x)) = Flat(u) \o piece
    BY <1>5
  <2> HIDE DEF piece
  <2>5. (open \o Flat(u)) \o piece = open \o (Flat(u) \o piece)
    BY <1>6, <2>3, <2>4, ConcatAssociative, SMTT(30)
  <2>6. SubSeq(name, 1, m - 1) = open \o Flat(Append(u, x))
    BY <1>10, <1>12, <2>2, <2>4, <2>5 DEF piece
  <2>7. m \in Reached
    BY <1>12, <2>1, <2>4, <2>6
  <2>8. QED
    BY <1>9, <2>1, <2>7
<1>13. i = n
  <2>1. SUFFICES ASSUME ~(i >= n) PROVE FALSE
    BY <1>1, <1>11
  <2>2. i \in 2..n + 1 /\ i \in 1..n /\ i + 1 \in i + 1..n
        /\ (i + 1 < n => i + 2 \in i + 1..n /\ i + 1 \in 1..n)
        /\ i + 1 - 1 = i /\ i + 2 - 1 = i + 1 /\ i + 1 \in 2..n + 1 /\ i + 2 \in 2..n + 1
    BY <1>1, <1>11, <2>1
  <2>3. P[i] <=> \/ name[i] # "quote" /\ P[i + 1]
                 \/ name[i] = "quote" /\ i + 1 < n /\ name[i + 1] = "quote" /\ P[i + 2]
    BY <1>3, <2>1, <2>2, Zenon DEF PairedAt, n
  <2>4. CASE name[i] # "quote" /\ P[i + 1]
    <3>1. P[i + 1] = TRUE
      BY <1>3, <2>2, <2>4, Zenon
    <3>2. name[i] \in Letters
      BY <1>1, <2>2
    <3>3. SubSeq(name, i, i) = <<name[i]>>
      BY <2>2, ShortSubs DEF Words, n
    <3>4. PICK x \in Letters : x = name[i] /\ x # "quote"
      BY <2>4, <3>2
    <3>5. PICK m \in i + 1..n : m = i + 1 /\ m - 1 = i
      BY <2>2
    <3>6. SubSeq(name, i, m - 1) = IF x = "quote" THEN <<x, x>> ELSE <<x>>
      BY <3>3, <3>4, <3>5
    <3>7. P[m] = TRUE
      BY <3>1, <3>5, Zenon
    <3>8. QED
      BY <1>12, <3>6, <3>7, Zenon
  <2>5. CASE name[i] = "quote" /\ i + 1 < n /\ name[i + 1] = "quote" /\ P[i + 2]
    <3>1. P[i + 2] = TRUE
      BY <1>3, <2>2, <2>5, Zenon
    <3>2. name[i] \in Letters
      BY <1>1, <2>2
    <3>3. SubSeq(name, i, i + 1) = <<name[i], name[i + 1]>>
      <4>1. i + 1 <= n
        BY <1>1, <2>2
      <4>2. QED
        BY <2>2, <4>1, ShortSubs DEF Words, n
    <3>4. PICK x \in Letters : x = name[i] /\ x = "quote" /\ x = name[i + 1]
      BY <2>5, <3>2
    <3>5. PICK m \in i + 1..n : m = i + 2 /\ m - 1 = i + 1
      BY <2>2, <2>5
    <3>6. SubSeq(name, i, m - 1) = IF x = "quote" THEN <<x, x>> ELSE <<x>>
      BY <3>3, <3>4, <3>5
    <3>7. P[m] = TRUE
      BY <3>1, <3>5, Zenon
    <3>8. QED
      BY <1>12, <3>6, <3>7, Zenon
  <2>6. P[i]
    BY <1>11, Zenon
  <2>7. QED
    BY <2>3, <2>4, <2>5, <2>6, Zenon
<1>14. name = Quoted(u)
  <2>1. SubSeq(name, 1, n) = SubSeq(name, 1, n - 1) \o SubSeq(name, n, n)
    <3>1. n \in 1..n /\ n - 1 \in 0..n - 1 /\ n - 1 + 1 = n
      BY <1>1
    <3>2. QED
      BY <1>7, <3>1
  <2>2. SubSeq(name, 1, n) = name
    BY SubSeqFull DEF Words, n
  <2>3. SubSeq(name, n, n) = <<"quote">>
    <3>1. n \in 1..n
      BY <1>1
    <3>2. QED
      BY <1>2, <3>1, ShortSubs DEF Words, n
  <2>4. QED
    BY <1>4, <1>10, <1>13, <2>1, <2>2, <2>3
<1>15. QED
  BY <1>14

\* A name without a quote ends at its first character that cannot be bare.
LEMMA BareEnd ==
    ASSUME NEW s, s[1] # "quote"
    PROVE  ReadIdentifier(s) = [name |-> SubSeq(s, 1, FirstBut(s, 1, {"a", "1"}) - 1),
                                quoted |-> FALSE,
                                rest |-> SubSeq(s, FirstBut(s, 1, {"a", "1"}), Len(s))]
BY Zenon DEF ReadIdentifier

\* What follows a bare name in the theorem below does not belong to it.
LEMMA BareRead ==
    ASSUME NEW name \in Words, IsBare(name)
    PROVE  ReadIdentifier(name \o <<" ", "a">>)
                = [name |-> name, quoted |-> FALSE, rest |-> <<" ", "a">>]
<1> DEFINE n == Len(name)
           rest == <<Space, "a">>
           s == name \o rest
           bare == {"a", "1"}
           Stops == {k \in 1..Len(s) : s[k] \notin bare} \cup {Len(s) + 1}
<1>1. n \in Nat /\ name \in Seq(Letters) /\ n >= 1 /\ name[1] = "a" /\ \A k \in 1..n : name[k] \in bare
  BY DEF IsBare, Words
<1>2. rest \in Seq(Letters) /\ Len(rest) = 2 /\ rest[1] = Space /\ Space \notin bare
  BY LettersHeld
<1> HIDE DEF rest
<1>3. /\ s \in Seq(Letters) /\ Len(s) = n + 2
      /\ \A j \in 1..n : s[j] = name[j]
      /\ \A j \in 1..2 : s[n + j] = rest[j]
  BY <1>1, <1>2, Joined, SMTT(30)
<1> HIDE DEF s, n
<1>4. s[1] # "quote" /\ s[n + 1] \notin bare /\ \A k \in 1..n : s[k] \in bare
  <2>1. 1 \in 1..n /\ 1 \in 1..2
    BY <1>1
  <2>2. s[1] = "a" /\ s[n + 1] = Space
    BY <1>1, <1>2, <1>3, <2>1
  <2>3. QED
    BY <1>1, <1>2, <1>3, <2>2
<1>5. FirstBut(s, 1, bare) = n + 1
  <2>1. Stops \subseteq Nat /\ n + 1 \in Stops /\ \A k \in Stops : n + 1 <= k
    <3>1. n + 1 \in 1..Len(s) /\ \A k \in 1..Len(s) : k \in 1..n \/ n + 1 <= k
      BY <1>1, <1>3
    <3>2. Len(s) + 1 = n + 3 /\ n + 1 <= n + 3
      BY <1>1, <1>3
    <3>3. QED
      BY <1>1, <1>4, <3>1, <3>2
  <2>2. FirstBut(s, 1, bare) = Min(Stops)
    BY DEF FirstBut
  <2> HIDE DEF Stops
  <2>3. Min(Stops) \in Stops /\ \A k \in Stops : Min(Stops) <= k
    BY <2>1, MinOf
  <2>4. Min(Stops) \in Nat /\ Min(Stops) <= n + 1 /\ n + 1 <= Min(Stops)
    BY <2>1, <2>3
  <2>5. QED
    BY <1>1, <2>2, <2>4
<1>6. SubSeq(s, 1, n + 1 - 1) = name
  <2> DEFINE t == SubSeq(s, 1, n)
  <2>1. \A k \in 1..n : s[k] \in Letters
    BY <1>1, <1>3
  <2>2. 1 \in Int /\ n \in Int /\ n - 1 + 1 = n
    BY <1>1
  <2>3. /\ t \in Seq(Letters) /\ Len(t) = IF 1 <= n THEN n - 1 + 1 ELSE 0
        /\ \A j \in 1..n - 1 + 1 : t[j] = s[1 + j - 1]
    BY <2>1, <2>2, SubSeqProperties
  <2> HIDE DEF t
  <2>4. Len(t) = n /\ \A j \in 1..n : t[j] = name[j]
    <3>1. \A j \in 1..n : 1 + j - 1 = j
      BY <1>1
    <3>2. QED
      BY <1>1, <1>3, <2>2, <2>3, <3>1
  <2>5. t = name
    BY <1>1, <2>3, <2>4, SeqEqual DEF n
  <2>6. n + 1 - 1 = n
    BY <1>1
  <2>7. QED
    BY <2>5, <2>6 DEF t
<1>7. SubSeq(s, n + 1, Len(s)) = rest
  <2>1. /\ n + 1 \in 1..Len(s) /\ n + 1 + 1 <= Len(s) /\ n + 1 + 1 = Len(s)
        /\ 1 \in 1..2 /\ 2 \in 1..2 /\ n + 1 + 1 = n + 2
    BY <1>1, <1>3
  <2>2. SubSeq(s, n + 1, n + 1 + 1) = <<s[n + 1], s[n + 1 + 1]>>
    BY <1>3, <2>1, ShortSubs
  <2>3. s[n + 1] = rest[1] /\ s[n + 1 + 1] = rest[2]
    BY <1>3, <2>1
  <2>4. rest = <<rest[1], rest[2]>>
    BY <1>2
  <2>5. QED
    BY <2>1, <2>2, <2>3, <2>4
<1>8. ReadIdentifier(s) = [name |-> SubSeq(s, 1, FirstBut(s, 1, bare) - 1), quoted |-> FALSE,
                           rest |-> SubSeq(s, FirstBut(s, 1, bare), Len(s))]
  <2>1. s[1] # "quote"
    BY <1>4
  <2>2. QED
    BY <2>1, BareEnd
<1>9. ReadIdentifier(s) = [name |-> name, quoted |-> FALSE, rest |-> rest]
  <2>1. PICK e : e = FirstBut(s, 1, bare)
    OBVIOUS
  <2>2. e = n + 1
    BY <1>5, <2>1, Zenon
  <2>3. e = n + 1 /\ e - 1 = n + 1 - 1
    BY <1>1, <2>2
  <2>4. SubSeq(s, 1, e - 1) = name
    BY <1>6, <2>3, Zenon
  <2>5. SubSeq(s, e, Len(s)) = rest
    BY <1>7, <2>2, Zenon
  <2>6. ReadIdentifier(s) = [name |-> SubSeq(s, 1, e - 1), quoted |-> FALSE, rest |-> SubSeq(s, e, Len(s))]
    BY <1>8, <2>1, Zenon
  <2>7. QED
    BY <2>4, <2>5, <2>6, Zenon
<1>10. QED
  BY <1>9, Zenon DEF s, rest, Space

WellQuoted(name) ==
    /\ Len(name) >= 2 /\ name[1] = "quote" /\ name[Len(name)] = "quote"
    /\ EvenFrom(name, 2)

LEMMA WellQuotedNames ==
    ASSUME NEW name \in Words
    PROVE  IsQuoted(name) <=> WellQuoted(name)
<1>1. Len(name) >= 2 => 2 \in 2..Len(name) + 1
  BY DEF Words
<1>2. Len(name) >= 2 => (Pairing(name)[2] <=> EvenFrom(name, 2))
  BY <1>1, PairedEven, Zenon
<1>3. QED
  BY <1>2, PairedSteps, Zenon DEF WellQuoted

\* However long a name is and however it is spelled, the engine reads it as
\* one identifier and goes on behind it: a name that is well quoted as the
\* name in the quotes, any other as it is (fl_strbuf_append_ident, util.c).
THEOREM NamesContained == \A name \in Seq(NameLetters) : Contained(name)
<1> SUFFICES ASSUME NEW name \in Seq(NameLetters), name # <<>> PROVE Contained(name)
  BY Zenon DEF Contained
<1> DEFINE rest == <<" ", "a">>
           read == ReadIdentifier(Identifier(name) \o rest)
<1>1. name \in Words
  BY DEF Words, Letters
<1>2. rest \in Words /\ rest[1] # "quote" /\ rest # <<>>
  <2>1. <<Space, "a">> \in Words /\ <<Space, "a">>[1] # "quote" /\ <<Space, "a">> # <<>>
    BY LettersHeld DEF Words
  <2>2. QED
    BY <2>1, Zenon DEF Space
<1> HIDE DEF rest
<1>3. Contained(name) <=> /\ read.rest = rest
                          /\ IF WellQuoted(name) THEN Quoted(read.name) = name ELSE read.name = name
                          /\ read.quoted <=> ~IsBare(name)
  BY Zenon DEF Contained, WellQuoted, EvenFrom, Run, RunEnds, rest
<1>4. CASE IsBare(name)
  <2>1. Identifier(name) = name
    BY <1>4, Zenon DEF Identifier
  <2>2. read = [name |-> name, quoted |-> FALSE, rest |-> rest]
    BY <1>1, <1>4, <2>1, BareRead, Zenon DEF rest
  <2>3. name[1] = "a"
    BY <1>4, Zenon DEF IsBare
  <2>4. ~WellQuoted(name)
    BY <2>3 DEF WellQuoted
  <2>5. read.rest = rest /\ read.name = name /\ read.quoted = FALSE
    BY <2>2
  <2> HIDE DEF read
  <2>6. QED
    BY <1>3, <1>4, <2>4, <2>5, Zenon DEF read
<1>5. CASE ~IsBare(name) /\ IsQuoted(name)
  <2>1. PICK inner \in Words : name = Quoted(inner)
    BY <1>1, <1>5, QuotedName
  <2>2. Identifier(name) = Quoted(inner)
    BY <1>5, <2>1, Zenon DEF Identifier
  <2>3. ReadIdentifier(Quoted(inner) \o rest) = [name |-> inner, quoted |-> TRUE, rest |-> rest]
    BY <1>2, QuotedRead
  <2>4. read.rest = rest /\ read.name = inner /\ read.quoted = TRUE
    BY <2>2, <2>3
  <2>5. WellQuoted(name)
    BY <1>1, <1>5, WellQuotedNames, Zenon
  <2> HIDE DEF read
  <2>6. QED
    BY <1>3, <1>5, <2>1, <2>4, <2>5, Zenon DEF read
<1>6. CASE ~IsBare(name) /\ ~IsQuoted(name)
  <2>1. Identifier(name) = Quoted(name)
    BY <1>6, Zenon DEF Identifier
  <2>2. ReadIdentifier(Quoted(name) \o rest) = [name |-> name, quoted |-> TRUE, rest |-> rest]
    BY <1>1, <1>2, QuotedRead
  <2>3. read.rest = rest /\ read.name = name /\ read.quoted = TRUE
    BY <2>1, <2>2
  <2>4. ~WellQuoted(name)
    BY <1>1, <1>6, WellQuotedNames, Zenon
  <2> HIDE DEF read
  <2>5. QED
    BY <1>3, <1>6, <2>3, <2>4, Zenon DEF read
<1>7. QED
  BY <1>4, <1>5, <1>6

=============================================================================
