----------------------- MODULE MissingIntervalsProofs -----------------------
(***************************************************************************)
(* Proofs about MissingIntervals, and about the operations on lists of     *)
(* intervals that it computes with.                                        *)
(***************************************************************************)
EXTENDS MissingIntervals, UpTheGraph, SequenceTheorems

(***************************************************************************)
(* Counting up.                                                            *)
(***************************************************************************)

\* What is wrong for no first number is wrong for none.
LEMMA NoFirst ==
    ASSUME NEW n \in Nat, NEW W, W \subseteq 0..n, \A k \in W : k > 0 /\ k - 1 \in W
    PROVE  W = {}
<1>1. SUFFICES ASSUME W # {} PROVE FALSE  OBVIOUS
<1>2. PICK k \in W : \A j \in W : k <= j  BY <1>1, SmallestNumber
<1> QED  BY <1>2

\* What is computed for one number after the other.
IsCounted(n, V, v, step, f) ==
    /\ f \in [0..n -> V] /\ f[0] = v
    /\ \A k \in 1..n : f[k] = step[k][f[k - 1]]

LEMMA Counted ==
    ASSUME NEW n \in Nat, NEW V, NEW v \in V, NEW step \in [1..n -> [V -> V]]
    PROVE  \E f : IsCounted(n, V, v, step, f)
<1> DEFINE next == [k \in 0..n |-> IF k = 0 THEN {} ELSE {k - 1}]
           up == [k \in 0..n |-> [f \in [0..n -> V] |-> IF k = 0 THEN v ELSE step[k][f[k - 1]]]]
<1>1. next \in [0..n -> SUBSET (0..n)]  OBVIOUS
<1>2. WithoutCycles(0..n, next)
  <2> SUFFICES ASSUME NEW T \in (SUBSET (0..n)) \ {{}} PROVE \E k \in T : next[k] \cap T = {}
      BY DEF WithoutCycles
  <2>1. PICK k \in T : \A j \in T : k <= j  BY SmallestNumber
  <2> QED  BY <2>1
<1>3. up \in [0..n -> [[0..n -> V] -> V]]  OBVIOUS
<1>4. \A k \in 0..n : \A f, g \in [0..n -> V] :
          (\A j \in next[k] : f[j] = g[j]) => up[k][f] = up[k][g]
    OBVIOUS
<1>5. LooksUp(0..n, next, V, up)
  <2> HIDE DEF next, up
  <2> QED  BY <1>3, <1>4 DEF LooksUp
<1>6. PICK f : IsRight(0..n, V, up, f)
  <2> HIDE DEF next, up
  <2> QED  BY <1>1, <1>2, <1>5, Recursion
<1>7. f \in [0..n -> V] /\ f[0] = v /\ \A k \in 1..n : f[k] = step[k][f[k - 1]]
    BY <1>6 DEF IsRight
<1> QED  BY <1>7 DEF IsCounted

(***************************************************************************)
(* Sequences.                                                              *)
(***************************************************************************)
LEMMA LengthOfPrefix ==
    ASSUME NEW V, NEW s \in Seq(V), NEW n \in Nat, n <= Len(s)
    PROVE  Len(SubSeq(s, 1, n)) = n
OBVIOUS

LEMMA LastAndFront ==
    ASSUME NEW V, NEW s \in Seq(V), s # << >>
    PROVE  /\ Len(s) \in Nat \ {0} /\ Last(s) \in V /\ Last(s) = s[Len(s)]
           /\ Front(s) \in Seq(V) /\ Len(Front(s)) = Len(s) - 1
           /\ \A k \in 1..(Len(s) - 1) : Front(s)[k] = s[k]
<1>1. Len(s) \in Nat \ {0} /\ Last(s) = s[Len(s)]  BY DEF Last
<1>2. s[Len(s)] \in V  BY <1>1
<1>3. Front(s) = SubSeq(s, 1, Len(s) - 1)  BY DEF Front
<1>4. SubSeq(s, 1, Len(s) - 1) \in Seq(V)  BY <1>1
<1>5. Len(Front(s)) = Len(s) - 1
  <2>1. Len(s) - 1 \in Nat /\ Len(s) - 1 <= Len(s)  BY <1>1
  <2> QED  BY <1>3, <2>1, LengthOfPrefix
<1>6. \A k \in 1..(Len(s) - 1) : Front(s)[k] = s[k]  BY <1>1, <1>3
<1> QED  BY <1>1, <1>2, <1>3, <1>4, <1>5, <1>6

LEMMA MembersOf ==
    ASSUME NEW V, NEW s \in Seq(V)
    PROVE  ToSet(s) \subseteq V /\ ToSet(s) = {s[k] : k \in 1..Len(s)}
BY DEF ToSet

LEMMA MembersOfAppend ==
    ASSUME NEW V, NEW s \in Seq(V), NEW v \in V
    PROVE  Append(s, v) \in Seq(V) /\ ToSet(Append(s, v)) = ToSet(s) \cup {v}
<1>1. Append(s, v) \in Seq(V) /\ Len(Append(s, v)) = Len(s) + 1 /\ Len(s) \in Nat  OBVIOUS
<1>2. \A k \in 1..Len(s) : Append(s, v)[k] = s[k]  OBVIOUS
<1>3. Append(s, v)[Len(s) + 1] = v  OBVIOUS
<1>4. ToSet(Append(s, v)) = {Append(s, v)[k] : k \in 1..(Len(s) + 1)}  BY <1>1, MembersOf
<1>5. ToSet(s) = {s[k] : k \in 1..Len(s)}  BY MembersOf
<1>6. 1..(Len(s) + 1) = 1..Len(s) \cup {Len(s) + 1}  BY <1>1
<1> QED  BY <1>1, <1>2, <1>3, <1>4, <1>5, <1>6

\* z is s with t behind it.
IsConcat(z, s, t, V) ==
    /\ z \in Seq(V) /\ Len(z) = Len(s) + Len(t)
    /\ \A k \in 1..Len(s) : z[k] = s[k]
    /\ \A k \in (Len(s) + 1)..(Len(s) + Len(t)) : z[k] = t[k - Len(s)]

LEMMA ElementsOfConcat ==
    ASSUME NEW V, NEW s \in Seq(V), NEW t \in Seq(V)
    PROVE  IsConcat(s \o t, s, t, V)
<1>1. s \o t \in Seq(V) /\ Len(s \o t) = Len(s) + Len(t) /\ Len(s) \in Nat /\ Len(t) \in Nat
    OBVIOUS
<1>2. \A k \in 1..Len(s) : (s \o t)[k] = s[k]  BY <1>1
<1>3. \A k \in (Len(s) + 1)..(Len(s) + Len(t)) : (s \o t)[k] = t[k - Len(s)]  BY <1>1
<1> QED  BY <1>1, <1>2, <1>3 DEF IsConcat

LEMMA MembersOfConcat ==
    ASSUME NEW V, NEW s \in Seq(V), NEW t \in Seq(V)
    PROVE  s \o t \in Seq(V) /\ ToSet(s \o t) = ToSet(s) \cup ToSet(t)
<1>1. s \o t \in Seq(V) /\ Len(s \o t) = Len(s) + Len(t) /\ Len(s) \in Nat /\ Len(t) \in Nat
    OBVIOUS
<1>2. \A k \in 1..Len(s) : (s \o t)[k] = s[k]  BY <1>1
<1>3. \A k \in 1..Len(t) : (s \o t)[Len(s) + k] = t[k]  BY <1>1
<1>4. /\ ToSet(s \o t) = {(s \o t)[k] : k \in 1..(Len(s) + Len(t))}
      /\ ToSet(s) = {s[k] : k \in 1..Len(s)} /\ ToSet(t) = {t[k] : k \in 1..Len(t)}
    BY <1>1, MembersOf
<1>5. \A x \in ToSet(s \o t) : x \in ToSet(s) \cup ToSet(t)
  <2> TAKE x \in ToSet(s \o t)
  <2>1. PICK k \in 1..(Len(s) + Len(t)) : x = (s \o t)[k]  BY <1>4
  <2>2. CASE k <= Len(s)  BY <1>1, <1>2, <1>4, <2>1, <2>2
  <2>3. CASE k > Len(s)
    <3>1. k - Len(s) \in 1..Len(t) /\ Len(s) + (k - Len(s)) = k  BY <1>1, <2>3
    <3> QED  BY <1>3, <1>4, <2>1, <3>1
  <2> QED  BY <1>1, <2>2, <2>3
<1>6. \A k \in 1..Len(s) : k \in 1..(Len(s) + Len(t))  BY <1>1
<1>7. \A k \in 1..Len(t) : Len(s) + k \in 1..(Len(s) + Len(t))  BY <1>1
<1>8. \A x \in ToSet(s) : x \in ToSet(s \o t)  BY <1>2, <1>4, <1>6
<1>9. \A x \in ToSet(t) : x \in ToSet(s \o t)
  <2> TAKE x \in ToSet(t)
  <2>1. PICK k \in 1..Len(t) : x = t[k]  BY <1>4
  <2> QED  BY <1>3, <1>4, <1>7, <2>1
<1>10. ToSet(s \o t) = ToSet(s) \cup ToSet(t)  BY <1>5, <1>8, <1>9
<1> QED  BY <1>1, <1>10

LEMMA MembersOfRemoveAt ==
    ASSUME NEW V, NEW s \in Seq(V), NEW k \in DOMAIN s
    PROVE  RemoveAt(s, k) \in Seq(V) /\ ToSet(RemoveAt(s, k)) \subseteq ToSet(s)
<1>1. k \in 1..Len(s) /\ Len(s) \in Nat  OBVIOUS
<1> DEFINE W == ToSet(s)
<1>2. \A i \in 1..Len(s) : s[i] \in W  BY DEF ToSet
<1>3. W \subseteq V  BY MembersOf
<1> HIDE DEF W
<1>4. SubSeq(s, 1, k - 1) \in Seq(W) /\ SubSeq(s, k + 1, Len(s)) \in Seq(W)
    BY <1>1, <1>2, SubSeqProperties
<1>5. RemoveAt(s, k) \in Seq(W)  BY <1>4 DEF RemoveAt
<1>6. ToSet(RemoveAt(s, k)) \subseteq W  BY <1>5, MembersOf
<1>7. RemoveAt(s, k) \in Seq(V)  BY <1>3, <1>5
<1> QED  BY <1>6, <1>7 DEF W

LEMMA MembersAtAndLeft ==
    ASSUME NEW V, NEW s \in Seq(V), NEW k \in DOMAIN s
    PROVE  ToSet(s) = ToSet(RemoveAt(s, k)) \cup {s[k]}
<1> DEFINE a == SubSeq(s, 1, k - 1)
           b == SubSeq(s, k + 1, Len(s))
<1>1. k \in 1..Len(s) /\ Len(s) \in Nat  OBVIOUS
<1>2. /\ a \in Seq(V) /\ Len(a) = k - 1 /\ \A j \in 1..(k - 1) : a[j] = s[j]
  <2>1. \A j \in 1..(k - 1) : s[j] \in V  BY <1>1
  <2>2. 1 \in Int /\ k - 1 \in Int  BY <1>1
  <2> QED  BY <1>1
<1>3. /\ b \in Seq(V) /\ Len(b) = Len(s) - k /\ \A j \in 1..(Len(s) - k) : b[j] = s[k + j]
  <2> QED  BY <1>1
<1>4. RemoveAt(s, k) = a \o b  BY DEF RemoveAt
<1> HIDE DEF a, b
<1>5. ToSet(RemoveAt(s, k)) = ToSet(a) \cup ToSet(b)  BY <1>2, <1>3, <1>4, MembersOfConcat
<1>6. /\ ToSet(s) = {s[j] : j \in 1..Len(s)}
      /\ ToSet(a) = {a[j] : j \in 1..(k - 1)} /\ ToSet(b) = {b[j] : j \in 1..(Len(s) - k)}
    BY <1>2, <1>3, MembersOf
<1>7. ASSUME NEW j \in 1..Len(s) PROVE s[j] \in ToSet(a) \cup ToSet(b) \cup {s[k]}
  <2>1. CASE j < k
    <3>1. j \in 1..(k - 1)  BY <1>1, <2>1
    <3> QED  BY <1>2, <1>6, <3>1
  <2>2. CASE j > k
    <3>1. j - k \in 1..(Len(s) - k) /\ k + (j - k) = j  BY <1>1, <2>2
    <3> QED  BY <1>3, <1>6, <3>1
  <2> QED  BY <1>1, <2>1, <2>2
<1>8. ToSet(RemoveAt(s, k)) \subseteq ToSet(s)  BY MembersOfRemoveAt
<1>9. s[k] \in ToSet(s)  BY <1>1, <1>6
<1>10. ToSet(s) \subseteq ToSet(a) \cup ToSet(b) \cup {s[k]}  BY <1>6, <1>7
<1> QED  BY <1>5, <1>8, <1>9, <1>10

\* FlattenSeq puts one sequence behind the other.
FlattensTo(seqs, V, f) ==
    /\ f \in [0..Len(seqs) -> Seq(V)] /\ f[0] = << >>
    /\ \A k \in 1..Len(seqs) : f[k] = f[k - 1] \o seqs[k]
    /\ FlattenSeq(seqs) = f[Len(seqs)]

LEMMA Flattened ==
    ASSUME NEW V, NEW seqs \in Seq(Seq(V))
    PROVE  \E f : FlattensTo(seqs, V, f)
<1> DEFINE n == Len(seqs)
           step == [k \in 1..n |-> [s \in Seq(V) |-> s \o seqs[k]]]
           Eq(g) == g = [i \in 1..n |-> IF i = 1 THEN seqs[i] ELSE g[i - 1] \o seqs[i]]
<1>1. n \in Nat /\ \A k \in 1..n : seqs[k] \in Seq(V)  OBVIOUS
<1>2. CASE n = 0
  <2>1. seqs = << >>  BY <1>2
  <2>2. FlattenSeq(seqs) = << >>  BY <1>2, <2>1 DEF FlattenSeq
  <2> DEFINE f == [k \in 0..n |-> << >>]
  <2>3. f \in [0..n -> Seq(V)] /\ f[0] = << >> /\ FlattenSeq(seqs) = f[n]  BY <1>2, <2>2
  <2>4. \A k \in 1..n : FALSE  BY <1>2
  <2> HIDE DEF f
  <2> QED  BY <2>3, <2>4 DEF FlattensTo
<1>3. CASE n # 0
  <2> HIDE DEF n
  <2>1. step \in [1..n -> [Seq(V) -> Seq(V)]]  BY <1>1
  <2>2. << >> \in Seq(V)  OBVIOUS
  <2>3. PICK f : IsCounted(n, Seq(V), << >>, step, f)
    <3> HIDE DEF step
    <3> QED  BY <1>1, <2>1, <2>2, Counted
  <2>4. /\ f \in [0..n -> Seq(V)] /\ f[0] = << >>
        /\ \A k \in 1..n : f[k] = f[k - 1] \o seqs[k]
    <3>1. f \in [0..n -> Seq(V)] /\ f[0] = << >> /\ \A k \in 1..n : f[k] = step[k][f[k - 1]]
      <4> HIDE DEF step
      <4> QED  BY <2>3 DEF IsCounted
    <3>2. \A k \in 1..n : f[k - 1] \in Seq(V)  BY <1>1, <3>1
    <3> QED  BY <3>1, <3>2
  <2>5. 1 \in 1..n /\ f[1] = seqs[1]
    <3>1. 1 \in 1..n  BY <1>1, <1>3
    <3>2. PICK one \in 1..n : one = 1  BY <3>1
    <3>3. one - 1 = 0  BY <3>2
    <3> HIDE DEF step, Eq
    <3>4. f[one] = f[one - 1] \o seqs[one]  BY <2>4
    <3>5. f[one] = << >> \o seqs[one]  BY <2>4, <3>3, <3>4
    <3>6. seqs[one] \in Seq(V)  BY <1>1
    <3>7. << >> \o seqs[one] = seqs[one]  BY <3>6
    <3> QED  BY <3>1, <3>2, <3>5, <3>7
  <2>6. Eq([i \in 1..n |-> f[i]])
    <3>1. \A i \in 1..n : f[i] = IF i = 1 THEN seqs[i] ELSE [j \in 1..n |-> f[j]][i - 1] \o seqs[i]
      <4> TAKE i \in 1..n
      <4>1. CASE i = 1  BY <2>5, <4>1
      <4>2. CASE i # 1
        <5>1. i - 1 \in 1..n  BY <1>1, <4>2
        <5> QED  BY <2>4, <4>2, <5>1
      <4> QED  BY <4>1, <4>2
    <3> QED  BY <3>1
  <2>7. PICK g : Eq(g) /\ FlattenSeq(seqs) = g[n]
    <3> DEFINE g == CHOOSE g : Eq(g)
    <3>1. Eq(g)
      <4> HIDE DEF Eq
      <4> QED  BY <2>6
    <3>2. FlattenSeq(seqs) = g[n]  BY <1>3 DEF FlattenSeq, n
    <3> HIDE DEF g, Eq
    <3> QED  BY <3>1, <3>2
  <2>8. \A k \in 1..n : g[k] = IF k = 1 THEN seqs[k] ELSE g[k - 1] \o seqs[k]  BY <2>7
  <2> DEFINE W == {k \in 0..n : k # 0 /\ g[k] # f[k]}
  <2> HIDE DEF step, Eq
  <2>9. ASSUME NEW k \in W PROVE k > 0 /\ k - 1 \in W
    <3>1. k \in 1..n  BY <1>1
    <3>2. g[k] # f[k]  OBVIOUS
    <3>3. k # 1  BY <2>5, <2>8, <3>2
    <3>4. g[k] = g[k - 1] \o seqs[k] /\ f[k] = f[k - 1] \o seqs[k]  BY <2>4, <2>8, <3>1, <3>3
    <3>5. g[k - 1] # f[k - 1]  BY <3>2, <3>4
    <3>6. k - 1 \in 0..n /\ k - 1 # 0 /\ k > 0  BY <1>1, <3>1, <3>3
    <3> QED  BY <3>5, <3>6
  <2>10. W = {}
    <3> HIDE DEF W
    <3>1. W \subseteq 0..n  BY DEF W
    <3> QED  BY <1>1, <2>9, <3>1, NoFirst
  <2>11. g[n] = f[n]  BY <1>1, <1>3, <2>10
  <2> QED  BY <2>4, <2>7, <2>11 DEF FlattensTo, n
<1> QED  BY <1>2, <1>3

LEMMA MembersOfFlat ==
    ASSUME NEW V, NEW seqs \in Seq(Seq(V))
    PROVE  /\ FlattenSeq(seqs) \in Seq(V)
           /\ ToSet(FlattenSeq(seqs)) = UNION {ToSet(seqs[k]) : k \in 1..Len(seqs)}
<1> DEFINE n == Len(seqs)
           Upto(k) == UNION {ToSet(seqs[j]) : j \in 1..k}
<1>1. n \in Nat /\ \A k \in 1..n : seqs[k] \in Seq(V)  OBVIOUS
<1>2. PICK f : FlattensTo(seqs, V, f)  BY Flattened
<1> HIDE DEF n
<1>3. /\ f \in [0..n -> Seq(V)] /\ f[0] = << >>
      /\ \A k \in 1..n : f[k] = f[k - 1] \o seqs[k]
      /\ FlattenSeq(seqs) = f[n]
    BY <1>2 DEF FlattensTo, n
<1> DEFINE W == {k \in 0..n : ToSet(f[k]) # Upto(k)}
<1>4. ASSUME NEW k \in W PROVE k > 0 /\ k - 1 \in W
  <2>1. ToSet(f[0]) = {} /\ Upto(0) = {}  BY <1>3 DEF ToSet
  <2>0. k \in 0..n /\ ToSet(f[k]) # Upto(k)  OBVIOUS
  <2>2. k \in 1..n
    <3> HIDE DEF Upto
    <3>1. k # 0  BY <2>0, <2>1
    <3> QED  BY <1>1, <2>0, <3>1
  <2>3. f[k - 1] \in Seq(V) /\ seqs[k] \in Seq(V) /\ f[k] = f[k - 1] \o seqs[k]
    <3> HIDE DEF Upto
    <3>1. k - 1 \in 0..n  BY <1>1, <2>2
    <3>2. f[k - 1] \in Seq(V)  BY <1>3, <3>1
    <3>3. seqs[k] \in Seq(V)  BY <1>1, <2>2
    <3>4. f[k] = f[k - 1] \o seqs[k]  BY <1>3, <2>2
    <3> QED  BY <3>2, <3>3, <3>4
  <2>4. ToSet(f[k]) = ToSet(f[k - 1]) \cup ToSet(seqs[k])  BY <2>3, MembersOfConcat
  <2>5. 1..k = 1..(k - 1) \cup {k}  BY <2>2
  <2>6. Upto(k) = Upto(k - 1) \cup ToSet(seqs[k])  BY <2>5
  <2> HIDE DEF Upto
  <2>7. ToSet(f[k - 1]) # Upto(k - 1)  BY <2>0, <2>4, <2>6
  <2>8. k > 0 /\ k - 1 \in 0..n  BY <1>1, <2>2
  <2> QED  BY <2>7, <2>8
<1>5. W = {}
  <2>1. W \subseteq 0..n  OBVIOUS
  <2> HIDE DEF W
  <2> QED  BY <1>1, <1>4, <2>1, NoFirst
<1>6. n \in 0..n  BY <1>1
<1>7. ToSet(f[n]) = Upto(n)  BY <1>5, <1>6
<1> QED  BY <1>3, <1>6, <1>7 DEF n

(***************************************************************************)
(* Sorting.                                                                *)
(***************************************************************************)
Pairs == Int \X Int

LEMMA SortedRight ==
    ASSUME NEW S \in SUBSET Pairs, IsFiniteSet(S)
    PROVE  /\ Sorted(S) \in Seq(S) /\ ToSet(Sorted(S)) = S
           /\ Len(Sorted(S)) = Cardinality(S)
           /\ \A j, k \in 1..Len(Sorted(S)) : j < k => Earlier(Sorted(S)[j], Sorted(S)[k])
<1> DEFINE n == Cardinality(S)
           ahead(i) == {j \in S : Earlier(j, i)}
           rank == [i \in S |-> Cardinality(ahead(i))]
<1>1. n \in Nat  BY FS_CardinalityType
<1>2. \A i, j \in S : i = j \/ Earlier(i, j) \/ Earlier(j, i)  BY DEF Pairs, Earlier
<1>3. \A i \in S : ~Earlier(i, i)  BY DEF Pairs, Earlier
<1>4. \A i, j, k \in S : Earlier(i, j) /\ Earlier(j, k) => Earlier(i, k)  BY DEF Pairs, Earlier
<1>5. \A i \in S : ahead(i) \subseteq S /\ IsFiniteSet(ahead(i)) /\ Cardinality(ahead(i)) \in Nat
    BY FS_Subset, FS_CardinalityType
<1>6. \A i, j \in S : Earlier(i, j) => rank[i] < rank[j]
  <2> SUFFICES ASSUME NEW i \in S, NEW j \in S, Earlier(i, j) PROVE rank[i] < rank[j]
      OBVIOUS
  <2>1. ahead(i) \subseteq ahead(j) /\ i \in ahead(j) /\ i \notin ahead(i)  BY <1>3, <1>4
  <2>2. ahead(i) # ahead(j)  BY <2>1
  <2> HIDE DEF ahead
  <2>3. Cardinality(ahead(i)) <= Cardinality(ahead(j)) /\ Cardinality(ahead(i)) # Cardinality(ahead(j))
      BY <1>5, <2>1, <2>2, FS_Subset
  <2> QED  BY <1>5, <2>3
<1>7. \A i \in S : rank[i] \in 0..(n - 1)
  <2> TAKE i \in S
  <2>1. ahead(i) \subseteq S /\ ahead(i) # S  BY <1>3
  <2> HIDE DEF ahead
  <2>2. Cardinality(ahead(i)) <= n /\ Cardinality(ahead(i)) # n  BY <2>1, FS_Subset
  <2> QED  BY <1>1, <1>5, <2>2
<1> HIDE DEF ahead
<1>8. rank \in [S -> 0..(n - 1)]  BY <1>7
<1> HIDE DEF rank
<1>9. \A i, j \in S : rank[i] = rank[j] => i = j
  <2> SUFFICES ASSUME NEW i \in S, NEW j \in S, rank[i] = rank[j] PROVE i = j  OBVIOUS
  <2>1. rank[i] \in Int /\ rank[j] \in Int  BY <1>7
  <2> QED  BY <1>2, <1>6, <2>1
<1>10. \A r \in 0..(n - 1) : \E i \in S : rank[i] = r
  <2>1. rank \in Injection(S, 0..(n - 1))  BY <1>8, <1>9 DEF Injection, IsInjective
  <2>2. IsFiniteSet(0..(n - 1)) /\ Cardinality(0..(n - 1)) = n
    <3> HIDE DEF n
    <3>1. 0 \in Int /\ n - 1 \in Int /\ (n - 1) - 0 + 1 = n /\ (0 > n - 1 => n = 0)  BY <1>1
    <3> QED  BY <3>1, FS_Interval
  <2>3. rank \in Surjection(S, 0..(n - 1))  BY <2>1, <2>2, FS_Injection
  <2> QED  BY <2>3 DEF Surjection
<1> DEFINE s == [k \in 1..n |-> CHOOSE i \in S : Cardinality({j \in S : Earlier(j, i)}) = k - 1]
<1>11. Sorted(S) = s  BY DEF Sorted
<1>12. ASSUME NEW k \in 1..n PROVE s[k] \in S /\ rank[s[k]] = k - 1
  <2>1. k - 1 \in 0..(n - 1)  BY <1>1
  <2>2. PICK i \in S : rank[i] = k - 1  BY <1>10, <2>1
  <2>3. \A j \in S : rank[j] = Cardinality({q \in S : Earlier(q, j)})  BY DEF rank, ahead
  <2>4. \E j \in S : Cardinality({q \in S : Earlier(q, j)}) = k - 1  BY <2>2, <2>3
  <2> QED  BY <2>3, <2>4
<1> HIDE DEF n
<1>13. DOMAIN s = 1..n /\ s = [k \in 1..n |-> s[k]]  OBVIOUS
<1> HIDE DEF s
<1>14. s \in Seq(S) /\ Len(s) = n
  <2>1. s \in [1..n -> S]  BY <1>12, <1>13
  <2> QED  BY <1>1, <2>1
<1>15. \A j, k \in 1..n : j < k => Earlier(s[j], s[k])
  <2> SUFFICES ASSUME NEW j \in 1..n, NEW k \in 1..n, j < k PROVE Earlier(s[j], s[k])  OBVIOUS
  <2>1. s[j] \in S /\ s[k] \in S /\ rank[s[j]] = j - 1 /\ rank[s[k]] = k - 1  BY <1>12
  <2>2. rank[s[j]] < rank[s[k]]  BY <1>1, <2>1
  <2>3. s[j] # s[k] /\ ~Earlier(s[k], s[j])  BY <1>1, <1>6, <2>1, <2>2
  <2> QED  BY <1>2, <2>1, <2>3
<1>16. ToSet(s) = S
  <2>1. ToSet(s) \subseteq S  BY <1>12, <1>13 DEF ToSet
  <2>2. ASSUME NEW i \in S PROVE i \in ToSet(s)
    <3>1. rank[i] + 1 \in 1..n /\ (rank[i] + 1) - 1 = rank[i]  BY <1>1, <1>7
    <3>2. s[rank[i] + 1] = i  BY <1>9, <1>12, <3>1
    <3> QED  BY <1>13, <3>1, <3>2 DEF ToSet
  <2> QED  BY <2>1, <2>2
<1> QED  BY <1>11, <1>14, <1>15, <1>16 DEF n

\* What is read off numbers is finite.
LEMMA FiniteImage ==
    ASSUME NEW n \in Nat, NEW V, NEW f \in [1..n -> V], NEW T, T \subseteq {f[k] : k \in 1..n}
    PROVE  IsFiniteSet(T)
<1> DEFINE R == {f[k] : k \in 1..n}
<1>1. IsFiniteSet(1..n)  BY FS_Interval
<1>2. f \in Surjection(1..n, R)  BY DEF Surjection
<1> HIDE DEF R
<1>3. IsFiniteSet(R)  BY <1>1, <1>2, FS_Surjection
<1>4. T \subseteq R  BY DEF R
<1> QED  BY <1>3, <1>4, FS_Subset

(***************************************************************************)
(* Lists of intervals.                                                     *)
(***************************************************************************)

\* The ends of a list's intervals are taken from E.
EndsFrom(s, E) == \A k \in 1..Len(s) : s[k][1] \in E /\ s[k][2] \in E

Canonical(s) == s \in Seq(Pairs) /\ IsCanonical(s)

LEMMA TicksOf ==
    ASSUME NEW s \in Seq(Pairs), NEW t
    PROVE  t \in Ticks(s) <=> t \in Int /\ \E k \in 1..Len(s) : s[k][1] <= t /\ t < s[k][2]
<1>1. \A k \in 1..Len(s) : s[k][1] \in Int /\ s[k][2] \in Int  BY DEF Pairs
<1>2. ToSet(s) = {s[k] : k \in 1..Len(s)}  BY MembersOf
<1>3. t \in Ticks(s) <=> \E k \in 1..Len(s) : t \in s[k][1]..(s[k][2] - 1)
    BY <1>2 DEF Ticks
<1>4. \A a, b \in Int : t \in a..(b - 1) <=> t \in Int /\ a <= t /\ t < b  OBVIOUS
<1> QED  BY <1>1, <1>3, <1>4

LEMMA MaxOfTwo ==
    ASSUME NEW a \in Int, NEW b \in Int
    PROVE  Max({a, b}) = (IF a >= b THEN a ELSE b) /\ Min({a, b}) = (IF a <= b THEN a ELSE b)
BY DEF Max, Min

\* A list in order, one interval behind the other.
LEMMA JoinedRight ==
    ASSUME NEW m, Canonical(m), NEW i \in Pairs, i[1] < i[2],
           m # << >> => Last(m)[1] <= i[1],
           NEW E, EndsFrom(m, E), i[1] \in E, i[2] \in E
    PROVE  /\ Canonical(Joined(m, i)) /\ EndsFrom(Joined(m, i), E)
           /\ Joined(m, i) # << >> /\ Last(Joined(m, i))[1] <= i[1]
           /\ Ticks(Joined(m, i)) = Ticks(m) \cup i[1]..(i[2] - 1)
<1> DEFINE r == Joined(m, i)
           n == Len(m)
<1>1. m \in Seq(Pairs) /\ n \in Nat /\ i[1] \in Int /\ i[2] \in Int  BY DEF Canonical, Pairs
<1>2. \A k \in 1..n : m[k] \in Pairs /\ m[k][1] \in Int /\ m[k][2] \in Int /\ m[k][1] < m[k][2]
    BY <1>1 DEF Canonical, IsCanonical, Pairs
<1>3. \A k \in 1..(n - 1) : m[k][2] < m[k + 1][1]  BY DEF Canonical, IsCanonical
<1>4. CASE m # << >> /\ i[1] <= Last(m)[2]
  <2> DEFINE e == Max({Last(m)[2], i[2]})
             j == <<Last(m)[1], e>>
  <2>1. /\ n \in Nat \ {0} /\ Last(m) = m[n] /\ n \in 1..n
        /\ Front(m) \in Seq(Pairs) /\ Len(Front(m)) = n - 1
        /\ \A k \in 1..(n - 1) : Front(m)[k] = m[k]
    BY <1>1, <1>4, LastAndFront
  <2>2. /\ m[n][1] \in Int /\ m[n][2] \in Int /\ m[n][1] < m[n][2]
        /\ m[n][1] <= i[1] /\ i[1] <= m[n][2]
    BY <1>2, <1>4, <2>1
  <2>3. e = IF m[n][2] >= i[2] THEN m[n][2] ELSE i[2]  BY <1>1, <2>1, <2>2, MaxOfTwo
  <2>4. e \in Int /\ e \in E /\ m[n][2] <= e /\ i[2] <= e /\ (e = m[n][2] \/ e = i[2])
      BY <1>1, <2>1, <2>2, <2>3 DEF EndsFrom
  <2> HIDE DEF e
  <2>5. j \in Pairs /\ j[1] = m[n][1] /\ j[2] = e  BY <2>1, <2>2, <2>4 DEF Pairs
  <2>6. r = Append(Front(m), j)  BY <1>4 DEF Joined, e
  <2> HIDE DEF j, r
  <2>7. /\ r \in Seq(Pairs) /\ Len(r) = n
        /\ \A k \in 1..(n - 1) : r[k] = m[k]
        /\ r[n] = j
    <3>1. /\ Append(Front(m), j) \in Seq(Pairs) /\ Len(Append(Front(m), j)) = Len(Front(m)) + 1
          /\ \A k \in 1..Len(Front(m)) : Append(Front(m), j)[k] = Front(m)[k]
          /\ Append(Front(m), j)[Len(Front(m)) + 1] = j
        BY <2>1, <2>5
    <3>2. (n - 1) + 1 = n  BY <1>1
    <3> QED  BY <2>1, <2>6, <3>1, <3>2
  <2>8. IsCanonical(r)
    <3>1. DOMAIN r = 1..n  BY <2>7
    <3>2. \A k \in 1..n : k = n \/ k \in 1..(n - 1)  BY <1>1
    <3>3. \A k \in 1..n : r[k][1] < r[k][2]  BY <1>2, <2>2, <2>4, <2>5, <2>7, <3>2
    <3>4. \A k \in 1..n : r[k][1] = m[k][1]  BY <2>5, <2>7, <3>2
    <3>5. \A k \in 1..(n - 1) : r[k][2] < r[k + 1][1]
      <4> TAKE k \in 1..(n - 1)
      <4>1. k + 1 \in 1..n  BY <1>1
      <4> QED  BY <1>3, <2>7, <3>4, <4>1
    <3> QED  BY <2>7, <3>1, <3>3, <3>5 DEF IsCanonical
  <2>9. EndsFrom(r, E)
    <3>1. \A k \in 1..n : k = n \/ k \in 1..(n - 1)  BY <1>1
    <3>2. \A k \in 1..n : m[k][1] \in E /\ m[k][2] \in E  BY DEF EndsFrom
    <3>3. \A k \in 1..n : r[k][1] \in E /\ r[k][2] \in E
        BY <2>1, <2>4, <2>5, <2>7, <3>1, <3>2
    <3> QED  BY <2>7, <3>3 DEF EndsFrom
  <2>10. r # << >> /\ Last(r)[1] <= i[1]
    <3>1. r # << >>  BY <2>1, <2>7
    <3>2. Last(r) = r[n]  BY <2>7, <3>1, LastAndFront
    <3> QED  BY <2>2, <2>5, <2>7, <3>1, <3>2
  <2>11. Ticks(r) = Ticks(m) \cup i[1]..(i[2] - 1)
    <3>1. ASSUME NEW t PROVE t \in Ticks(r) <=> t \in Ticks(m) \/ t \in i[1]..(i[2] - 1)
      <4>1. t \in Ticks(m) <=> t \in Int /\ \E k \in 1..n : m[k][1] <= t /\ t < m[k][2]
          BY <1>1, TicksOf
      <4>2. t \in Ticks(r) <=> t \in Int /\ \E k \in 1..n : r[k][1] <= t /\ t < r[k][2]
          BY <2>7, TicksOf
      <4>3. \A k \in 1..n : k = n \/ k \in 1..(n - 1)  BY <1>1
      <4>4. \A k \in 1..(n - 1) : k \in 1..n  BY <1>1
      <4>5. t \in Ticks(m) <=> t \in Int /\ ((\E k \in 1..(n - 1) : m[k][1] <= t /\ t < m[k][2])
                                       \/ (m[n][1] <= t /\ t < m[n][2]))
          BY <2>1, <4>1, <4>3, <4>4
      <4>6. t \in Ticks(r) <=> t \in Int /\ ((\E k \in 1..(n - 1) : m[k][1] <= t /\ t < m[k][2])
                                       \/ (m[n][1] <= t /\ t < e))
          BY <2>1, <2>5, <2>7, <4>2, <4>3, <4>4
      <4>7. t \in Int => (m[n][1] <= t /\ t < e
                            <=> (m[n][1] <= t /\ t < m[n][2]) \/ t \in i[1]..(i[2] - 1))
          BY <1>1, <2>2, <2>4
      <4> QED  BY <1>1, <4>5, <4>6, <4>7
    <3> QED  BY <3>1
  <2> QED  BY <2>7, <2>8, <2>9, <2>10, <2>11 DEF Canonical, r
<1>5. CASE ~(m # << >> /\ i[1] <= Last(m)[2])
  <2>1. r = Append(m, i)  BY <1>5 DEF Joined
  <2> HIDE DEF r
  <2>2. /\ r \in Seq(Pairs) /\ Len(r) = n + 1
        /\ \A k \in 1..n : r[k] = m[k]
        /\ r[n + 1] = i
    BY <1>1, <2>1
  <2>3. \A k \in 1..(n + 1) : k = n + 1 \/ k \in 1..n  BY <1>1
  <2>4. n # 0 => m[n][2] < i[1]
    <3>1. SUFFICES ASSUME n # 0 PROVE m[n][2] < i[1]  OBVIOUS
    <3>2. m # << >>  BY <3>1
    <3>3. Last(m) = m[n]  BY <1>1, <3>2, LastAndFront
    <3>4. n \in 1..n  BY <1>1, <3>1
    <3> QED  BY <1>1, <1>2, <1>5, <3>2, <3>3, <3>4
  <2>5. IsCanonical(r)
    <3>1. DOMAIN r = 1..(n + 1)  BY <1>1, <2>2
    <3>2. \A k \in 1..(n + 1) : r[k][1] < r[k][2]  BY <1>2, <2>2, <2>3
    <3>3. \A k \in 1..n : r[k][2] < r[k + 1][1]
      <4> TAKE k \in 1..n
      <4>1. CASE k = n  BY <1>1, <2>2, <2>4, <4>1
      <4>2. CASE k # n
        <5>1. k \in 1..(n - 1) /\ k + 1 \in 1..n  BY <1>1, <4>2
        <5> QED  BY <1>3, <2>2, <5>1
      <4> QED  BY <4>1, <4>2
    <3>4. Len(r) - 1 = n  BY <1>1, <2>2
    <3> QED  BY <3>1, <3>2, <3>3, <3>4 DEF IsCanonical
  <2>6. EndsFrom(r, E)  BY <2>2, <2>3 DEF EndsFrom
  <2>7. r # << >> /\ Last(r)[1] <= i[1]
    <3>1. r # << >>  BY <1>1, <2>2
    <3>2. Last(r) = r[n + 1]  BY <2>2, <3>1, LastAndFront
    <3> QED  BY <1>1, <2>2, <3>1, <3>2
  <2>8. Ticks(r) = Ticks(m) \cup i[1]..(i[2] - 1)
    <3>1. ASSUME NEW t PROVE t \in Ticks(r) <=> t \in Ticks(m) \/ t \in i[1]..(i[2] - 1)
      <4>1. t \in Ticks(m) <=> t \in Int /\ \E k \in 1..n : m[k][1] <= t /\ t < m[k][2]
          BY <1>1, TicksOf
      <4>2. t \in Ticks(r) <=> t \in Int /\ \E k \in 1..(n + 1) : r[k][1] <= t /\ t < r[k][2]
          BY <2>2, TicksOf
      <4>3. n + 1 \in 1..(n + 1) /\ \A k \in 1..n : k \in 1..(n + 1)  BY <1>1
      <4>4. t \in Ticks(r) <=> t \in Int /\ ((\E k \in 1..n : m[k][1] <= t /\ t < m[k][2])
                                       \/ (i[1] <= t /\ t < i[2]))
          BY <2>2, <2>3, <4>2, <4>3
      <4>5. t \in i[1]..(i[2] - 1) <=> t \in Int /\ i[1] <= t /\ t < i[2]  BY <1>1
      <4> QED  BY <4>1, <4>4, <4>5
    <3> QED  BY <3>1
  <2> QED  BY <2>2, <2>5, <2>6, <2>7, <2>8 DEF Canonical, r
<1> QED  BY <1>4, <1>5

LEMMA JoinedInPairs ==
    ASSUME NEW m \in Seq(Pairs), NEW i \in Pairs
    PROVE  Joined(m, i) \in Seq(Pairs)
<1>1. CASE m # << >> /\ i[1] <= Last(m)[2]
  <2> DEFINE e == Max({Last(m)[2], i[2]})
  <2>1. Last(m) \in Pairs /\ Front(m) \in Seq(Pairs)  BY <1>1, LastAndFront
  <2>2. Last(m)[1] \in Int /\ Last(m)[2] \in Int /\ i[2] \in Int  BY <2>1 DEF Pairs
  <2>3. e \in Int  BY <2>2, MaxOfTwo
  <2> HIDE DEF e
  <2>4. <<Last(m)[1], e>> \in Pairs  BY <2>2, <2>3 DEF Pairs
  <2> HIDE DEF e
  <2>5. Joined(m, i) = Append(Front(m), <<Last(m)[1], e>>)  BY <1>1 DEF Joined, e
  <2> QED  BY <2>1, <2>4, <2>5
<1>2. CASE ~(m # << >> /\ i[1] <= Last(m)[2])  BY <1>2 DEF Joined
<1> QED  BY <1>1, <1>2

\* merge_intervals: the list is canonical, and neither ticks nor ends are added or lost.
LEMMA MergeRight ==
    ASSUME NEW s \in Seq(Pairs), \A k \in 1..Len(s) : s[k][1] < s[k][2],
           NEW E, EndsFrom(s, E)
    PROVE  /\ Canonical(MergeIntervals(s)) /\ EndsFrom(MergeIntervals(s), E)
           /\ Ticks(MergeIntervals(s)) = Ticks(s)
<1> DEFINE S == ToSet(s)
           sorted == Sorted(S)
           n == Len(sorted)
           step == [k \in 1..n |-> [m \in Seq(Pairs) |-> Joined(m, sorted[k])]]
           Eq(g) == g = [k \in 0..n |-> IF k = 0 THEN << >> ELSE Joined(g[k - 1], sorted[k])]
           Upto(k) == UNION {sorted[j][1]..(sorted[j][2] - 1) : j \in 1..k}
<1>1. S \in SUBSET Pairs /\ S = {s[k] : k \in 1..Len(s)}  BY MembersOf
<1>2. IsFiniteSet(S)
  <2>1. Len(s) \in Nat /\ s \in [1..Len(s) -> Pairs]  OBVIOUS
  <2> HIDE DEF S
  <2> QED  BY <1>1, <2>1, FiniteImage
<1>3. \A i \in S : i[1] \in Int /\ i[2] \in Int /\ i[1] < i[2] /\ i[1] \in E /\ i[2] \in E
    BY <1>1 DEF EndsFrom, Pairs
<1> HIDE DEF S
<1>4. sorted \in Seq(S) /\ ToSet(sorted) = S  BY <1>1, <1>2, SortedRight
<1>5. \A j, k \in 1..n : j < k => Earlier(sorted[j], sorted[k])  BY <1>1, <1>2, SortedRight
<1>6. MergeIntervals(s) = (CHOOSE g : Eq(g))[n]  BY DEF MergeIntervals, S
<1> HIDE DEF sorted
<1>7. n \in Nat /\ \A k \in 1..n : sorted[k] \in S /\ sorted[k] \in Pairs  BY <1>1, <1>4
<1>8. S = {sorted[k] : k \in 1..n}  BY <1>4, MembersOf
<1> HIDE DEF n
<1>9. PICK g : Eq(g) /\ MergeIntervals(s) = g[n]
  <2>1. step \in [1..n -> [Seq(Pairs) -> Seq(Pairs)]]
    <3>1. \A k \in 1..n : \A m \in Seq(Pairs) : Joined(m, sorted[k]) \in Seq(Pairs)
        BY <1>7, JoinedInPairs
    <3> QED  BY <3>1
  <2>2. << >> \in Seq(Pairs)  OBVIOUS
  <2>3. PICK f : IsCounted(n, Seq(Pairs), << >>, step, f)
    <3> HIDE DEF step
    <3> QED  BY <1>7, <2>1, <2>2, Counted
  <2>4. f \in [0..n -> Seq(Pairs)] /\ f[0] = << >> /\ \A k \in 1..n : f[k] = step[k][f[k - 1]]
    <3> HIDE DEF step
    <3> QED  BY <2>3 DEF IsCounted
  <2>5. \A k \in 1..n : f[k] = Joined(f[k - 1], sorted[k])
    <3> TAKE k \in 1..n
    <3>1. k - 1 \in 0..n  BY <1>7
    <3>2. f[k - 1] \in Seq(Pairs)  BY <2>4, <3>1
    <3> QED  BY <2>4, <3>2
  <2> HIDE DEF step
  <2>6. \A k \in 0..n : f[k] = IF k = 0 THEN << >> ELSE Joined(f[k - 1], sorted[k])
    <3> TAKE k \in 0..n
    <3>1. CASE k = 0  BY <2>4, <3>1
    <3>2. CASE k # 0
      <4>1. k \in 1..n  BY <1>7, <3>2
      <4> QED  BY <2>5, <3>2, <4>1
    <3> QED  BY <3>1, <3>2
  <2>7. Eq(f)  BY <2>4, <2>6
  <2> DEFINE c == CHOOSE h : Eq(h)
  <2>8. MergeIntervals(s) = c[n]  BY <1>6
  <2>9. Eq(c)
    <3> HIDE DEF Eq
    <3> QED  BY <2>7
  <2> HIDE DEF c, Eq
  <2> QED  BY <2>8, <2>9
<1>10. g[0] = << >> /\ \A k \in 1..n : g[k] = Joined(g[k - 1], sorted[k])
  <2>1. 0 \in 0..n /\ \A k \in 1..n : k \in 0..n /\ k # 0  BY <1>7
  <2>2. \A k \in 0..n : g[k] = IF k = 0 THEN << >> ELSE Joined(g[k - 1], sorted[k])  BY <1>9
  <2> HIDE DEF Eq
  <2> QED  BY <2>1, <2>2
<1> HIDE DEF Eq, step
<1> DEFINE Good(k) == /\ Canonical(g[k]) /\ EndsFrom(g[k], E)
                      /\ IF k = 0 THEN g[k] = << >>
                         ELSE g[k] # << >> /\ Last(g[k])[1] <= sorted[k][1]
                      /\ Ticks(g[k]) = Upto(k)
           W == {k \in 0..n : ~Good(k)}
<1>11. Good(0)
  <2>1. Canonical(<< >>) /\ EndsFrom(<< >>, E)  BY DEF Canonical, IsCanonical, EndsFrom
  <2>2. Ticks(<< >>) = {}  BY DEF Ticks, ToSet
  <2>3. Upto(0) = {}  OBVIOUS
  <2> QED  BY <1>10, <2>1, <2>2, <2>3
<1>12. ASSUME NEW k \in 1..n, Good(k - 1) PROVE Good(k)
  <2> HIDE DEF W
  <2> DEFINE i == sorted[k]
             m == g[k - 1]
  <2>1. i \in Pairs /\ i \in S  BY <1>7
  <2>2. Canonical(m) /\ EndsFrom(m, E) /\ Ticks(m) = Upto(k - 1)  BY <1>12
  <2>3. m # << >> => Last(m)[1] <= i[1]
    <3> SUFFICES ASSUME m # << >> PROVE Last(m)[1] <= i[1]  OBVIOUS
    <3> HIDE DEF Upto
    <3>1. k - 1 # 0 /\ Last(m)[1] <= sorted[k - 1][1]  BY <1>12
    <3>2. k - 1 \in 1..n /\ k - 1 < k  BY <1>7, <3>1
    <3>3. Earlier(sorted[k - 1], i) /\ sorted[k - 1] \in S  BY <1>5, <1>7, <3>2
    <3>4. sorted[k - 1][1] <= i[1]  BY <1>3, <2>1, <3>3 DEF Earlier
    <3>5. Last(m)[1] \in Int
      <4>1. Last(m) \in Pairs  BY <2>2, LastAndFront DEF Canonical
      <4> QED  BY <4>1 DEF Pairs
    <3> HIDE DEF m, i
    <3>6. sorted[k - 1][1] \in Int /\ i[1] \in Int  BY <1>3, <2>1, <3>3
    <3> QED  BY <3>1, <3>4, <3>5, <3>6
  <2>4. g[k] = Joined(m, i)  BY <1>10
  <2>5. i[1] < i[2] /\ i[1] \in E /\ i[2] \in E  BY <1>3, <2>1
  <2>6. Upto(k) = Upto(k - 1) \cup i[1]..(i[2] - 1)
    <3>1. 1..k = 1..(k - 1) \cup {k}  BY <1>7
    <3> QED  BY <3>1
  <2> HIDE DEF i, m, Upto
  <2>7. /\ Canonical(Joined(m, i)) /\ EndsFrom(Joined(m, i), E)
        /\ Joined(m, i) # << >> /\ Last(Joined(m, i))[1] <= i[1]
        /\ Ticks(Joined(m, i)) = Ticks(m) \cup i[1]..(i[2] - 1)
      BY <2>1, <2>2, <2>3, <2>5, JoinedRight
  <2>8. k # 0 /\ sorted[k] = i  BY <1>7 DEF i
  <2> QED  BY <2>2, <2>4, <2>6, <2>7, <2>8
<1>13. W = {}
  <2> HIDE DEF Good
  <2>1. ASSUME NEW k \in W PROVE k > 0 /\ k - 1 \in W
    <3>1. k \in 0..n /\ ~Good(k)  OBVIOUS
    <3>2. k # 0  BY <1>11, <3>1
    <3>3. k \in 1..n /\ k - 1 \in 0..n  BY <1>7, <3>1, <3>2
    <3>4. ~Good(k - 1)  BY <1>12, <3>1, <3>3
    <3> QED  BY <3>3, <3>4
  <2>2. W \subseteq 0..n  OBVIOUS
  <2> HIDE DEF W
  <2> QED  BY <1>7, <2>1, <2>2, NoFirst
<1>14. Good(n)
  <2> HIDE DEF Good
  <2>1. n \in 0..n  BY <1>7
  <2> QED  BY <1>13, <2>1
<1>15. Ticks(s) = Upto(n)
  <2>1. Ticks(s) = UNION {i[1]..(i[2] - 1) : i \in S}  BY DEF Ticks, S
  <2> QED  BY <1>8, <2>1
<1> HIDE DEF Upto
<1> QED  BY <1>9, <1>14, <1>15

\* Two lists, one behind the other.
LEMMA ConcatRight ==
    ASSUME NEW x, NEW y, Canonical(x), Canonical(y),
           \A j \in 1..Len(x), k \in 1..Len(y) : x[j][2] < y[k][1]
    PROVE  Canonical(x \o y) /\ Ticks(x \o y) = Ticks(x) \cup Ticks(y)
<1> DEFINE n == Len(x)
           m == Len(y)
           z == x \o y
<1>1. x \in Seq(Pairs) /\ y \in Seq(Pairs) /\ n \in Nat /\ m \in Nat  BY DEF Canonical
<1>2. z \in Seq(Pairs) /\ ToSet(z) = ToSet(x) \cup ToSet(y)  BY <1>1, MembersOfConcat
<1>3. /\ Len(z) = n + m /\ \A k \in 1..n : z[k] = x[k]
      /\ \A k \in (n + 1)..(n + m) : z[k] = y[k - n]
  <2>1. Len(z) = n + m /\ \A k \in 1..n : z[k] = x[k]  BY <1>1
  <2>2. ASSUME NEW k \in (n + 1)..(n + m) PROVE z[k] = y[k - n]  BY <1>1
  <2> QED  BY <2>1, <2>2
<1>4. /\ \A k \in 1..n : x[k][1] < x[k][2]
      /\ \A k \in 1..(n - 1) : x[k][2] < x[k + 1][1]
      /\ \A k \in 1..m : y[k][1] < y[k][2]
      /\ \A k \in 1..(m - 1) : y[k][2] < y[k + 1][1]
    BY <1>1 DEF Canonical, IsCanonical
<1> HIDE DEF z
<1>5. \A k \in 1..(n + m) : z[k][1] < z[k][2]
  <2> TAKE k \in 1..(n + m)
  <2>1. CASE k <= n  BY <1>1, <1>3, <1>4, <2>1
  <2>2. CASE k > n
    <3>1. k \in (n + 1)..(n + m) /\ k - n \in 1..m  BY <1>1, <2>2
    <3> QED  BY <1>3, <1>4, <3>1
  <2> QED  BY <1>1, <2>1, <2>2
<1>6. \A k \in 1..(n + m - 1) : z[k][2] < z[k + 1][1]
  <2> TAKE k \in 1..(n + m - 1)
  <2>1. CASE k < n
    <3>1. k \in 1..(n - 1) /\ k \in 1..n /\ k + 1 \in 1..n  BY <1>1, <2>1
    <3> QED  BY <1>3, <1>4, <3>1
  <2>2. CASE k = n
    <3>1. k \in 1..n /\ k + 1 \in (n + 1)..(n + m) /\ (k + 1) - n = 1 /\ 1 \in 1..m
        BY <1>1, <2>2
    <3>2. z[k] = x[k] /\ z[k + 1] = y[1]  BY <1>3, <3>1
    <3> QED  BY <3>1, <3>2
  <2>3. CASE k > n
    <3>1. /\ k \in (n + 1)..(n + m) /\ k + 1 \in (n + 1)..(n + m)
          /\ k - n \in 1..(m - 1) /\ (k + 1) - n = (k - n) + 1
        BY <1>1, <2>3
    <3>2. z[k] = y[k - n] /\ z[k + 1] = y[(k - n) + 1]  BY <1>3, <3>1
    <3> QED  BY <1>4, <3>1, <3>2
  <2> QED  BY <1>1, <2>1, <2>2, <2>3
<1>7. IsCanonical(z)
  <2>1. DOMAIN z = 1..(n + m)  BY <1>2, <1>3
  <2> QED  BY <1>3, <1>5, <1>6, <2>1 DEF IsCanonical
<1>8. Ticks(z) = Ticks(x) \cup Ticks(y)  BY <1>2 DEF Ticks
<1> QED  BY <1>2, <1>7, <1>8 DEF Canonical, z

LEMMA SingleRight ==
    ASSUME NEW a \in Int, NEW b \in Int, a < b
    PROVE  /\ Canonical(<<<<a, b>>>>) /\ Ticks(<<<<a, b>>>>) = a..(b - 1)
           /\ Len(<<<<a, b>>>>) = 1
<1>1. <<<<a, b>>>> \in Seq(Pairs)  BY DEF Pairs
<1>2. IsCanonical(<<<<a, b>>>>)  BY DEF IsCanonical
<1>3. ToSet(<<<<a, b>>>>) = {<<a, b>>}  BY DEF ToSet
<1>4. Ticks(<<<<a, b>>>>) = a..(b - 1)  BY <1>3 DEF Ticks
<1> QED  BY <1>1, <1>2, <1>4 DEF Canonical

LEMMA RestRight ==
    ASSUME NEW i \in Pairs, i[1] < i[2], NEW lo \in Int, NEW hi \in Int, lo < hi,
           NEW E, {i[1], i[2], lo, hi} \subseteq E
    PROVE  /\ Canonical(Rest(i, lo, hi)) /\ EndsFrom(Rest(i, lo, hi), E)
           /\ \A k \in 1..Len(Rest(i, lo, hi)) :
                 i[1] <= Rest(i, lo, hi)[k][1] /\ Rest(i, lo, hi)[k][2] <= i[2]
           /\ Ticks(Rest(i, lo, hi)) = (i[1]..(i[2] - 1)) \ (lo..(hi - 1))
<1> DEFINE a == i[1]
           b == i[2]
           r == Rest(i, lo, hi)
<1>1. a \in Int /\ b \in Int /\ a < b  BY DEF Pairs
<1>2. {a, b, lo, hi} \subseteq E  OBVIOUS
<1> SUFFICES /\ Canonical(r) /\ EndsFrom(r, E)
             /\ \A k \in 1..Len(r) : a <= r[k][1] /\ r[k][2] <= b
             /\ Ticks(r) = (a..(b - 1)) \ (lo..(hi - 1))
    OBVIOUS
<1>3. CASE lo > a /\ hi < b
  <2>1. r = <<<<a, lo>>, <<hi, b>>>>  BY <1>3 DEF Rest
  <2> HIDE DEF r, a, b
  <2>2. r \in Seq(Pairs) /\ Len(r) = 2  BY <1>1, <2>1 DEF Pairs
  <2>3. \A k \in 1..2 : k = 1 \/ k = 2  OBVIOUS
  <2>4. r[1] = <<a, lo>> /\ r[2] = <<hi, b>>  BY <2>1
  <2>5. IsCanonical(r)
    <3>1. \A k \in 1..2 : r[k][1] < r[k][2]  BY <1>1, <1>3, <2>3, <2>4
    <3>2. \A k \in 1..(2 - 1) : r[k][2] < r[k + 1][1]
      <4>1. r[1][2] < r[2][1] /\ 1 + 1 = 2  BY <2>4
      <4> QED  BY <4>1
    <3> QED  BY <2>2, <3>1, <3>2 DEF IsCanonical
  <2>6. EndsFrom(r, E)  BY <1>2, <2>2, <2>3, <2>4 DEF EndsFrom
  <2>7. \A k \in 1..2 : a <= r[k][1] /\ r[k][2] <= b  BY <1>1, <1>3, <2>3, <2>4
  <2>8. Ticks(r) = (a..(b - 1)) \ (lo..(hi - 1))
    <3>1. ToSet(r) = {<<a, lo>>, <<hi, b>>}
      <4>1. ToSet(r) = {r[k] : k \in 1..2}  BY <2>2, MembersOf
      <4> QED  BY <2>3, <2>4, <4>1
    <3>2. Ticks(r) = a..(lo - 1) \cup hi..(b - 1)  BY <3>1 DEF Ticks
    <3> QED  BY <1>1, <1>3, <3>2
  <2> QED  BY <2>2, <2>5, <2>6, <2>7, <2>8 DEF Canonical
<1>4. CASE lo > a /\ ~(hi < b)
  <2> DEFINE e == Min({lo, b})
  <2>1. r = <<<<a, e>>>>  BY <1>4 DEF Rest
  <2>2. e = IF lo <= b THEN lo ELSE b  BY <1>1, MaxOfTwo
  <2> HIDE DEF r, a, b, e
  <2>3. e \in Int /\ a < e /\ e \in E /\ e <= b  BY <1>1, <1>2, <1>4, <2>2
  <2>4. Canonical(r) /\ Len(r) = 1 /\ Ticks(r) = a..(e - 1)  BY <1>1, <2>1, <2>3, SingleRight
  <2>5. \A k \in 1..1 : r[k] = <<a, e>>  BY <2>1
  <2>6. EndsFrom(r, E)  BY <1>2, <2>3, <2>4, <2>5 DEF EndsFrom
  <2>7. a..(e - 1) = (a..(b - 1)) \ (lo..(hi - 1))  BY <1>1, <1>4, <2>2
  <2> QED  BY <1>1, <2>3, <2>4, <2>5, <2>6, <2>7
<1>5. CASE ~(lo > a) /\ hi < b
  <2> DEFINE e == Max({hi, a})
  <2>1. r = <<<<e, b>>>>  BY <1>5 DEF Rest
  <2>2. e = IF hi >= a THEN hi ELSE a  BY <1>1, MaxOfTwo
  <2> HIDE DEF r, a, b, e
  <2>3. e \in Int /\ e < b /\ e \in E /\ a <= e  BY <1>1, <1>2, <1>5, <2>2
  <2>4. Canonical(r) /\ Len(r) = 1 /\ Ticks(r) = e..(b - 1)  BY <1>1, <2>1, <2>3, SingleRight
  <2>5. \A k \in 1..1 : r[k] = <<e, b>>  BY <2>1
  <2>6. EndsFrom(r, E)  BY <1>2, <2>3, <2>4, <2>5 DEF EndsFrom
  <2>7. e..(b - 1) = (a..(b - 1)) \ (lo..(hi - 1))  BY <1>1, <1>5, <2>2
  <2> QED  BY <1>1, <2>3, <2>4, <2>5, <2>6, <2>7
<1>6. CASE ~(lo > a) /\ ~(hi < b)
  <2>1. r = << >>  BY <1>6 DEF Rest
  <2>2. Canonical(r) /\ EndsFrom(r, E) /\ Len(r) = 0
      BY <2>1 DEF Canonical, IsCanonical, EndsFrom
  <2>3. Ticks(r) = {}  BY <2>1 DEF Ticks, ToSet
  <2>4. (a..(b - 1)) \ (lo..(hi - 1)) = {}  BY <1>1, <1>6
  <2> QED  BY <2>2, <2>3, <2>4
<1> QED  BY <1>3, <1>4, <1>5, <1>6

\* remove_interval: exactly the ticks of the interval are gone.
LEMMA RemoveRight ==
    ASSUME NEW s, Canonical(s), NEW lo \in Int, NEW hi \in Int, lo < hi,
           NEW E, EndsFrom(s, E), lo \in E, hi \in E
    PROVE  /\ Canonical(RemoveInterval(s, lo, hi)) /\ EndsFrom(RemoveInterval(s, lo, hi), E)
           /\ Ticks(RemoveInterval(s, lo, hi)) = Ticks(s) \ (lo..(hi - 1))
<1> DEFINE n == Len(s)
           rest == [k \in DOMAIN s |-> Rest(s[k], lo, hi)]
<1>1. s \in Seq(Pairs) /\ n \in Nat /\ DOMAIN s = 1..n  BY DEF Canonical
<1>2. \A k \in 1..n : /\ s[k] \in Pairs /\ s[k][1] \in Int /\ s[k][2] \in Int
                      /\ s[k][1] < s[k][2] /\ {s[k][1], s[k][2], lo, hi} \subseteq E
    BY <1>1 DEF Canonical, IsCanonical, EndsFrom, Pairs
<1>3. \A k \in 1..(n - 1) : s[k][2] < s[k + 1][1]  BY DEF Canonical, IsCanonical
<1>4. ASSUME NEW k \in 1..n
      PROVE  /\ Canonical(rest[k]) /\ EndsFrom(rest[k], E)
             /\ \A j \in 1..Len(rest[k]) : s[k][1] <= rest[k][j][1] /\ rest[k][j][2] <= s[k][2]
             /\ Ticks(rest[k]) = (s[k][1]..(s[k][2] - 1)) \ (lo..(hi - 1))
  <2>1. rest[k] = Rest(s[k], lo, hi)  BY <1>1
  <2>2. s[k] \in Pairs /\ s[k][1] < s[k][2] /\ {s[k][1], s[k][2], lo, hi} \subseteq E  BY <1>2
  <2> HIDE DEF rest
  <2> QED  BY <2>1, <2>2, RestRight
<1>5. RemoveInterval(s, lo, hi) = FlattenSeq(rest)  BY DEF RemoveInterval
<1>6. rest \in Seq(Seq(Pairs)) /\ Len(rest) = n
  <2>1. rest \in [1..n -> Seq(Pairs)]
    <3>1. \A k \in 1..n : rest[k] \in Seq(Pairs)
      <4> HIDE DEF rest
      <4> QED  BY <1>4 DEF Canonical
    <3> QED  BY <1>1, <3>1
  <2> HIDE DEF rest
  <2> QED  BY <1>1, <2>1
<1> HIDE DEF rest
<1>7. PICK f : FlattensTo(rest, Pairs, f)  BY <1>6, Flattened
<1>8. /\ f \in [0..n -> Seq(Pairs)] /\ f[0] = << >>
      /\ \A k \in 1..n : f[k] = f[k - 1] \o rest[k]
      /\ RemoveInterval(s, lo, hi) = f[n]
    BY <1>5, <1>6, <1>7 DEF FlattensTo
<1> HIDE DEF n
<1> DEFINE Before(k) == UNION {s[j][1]..(s[j][2] - 1) : j \in 1..k}
           Good(k) == /\ Canonical(f[k]) /\ EndsFrom(f[k], E)
                      /\ \A j \in 1..Len(f[k]) : k # 0 /\ f[k][j][2] <= s[k][2]
                      /\ Ticks(f[k]) = Before(k) \ (lo..(hi - 1))
           W == {k \in 0..n : ~Good(k)}
<1>9. Good(0)
  <2>1. Canonical(<< >>) /\ EndsFrom(<< >>, E)  BY DEF Canonical, IsCanonical, EndsFrom
  <2>2. Ticks(<< >>) = {}  BY DEF Ticks, ToSet
  <2>3. Before(0) = {}  OBVIOUS
  <2> QED  BY <1>8, <2>1, <2>2, <2>3
<1>10. ASSUME NEW k \in 1..n, Good(k - 1) PROVE Good(k)
  <2> HIDE DEF W
  <2> DEFINE x == f[k - 1]
             y == rest[k]
  <2>1. /\ Canonical(x) /\ EndsFrom(x, E) /\ Ticks(x) = Before(k - 1) \ (lo..(hi - 1))
        /\ \A j \in 1..Len(x) : k - 1 # 0 /\ x[j][2] <= s[k - 1][2]
      BY <1>10
  <2> HIDE DEF Before
  <2>2. /\ Canonical(y) /\ EndsFrom(y, E)
        /\ \A j \in 1..Len(y) : s[k][1] <= y[j][1] /\ y[j][2] <= s[k][2]
        /\ Ticks(y) = (s[k][1]..(s[k][2] - 1)) \ (lo..(hi - 1))
      BY <1>4
  <2>3. f[k] = x \o y  BY <1>8
  <2> HIDE DEF x, y
  <2>4. /\ x \in Seq(Pairs) /\ y \in Seq(Pairs)
        /\ \A j \in 1..Len(x) : x[j][1] \in Int /\ x[j][2] \in Int
        /\ \A j \in 1..Len(y) : y[j][1] \in Int /\ y[j][2] \in Int
    <3>1. x \in Seq(Pairs) /\ y \in Seq(Pairs)  BY <2>1, <2>2 DEF Canonical
    <3>2. \A p \in Pairs : p[1] \in Int /\ p[2] \in Int  BY DEF Pairs
    <3>3. \A j \in 1..Len(x) : x[j] \in Pairs  BY <3>1
    <3>4. \A j \in 1..Len(y) : y[j] \in Pairs  BY <3>1
    <3> QED  BY <3>1, <3>2, <3>3, <3>4
  <2>5. \A j \in 1..Len(x) : x[j][2] < s[k][1]
    <3> TAKE j \in 1..Len(x)
    <3>1. k - 1 # 0 /\ x[j][2] <= s[k - 1][2] /\ x[j][2] \in Int  BY <2>1, <2>4
    <3>2. k - 1 \in 1..(n - 1) /\ (k - 1) + 1 = k /\ k - 1 \in 1..n  BY <1>1, <3>1 DEF n
    <3>3. s[k - 1][2] < s[k][1] /\ s[k - 1][2] \in Int /\ s[k][1] \in Int
        BY <1>2, <1>3, <3>2 DEF n
    <3> QED  BY <3>1, <3>3
  <2>6. \A j \in 1..Len(x), q \in 1..Len(y) : x[j][2] < y[q][1]
    <3> TAKE j \in 1..Len(x), q \in 1..Len(y)
    <3>1. s[k][1] \in Int  BY <1>2
    <3> QED  BY <2>2, <2>4, <2>5, <3>1
  <2>7. Canonical(x \o y) /\ Ticks(x \o y) = Ticks(x) \cup Ticks(y)
      BY <2>1, <2>2, <2>6, ConcatRight
  <2>8. EndsFrom(x \o y, E) /\ \A j \in 1..Len(x \o y) : (x \o y)[j][2] <= s[k][2]
    <3>1. Len(x) \in Nat /\ Len(y) \in Nat /\ Len(x \o y) = Len(x) + Len(y)  BY <2>4
    <3>2. ASSUME NEW j \in 1..Len(x \o y)
          PROVE  /\ (x \o y)[j][1] \in E /\ (x \o y)[j][2] \in E
                 /\ (x \o y)[j][2] <= s[k][2]
      <4>1. CASE j <= Len(x)
        <5>1. j \in 1..Len(x) /\ (x \o y)[j] = x[j]  BY <2>4, <3>1, <4>1
        <5>2. x[j][2] < s[k][1] /\ s[k][1] < s[k][2] /\ x[j][2] \in Int
              /\ s[k][1] \in Int /\ s[k][2] \in Int
            BY <1>2, <2>4, <2>5, <5>1
        <5>3. x[j][1] \in E /\ x[j][2] \in E  BY <2>1, <5>1 DEF EndsFrom
        <5> QED  BY <5>1, <5>2, <5>3
      <4>2. CASE j > Len(x)
        <5>1. j - Len(x) \in 1..Len(y)  BY <3>1, <4>2
        <5>2. (x \o y)[j] = y[j - Len(x)]  BY <2>4, <3>1, <4>2
        <5> QED  BY <2>2, <5>1, <5>2 DEF EndsFrom
      <4> QED  BY <3>1, <4>1, <4>2
    <3> QED  BY <3>2 DEF EndsFrom
  <2>9. Before(k) = Before(k - 1) \cup s[k][1]..(s[k][2] - 1)
    <3>1. 1..k = 1..(k - 1) \cup {k}  BY <1>1 DEF n
    <3> QED  BY <3>1 DEF Before
  <2>10. k # 0  BY <1>1 DEF n
  <2>11. Ticks(f[k]) = Before(k) \ (lo..(hi - 1))  BY <2>1, <2>2, <2>3, <2>7, <2>9
  <2> QED  BY <2>3, <2>7, <2>8, <2>10, <2>11
<1>11. W = {}
  <2> HIDE DEF Good
  <2>1. ASSUME NEW k \in W PROVE k > 0 /\ k - 1 \in W
    <3>0. n \in Nat  BY <1>1 DEF n
    <3>1. k \in 0..n /\ ~Good(k)  OBVIOUS
    <3>2. k # 0  BY <1>9, <3>1
    <3>3. k \in 1..n /\ k - 1 \in 0..n  BY <3>0, <3>1, <3>2
    <3>4. ~Good(k - 1)  BY <1>10, <3>1, <3>3
    <3> QED  BY <3>3, <3>4
  <2>2. W \subseteq 0..n /\ n \in Nat  BY <1>1 DEF n
  <2> HIDE DEF W
  <2> QED  BY <2>1, <2>2, NoFirst
<1>12. Good(n)
  <2> HIDE DEF Good
  <2>1. n \in 0..n  BY <1>1 DEF n
  <2> QED  BY <1>11, <2>1
<1>13. Ticks(s) = Before(n)
  <2>1. ToSet(s) = {s[k] : k \in 1..n}  BY <1>1, MembersOf DEF n
  <2> QED  BY <2>1 DEF Ticks
<1> HIDE DEF Before
<1> QED  BY <1>8, <1>12, <1>13

(***************************************************************************)
(* Units.                                                                  *)
(***************************************************************************)

\* expand_range: from lo unit by unit; the rest is hi.
IsExpanded(ts, lo, hi, unit) ==
    /\ ts \in Seq(Int) /\ Len(ts) >= 1 /\ ts[1] = lo
    /\ hi = lo => Len(ts) = 1
    /\ hi < lo => Len(ts) = 2 /\ ts[2] = hi
    /\ lo < hi => /\ Len(ts) >= 2 /\ ts[Len(ts)] = hi
                  /\ \A k \in 1..(Len(ts) - 1) : /\ ts[k] % unit = 0 /\ lo <= ts[k] /\ ts[k] < hi
                                                 /\ ts[k] < ts[k + 1] /\ ts[k + 1] <= ts[k] + unit
                  /\ \A k \in 1..(Len(ts) - 2) : ts[k + 1] = ts[k] + unit

LEMMA ExpandRight ==
    ASSUME NEW unit \in Nat \ {0}, NEW lo \in Int, lo % unit = 0, NEW hi \in Int
    PROVE  IsExpanded(ExpandRange(lo, hi, unit), lo, hi, unit)
<1> DEFINE d == (hi - 1) \div unit - lo \div unit
           m == Max({0, d})
           mid == [k \in 1..m |-> Floor(lo, unit) + k * unit]
           end == IF hi = lo THEN << >> ELSE <<hi>>
           ts == ExpandRange(lo, hi, unit)
<1>1. ts = <<lo>> \o mid \o end  BY DEF ExpandRange
<1>2. d \in Int /\ (lo < hi => d \in Nat) /\ (hi <= lo => d <= 0)  OBVIOUS
<1>3. Floor(lo, unit) = lo  BY DEF Floor
<1>4. lo < hi => lo + d * unit < hi /\ hi <= lo + d * unit + unit
  <2>1. (lo \div unit) * unit = lo  OBVIOUS
  <2>2. ((hi - 1) \div unit) * unit <= hi - 1 /\ hi - 1 < ((hi - 1) \div unit) * unit + unit
      OBVIOUS
  <2>3. d * unit = ((hi - 1) \div unit) * unit - (lo \div unit) * unit  OBVIOUS
  <2>4. ((hi - 1) \div unit) * unit \in Int /\ (lo \div unit) * unit \in Int  OBVIOUS
  <2> HIDE DEF d
  <2> QED  BY <2>1, <2>2, <2>3, <2>4
<1> HIDE DEF d
<1>5. m = IF lo < hi THEN d ELSE 0  BY <1>2, MaxOfTwo
<1>6. m \in Nat  BY <1>2, <1>5
<1> HIDE DEF m
<1>7. \A k \in Nat : k * unit \in Nat  OBVIOUS
<1>8. mid \in Seq(Int) /\ Len(mid) = m /\ \A k \in 1..m : mid[k] = lo + k * unit
    BY <1>3, <1>6, <1>7
<1>9. end \in Seq(Int) /\ Len(end) = (IF hi = lo THEN 0 ELSE 1) /\ (hi # lo => end[1] = hi)
    OBVIOUS
<1> HIDE DEF mid, end, ts
<1>10. /\ ts \in Seq(Int) /\ Len(ts) = 1 + m + Len(end) /\ ts[1] = lo
       /\ \A k \in 2..(m + 1) : ts[k] = mid[k - 1]
       /\ hi # lo => ts[m + 2] = hi
  <2> DEFINE y == <<lo>>
             x == y \o mid
  <2>0. y \in Seq(Int) /\ Len(y) = 1 /\ y[1] = lo  OBVIOUS
  <2>a. ts = x \o end  BY <1>1
  <2> HIDE DEF y, ts
  <2>1. /\ x \in Seq(Int) /\ Len(x) = 1 + m /\ x[1] = lo
        /\ \A k \in 2..(m + 1) : x[k] = mid[k - 1]
    <3>1. IsConcat(x, y, mid, Int)  BY <1>8, <2>0, ElementsOfConcat
    <3>2. Len(y) = 1 /\ Len(mid) = m  BY <1>8, <2>0
    <3>3. 1 \in 1..1 /\ 1 + 1 = 2 /\ 1 + m = m + 1  BY <1>6
    <3> HIDE DEF x
    <3> QED  BY <1>6, <2>0, <3>1, <3>2, <3>3 DEF IsConcat
  <2> HIDE DEF x
  <2>b. IsConcat(ts, x, end, Int)  BY <1>9, <2>a, <2>1, ElementsOfConcat
  <2>2. /\ ts \in Seq(Int) /\ Len(ts) = Len(x) + Len(end)
        /\ \A k \in 1..Len(x) : ts[k] = x[k]
        /\ \A k \in (Len(x) + 1)..(Len(x) + Len(end)) : ts[k] = end[k - Len(x)]
      BY <2>b DEF IsConcat
  <2>3. ts \in Seq(Int) /\ Len(ts) = 1 + m + Len(end)  BY <2>1, <2>2
  <2>4. \A k \in 1..(m + 1) : ts[k] = x[k]
    <3>1. Len(x) = m + 1  BY <1>6, <2>1
    <3> QED  BY <2>2, <3>1
  <2>5. hi # lo => ts[m + 2] = hi
    <3>1. SUFFICES ASSUME hi # lo PROVE ts[m + 2] = hi  OBVIOUS
    <3>2. Len(end) = 1 /\ end[1] = hi  BY <1>9, <3>1
    <3>3. m + 2 = Len(x) + 1 /\ m + 2 \in (Len(x) + 1)..(Len(x) + 1) /\ (m + 2) - Len(x) = 1
        BY <1>6, <2>1
    <3>4. ts[m + 2] = end[(m + 2) - Len(x)]  BY <2>2, <3>2, <3>3
    <3> QED  BY <3>2, <3>3, <3>4
  <2>6. 1 \in 1..(m + 1) /\ \A k \in 2..(m + 1) : k \in 1..(m + 1)  BY <1>6
  <2> QED  BY <2>1, <2>3, <2>4, <2>5, <2>6
<1>11. CASE hi = lo
  <2>1. m = 0 /\ Len(end) = 0  BY <1>5, <1>9, <1>11
  <2> QED  BY <1>10, <1>11, <2>1 DEF IsExpanded, ts
<1>12. CASE hi < lo
  <2>1. m = 0 /\ Len(end) = 1 /\ hi # lo  BY <1>5, <1>9, <1>12
  <2> QED  BY <1>10, <1>12, <2>1 DEF IsExpanded, ts
<1>13. CASE lo < hi
  <2>1. m = d /\ d \in Nat /\ Len(ts) = m + 2 /\ ts[m + 2] = hi
      BY <1>2, <1>5, <1>6, <1>9, <1>10, <1>13
  <2>2. \A k \in 1..(m + 1) : ts[k] = lo + (k - 1) * unit
    <3> TAKE k \in 1..(m + 1)
    <3>1. CASE k = 1
      <4>1. (k - 1) * unit = 0  BY <3>1
      <4> QED  BY <1>10, <3>1, <4>1
    <3>2. CASE k # 1
      <4>1. k \in 2..(m + 1) /\ k - 1 \in 1..m  BY <1>6, <3>2
      <4> QED  BY <1>8, <1>10, <4>1
    <3> QED  BY <3>1, <3>2
  <2>3. ASSUME NEW k \in 1..(m + 1)
        PROVE  /\ ts[k] % unit = 0 /\ lo <= ts[k] /\ ts[k] < hi /\ ts[k] \in Int
               /\ k = m + 1 => hi <= ts[k] + unit
    <3> DEFINE q == (k - 1) * unit
    <3>1. k - 1 \in Nat /\ k - 1 <= d  BY <1>6, <2>1
    <3>2. q \in Nat  BY <3>1
    <3>3. d * unit \in Nat /\ q <= d * unit  BY <2>1, <3>1
    <3>4. (lo + q) % unit = 0
      <4>1. (lo \div unit) * unit = lo  OBVIOUS
      <4>5. \A x, y \in Int : (x + y) * unit = x * unit + y * unit  OBVIOUS
      <4>6. lo \div unit \in Int /\ k - 1 \in Int  BY <3>1
      <4>7. (lo \div unit + (k - 1)) * unit = (lo \div unit) * unit + (k - 1) * unit
          BY <4>5, <4>6
      <4>2. lo + q = (lo \div unit + (k - 1)) * unit  BY <4>1, <4>7
      <4>3. lo \div unit + (k - 1) \in Int  BY <3>1
      <4>4. \A z \in Int : (z * unit) % unit = 0  OBVIOUS
      <4> HIDE DEF q
      <4> QED  BY <4>2, <4>3, <4>4
    <3>5. k = m + 1 => q = d * unit
      <4>1. k = m + 1 => k - 1 = d  BY <1>6, <2>1
      <4> QED  BY <4>1
    <3>6. ts[k] = lo + q  BY <2>2
    <3> HIDE DEF q
    <3> QED  BY <1>4, <1>13, <3>2, <3>3, <3>4, <3>5, <3>6
  <2>4. ASSUME NEW k \in 1..m PROVE ts[k + 1] = ts[k] + unit
    <3>1. k \in 1..(m + 1) /\ k + 1 \in 1..(m + 1) /\ (k + 1) - 1 = k  BY <1>6
    <3>2. ts[k] = lo + (k - 1) * unit /\ ts[k + 1] = lo + k * unit  BY <2>2, <3>1
    <3>3. k * unit = (k - 1) * unit + unit /\ (k - 1) * unit \in Nat  BY <1>6
    <3> QED  BY <3>2, <3>3
  <2>5. ASSUME NEW k \in 1..(m + 1) PROVE ts[k] < ts[k + 1] /\ ts[k + 1] <= ts[k] + unit
    <3>1. CASE k = m + 1
      <4>1. ts[k + 1] = hi  BY <1>6, <2>1, <3>1
      <4> QED  BY <2>3, <3>1, <4>1
    <3>2. CASE k # m + 1
      <4>1. k \in 1..m  BY <1>6, <3>2
      <4> QED  BY <2>3, <2>4, <4>1
    <3> QED  BY <3>1, <3>2
  <2>6. Len(ts) - 1 = m + 1 /\ Len(ts) - 2 = m /\ Len(ts) >= 2  BY <1>6, <2>1
  <2> QED  BY <1>10, <1>13, <2>1, <2>3, <2>4, <2>5, <2>6 DEF IsExpanded, ts
<1> QED  BY <1>11, <1>12, <1>13

(***************************************************************************)
(* What may be evaluated: it begins with a unit, ends by top, with a unit  *)
(* unless it may be partial, and after it begins, if ranges do.  None of   *)
(* what is done with lists of such intervals makes another one of them.    *)
(***************************************************************************)
Wanted(unit, top, partial, forward) ==
    {b \in Pairs : /\ b[1] >= 0 /\ b[1] % unit = 0
                   /\ b[2] <= top /\ (partial \/ b[2] % unit = 0)
                   /\ forward => b[1] < b[2]}

LEMMA UnitsOfWanted ==
    ASSUME NEW unit \in Nat \ {0}, NEW top, NEW partial, NEW forward,
           top \in Int, NEW i \in Wanted(unit, top, partial, forward)
    PROVE  UnitsOf(i, unit) \in Seq(Wanted(unit, top, partial, forward))
<1> DEFINE P == Wanted(unit, top, partial, forward)
           ts == ExpandRange(i[1], i[2], unit)
           u == UnitsOf(i, unit)
<1>1. /\ i[1] \in Int /\ i[2] \in Int /\ i[1] >= 0 /\ i[1] % unit = 0 /\ i[2] <= top
      /\ partial \/ i[2] % unit = 0
      /\ forward => i[1] < i[2]
    BY DEF Wanted, Pairs
<1>2. IsExpanded(ts, i[1], i[2], unit)  BY <1>1, ExpandRight
<1>3. u = [k \in 1..(Len(ts) - 1) |-> <<ts[k], ts[k + 1]>>]  BY DEF UnitsOf
<1> HIDE DEF ts
<1>4. ts \in Seq(Int) /\ Len(ts) \in Nat /\ Len(ts) - 1 \in Nat  BY <1>2 DEF IsExpanded
<1>5. ASSUME NEW k \in 1..(Len(ts) - 1) PROVE <<ts[k], ts[k + 1]>> \in P
  <2>1. k \in 1..Len(ts) /\ k + 1 \in 1..Len(ts) /\ ts[k] \in Int /\ ts[k + 1] \in Int
      BY <1>4
  <2>2. CASE i[1] < i[2]
    <3>1. /\ ts[k] % unit = 0 /\ i[1] <= ts[k] /\ ts[k] < ts[k + 1]
          /\ ts[Len(ts)] = i[2]
          /\ \A j \in 1..(Len(ts) - 1) : ts[j] % unit = 0 /\ ts[j] < i[2]
        BY <1>2, <2>2 DEF IsExpanded
    <3>2. ts[k + 1] <= i[2] /\ (partial \/ ts[k + 1] % unit = 0)
      <4>1. CASE k + 1 = Len(ts)  BY <1>1, <3>1, <4>1
      <4>2. CASE k + 1 # Len(ts)
        <5>1. k + 1 \in 1..(Len(ts) - 1)  BY <1>4, <4>2
        <5>2. ts[k + 1] % unit = 0 /\ ts[k + 1] < i[2]  BY <3>1, <5>1
        <5> QED  BY <1>1, <2>1, <5>2
      <4> QED  BY <4>1, <4>2
    <3>3. ts[k] >= 0  BY <1>1, <2>1, <3>1
    <3>4. ts[k + 1] <= top  BY <1>1, <2>1, <3>2
    <3> QED  BY <2>1, <3>1, <3>2, <3>3, <3>4 DEF Wanted, Pairs
  <2>3. CASE i[2] < i[1]
    <3>1. ts[1] = i[1] /\ Len(ts) = 2 /\ ts[2] = i[2]  BY <1>2, <2>3 DEF IsExpanded
    <3>2. k = 1 /\ k + 1 = 2  BY <3>1
    <3>3. ~forward  BY <1>1, <2>3
    <3> QED  BY <1>1, <2>1, <3>1, <3>2, <3>3 DEF Wanted, Pairs
  <2>4. CASE i[2] = i[1]
    <3>1. Len(ts) = 1  BY <1>2, <2>4 DEF IsExpanded
    <3> QED  BY <3>1
  <2> QED  BY <1>1, <2>2, <2>3, <2>4
<1> HIDE DEF P, u
<1>6. u \in [1..(Len(ts) - 1) -> P]  BY <1>3, <1>5
<1>7. u \in Seq(P)
  <2> DEFINE m == Len(ts) - 1
  <2>1. m \in Nat /\ u \in [1..m -> P]  BY <1>4, <1>6
  <2> HIDE DEF m
  <2> QED  BY <2>1
<1> QED  BY <1>7 DEF u, P

LEMMA UnitsWanted ==
    ASSUME NEW unit \in Nat \ {0}, NEW top, NEW partial, NEW forward,
           top \in Int, NEW s \in Seq(Wanted(unit, top, partial, forward))
    PROVE  Units(s, unit) \in Seq(Wanted(unit, top, partial, forward))
<1> DEFINE P == Wanted(unit, top, partial, forward)
           us == [k \in DOMAIN s |-> UnitsOf(s[k], unit)]
<1>1. \A i \in P : UnitsOf(i, unit) \in Seq(P)  BY UnitsOfWanted
<1> HIDE DEF P
<1>2. s \in Seq(P) /\ DOMAIN s = 1..Len(s) /\ Len(s) \in Nat  BY DEF P
<1>3. us \in [1..Len(s) -> Seq(P)]  BY <1>1, <1>2
<1>4. Units(s, unit) = FlattenSeq(us)  BY DEF Units
<1> HIDE DEF us
<1>5. us \in Seq(Seq(P))  BY <1>2, <1>3
<1> QED  BY <1>4, <1>5, MembersOfFlat DEF P

LEMMA WithoutWanted ==
    ASSUME NEW P, NEW s \in Seq(P), NEW others
    PROVE  Without(s, others) \in Seq(P)
<1> DEFINE us == [k \in DOMAIN s |-> IF s[k] \in ToSet(others) THEN << >> ELSE <<s[k]>>]
<1>1. DOMAIN s = 1..Len(s) /\ Len(s) \in Nat /\ \A k \in 1..Len(s) : s[k] \in P  OBVIOUS
<1>2. \A p \in P : <<p>> \in Seq(P)  OBVIOUS
<1>3. << >> \in Seq(P)  OBVIOUS
<1>4. us \in [1..Len(s) -> Seq(P)]  BY <1>1, <1>2, <1>3
<1>5. Without(s, others) = FlattenSeq(us)  BY DEF Without
<1> HIDE DEF us
<1>6. us \in Seq(Seq(P))  BY <1>1, <1>4
<1> QED  BY <1>5, <1>6, MembersOfFlat

\* A batch that is being put together.
Runs(P, forward) ==
    {b \in Seq(P) : b # << >> /\ (forward => b[1][1] < Last(b)[2])}

LEMMA WithNextWanted ==
    ASSUME NEW unit, NEW top, NEW partial, NEW forward,
           NEW i \in Wanted(unit, top, partial, forward), NEW size,
           NEW batches \in Seq(Runs(Wanted(unit, top, partial, forward), forward))
    PROVE  WithNext(batches, i, size) \in Seq(Runs(Wanted(unit, top, partial, forward), forward))
<1> DEFINE P == Wanted(unit, top, partial, forward)
           R == Runs(P, forward)
<1>1. P \subseteq Pairs /\ \A p \in P : forward => p[1] < p[2]  BY DEF Wanted
<1>2. \A p \in P : p[1] \in Int /\ p[2] \in Int  BY <1>1 DEF Pairs
<1>3. i \in P  OBVIOUS
<1> HIDE DEF P
<1>4. batches \in Seq(R)  BY DEF P
<1> SUFFICES WithNext(batches, i, size) \in Seq(R)  BY DEF P
<1>5. CASE batches # << >> /\ Last(Last(batches))[2] = i[1] /\ (size # 0 => Len(Last(batches)) < size)
  <2> DEFINE b == Last(batches)
             c == Append(b, i)
  <2>1. b \in R /\ Front(batches) \in Seq(R)  BY <1>4, <1>5, LastAndFront
  <2>2. WithNext(batches, i, size) = Append(Front(batches), c)  BY <1>5 DEF WithNext
  <2>3. Last(b)[2] = i[1]  BY <1>5
  <2> HIDE DEF b
  <2>4. b \in Seq(P) /\ b # << >> /\ (forward => b[1][1] < Last(b)[2])  BY <2>1 DEF Runs
  <2>5. /\ c \in Seq(P) /\ Len(c) = Len(b) + 1 /\ Len(b) \in Nat
        /\ \A k \in 1..Len(b) : c[k] = b[k]
        /\ c[Len(b) + 1] = i
      BY <1>3, <2>4
  <2> HIDE DEF c
  <2>6. Len(b) # 0  BY <2>4
  <2>7. 1 \in 1..Len(b) /\ c # << >>  BY <2>5, <2>6
  <2>8. c[1] = b[1] /\ Last(c) = i /\ b[1] \in P
    <3>1. Last(c) = c[Len(c)]  BY <2>5, <2>7, LastAndFront
    <3> QED  BY <2>4, <2>5, <2>7, <3>1
  <2>9. Last(b) \in P  BY <2>4, LastAndFront
  <2>10. forward => c[1][1] < Last(c)[2]
    <3> SUFFICES ASSUME forward PROVE c[1][1] < Last(c)[2]  OBVIOUS
    <3>1. b[1][1] < Last(b)[2] /\ i[1] < i[2]  BY <1>1, <1>3, <2>4
    <3>2. b[1][1] \in Int /\ i[1] \in Int /\ i[2] \in Int  BY <1>2, <1>3, <2>8
    <3> QED  BY <2>3, <2>8, <3>1, <3>2
  <2>11. c \in R  BY <2>5, <2>7, <2>10 DEF Runs
  <2> QED  BY <2>1, <2>2, <2>11
<1>6. CASE ~(batches # << >> /\ Last(Last(batches))[2] = i[1] /\ (size # 0 => Len(Last(batches)) < size))
  <2>1. WithNext(batches, i, size) = Append(batches, <<i>>)  BY <1>6 DEF WithNext
  <2>2. <<i>> \in Seq(P) /\ <<i>> # << >> /\ <<i>>[1] = i /\ Last(<<i>>) = i  BY <1>3 DEF Last
  <2>3. <<i>> \in R  BY <1>1, <1>3, <2>2 DEF Runs
  <2> QED  BY <1>4, <2>1, <2>3
<1> QED  BY <1>5, <1>6

\* The batches are put together one interval after the other.
PutTogether(s, size, R, g) ==
    /\ g[0] = << >> /\ \A k \in 1..Len(s) : g[k] = WithNext(g[k - 1], s[k], size)
    /\ \A k \in 0..Len(s) : g[k] \in Seq(R)
    /\ Contiguous(s, size) = EndsOf(g[Len(s)])

LEMMA ContiguousSteps ==
    ASSUME NEW unit, NEW top, NEW partial, NEW forward, NEW size,
           NEW s \in Seq(Wanted(unit, top, partial, forward))
    PROVE  \E g : PutTogether(s, size, Runs(Wanted(unit, top, partial, forward), forward), g)
<1> DEFINE P == Wanted(unit, top, partial, forward)
           R == Runs(P, forward)
           n == Len(s)
           step == [k \in 1..n |-> [b \in Seq(R) |-> WithNext(b, s[k], size)]]
           Eq(g) == g = [k \in 0..n |-> IF k = 0 THEN << >> ELSE WithNext(g[k - 1], s[k], size)]
<1>1. \A p \in P : forward => p[1] < p[2]  BY DEF Wanted
<1>2. \A i \in P : \A b \in Seq(R) : WithNext(b, i, size) \in Seq(R)  BY WithNextWanted
<1> HIDE DEF P
<1>3. n \in Nat /\ \A k \in 1..n : s[k] \in P  BY DEF P
<1>4. Contiguous(s, size) = EndsOf((CHOOSE g : Eq(g))[n])  BY DEF Contiguous
<1> HIDE DEF n, R
<1>5. step \in [1..n -> [Seq(R) -> Seq(R)]]  BY <1>2, <1>3
<1>6. << >> \in Seq(R)  OBVIOUS
<1>7. PICK f : IsCounted(n, Seq(R), << >>, step, f)
  <2> HIDE DEF step
  <2> QED  BY <1>3, <1>5, <1>6, Counted
<1>8. f \in [0..n -> Seq(R)] /\ f[0] = << >> /\ \A k \in 1..n : f[k] = step[k][f[k - 1]]
  <2> HIDE DEF step
  <2> QED  BY <1>7 DEF IsCounted
<1>9. \A k \in 1..n : f[k] = WithNext(f[k - 1], s[k], size)
  <2> TAKE k \in 1..n
  <2>1. k - 1 \in 0..n  BY <1>3
  <2>2. f[k - 1] \in Seq(R)  BY <1>8, <2>1
  <2> QED  BY <1>8, <2>2
<1> HIDE DEF step
<1>10. Eq(f)
  <2>1. \A k \in 0..n : f[k] = IF k = 0 THEN << >> ELSE WithNext(f[k - 1], s[k], size)
    <3> TAKE k \in 0..n
    <3>1. CASE k = 0  BY <1>8, <3>1
    <3>2. CASE k # 0
      <4>1. k \in 1..n  BY <1>3, <3>2
      <4> QED  BY <1>9, <3>2, <4>1
    <3> QED  BY <3>1, <3>2
  <2> QED  BY <1>8, <2>1
<1> DEFINE g == CHOOSE h : Eq(h)
<1>11. Contiguous(s, size) = EndsOf(g[n])  BY <1>4
<1>12. Eq(g)
  <2> HIDE DEF Eq
  <2> QED  BY <1>10
<1> HIDE DEF g
<1>13. g[0] = << >> /\ \A k \in 1..n : g[k] = WithNext(g[k - 1], s[k], size)
  <2>1. \A k \in 0..n : g[k] = IF k = 0 THEN << >> ELSE WithNext(g[k - 1], s[k], size)  BY <1>12
  <2>2. 0 \in 0..n /\ \A k \in 1..n : k \in 0..n /\ k # 0  BY <1>3
  <2> HIDE DEF Eq
  <2> QED  BY <2>1, <2>2
<1> HIDE DEF Eq
<1> DEFINE W == {k \in 0..n : g[k] \notin Seq(R)}
<1>14. ASSUME NEW k \in W PROVE k > 0 /\ k - 1 \in W
  <2>1. k \in 0..n /\ g[k] \notin Seq(R)  OBVIOUS
  <2>2. k # 0  BY <1>6, <1>13, <2>1
  <2>3. k \in 1..n /\ k - 1 \in 0..n /\ k > 0  BY <1>3, <2>1, <2>2
  <2>4. g[k - 1] \notin Seq(R)  BY <1>2, <1>3, <1>13, <2>1, <2>3
  <2> QED  BY <2>3, <2>4
<1>15. W = {}
  <2>1. W \subseteq 0..n  OBVIOUS
  <2> HIDE DEF W
  <2> QED  BY <1>3, <1>14, <2>1, NoFirst
<1>16. \A k \in 0..n : g[k] \in Seq(R)  BY <1>15
<1> HIDE DEF W
<1> QED  BY <1>11, <1>13, <1>16 DEF PutTogether, n, P, R

LEMMA ContiguousWanted ==
    ASSUME NEW unit, NEW top, NEW partial, NEW forward, NEW size,
           NEW s \in Seq(Wanted(unit, top, partial, forward))
    PROVE  Contiguous(s, size) \in Seq(Wanted(unit, top, partial, forward))
<1> DEFINE P == Wanted(unit, top, partial, forward)
           R == Runs(P, forward)
<1>1. PICK g : PutTogether(s, size, R, g)  BY ContiguousSteps
<1> DEFINE b == g[Len(s)]
<1>2. Contiguous(s, size) = EndsOf(b) /\ b \in Seq(R)
  <2>1. Len(s) \in 0..Len(s)  OBVIOUS
  <2> HIDE DEF R
  <2> QED  BY <1>1, <2>1 DEF PutTogether
<1> HIDE DEF b, P, R
<1>3. \A r \in R : <<r[1][1], Last(r)[2]>> \in P
  <2> TAKE r \in R
  <2>1. r \in Seq(P) /\ r # << >> /\ (forward => r[1][1] < Last(r)[2])  BY DEF R, Runs
  <2>2. Len(r) \in Nat \ {0} /\ Last(r) \in P  BY <2>1, LastAndFront
  <2>3. r[1] \in P  BY <2>1, <2>2
  <2> DEFINE x == r[1]
             y == Last(r)
  <2> HIDE DEF x, y
  <2>4. x \in Wanted(unit, top, partial, forward) /\ y \in Wanted(unit, top, partial, forward)
        /\ (forward => x[1] < y[2])
      BY <2>1, <2>2, <2>3 DEF P, x, y
  <2>5. <<x[1], y[2]>> \in Wanted(unit, top, partial, forward)  BY <2>4 DEF Wanted, Pairs
  <2> QED  BY <2>5 DEF P, x, y
<1>4. EndsOf(b) = [k \in DOMAIN b |-> <<b[k][1][1], Last(b[k])[2]>>]  BY DEF EndsOf
<1>5. DOMAIN b = 1..Len(b) /\ Len(b) \in Nat /\ \A k \in 1..Len(b) : b[k] \in R  BY <1>2
<1>6. EndsOf(b) \in [1..Len(b) -> P]  BY <1>3, <1>4, <1>5
<1>7. EndsOf(b) \in Seq(P)  BY <1>5, <1>6
<1> QED  BY <1>2, <1>7 DEF P

(***************************************************************************)
(* interval_diff steps through the two lists.  What it returns from one    *)
(* place in them on, given what it returns from the places after it:       *)
(***************************************************************************)
FromHere(a, b, uninterrupted, c, i, j) ==
    IF i > Len(a) THEN << >>
    ELSE IF j > Len(b)
    THEN IF a[i][1] >= b[Len(b)][2] \/ b[Len(b)][1] >= a[i][2] THEN SubSeq(a, i, Len(a)) ELSE << >>
    ELSE IF a[i][1] >= b[j][2] THEN c[<<i, j + 1>>]
    ELSE IF b[j][1] >= a[i][2] THEN <<a[i]>> \o c[<<i + 1, j>>]
    ELSE IF uninterrupted THEN << >>
    ELSE IF a[i][1] >= b[j][1] THEN c[<<i + 1, j>>]
    ELSE c[<<i, j + 1>>]

StepsThrough(a, b, uninterrupted, V, c) ==
    /\ IntervalDiff(a, b, uninterrupted) = c[<<1, 1>>]
    /\ \A i \in 1..(Len(a) + 1), j \in 1..(Len(b) + 1) :
          c[<<i, j>>] \in V /\ c[<<i, j>>] = FromHere(a, b, uninterrupted, c, i, j)

LEMMA DiffSteps ==
    ASSUME NEW P, NEW a \in Seq(P), NEW b \in Seq(Pairs), NEW uninterrupted,
           a # << >>, b # << >>
    PROVE  \E c : StepsThrough(a, b, uninterrupted, Seq(P), c)
<1> DEFINE n == Len(a)
           m == Len(b)
           D == (1..(n + 1)) \X (1..(m + 1))
           V == Seq(P)
           Apart(i, j) == a[i][1] >= b[j][2] \/ b[j][1] >= a[i][2]
           Body(f, i, j) ==
               IF i > n THEN << >>
               ELSE IF j > m THEN IF Apart(i, m) THEN SubSeq(a, i, n) ELSE << >>
               ELSE IF a[i][1] >= b[j][2] THEN f[<<i, j + 1>>]
               ELSE IF b[j][1] >= a[i][2] THEN <<a[i]>> \o f[<<i + 1, j>>]
               ELSE IF uninterrupted THEN << >>
               ELSE IF a[i][1] >= b[j][1] THEN f[<<i + 1, j>>]
               ELSE f[<<i, j + 1>>]
           step == [at \in D |-> [f \in [D -> V] |-> Body(f, at[1], at[2])]]
           Eq(g) == g = [at \in D |-> Body(g, at[1], at[2])]
           next == [at \in D |-> {to \in D : to[1] + to[2] > at[1] + at[2]}]
<1>1. IntervalDiff(a, b, uninterrupted) = (CHOOSE g : Eq(g))[<<1, 1>>]  BY DEF IntervalDiff
<1>2. n \in Nat /\ m \in Nat /\ \A i \in 1..n : a[i] \in P  OBVIOUS
<1>3. << >> \in V /\ \A i \in 1..n : SubSeq(a, i, n) \in V  OBVIOUS
<1>4. \A p \in P, s \in V : <<p>> \o s \in V  OBVIOUS
<1> HIDE DEF n, m, V, Apart
<1>5. \A at \in D : at[1] \in Int /\ at[2] \in Int /\ at = <<at[1], at[2]>>  OBVIOUS
<1>6. ASSUME NEW i \in 1..(n + 1), NEW j \in 1..(m + 1)
      PROVE  /\ i <= n => <<i + 1, j>> \in next[<<i, j>>]
             /\ j <= m => <<i, j + 1>> \in next[<<i, j>>]
  <2>1. <<i, j>> \in D  OBVIOUS
  <2>2. i <= n => <<i + 1, j>> \in D /\ (i + 1) + j > i + j  BY <1>2
  <2>3. j <= m => <<i, j + 1>> \in D /\ i + (j + 1) > i + j  BY <1>2
  <2> QED  BY <2>1, <2>2, <2>3
<1> HIDE DEF next
<1>7. ASSUME NEW f, NEW i \in 1..(n + 1), NEW j \in 1..(m + 1),
             \A to \in next[<<i, j>>] : f[to] \in V
      PROVE  Body(f, i, j) \in V
  <2> HIDE DEF D
  <2>0. i <= n => i \in 1..n  BY <1>2
  <2>1. i <= n => f[<<i + 1, j>>] \in V /\ i \in 1..n  BY <1>6, <1>7, <2>0
  <2>2. j <= m => f[<<i, j + 1>>] \in V  BY <1>6, <1>7
  <2>3. i > n \/ i <= n  BY <1>2
  <2>4. j > m \/ j <= m  BY <1>2
  <2>5. ~(i > n) => <<a[i]>> \o f[<<i + 1, j>>] \in V  BY <1>2, <1>4, <2>1, <2>3
  <2>6. ~(i > n) => SubSeq(a, i, n) \in V  BY <1>3, <2>1, <2>3
  <2> QED  BY <1>3, <2>1, <2>2, <2>3, <2>4, <2>5, <2>6
<1>8. ASSUME NEW f, NEW g, NEW i \in 1..(n + 1), NEW j \in 1..(m + 1),
             \A to \in next[<<i, j>>] : f[to] = g[to]
      PROVE  Body(f, i, j) = Body(g, i, j)
  <2>1. i <= n => f[<<i + 1, j>>] = g[<<i + 1, j>>]  BY <1>6, <1>8
  <2>2. j <= m => f[<<i, j + 1>>] = g[<<i, j + 1>>]  BY <1>6, <1>8
  <2>3. i > n \/ i <= n  BY <1>2
  <2>4. j > m \/ j <= m  BY <1>2
  <2> QED  BY <2>1, <2>2, <2>3, <2>4
<1> HIDE DEF Body
<1>9. next \in [D -> SUBSET D] /\ WithoutCycles(D, next)
  <2>1. next \in [D -> SUBSET D]  BY DEF next
  <2>2. ASSUME NEW T \in (SUBSET D) \ {{}} PROVE \E at \in T : next[at] \cap T = {}
    <3> DEFINE left(at) == (n + m + 2) - (at[1] + at[2])
               I == {left(at) : at \in T}
    <3>1. \A at \in T : left(at) \in Nat
      <4> TAKE at \in T
      <4>1. at \in D  OBVIOUS
      <4>2. at[1] \in 1..(n + 1) /\ at[2] \in 1..(m + 1)  BY <4>1
      <4> QED  BY <1>2, <4>2
    <3>2. I \in SUBSET Nat /\ I # {}  BY <3>1
    <3> HIDE DEF left
    <3>3. PICK l \in I : \A k \in I : l <= k
      <4> HIDE DEF I
      <4> QED  BY <3>2, SmallestNumber
    <3>4. PICK at \in T : l = left(at)  OBVIOUS
    <3>5. ASSUME NEW to \in T PROVE to \notin next[at]
      <4>1. left(at) <= left(to)  BY <3>3, <3>4
      <4>2. at \in D /\ to \in D  OBVIOUS
      <4>3. at[1] \in Int /\ at[2] \in Int /\ to[1] \in Int /\ to[2] \in Int  BY <1>5, <4>2
      <4>4. ~(to[1] + to[2] > at[1] + at[2])
        <5> DEFINE x == at[1] + at[2]
                   y == to[1] + to[2]
        <5>1. n + m + 2 \in Int /\ x \in Int /\ y \in Int  BY <1>2, <4>3
        <5>2. (n + m + 2) - x <= (n + m + 2) - y  BY <4>1 DEF left
        <5> HIDE DEF x, y
        <5>3. ~(y > x)  BY <5>1, <5>2
        <5> QED  BY <5>3 DEF x, y
      <4>5. next[at] = {x \in D : x[1] + x[2] > at[1] + at[2]}  BY <4>2 DEF next
      <4> QED  BY <4>4, <4>5
    <3> QED  BY <3>5
  <2> HIDE DEF D
  <2> QED  BY <2>1, <2>2 DEF WithoutCycles
<1>10. \A at \in D : at[1] \in 1..(n + 1) /\ at[2] \in 1..(m + 1)  OBVIOUS
<1>11. \A at \in D : next[at] \subseteq D  BY <1>9
<1>12. step \in [D -> [[D -> V] -> V]]
  <2>1. ASSUME NEW at \in D, NEW f \in [D -> V] PROVE Body(f, at[1], at[2]) \in V
    <3>1. \A to \in next[<<at[1], at[2]>>] : f[to] \in V  BY <1>5, <1>11
    <3> HIDE DEF D
    <3> QED  BY <1>7, <1>10, <3>1
  <2> HIDE DEF D
  <2> QED  BY <2>1
<1>13. ASSUME NEW at \in D, NEW f \in [D -> V], NEW g \in [D -> V],
              \A to \in next[at] : f[to] = g[to]
       PROVE  step[at][f] = step[at][g]
  <2>1. \A to \in next[<<at[1], at[2]>>] : f[to] = g[to]  BY <1>5, <1>13
  <2>2. at[1] \in 1..(n + 1) /\ at[2] \in 1..(m + 1)  BY <1>10
  <2> HIDE DEF D
  <2>3. Body(f, at[1], at[2]) = Body(g, at[1], at[2])  BY <1>8, <2>1, <2>2
  <2> QED  BY <2>3
<1>14. LooksUp(D, next, V, step)
  <2> HIDE DEF D, step
  <2> QED  BY <1>12, <1>13 DEF LooksUp
<1>15. PICK f : IsRight(D, V, step, f)
  <2> HIDE DEF D, step
  <2> QED  BY <1>3, <1>9, <1>14, Recursion
<1>16. f \in [D -> V] /\ \A at \in D : f[at] = step[at][f]
  <2> HIDE DEF D, step
  <2> QED  BY <1>15 DEF IsRight
<1>17. Eq(f)
  <2> HIDE DEF D
  <2>1. \A at \in D : f[at] = Body(f, at[1], at[2])  BY <1>16
  <2> HIDE DEF step
  <2> QED  BY <1>16, <2>1
<1> DEFINE c == CHOOSE g : Eq(g)
<1>18. IntervalDiff(a, b, uninterrupted) = c[<<1, 1>>]  BY <1>1 DEF Body
<1>19. Eq(c)
  <2> HIDE DEF Eq
  <2> QED  BY <1>17
<1> HIDE DEF c, step
<1> DEFINE W == {at \in D : c[at] \notin V}
<1>20. W = {}
  <2>1. SUFFICES ASSUME W # {} PROVE FALSE  OBVIOUS
  <2>2. PICK at \in W : next[at] \cap W = {}
    <3>1. W \in (SUBSET D) \ {{}}  BY <2>1
    <3> HIDE DEF W, D
    <3> QED  BY <1>9, <3>1 DEF WithoutCycles
  <2>3. at \in D /\ c[at] \notin V  OBVIOUS
  <2>4. \A to \in next[at] : c[to] \in V  BY <1>11, <2>2, <2>3
  <2>5. \A to \in next[<<at[1], at[2]>>] : c[to] \in V  BY <1>5, <2>3, <2>4
  <2>6. at[1] \in 1..(n + 1) /\ at[2] \in 1..(m + 1)  BY <1>10, <2>3
  <2> HIDE DEF D
  <2>7. Body(c, at[1], at[2]) \in V  BY <1>7, <2>5, <2>6
  <2>8. c[at] = Body(c, at[1], at[2])  BY <1>19, <2>3
  <2> QED  BY <2>3, <2>7, <2>8
<1>21. \A i \in 1..(n + 1), j \in 1..(m + 1) : c[<<i, j>>] \in V /\ c[<<i, j>>] = Body(c, i, j)
  <2> TAKE i \in 1..(n + 1), j \in 1..(m + 1)
  <2>1. <<i, j>> \in D  OBVIOUS
  <2>2. c[<<i, j>>] \in V  BY <1>20, <2>1
  <2> DEFINE at == <<i, j>>
  <2>3. at[1] = i /\ at[2] = j  OBVIOUS
  <2>4. c[at] = Body(c, at[1], at[2])
    <3> HIDE DEF D, at
    <3> QED  BY <1>19, <2>1 DEF at
  <2> QED  BY <2>2, <2>3, <2>4
<1>22. \A i \in 1..(n + 1), j \in 1..(m + 1) :
          Body(c, i, j) = FromHere(a, b, uninterrupted, c, i, j)
    BY DEF Body, Apart, FromHere, n, m
<1> HIDE DEF D
<1> QED  BY <1>18, <1>21, <1>22 DEF V, StepsThrough, n, m

\* It leaves out intervals, and makes none.
LEMMA DiffWanted ==
    ASSUME NEW P, NEW a \in Seq(P), NEW b \in Seq(Pairs), NEW uninterrupted
    PROVE  IntervalDiff(a, b, uninterrupted) \in Seq(P)
<1>1. CASE a = << >> \/ b = << >>  BY <1>1 DEF IntervalDiff
<1>2. CASE ~(a = << >> \/ b = << >>)
  <2>1. PICK c : StepsThrough(a, b, uninterrupted, Seq(P), c)  BY <1>2, DiffSteps
  <2>2. 1 \in 1..(Len(a) + 1) /\ 1 \in 1..(Len(b) + 1)  OBVIOUS
  <2> QED  BY <2>1, <2>2 DEF StepsThrough
<1> QED  BY <1>1, <1>2

\* compute_missing_intervals
LEMMA MissingWanted ==
    ASSUME NEW model, model.unit \in Nat \ {0}, NEW top \in Int, NEW partial, NEW forward, NEW s,
           NEW lo, NEW hi, <<lo, hi>> \in Wanted(model.unit, top, partial, forward)
    PROVE  ComputeMissingIntervals(s, lo, hi, model)
               \in Seq(Wanted(model.unit, top, partial, forward))
<1> DEFINE P == Wanted(model.unit, top, partial, forward)
           ts == ExpandRange(lo, hi, model.unit)
           n == Len(ts) - 1
           unloaded == {i \in 1..n : ~Covered(s, ts[i], ts[i + 1])}
           missing == IF unloaded # {} /\ model.lookback # 0
                      THEN WithLookback(unloaded, n, EffectiveLookback(model, hi))
                      ELSE unloaded
           S == {<<ts[i], ts[i + 1]>> : i \in {i \in missing : model.end # NoEnd => ts[i] < model.end}}
           u == UnitsOf(<<lo, hi>>, model.unit)
<1>1. u \in Seq(P)  BY UnitsOfWanted
<1>2. u = [k \in 1..n |-> <<ts[k], ts[k + 1]>>]
  <2>1. <<lo, hi>>[1] = lo /\ <<lo, hi>>[2] = hi  OBVIOUS
  <2> QED  BY <2>1 DEF UnitsOf
<1>3. n \in Nat
  <2>1. lo \in Int /\ hi \in Int /\ lo % model.unit = 0  BY DEF Wanted, Pairs
  <2>2. IsExpanded(ts, lo, hi, model.unit)  BY <2>1, ExpandRight
  <2> HIDE DEF ts
  <2> QED  BY <2>2 DEF IsExpanded
<1>4. missing \subseteq 1..n
  <2> HIDE DEF ts, n
  <2>1. unloaded \subseteq 1..n  OBVIOUS
  <2> HIDE DEF unloaded
  <2>2. WithLookback(unloaded, n, EffectiveLookback(model, hi)) \subseteq 1..n
      BY <2>1 DEF WithLookback
  <2> QED  BY <2>1, <2>2
<1>5. ComputeMissingIntervals(s, lo, hi, model) = Sorted(S)  BY DEF ComputeMissingIntervals
<1> HIDE DEF ts, n, missing, u, P
<1>6. S \subseteq {u[k] : k \in 1..n}
  <2>1. \A k \in 1..n : u[k] = <<ts[k], ts[k + 1]>>  BY <1>2
  <2> QED  BY <1>4, <2>1
<1>7. DOMAIN u = 1..n  BY <1>2
<1>8. \A k \in 1..n : u[k] \in P
  <2>1. \A k \in DOMAIN u : u[k] \in P  BY <1>1
  <2> QED  BY <1>7, <2>1
<1>9. P \subseteq Pairs  BY DEF P, Wanted
<1> HIDE DEF S
<1>10. S \subseteq P /\ S \in SUBSET Pairs  BY <1>6, <1>8, <1>9
<1>11. IsFiniteSet(S)
  <2>1. u \in [1..n -> P]  BY <1>2, <1>7, <1>8
  <2> QED  BY <1>3, <1>6, <2>1, FiniteImage
<1>12. Sorted(S) \in Seq(S)  BY <1>10, <1>11, SortedRight
<1>13. Sorted(S) \in Seq(P)  BY <1>10, <1>12
<1> QED  BY <1>5, <1>13 DEF P

(***************************************************************************)
(* What is put together, and taken apart into units, has the same ticks.   *)
(***************************************************************************)
LEMMA TicksOfFlat ==
    ASSUME NEW seqs \in Seq(Seq(Pairs))
    PROVE  Ticks(FlattenSeq(seqs)) = UNION {Ticks(seqs[k]) : k \in 1..Len(seqs)}
<1>1. ToSet(FlattenSeq(seqs)) = UNION {ToSet(seqs[k]) : k \in 1..Len(seqs)}  BY MembersOfFlat
<1> QED  BY <1>1 DEF Ticks

LEMMA ExpandedCovers ==
    ASSUME NEW unit \in Nat \ {0}, NEW lo \in Int, NEW hi \in Int, lo < hi,
           NEW ts, IsExpanded(ts, lo, hi, unit), NEW t \in Int, lo <= t, t < hi
    PROVE  \E k \in 1..(Len(ts) - 1) : ts[k] <= t /\ t < ts[k + 1]
<1> DEFINE n == Len(ts) - 1
           I == {k \in 1..n : t < ts[k + 1]}
<1>1. ts \in Seq(Int) /\ Len(ts) >= 2 /\ ts[1] = lo /\ ts[Len(ts)] = hi  BY DEF IsExpanded
<1>2. n \in Nat /\ n \in 1..n /\ n + 1 = Len(ts)  BY <1>1
<1>3. \A k \in 1..n : ts[k] \in Int /\ ts[k + 1] \in Int
  <2> TAKE k \in 1..n
  <2>1. k \in 1..Len(ts) /\ k + 1 \in 1..Len(ts)  BY <1>2
  <2> QED  BY <1>1, <2>1
<1> HIDE DEF n
<1>4. I \in SUBSET Nat /\ I # {}
  <2>1. n \in I  BY <1>1, <1>2
  <2>2. 1..n \subseteq Nat /\ I \subseteq 1..n  OBVIOUS
  <2> QED  BY <2>1, <2>2
<1>5. PICK k \in I : \A j \in I : k <= j
  <2> HIDE DEF I
  <2> QED  BY <1>4, SmallestNumber
<1>6. k \in 1..n /\ t < ts[k + 1]  OBVIOUS
<1>7. ts[k] <= t
  <2>1. CASE k = 1  BY <1>1, <2>1
  <2>2. CASE k # 1
    <3>1. k - 1 \in 1..n /\ (k - 1) + 1 = k  BY <1>2, <1>6, <2>2
    <3>2. k - 1 \notin I  BY <1>2, <1>5, <1>6
    <3>3. ~(t < ts[k])  BY <3>1, <3>2
    <3> QED  BY <1>3, <1>6, <3>3
  <2> QED  BY <2>1, <2>2
<1> QED  BY <1>6, <1>7 DEF n

LEMMA UnitsOfTicks ==
    ASSUME NEW unit \in Nat \ {0}, NEW top \in Int, NEW partial,
           NEW i \in Wanted(unit, top, partial, TRUE)
    PROVE  Ticks(UnitsOf(i, unit)) = i[1]..(i[2] - 1)
<1> DEFINE ts == ExpandRange(i[1], i[2], unit)
           n == Len(ts) - 1
           u == UnitsOf(i, unit)
<1>1. i[1] \in Int /\ i[2] \in Int /\ i[1] < i[2] /\ i[1] % unit = 0  BY DEF Wanted, Pairs
<1>2. IsExpanded(ts, i[1], i[2], unit)  BY <1>1, ExpandRight
<1>3. u = [k \in 1..n |-> <<ts[k], ts[k + 1]>>]  BY DEF UnitsOf
<1>4. u \in Seq(Wanted(unit, top, partial, TRUE))  BY UnitsOfWanted
<1>5. u \in Seq(Pairs)
  <2> DEFINE P == Wanted(unit, top, partial, TRUE)
  <2>1. P \subseteq Pairs  BY DEF Wanted
  <2>2. u \in Seq(P)  BY <1>4
  <2> HIDE DEF u, P
  <2> QED  BY <2>1, <2>2
<1> HIDE DEF ts, u
<1>6. /\ ts \in Seq(Int) /\ Len(ts) >= 2 /\ ts[Len(ts)] = i[2]
      /\ \A k \in 1..n : i[1] <= ts[k] /\ ts[k] < i[2]
    BY <1>1, <1>2 DEF IsExpanded
<1>7. n \in Nat /\ n + 1 = Len(ts)  BY <1>6
<1>8. Len(u) = n
  <2>1. DOMAIN u = 1..n  BY <1>3
  <2> HIDE DEF n
  <2> QED  BY <1>5, <1>7, <2>1
<1> HIDE DEF n
<1>9. \A k \in 1..n : u[k][1] = ts[k] /\ u[k][2] = ts[k + 1]  BY <1>3
<1>10. ASSUME NEW k \in 1..n PROVE ts[k] \in Int /\ ts[k + 1] \in Int /\ ts[k + 1] <= i[2]
  <2>1. k \in 1..Len(ts) /\ k + 1 \in 1..Len(ts)  BY <1>7
  <2>2. ts[k] \in Int /\ ts[k + 1] \in Int  BY <1>6, <2>1
  <2>3. CASE k = n  BY <1>1, <1>6, <1>7, <2>2, <2>3
  <2>4. CASE k # n
    <3>1. k + 1 \in 1..n  BY <1>7, <2>4
    <3> QED  BY <1>1, <1>6, <2>2, <3>1
  <2> QED  BY <2>2, <2>3, <2>4
<1>11. ASSUME NEW t PROVE t \in Ticks(u) <=> t \in i[1]..(i[2] - 1)
  <2>1. t \in Ticks(u) <=> t \in Int /\ \E k \in 1..n : ts[k] <= t /\ t < ts[k + 1]
    <3>1. t \in Ticks(u) <=> t \in Int /\ \E k \in 1..Len(u) : u[k][1] <= t /\ t < u[k][2]
        BY <1>5, TicksOf
    <3> QED  BY <1>8, <1>9, <3>1
  <2>2. ASSUME t \in Int, NEW k \in 1..n, ts[k] <= t, t < ts[k + 1] PROVE i[1] <= t /\ t < i[2]
    <3>1. i[1] <= ts[k]  BY <1>6
    <3>2. ts[k] \in Int /\ ts[k + 1] \in Int /\ ts[k + 1] <= i[2]  BY <1>10
    <3> QED  BY <1>1, <2>2, <3>1, <3>2
  <2>3. ASSUME t \in Int, i[1] <= t, t < i[2]
        PROVE  \E k \in 1..n : ts[k] <= t /\ t < ts[k + 1]
      BY <1>1, <1>2, <2>3, ExpandedCovers DEF n
  <2> QED  BY <1>1, <2>1, <2>2, <2>3
<1> QED  BY <1>11 DEF u

LEMMA UnitsTicks ==
    ASSUME NEW unit \in Nat \ {0}, NEW top \in Int, NEW partial,
           NEW s \in Seq(Wanted(unit, top, partial, TRUE))
    PROVE  Ticks(Units(s, unit)) = Ticks(s)
<1> DEFINE P == Wanted(unit, top, partial, TRUE)
           us == [k \in DOMAIN s |-> UnitsOf(s[k], unit)]
<1>1. P \subseteq Pairs  BY DEF Wanted
<1>2. \A i \in P : UnitsOf(i, unit) \in Seq(P) /\ Ticks(UnitsOf(i, unit)) = i[1]..(i[2] - 1)
    BY UnitsOfWanted, UnitsOfTicks
<1>3. s \in Seq(P)  OBVIOUS
<1> HIDE DEF P
<1>4. DOMAIN s = 1..Len(s) /\ Len(s) \in Nat /\ \A k \in 1..Len(s) : s[k] \in P  BY <1>3
<1>5. \A k \in 1..Len(s) : UnitsOf(s[k], unit) \in Seq(Pairs)
  <2>1. Seq(P) \subseteq Seq(Pairs)  BY <1>1
  <2> QED  BY <1>2, <1>4, <2>1
<1>6. us \in [1..Len(s) -> Seq(Pairs)]  BY <1>4, <1>5
<1>7. \A k \in 1..Len(s) : Ticks(us[k]) = s[k][1]..(s[k][2] - 1)  BY <1>2, <1>4
<1>8. Units(s, unit) = FlattenSeq(us)  BY DEF Units
<1> HIDE DEF us
<1>9. us \in Seq(Seq(Pairs)) /\ Len(us) = Len(s)  BY <1>4, <1>6
<1>10. Ticks(Units(s, unit)) = UNION {Ticks(us[k]) : k \in 1..Len(s)}  BY <1>8, <1>9, TicksOfFlat
<1>11. ToSet(s) = {s[k] : k \in 1..Len(s)}  BY <1>3, MembersOf
<1>12. Ticks(s) = UNION {s[k][1]..(s[k][2] - 1) : k \in 1..Len(s)}  BY <1>11 DEF Ticks
<1> QED  BY <1>7, <1>10, <1>12

\* The ticks of what is being put together.
LEMMA EndsOfTicks ==
    ASSUME NEW P, P \subseteq Pairs, NEW bs \in Seq(Runs(P, TRUE)), NEW t
    PROVE  /\ EndsOf(bs) \in Seq(Pairs)
           /\ t \in Ticks(EndsOf(bs)) <=>
                 t \in Int /\ \E k \in 1..Len(bs) : bs[k][1][1] <= t /\ t < Last(bs[k])[2]
<1> DEFINE R == Runs(P, TRUE)
           e == EndsOf(bs)
<1>1. \A r \in R : <<r[1][1], Last(r)[2]>> \in Pairs
  <2> TAKE r \in R
  <2>1. r \in Seq(P) /\ r # << >>  BY DEF Runs
  <2>2. Len(r) \in Nat \ {0} /\ Last(r) \in P  BY <2>1, LastAndFront
  <2>3. r[1] \in P  BY <2>1, <2>2
  <2> DEFINE x == r[1]
             y == Last(r)
  <2> HIDE DEF x, y
  <2>4. x \in Pairs /\ y \in Pairs  BY <2>2, <2>3 DEF x, y
  <2>5. <<x[1], y[2]>> \in Pairs  BY <2>4 DEF Pairs
  <2> QED  BY <2>5 DEF x, y
<1> DEFINE B == Seq(R)
<1>2. bs \in B  OBVIOUS
<1> HIDE DEF R
<1>3. DOMAIN bs = 1..Len(bs) /\ Len(bs) \in Nat /\ \A k \in 1..Len(bs) : bs[k] \in R  BY <1>2
<1>4. e = [k \in 1..Len(bs) |-> <<bs[k][1][1], Last(bs[k])[2]>>]  BY <1>2 DEF EndsOf
<1> HIDE DEF e
<1>5. e \in [1..Len(bs) -> Pairs]  BY <1>1, <1>2, <1>4
<1>6. e \in Seq(Pairs) /\ Len(e) = Len(bs)  BY <1>2, <1>5
<1>7. \A k \in 1..Len(bs) : e[k][1] = bs[k][1][1] /\ e[k][2] = Last(bs[k])[2]  BY <1>4
<1>8. t \in Ticks(e) <=> t \in Int /\ \E k \in 1..Len(e) : e[k][1] <= t /\ t < e[k][2]
    BY <1>6, TicksOf
<1> QED  BY <1>6, <1>7, <1>8 DEF e

\* The next interval adds its ticks.
Extends(bs, i, size) ==
    Ticks(EndsOf(WithNext(bs, i, size))) = Ticks(EndsOf(bs)) \cup i[1]..(i[2] - 1)

LEMMA WithNextTicks ==
    ASSUME NEW unit, NEW top, NEW partial, NEW i \in Wanted(unit, top, partial, TRUE), NEW size,
           NEW bs \in Seq(Runs(Wanted(unit, top, partial, TRUE), TRUE))
    PROVE  Extends(bs, i, size)
<1> DEFINE P == Wanted(unit, top, partial, TRUE)
           R == Runs(P, TRUE)
           w == WithNext(bs, i, size)
           n == Len(bs)
<1>1. P \subseteq Pairs /\ i[1] \in Int /\ i[2] \in Int /\ i[1] < i[2] /\ i \in P
    BY DEF Wanted, Pairs
<1>2. w \in Seq(R) /\ bs \in Seq(R)
  <2>1. w \in Seq(R)  BY WithNextWanted
  <2> QED  BY <2>1
<1> HIDE DEF P, R, w
<1>3. bs \in Seq(R) /\ n \in Nat  BY <1>2
<1> SUFFICES ASSUME NEW t
             PROVE  t \in Ticks(EndsOf(w)) <=> t \in Ticks(EndsOf(bs)) \/ t \in i[1]..(i[2] - 1)
    BY DEF w, Extends
<1>4. t \in Ticks(EndsOf(bs)) <=>
          t \in Int /\ \E k \in 1..n : bs[k][1][1] <= t /\ t < Last(bs[k])[2]
    BY <1>1, <1>3, EndsOfTicks DEF R
<1>5. t \in Ticks(EndsOf(w)) <=>
          t \in Int /\ \E k \in 1..Len(w) : w[k][1][1] <= t /\ t < Last(w[k])[2]
    BY <1>1, <1>2, EndsOfTicks DEF R
<1>6. t \in i[1]..(i[2] - 1) <=> t \in Int /\ i[1] <= t /\ t < i[2]  BY <1>1
<1>7. CASE bs # << >> /\ Last(Last(bs))[2] = i[1] /\ (size # 0 => Len(Last(bs)) < size)
  <2> DEFINE b == bs[n]
             c == Append(b, i)
  <2>1. /\ n \in 1..n /\ Last(bs) = b /\ b \in R
        /\ Front(bs) \in Seq(R) /\ Len(Front(bs)) = n - 1
        /\ \A k \in 1..(n - 1) : Front(bs)[k] = bs[k]
    <3>1. Len(bs) \in Nat \ {0} /\ Last(bs) \in R /\ Last(bs) = bs[Len(bs)]
        BY <1>3, <1>7, LastAndFront
    <3>2. /\ Front(bs) \in Seq(R) /\ Len(Front(bs)) = Len(bs) - 1
          /\ \A k \in 1..(Len(bs) - 1) : Front(bs)[k] = bs[k]
        BY <1>3, <1>7, LastAndFront
    <3> QED  BY <3>1, <3>2
  <2>2. w = Append(Front(bs), c)  BY <1>7, <2>1 DEF w, WithNext
  <2> HIDE DEF n
  <2>3. Last(b)[2] = i[1]  BY <1>7, <2>1
  <2> HIDE DEF b
  <2>4. b \in Seq(P) /\ b # << >> /\ b[1][1] < Last(b)[2]  BY <2>1 DEF R, Runs
  <2>5. c \in Seq(P) /\ c # << >> /\ c[1] = b[1] /\ Last(c) = i /\ b[1][1] \in Int
    <3>1. Len(b) \in Nat \ {0} /\ b[1] \in P  BY <2>4
    <3>2. /\ c \in Seq(P) /\ Len(c) = Len(b) + 1 /\ c[Len(b) + 1] = i
          /\ \A k \in 1..Len(b) : c[k] = b[k]
        BY <1>1, <2>4
    <3> HIDE DEF c
    <3>3. c # << >> /\ 1 \in 1..Len(b)  BY <3>1, <3>2
    <3>4. Last(c) = c[Len(c)]  BY <3>2, <3>3, LastAndFront
    <3>5. b[1][1] \in Int  BY <1>1, <3>1 DEF Pairs
    <3> QED  BY <3>2, <3>3, <3>4, <3>5
  <2> HIDE DEF c
  <2>6. /\ Len(w) = n /\ w[n] = c
        /\ \A k \in 1..(n - 1) : w[k] = bs[k]
    <3>1. DOMAIN w = 1..Len(w)  BY <1>2
    <3>2. /\ Len(w) = Len(Front(bs)) + 1 /\ w[Len(Front(bs)) + 1] = c
          /\ \A k \in 1..Len(Front(bs)) : w[k] = Front(bs)[k]
        BY <2>1, <2>2
    <3>3. (n - 1) + 1 = n  BY <1>3 DEF n
    <3> QED  BY <2>1, <3>2, <3>3
  <2>7. \A k \in 1..n : k = n \/ k \in 1..(n - 1)  BY <2>1
  <2>8. \A k \in 1..(n - 1) : k \in 1..n  BY <2>1
  <2>9. t \in Ticks(EndsOf(bs)) <=>
            t \in Int /\ ((\E k \in 1..(n - 1) : bs[k][1][1] <= t /\ t < Last(bs[k])[2])
                          \/ (b[1][1] <= t /\ t < i[1]))
      BY <1>4, <2>1, <2>3, <2>7, <2>8 DEF b
  <2>10. t \in Ticks(EndsOf(w)) <=>
            t \in Int /\ ((\E k \in 1..(n - 1) : bs[k][1][1] <= t /\ t < Last(bs[k])[2])
                          \/ (b[1][1] <= t /\ t < i[2]))
      BY <1>5, <2>1, <2>5, <2>6, <2>7, <2>8
  <2>11. t \in Int => (b[1][1] <= t /\ t < i[2] <=> (b[1][1] <= t /\ t < i[1]) \/ (i[1] <= t /\ t < i[2]))
      BY <1>1, <2>3, <2>4, <2>5
  <2> QED  BY <1>6, <2>9, <2>10, <2>11
<1>8. CASE ~(bs # << >> /\ Last(Last(bs))[2] = i[1] /\ (size # 0 => Len(Last(bs)) < size))
  <2> DEFINE c == <<i>>
  <2>1. w = Append(bs, c)  BY <1>8 DEF w, WithNext
  <2>2. c[1] = i /\ Last(c) = i  BY DEF Last
  <2> HIDE DEF c, n
  <2>3. Len(w) = n + 1 /\ w[n + 1] = c /\ \A k \in 1..n : w[k] = bs[k]  BY <1>3, <2>1 DEF n
  <2>4. /\ n \in Nat /\ n + 1 \in 1..(n + 1) /\ \A k \in 1..n : k \in 1..(n + 1)
        /\ \A k \in 1..(n + 1) : k = n + 1 \/ k \in 1..n
      BY <1>3 DEF n
  <2>5. t \in Ticks(EndsOf(w)) <=>
            t \in Int /\ ((\E k \in 1..n : bs[k][1][1] <= t /\ t < Last(bs[k])[2])
                          \/ (i[1] <= t /\ t < i[2]))
      BY <1>5, <2>2, <2>3, <2>4
  <2> QED  BY <1>4, <1>6, <2>5
<1> QED  BY <1>7, <1>8

\* Putting intervals together changes none of the ticks.
SameTicks(a, b) == Ticks(a) = Ticks(b)

LEMMA ContiguousTicks ==
    ASSUME NEW unit, NEW top, NEW partial, NEW size,
           NEW s \in Seq(Wanted(unit, top, partial, TRUE))
    PROVE  SameTicks(Contiguous(s, size), s)
<1> DEFINE P == Wanted(unit, top, partial, TRUE)
           R == Runs(P, TRUE)
           n == Len(s)
           Upto(k) == UNION {s[j][1]..(s[j][2] - 1) : j \in 1..k}
<1>1. PICK g : PutTogether(s, size, R, g)  BY ContiguousSteps
<1>2. \A i \in P : \A bs \in Seq(R) : Extends(bs, i, size)
  <2> TAKE i \in P
  <2> TAKE bs \in Seq(R)
  <2>1. /\ i \in Wanted(unit, top, partial, TRUE)
        /\ bs \in Seq(Runs(Wanted(unit, top, partial, TRUE), TRUE))
      OBVIOUS
  <2> QED  BY <2>1, WithNextTicks
<1>3. s \in Seq(P)  OBVIOUS
<1> HIDE DEF P
<1>4. n \in Nat /\ s \in Seq(P) /\ \A k \in 1..n : s[k] \in P  BY <1>3
<1> HIDE DEF n, R
<1>5. /\ g[0] = << >> /\ \A k \in 1..n : g[k] = WithNext(g[k - 1], s[k], size)
      /\ \A k \in 0..n : g[k] \in Seq(R)
      /\ Contiguous(s, size) = EndsOf(g[n])
    BY <1>1 DEF PutTogether, n
<1> DEFINE W == {k \in 0..n : Ticks(EndsOf(g[k])) # Upto(k)}
<1>6. ASSUME NEW k \in W PROVE k > 0 /\ k - 1 \in W
  <2>1. Ticks(EndsOf(g[0])) = {} /\ Upto(0) = {}
    <3>1. EndsOf(<< >>) = << >>  BY DEF EndsOf
    <3> QED  BY <1>5, <3>1 DEF Ticks, ToSet
  <2>2. k \in 0..n /\ Ticks(EndsOf(g[k])) # Upto(k)  OBVIOUS
  <2>3. k \in 1..n
    <3> HIDE DEF Upto
    <3>1. k # 0  BY <2>1, <2>2
    <3> QED  BY <1>4, <2>2, <3>1
  <2>4. k > 0 /\ k - 1 \in 0..n  BY <1>4, <2>3
  <2>5. 1..k = 1..(k - 1) \cup {k}  BY <1>4, <2>3
  <2>6. Upto(k) = Upto(k - 1) \cup s[k][1]..(s[k][2] - 1)  BY <2>5
  <2> HIDE DEF Upto
  <2>7. Ticks(EndsOf(g[k])) = Ticks(EndsOf(g[k - 1])) \cup s[k][1]..(s[k][2] - 1)
    <3>1. s[k] \in P /\ g[k - 1] \in Seq(R) /\ g[k] = WithNext(g[k - 1], s[k], size)
        BY <1>4, <1>5, <2>3, <2>4
    <3>2. Extends(g[k - 1], s[k], size)  BY <1>2, <3>1
    <3> QED  BY <3>1, <3>2 DEF Extends
  <2>8. Ticks(EndsOf(g[k - 1])) # Upto(k - 1)  BY <2>2, <2>6, <2>7
  <2> QED  BY <2>4, <2>8
<1>7. W = {}
  <2>1. W \subseteq 0..n  OBVIOUS
  <2> HIDE DEF W
  <2> QED  BY <1>4, <1>6, <2>1, NoFirst
<1>8. n \in 0..n  BY <1>4
<1>9. Ticks(EndsOf(g[n])) = Upto(n)  BY <1>7, <1>8
<1>10. ToSet(s) = {s[k] : k \in 1..n}  BY <1>4, MembersOf DEF n
<1>11. Ticks(s) = Upto(n)  BY <1>10 DEF Ticks
<1> QED  BY <1>5, <1>9, <1>11 DEF SameTicks

\* What is left out of a list takes its ticks along, and no others.
LEMMA PartTicks ==
    ASSUME NEW V, NEW s \in Seq(V), NEW part \in Seq(ToSet(s))
    PROVE  Ticks(part) \subseteq Ticks(s)
<1>1. ToSet(part) \subseteq ToSet(s)  BY MembersOf
<1> QED  BY <1>1 DEF Ticks

LEMMA WithoutNone ==
    ASSUME NEW s \in Seq(Pairs)
    PROVE  Ticks(Without(s, << >>)) = Ticks(s)
<1> DEFINE us == [k \in DOMAIN s |-> IF s[k] \in ToSet(<< >>) THEN << >> ELSE <<s[k]>>]
<1>1. DOMAIN s = 1..Len(s) /\ Len(s) \in Nat /\ \A k \in 1..Len(s) : s[k] \in Pairs  OBVIOUS
<1>2. ToSet(<< >>) = {}  BY DEF ToSet
<1>3. us = [k \in 1..Len(s) |-> <<s[k]>>]  BY <1>1, <1>2
<1>4. \A p \in Pairs : <<p>> \in Seq(Pairs) /\ ToSet(<<p>>) = {p}  BY DEF ToSet
<1>5. Without(s, << >>) = FlattenSeq(us)  BY DEF Without
<1> HIDE DEF us
<1>6. us \in [1..Len(s) -> Seq(Pairs)]  BY <1>1, <1>3, <1>4
<1>7. us \in Seq(Seq(Pairs)) /\ Len(us) = Len(s)  BY <1>1, <1>6
<1>8. ToSet(FlattenSeq(us)) = UNION {ToSet(us[k]) : k \in 1..Len(us)}  BY <1>7, MembersOfFlat
<1>9. \A k \in 1..Len(s) : ToSet(us[k]) = {s[k]}  BY <1>1, <1>3, <1>4
<1>10. ToSet(s) = {s[k] : k \in 1..Len(s)}  BY MembersOf
<1>11. ToSet(FlattenSeq(us)) = ToSet(s)
  <2>1. UNION {ToSet(us[k]) : k \in 1..Len(s)} = UNION {{s[k]} : k \in 1..Len(s)}  BY <1>9
  <2>2. UNION {{s[k]} : k \in 1..Len(s)} = {s[k] : k \in 1..Len(s)}  OBVIOUS
  <2> QED  BY <1>7, <1>8, <1>10, <2>1, <2>2
<1> QED  BY <1>5, <1>11 DEF Ticks

LEMMA CoveredTicks ==
    ASSUME NEW s \in Seq(Pairs), NEW lo \in Int, NEW hi \in Int, Covered(s, lo, hi),
           NEW t \in Int, lo <= t, t < hi
    PROVE  t \in Ticks(s)
<1> DEFINE found == {k \in DOMAIN s :
                       lo < s[k][1] \/ (s[k][1] <= lo /\ hi <= s[k][2])}
<1>1. found # {} /\ s[Min(found)][1] <= lo  BY DEF Covered
<1>2. /\ DOMAIN s = 1..Len(s) /\ Len(s) \in Nat
      /\ \A k \in 1..Len(s) : s[k][1] \in Int /\ s[k][2] \in Int
  <2>1. \A k \in 1..Len(s) : s[k] \in Pairs  OBVIOUS
  <2> QED  BY <2>1 DEF Pairs
<1>3. found \subseteq 1..Len(s)  BY <1>2
<1>4. Min(found) \in found
  <2> HIDE DEF found
  <2>1. found \in SUBSET Nat  BY <1>2, <1>3
  <2>2. \E k \in found : \A j \in found : k <= j  BY <1>1, <2>1, SmallestNumber
  <2> QED  BY <2>2 DEF Min
<1> DEFINE k == Min(found)
<1>5. k \in 1..Len(s) /\ s[k][1] <= lo /\ (lo < s[k][1] \/ (s[k][1] <= lo /\ hi <= s[k][2]))
  <2>1. Min(found) \in DOMAIN s
        /\ (lo < s[Min(found)][1] \/ (s[Min(found)][1] <= lo /\ hi <= s[Min(found)][2]))
      BY <1>4
  <2> QED  BY <1>1, <1>2, <2>1
<1> HIDE DEF k, found
<1>6. s[k][1] <= t /\ t < s[k][2]  BY <1>2, <1>5
<1> QED  BY <1>5, <1>6, TicksOf

(***************************************************************************)
(* Rounding to units.                                                      *)
(***************************************************************************)
LEMMA FloorRight ==
    ASSUME NEW unit \in Nat \ {0}, NEW t \in Int
    PROVE  /\ Floor(t, unit) \in Int /\ Floor(t, unit) % unit = 0
           /\ Floor(t, unit) <= t /\ t < Floor(t, unit) + unit
           /\ t >= 0 => Floor(t, unit) >= 0
           /\ t % unit = 0 => Floor(t, unit) = t
<1>1. (t \div unit) * unit \in Int /\ ((t \div unit) * unit) % unit = 0  OBVIOUS
<1>2. (t \div unit) * unit <= t /\ t < (t \div unit) * unit + unit  OBVIOUS
<1>3. t >= 0 => (t \div unit) * unit >= 0  OBVIOUS
<1>4. t % unit = 0 => (t \div unit) * unit = t  OBVIOUS
<1> QED  BY <1>1, <1>2, <1>3, <1>4 DEF Floor

\* What is a multiple of the unit and not later is not later than the floor.
LEMMA FloorIsGreatest ==
    ASSUME NEW unit \in Nat \ {0}, NEW t \in Int, NEW a \in Int, a % unit = 0, a <= t
    PROVE  a <= Floor(t, unit)
<1>1. (a \div unit) * unit = a  OBVIOUS
<1>2. a \div unit <= t \div unit  OBVIOUS
<1>3. \A x, y \in Int : x <= y => x * unit <= y * unit  OBVIOUS
<1>4. a \div unit \in Int /\ t \div unit \in Int  OBVIOUS
<1>5. (a \div unit) * unit <= (t \div unit) * unit  BY <1>2, <1>3, <1>4
<1> QED  BY <1>1, <1>5 DEF Floor

LEMMA CeilingRight ==
    ASSUME NEW unit \in Nat \ {0}, NEW t \in Int
    PROVE  /\ Ceiling(t, unit) \in Int /\ Ceiling(t, unit) % unit = 0
           /\ t <= Ceiling(t, unit) /\ CronNext(t, unit) % unit = 0
           /\ t % unit = 0 => Ceiling(t, unit) = t
<1> DEFINE f == Floor(t, unit)
<1>1. /\ f \in Int /\ f % unit = 0 /\ t < f + unit
      /\ t % unit = 0 => f = t
    BY FloorRight
<1>2. (f + unit) % unit = 0
  <2>1. f = (t \div unit) * unit  BY DEF Floor
  <2>2. \A x, y \in Int : (x + y) * unit = x * unit + y * unit  OBVIOUS
  <2>3. t \div unit \in Int /\ 1 * unit = unit  OBVIOUS
  <2>4. (t \div unit + 1) * unit = (t \div unit) * unit + 1 * unit  BY <2>2, <2>3
  <2>5. \A x \in Int : (x * unit) % unit = 0  OBVIOUS
  <2>6. t \div unit + 1 \in Int  BY <2>3
  <2> HIDE DEF f
  <2>7. f + unit = (t \div unit + 1) * unit  BY <2>1, <2>3, <2>4
  <2> QED  BY <2>5, <2>6, <2>7
<1>3. Ceiling(t, unit) = IF f = t THEN t ELSE f + unit  BY DEF Ceiling, CronNext
<1>4. CronNext(t, unit) = f + unit  BY DEF CronNext
<1> HIDE DEF f
<1> QED  BY <1>1, <1>2, <1>3, <1>4

LEMMA CeilingIsLeast ==
    ASSUME NEW unit \in Nat \ {0}, NEW t \in Int, NEW a \in Int, a % unit = 0
    PROVE  /\ t < a => Floor(t, unit) + unit <= a
           /\ t <= a => Ceiling(t, unit) <= a
<1> DEFINE q == t \div unit
           p == a \div unit
<1>1. q \in Int /\ p \in Int /\ a = p * unit  OBVIOUS
<1>2. q * unit <= t /\ Floor(t, unit) = q * unit  BY DEF Floor
<1>3. ASSUME t < a PROVE q * unit + unit <= a
  <2> HIDE DEF q, p
  <2>1. q * unit < p * unit  BY <1>1, <1>2, <1>3
  <2>2. \A x, y \in Int : x * unit < y * unit => x + 1 <= y  OBVIOUS
  <2>3. \A x, y \in Int : x <= y => x * unit <= y * unit  OBVIOUS
  <2>4. \A x, y \in Int : (x + y) * unit = x * unit + y * unit  OBVIOUS
  <2>5. q + 1 \in Int /\ q + 1 <= p  BY <1>1, <2>1, <2>2
  <2>6. (q + 1) * unit <= p * unit  BY <1>1, <2>3, <2>5
  <2>7. (q + 1) * unit = q * unit + 1 * unit /\ 1 * unit = unit  BY <1>1, <2>4
  <2>8. q * unit \in Int  BY <1>1
  <2> QED  BY <1>1, <2>6, <2>7, <2>8
<1>4. ASSUME t = a PROVE q * unit = t  BY <1>1, <1>4
<1> HIDE DEF q, p
<1> QED  BY <1>1, <1>2, <1>3, <1>4 DEF Ceiling, CronNext

LEMMA FloorInUnit ==
    ASSUME NEW unit \in Nat \ {0}, NEW t \in Int, NEW x \in Int,
           x \in Floor(t, unit)..(CronNext(t, unit) - 1)
    PROVE  Floor(x, unit) = Floor(t, unit)
<1> DEFINE q == t \div unit
<1>1. q \in Int /\ q * unit \in Int  OBVIOUS
<1>2. q * unit <= x /\ x < q * unit + unit  BY <1>1 DEF Floor, CronNext
<1>3. \A p, y \in Int : p * unit <= y /\ y < p * unit + unit => y \div unit = p  OBVIOUS
<1> HIDE DEF q
<1>4. x \div unit = q  BY <1>1, <1>2, <1>3
<1> QED  BY <1>4 DEF Floor, q

LEMMA FloorAhead ==
    ASSUME NEW unit \in Nat \ {0}, NEW t \in Int, NEW k \in Int
    PROVE  t + k * unit \in Int /\ Floor(t + k * unit, unit) = Floor(t, unit) + k * unit
<1> DEFINE q == t \div unit
           a == q * unit
           d == k * unit
<1>1. q \in Int /\ a \in Int /\ d \in Int /\ a <= t /\ t < a + unit  OBVIOUS
<1>2. (q + k) * unit = a + d
  <2>1. \A x, y \in Int : (x + y) * unit = x * unit + y * unit  OBVIOUS
  <2> QED  BY <1>1, <2>1
<1>3. \A p, y \in Int : p * unit <= y /\ y < p * unit + unit => y \div unit = p  OBVIOUS
<1>4. Floor(t, unit) = a  BY DEF Floor
<1>5. Floor(t + d, unit) = ((t + d) \div unit) * unit  BY DEF Floor
<1> HIDE DEF q, a, d
<1>6. q + k \in Int /\ t + d \in Int /\ (q + k) * unit <= t + d /\ t + d < (q + k) * unit + unit
    BY <1>1, <1>2
<1>7. (t + d) \div unit = q + k  BY <1>3, <1>6
<1>8. t + d \in Int /\ Floor(t + d, unit) = Floor(t, unit) + d  BY <1>2, <1>4, <1>5, <1>6, <1>7
<1> QED  BY <1>8 DEF d

\* A unit that lies in the past is over.
LEMMA UnitOver ==
    ASSUME NEW unit \in Nat \ {0}, NEW n \in Int, NEW t \in Int,
           Floor(t, unit)..(CronNext(t, unit) - 1) \subseteq 0..(n - 1)
    PROVE  CronNext(t, unit) <= n
<1> DEFINE f == Floor(t, unit)
           c == CronNext(t, unit)
<1>1. f \in Int /\ c = f + unit  BY FloorRight DEF CronNext
<1>2. f..(c - 1) \subseteq 0..(n - 1)  OBVIOUS
<1> HIDE DEF f, c
<1>3. c - 1 \in f..(c - 1)  BY <1>1
<1>4. c - 1 \in 0..(n - 1)  BY <1>2, <1>3
<1> QED  BY <1>1, <1>4 DEF c

(***************************************************************************)
(* compute_missing_intervals stays in its range, and leaves nothing out of *)
(* it but what is recorded and what comes after the model's end.           *)
(***************************************************************************)
Computed(s, lo, hi, model, t) ==
    /\ t \in Ticks(ComputeMissingIntervals(s, lo, hi, model)) => t \in lo..(hi - 1)
    /\ t \in lo..(hi - 1) /\ t \notin Ticks(s)
       /\ (model.end # NoEnd => Floor(t, model.unit) < model.end)
          => t \in Ticks(ComputeMissingIntervals(s, lo, hi, model))

LEMMA ComputedTicks ==
    ASSUME NEW model, model.unit \in Nat \ {0}, model.end \in Int, NEW top \in Int, NEW partial,
           NEW s \in Seq(Pairs), NEW lo, NEW hi,
           <<lo, hi>> \in Wanted(model.unit, top, partial, TRUE), NEW t
    PROVE  Computed(s, lo, hi, model, t)
<1> DEFINE ts == ExpandRange(lo, hi, model.unit)
           n == Len(ts) - 1
           unloaded == {i \in 1..n : ~Covered(s, ts[i], ts[i + 1])}
           missing == IF unloaded # {} /\ model.lookback # 0
                      THEN WithLookback(unloaded, n, EffectiveLookback(model, hi))
                      ELSE unloaded
           S == {<<ts[i], ts[i + 1]>> : i \in {i \in missing : model.end # NoEnd => ts[i] < model.end}}
           c == ComputeMissingIntervals(s, lo, hi, model)
<1>1. lo \in Int /\ hi \in Int /\ lo % model.unit = 0 /\ lo < hi  BY DEF Wanted, Pairs
<1>2. IsExpanded(ts, lo, hi, model.unit)  BY <1>1, ExpandRight
<1>3. c = Sorted(S)  BY DEF ComputeMissingIntervals
<1>4. unloaded \subseteq missing /\ missing \subseteq 1..n
  <2> HIDE DEF ts, n
  <2>1. unloaded \subseteq 1..n  OBVIOUS
  <2> HIDE DEF unloaded
  <2>2. WithLookback(unloaded, n, EffectiveLookback(model, hi)) \subseteq 1..n
        /\ unloaded \subseteq WithLookback(unloaded, n, EffectiveLookback(model, hi))
      BY <2>1 DEF WithLookback
  <2> QED  BY <2>1, <2>2
<1>5. \A i \in 1..n : i \notin unloaded => Covered(s, ts[i], ts[i + 1])
  <2> HIDE DEF ts, n
  <2> QED  OBVIOUS
<1> HIDE DEF ts, missing, unloaded, c
<1>6. /\ ts \in Seq(Int) /\ Len(ts) >= 2 /\ ts[Len(ts)] = hi
      /\ \A k \in 1..n : lo <= ts[k] /\ ts[k] < hi /\ ts[k] % model.unit = 0
    BY <1>1, <1>2 DEF IsExpanded
<1>7. n \in Nat /\ n + 1 = Len(ts)  BY <1>6
<1>8. ASSUME NEW k \in 1..n PROVE ts[k] \in Int /\ ts[k + 1] \in Int /\ ts[k + 1] <= hi
  <2> HIDE DEF n
  <2>1. k \in 1..Len(ts) /\ k + 1 \in 1..Len(ts)  BY <1>7
  <2>2. ts[k] \in Int /\ ts[k + 1] \in Int  BY <1>6, <2>1
  <2>3. CASE k = n  BY <1>1, <1>6, <1>7, <2>2, <2>3
  <2>4. CASE k # n
    <3>1. k + 1 \in 1..n  BY <1>7, <2>4
    <3> QED  BY <1>1, <1>6, <2>2, <3>1
  <2> QED  BY <2>2, <2>3, <2>4
<1>9. c \in Seq(Pairs) /\ ToSet(c) = S
  <2>1. S \in SUBSET Pairs
    <3>1. \A i \in missing : <<ts[i], ts[i + 1]>> \in Pairs  BY <1>4, <1>8 DEF Pairs
    <3> QED  BY <3>1
  <2>2. IsFiniteSet(S)
    <3> DEFINE u == [k \in 1..n |-> <<ts[k], ts[k + 1]>>]
    <3>1. u \in [1..n -> Pairs]  BY <1>8 DEF Pairs
    <3>2. S \subseteq {u[k] : k \in 1..n}
      <4>1. \A k \in 1..n : u[k] = <<ts[k], ts[k + 1]>>  OBVIOUS
      <4> HIDE DEF u
      <4> QED  BY <1>4, <4>1
    <3> HIDE DEF S, u, n
    <3> QED  BY <1>7, <3>1, <3>2, FiniteImage
  <2> HIDE DEF S
  <2>3. Sorted(S) \in Seq(S) /\ ToSet(Sorted(S)) = S  BY <2>1, <2>2, SortedRight
  <2>4. Sorted(S) \in Seq(Pairs)  BY <2>1, <2>3
  <2> QED  BY <1>3, <2>3, <2>4
<1>10. Ticks(c) = UNION {i[1]..(i[2] - 1) : i \in S}
  <2> HIDE DEF S
  <2> QED  BY <1>9 DEF Ticks
<1>11. ASSUME t \in Ticks(c) PROVE t \in lo..(hi - 1)
  <2>1. PICK i \in S : t \in i[1]..(i[2] - 1)
    <3> HIDE DEF S
    <3> QED  BY <1>10, <1>11
  <2>2. PICK k \in missing : i = <<ts[k], ts[k + 1]>>  OBVIOUS
  <2>3. k \in 1..n  BY <1>4
  <2> HIDE DEF S, n
  <2>4. i[1] = ts[k] /\ i[2] = ts[k + 1]  BY <2>2
  <2>5. lo <= ts[k] /\ ts[k] \in Int /\ ts[k + 1] \in Int /\ ts[k + 1] <= hi
      BY <1>6, <1>8, <2>3
  <2>6. t \in Int /\ ts[k] <= t /\ t <= ts[k + 1] - 1  BY <2>1, <2>4, <2>5
  <2> QED  BY <1>1, <2>5, <2>6
<1>12. ASSUME t \in lo..(hi - 1), t \notin Ticks(s),
              model.end # NoEnd => Floor(t, model.unit) < model.end
       PROVE  t \in Ticks(c)
  <2>1. t \in Int /\ lo <= t /\ t < hi  BY <1>1, <1>12
  <2>2. PICK k \in 1..n : ts[k] <= t /\ t < ts[k + 1]
    <3>1. \E k \in 1..(Len(ts) - 1) : ts[k] <= t /\ t < ts[k + 1]
        BY <1>1, <1>2, <2>1, ExpandedCovers
    <3> QED  BY <3>1
  <2> HIDE DEF n
  <2>3. ts[k] \in Int /\ ts[k + 1] \in Int  BY <1>8
  <2>4. ~Covered(s, ts[k], ts[k + 1])  BY <1>12, <2>1, <2>2, <2>3, CoveredTicks
  <2>5. k \in missing  BY <1>4, <1>5, <2>4
  <2>6. model.end # NoEnd => ts[k] < model.end
    <3>1. ts[k] <= Floor(t, model.unit) /\ Floor(t, model.unit) \in Int
        BY <1>6, <2>1, <2>2, <2>3, FloorRight, FloorIsGreatest
    <3> QED  BY <1>12, <2>3, <3>1
  <2>7. <<ts[k], ts[k + 1]>> \in S  BY <2>5, <2>6
  <2>8. t \in ts[k]..(ts[k + 1] - 1)  BY <2>1, <2>2, <2>3
  <2> HIDE DEF S
  <2> DEFINE p == <<ts[k], ts[k + 1]>>
  <2>9. p \in S /\ t \in p[1]..(p[2] - 1)  BY <2>7, <2>8
  <2> HIDE DEF p
  <2> QED  BY <1>10, <2>9
<1> QED  BY <1>11, <1>12 DEF Computed, c

(***************************************************************************)
(* Lists in order: what is ahead in the list is over when the next begins. *)
(***************************************************************************)
InOrder(s) == \A j, k \in 1..Len(s) : j < k => s[j][2] <= s[k][1]

LEMMA ConcatInOrder ==
    ASSUME NEW s \in Seq(Pairs), NEW t \in Seq(Pairs), InOrder(s), InOrder(t),
           \A p \in ToSet(s), q \in ToSet(t) : p[2] <= q[1]
    PROVE  InOrder(s \o t)
<1> DEFINE n == Len(s)
           m == Len(t)
           z == s \o t
<1>1. IsConcat(z, s, t, Pairs)  BY ElementsOfConcat
<1> HIDE DEF z
<1>2. /\ Len(z) = n + m /\ \A k \in 1..n : z[k] = s[k]
      /\ \A k \in (n + 1)..(n + m) : z[k] = t[k - n]
      /\ n \in Nat /\ m \in Nat
    BY <1>1 DEF IsConcat
<1>3. ASSUME NEW j \in 1..(n + m), NEW k \in 1..(n + m), j < k PROVE z[j][2] <= z[k][1]
  <2>1. CASE k <= n
    <3>1. j \in 1..n /\ k \in 1..n  BY <1>2, <1>3, <2>1
    <3> QED  BY <1>2, <1>3, <3>1 DEF InOrder
  <2>2. CASE j > n
    <3>1. /\ j \in (n + 1)..(n + m) /\ k \in (n + 1)..(n + m)
          /\ j - n \in 1..m /\ k - n \in 1..m /\ j - n < k - n
        BY <1>2, <1>3, <2>2
    <3> QED  BY <1>2, <3>1 DEF InOrder
  <2>3. CASE j <= n /\ k > n
    <3>1. j \in 1..n /\ k \in (n + 1)..(n + m) /\ k - n \in 1..m  BY <1>2, <2>3
    <3>2. s[j] \in ToSet(s) /\ t[k - n] \in ToSet(t)  BY <3>1, MembersOf
    <3> QED  BY <1>2, <3>1, <3>2
  <2> QED  BY <1>2, <2>1, <2>2, <2>3
<1>4. InOrder(z)  BY <1>2, <1>3 DEF InOrder
<1> QED  BY <1>4 DEF z

LEMMA AppendInOrder ==
    ASSUME NEW s \in Seq(Pairs), InOrder(s), NEW i \in Pairs, \A p \in ToSet(s) : p[2] <= i[1]
    PROVE  InOrder(Append(s, i))
<1>1. <<i>> \in Seq(Pairs) /\ ToSet(<<i>>) = {i}  BY DEF ToSet
<1>2. InOrder(<<i>>)  BY DEF InOrder
<1>3. InOrder(s \o <<i>>)  BY <1>1, <1>2, ConcatInOrder
<1>4. s \o <<i>> = Append(s, i)  OBVIOUS
<1> QED  BY <1>3, <1>4

LEMMA FlatInOrder ==
    ASSUME NEW seqs \in Seq(Seq(Pairs)), \A k \in 1..Len(seqs) : InOrder(seqs[k]),
           \A j, k \in 1..Len(seqs) : j < k =>
               \A p \in ToSet(seqs[j]), q \in ToSet(seqs[k]) : p[2] <= q[1]
    PROVE  InOrder(FlattenSeq(seqs))
<1> DEFINE n == Len(seqs)
           Upto(k) == UNION {ToSet(seqs[j]) : j \in 1..k}
<1>1. n \in Nat /\ \A k \in 1..n : seqs[k] \in Seq(Pairs)  OBVIOUS
<1>2. PICK f : FlattensTo(seqs, Pairs, f)  BY Flattened
<1> HIDE DEF n
<1>3. /\ f \in [0..n -> Seq(Pairs)] /\ f[0] = << >>
      /\ \A k \in 1..n : f[k] = f[k - 1] \o seqs[k]
      /\ FlattenSeq(seqs) = f[n]
    BY <1>2 DEF FlattensTo, n
<1> DEFINE Right(k) == InOrder(f[k]) /\ ToSet(f[k]) \subseteq Upto(k)
           W == {k \in 0..n : ~Right(k)}
<1>4. ASSUME NEW k \in W PROVE k > 0 /\ k - 1 \in W
  <2>1. k \in 0..n /\ ~Right(k)  OBVIOUS
  <2>2. Right(0)  BY <1>3 DEF ToSet, InOrder
  <2> HIDE DEF Right
  <2>3. k # 0  BY <2>1, <2>2
  <2>4. k \in 1..n /\ k - 1 \in 0..n /\ k > 0  BY <1>1, <2>1, <2>3
  <2>5. SUFFICES ASSUME Right(k - 1) PROVE FALSE  BY <2>4
  <2>6. f[k - 1] \in Seq(Pairs) /\ seqs[k] \in Seq(Pairs) /\ f[k] = f[k - 1] \o seqs[k]
      BY <1>1, <1>3, <2>4
  <2>7. InOrder(f[k - 1]) /\ ToSet(f[k - 1]) \subseteq Upto(k - 1)  BY <2>5 DEF Right
  <2>8. \A j \in 1..(k - 1) : j \in 1..n /\ j < k  BY <1>1, <2>4
  <2>9. \A p \in ToSet(f[k - 1]), q \in ToSet(seqs[k]) : p[2] <= q[1]
    <3> TAKE p \in ToSet(f[k - 1]), q \in ToSet(seqs[k])
    <3>1. PICK j \in 1..(k - 1) : p \in ToSet(seqs[j])  BY <2>7
    <3> QED  BY <2>4, <2>8, <3>1 DEF n
  <2>10. InOrder(f[k])  BY <2>4, <2>6, <2>7, <2>9, ConcatInOrder DEF n
  <2>11. ToSet(f[k]) = ToSet(f[k - 1]) \cup ToSet(seqs[k])  BY <2>6, MembersOfConcat
  <2>12. 1..k = 1..(k - 1) \cup {k}  BY <1>1, <2>4
  <2>13. Upto(k) = Upto(k - 1) \cup ToSet(seqs[k])  BY <2>12
  <2> QED  BY <2>1, <2>7, <2>10, <2>11, <2>13 DEF Right
<1>5. W = {}
  <2>1. W \subseteq 0..n  OBVIOUS
  <2> HIDE DEF W
  <2> QED  BY <1>1, <1>4, <2>1, NoFirst
<1>6. Right(n)  BY <1>1, <1>5
<1> QED  BY <1>3, <1>6

LEMMA WithoutMembers ==
    ASSUME NEW s \in Seq(Pairs), NEW others, NEW x
    PROVE  x \in ToSet(Without(s, others)) <=> x \in ToSet(s) /\ x \notin ToSet(others)
<1> DEFINE us == [k \in DOMAIN s |-> IF s[k] \in ToSet(others) THEN << >> ELSE <<s[k]>>]
<1>1. DOMAIN s = 1..Len(s) /\ Len(s) \in Nat /\ \A k \in 1..Len(s) : s[k] \in Pairs  OBVIOUS
<1>2. \A p \in Pairs : <<p>> \in Seq(Pairs) /\ ToSet(<<p>>) = {p}  BY DEF ToSet
<1>3. << >> \in Seq(Pairs) /\ ToSet(<< >>) = {}  BY DEF ToSet
<1>4. Without(s, others) = FlattenSeq(us)  BY DEF Without
<1>5. \A k \in 1..Len(s) : ToSet(us[k]) = IF s[k] \in ToSet(others) THEN {} ELSE {s[k]}
    BY <1>1, <1>2, <1>3
<1>6. us \in [1..Len(s) -> Seq(Pairs)]  BY <1>1, <1>2, <1>3
<1> HIDE DEF us
<1>7. us \in Seq(Seq(Pairs)) /\ Len(us) = Len(s)  BY <1>1, <1>6
<1>8. ToSet(FlattenSeq(us)) = UNION {ToSet(us[k]) : k \in 1..Len(us)}  BY <1>7, MembersOfFlat
<1>9. ToSet(s) = {s[k] : k \in 1..Len(s)}  BY MembersOf
<1>10. x \in ToSet(Without(s, others)) <=> \E k \in 1..Len(s) : x \in ToSet(us[k])
    BY <1>4, <1>7, <1>8
<1>11. x \in ToSet(Without(s, others)) <=>
           \E k \in 1..Len(s) : x = s[k] /\ s[k] \notin ToSet(others)
    BY <1>5, <1>10
<1> QED  BY <1>9, <1>11

LEMMA WithoutInOrder ==
    ASSUME NEW s \in Seq(Pairs), InOrder(s), NEW others
    PROVE  InOrder(Without(s, others))
<1> DEFINE us == [k \in DOMAIN s |-> IF s[k] \in ToSet(others) THEN << >> ELSE <<s[k]>>]
<1>1. DOMAIN s = 1..Len(s) /\ Len(s) \in Nat /\ \A k \in 1..Len(s) : s[k] \in Pairs  OBVIOUS
<1>2. \A p \in Pairs : <<p>> \in Seq(Pairs) /\ ToSet(<<p>>) = {p} /\ InOrder(<<p>>)
    BY DEF ToSet, InOrder
<1>3. << >> \in Seq(Pairs) /\ ToSet(<< >>) = {} /\ InOrder(<< >>)  BY DEF ToSet, InOrder
<1>4. Without(s, others) = FlattenSeq(us)  BY DEF Without
<1>5. \A k \in 1..Len(s) : ToSet(us[k]) \subseteq {s[k]} /\ InOrder(us[k])
    BY <1>1, <1>2, <1>3
<1>6. us \in [1..Len(s) -> Seq(Pairs)]  BY <1>1, <1>2, <1>3
<1> HIDE DEF us
<1>7. us \in Seq(Seq(Pairs)) /\ Len(us) = Len(s)  BY <1>1, <1>6
<1>8. \A j, k \in 1..Len(us) : j < k => \A p \in ToSet(us[j]), q \in ToSet(us[k]) : p[2] <= q[1]
  <2> SUFFICES ASSUME NEW j \in 1..Len(s), NEW k \in 1..Len(s), j < k,
                      NEW p \in ToSet(us[j]), NEW q \in ToSet(us[k])
               PROVE  p[2] <= q[1]
      BY <1>7
  <2>1. p = s[j] /\ q = s[k]  BY <1>5
  <2> QED  BY <2>1 DEF InOrder
<1> QED  BY <1>4, <1>5, <1>7, <1>8, FlatInOrder

LEMMA ExpandedInOrder ==
    ASSUME NEW unit \in Nat \ {0}, NEW lo \in Int, NEW hi \in Int, lo < hi,
           NEW ts, IsExpanded(ts, lo, hi, unit)
    PROVE  \A j, k \in 1..Len(ts) : j < k => ts[j] < ts[k]
<1> DEFINE n == Len(ts)
<1>1. /\ ts \in Seq(Int) /\ n \in Nat
      /\ \A k \in 1..(n - 1) : ts[k] < ts[k + 1]
    BY DEF IsExpanded
<1>2. \A k \in 1..n : ts[k] \in Int  BY <1>1
<1> HIDE DEF n
<1> SUFFICES ASSUME NEW j \in 1..n PROVE \A k \in 1..n : j < k => ts[j] < ts[k]  BY DEF n
<1> DEFINE W == {k \in 1..n : j < k /\ ~(ts[j] < ts[k])}
<1>3. ASSUME NEW k \in W PROVE k > 0 /\ k - 1 \in W
  <2>1. k \in 1..n /\ j < k /\ ~(ts[j] < ts[k])  OBVIOUS
  <2>2. k - 1 \in 1..n /\ k - 1 \in 1..(n - 1) /\ (k - 1) + 1 = k  BY <1>1, <2>1
  <2>3. ts[k - 1] < ts[k]  BY <1>1, <2>2
  <2>4. k - 1 # j  BY <2>1, <2>3
  <2>5. j < k - 1  BY <2>1, <2>4
  <2>6. ts[j] \in Int /\ ts[k] \in Int /\ ts[k - 1] \in Int  BY <1>2, <2>1, <2>2
  <2>7. ~(ts[j] < ts[k - 1])  BY <2>1, <2>3, <2>6
  <2> QED  BY <2>1, <2>2, <2>5, <2>7
<1>4. W = {}
  <2>1. W \subseteq 0..n  BY <1>1
  <2> HIDE DEF W
  <2> QED  BY <1>1, <1>3, <2>1, NoFirst
<1> QED  BY <1>4

\* The units of an interval: one behind the other, within it.
LEMMA UnitsOfInOrder ==
    ASSUME NEW unit \in Nat \ {0}, NEW top \in Int, NEW partial,
           NEW i \in Wanted(unit, top, partial, TRUE)
    PROVE  /\ InOrder(UnitsOf(i, unit))
           /\ \A p \in ToSet(UnitsOf(i, unit)) :
                 /\ p \in Pairs /\ i[1] <= p[1] /\ p[2] <= i[2]
                 /\ p[1] % unit = 0 /\ p[1] < p[2] /\ p[2] <= p[1] + unit
<1> DEFINE ts == ExpandRange(i[1], i[2], unit)
           n == Len(ts) - 1
           u == UnitsOf(i, unit)
<1>1. i[1] \in Int /\ i[2] \in Int /\ i[1] < i[2] /\ i[1] % unit = 0  BY DEF Wanted, Pairs
<1>2. IsExpanded(ts, i[1], i[2], unit)  BY <1>1, ExpandRight
<1>3. u = [k \in 1..n |-> <<ts[k], ts[k + 1]>>]  BY DEF UnitsOf
<1> HIDE DEF ts
<1>4. /\ ts \in Seq(Int) /\ Len(ts) >= 2 /\ ts[Len(ts)] = i[2]
      /\ \A k \in 1..n : /\ i[1] <= ts[k] /\ ts[k] < i[2] /\ ts[k] % unit = 0
                         /\ ts[k] < ts[k + 1] /\ ts[k + 1] <= ts[k] + unit
    BY <1>1, <1>2 DEF IsExpanded
<1>5. n \in Nat /\ n + 1 = Len(ts)  BY <1>4
<1>6. \A j, k \in 1..Len(ts) : j < k => ts[j] < ts[k]  BY <1>1, <1>2, ExpandedInOrder
<1> HIDE DEF n
<1>7. \A k \in 1..n : k \in 1..Len(ts) /\ k + 1 \in 1..Len(ts)  BY <1>5
<1>8. \A k \in 1..Len(ts) : ts[k] \in Int /\ ts[k] <= i[2]
  <2> TAKE k \in 1..Len(ts)
  <2>1. ts[k] \in Int  BY <1>4
  <2>2. Len(ts) \in 1..Len(ts)  BY <1>4
  <2>3. k = Len(ts) \/ k < Len(ts)  BY <1>4
  <2> QED  BY <1>1, <1>4, <1>6, <2>1, <2>2, <2>3
<1> HIDE DEF u
<1>9. /\ u \in [1..n -> Pairs]
      /\ \A k \in 1..n : u[k][1] = ts[k] /\ u[k][2] = ts[k + 1]
    BY <1>3, <1>7, <1>8 DEF Pairs
<1>10. u \in Seq(Pairs) /\ Len(u) = n  BY <1>5, <1>9
<1>11. InOrder(u)
  <2> SUFFICES ASSUME NEW j \in 1..n, NEW k \in 1..n, j < k PROVE u[j][2] <= u[k][1]
      BY <1>10 DEF InOrder
  <2>1. u[j][2] = ts[j + 1] /\ u[k][1] = ts[k]  BY <1>9
  <2>2. j + 1 = k \/ j + 1 < k  OBVIOUS
  <2>3. ts[j + 1] \in Int /\ ts[k] \in Int  BY <1>7, <1>8
  <2>4. ts[j + 1] = ts[k] \/ ts[j + 1] < ts[k]  BY <1>6, <1>7, <2>2
  <2> QED  BY <2>1, <2>3, <2>4
<1>12. ToSet(u) = {u[k] : k \in 1..n}  BY <1>10, MembersOf
<1>13. ASSUME NEW p \in ToSet(u)
       PROVE  /\ p \in Pairs /\ i[1] <= p[1] /\ p[2] <= i[2]
              /\ p[1] % unit = 0 /\ p[1] < p[2] /\ p[2] <= p[1] + unit
  <2>1. PICK k \in 1..n : p = u[k]  BY <1>12
  <2> QED  BY <1>4, <1>7, <1>8, <1>9, <2>1
<1> QED  BY <1>11, <1>13 DEF u

LEMMA UnitsInOrder ==
    ASSUME NEW unit \in Nat \ {0}, NEW top \in Int, NEW partial,
           NEW s \in Seq(Wanted(unit, top, partial, TRUE)), InOrder(s)
    PROVE  /\ InOrder(Units(s, unit))
           /\ \A p \in ToSet(Units(s, unit)) :
                 p[1] % unit = 0 /\ p[1] < p[2] /\ p[2] <= p[1] + unit
<1> DEFINE P == Wanted(unit, top, partial, TRUE)
           us == [k \in DOMAIN s |-> UnitsOf(s[k], unit)]
           Within(i, p) == /\ p \in Pairs /\ i[1] <= p[1] /\ p[2] <= i[2]
                           /\ p[1] % unit = 0 /\ p[1] < p[2] /\ p[2] <= p[1] + unit
<1>1. P \subseteq Pairs  BY DEF Wanted
<1>2. \A i \in P : /\ UnitsOf(i, unit) \in Seq(P) /\ InOrder(UnitsOf(i, unit))
                   /\ \A p \in ToSet(UnitsOf(i, unit)) : Within(i, p)
    BY UnitsOfWanted, UnitsOfInOrder
<1>3. s \in Seq(P)  OBVIOUS
<1> HIDE DEF P
<1>4. DOMAIN s = 1..Len(s) /\ Len(s) \in Nat /\ \A k \in 1..Len(s) : s[k] \in P  BY <1>3
<1>5. \A k \in 1..Len(s) : UnitsOf(s[k], unit) \in Seq(Pairs)
  <2>1. Seq(P) \subseteq Seq(Pairs)  BY <1>1
  <2> QED  BY <1>2, <1>4, <2>1
<1>6. us \in [1..Len(s) -> Seq(Pairs)]  BY <1>4, <1>5
<1>7. \A k \in 1..Len(s) : InOrder(us[k]) /\ \A p \in ToSet(us[k]) : Within(s[k], p)
  <2> HIDE DEF Within
  <2> QED  BY <1>2, <1>4
<1>8. Units(s, unit) = FlattenSeq(us)  BY DEF Units
<1> HIDE DEF us
<1>9. us \in Seq(Seq(Pairs)) /\ Len(us) = Len(s)  BY <1>4, <1>6
<1>10. ToSet(Units(s, unit)) = UNION {ToSet(us[k]) : k \in 1..Len(s)}  BY <1>8, <1>9, MembersOfFlat
<1>11. \A j, k \in 1..Len(us) : j < k => \A p \in ToSet(us[j]), q \in ToSet(us[k]) : p[2] <= q[1]
  <2> SUFFICES ASSUME NEW j \in 1..Len(s), NEW k \in 1..Len(s), j < k,
                      NEW p \in ToSet(us[j]), NEW q \in ToSet(us[k])
               PROVE  p[2] <= q[1]
      BY <1>9
  <2>1. Within(s[j], p) /\ Within(s[k], q)  BY <1>7
  <2>2. s[j] \in Pairs /\ s[k] \in Pairs /\ p \in Pairs /\ q \in Pairs  BY <1>1, <1>4, <2>1
  <2>3. s[j][2] <= s[k][1]  BY DEF InOrder
  <2>4. s[j][2] \in Int /\ s[k][1] \in Int /\ p[2] \in Int /\ q[1] \in Int
      BY <2>2 DEF Pairs
  <2> QED  BY <2>1, <2>3, <2>4
<1>12. InOrder(Units(s, unit))  BY <1>7, <1>8, <1>9, <1>11, FlatInOrder
<1> QED  BY <1>7, <1>10, <1>12

\* The next interval makes the last batch longer, or comes behind it.
Lengthened(e, f, i) ==
    /\ f # << >> /\ e # << >> /\ Len(f) = Len(e)
    /\ \A k \in 1..(Len(e) - 1) : f[k] = e[k]
    /\ f[Len(e)][1] = e[Len(e)][1] /\ f[Len(e)][2] = i[2]

FollowedBy(e, f, i) == Len(f) = Len(e) + 1 /\ f[Len(e) + 1] = i /\ \A k \in 1..Len(e) : f[k] = e[k]

LEMMA WithNextEnds ==
    ASSUME NEW unit, NEW top, NEW partial, NEW i \in Wanted(unit, top, partial, TRUE), NEW size,
           NEW bs \in Seq(Runs(Wanted(unit, top, partial, TRUE), TRUE))
    PROVE  \/ Lengthened(EndsOf(bs), EndsOf(WithNext(bs, i, size)), i)
           \/ FollowedBy(EndsOf(bs), EndsOf(WithNext(bs, i, size)), i)
<1> DEFINE P == Wanted(unit, top, partial, TRUE)
           R == Runs(P, TRUE)
           w == WithNext(bs, i, size)
           n == Len(bs)
           e == EndsOf(bs)
           f == EndsOf(w)
<1>1. P \subseteq Pairs /\ i = <<i[1], i[2]>> /\ i \in P
    BY DEF Wanted, Pairs
<1>2. w \in Seq(R) /\ bs \in Seq(R)
  <2>1. w \in Seq(R)  BY WithNextWanted
  <2> QED  BY <2>1
<1> HIDE DEF P, R, w
<1>3. bs \in Seq(R) /\ n \in Nat /\ DOMAIN bs = 1..n  BY <1>2
<1>4. /\ DOMAIN e = 1..n /\ DOMAIN f = 1..Len(w) /\ Len(e) = n /\ Len(f) = Len(w)
      /\ \A k \in 1..n : e[k] = <<bs[k][1][1], Last(bs[k])[2]>>
      /\ \A k \in 1..Len(w) : f[k] = <<w[k][1][1], Last(w[k])[2]>>
  <2>1. e = [k \in 1..n |-> <<bs[k][1][1], Last(bs[k])[2]>>]  BY <1>3 DEF EndsOf
  <2>2. f = [k \in 1..Len(w) |-> <<w[k][1][1], Last(w[k])[2]>>] /\ Len(w) \in Nat
      BY <1>2 DEF EndsOf
  <2> HIDE DEF e, f
  <2> QED  BY <1>3, <2>1, <2>2
<1>5. CASE bs # << >> /\ Last(Last(bs))[2] = i[1] /\ (size # 0 => Len(Last(bs)) < size)
  <2> DEFINE b == bs[n]
             c == Append(b, i)
  <2>1. /\ n \in 1..n /\ Last(bs) = b /\ b \in R
        /\ Front(bs) \in Seq(R) /\ Len(Front(bs)) = n - 1
        /\ \A k \in 1..(n - 1) : Front(bs)[k] = bs[k]
    <3>1. Len(bs) \in Nat \ {0} /\ Last(bs) \in R /\ Last(bs) = bs[Len(bs)]
        BY <1>3, <1>5, LastAndFront
    <3>2. /\ Front(bs) \in Seq(R) /\ Len(Front(bs)) = Len(bs) - 1
          /\ \A k \in 1..(Len(bs) - 1) : Front(bs)[k] = bs[k]
        BY <1>3, <1>5, LastAndFront
    <3> QED  BY <3>1, <3>2
  <2>2. w = Append(Front(bs), c)  BY <1>5, <2>1 DEF w, WithNext
  <2> HIDE DEF n, b
  <2>3. b \in Seq(P) /\ b # << >>  BY <2>1 DEF R, Runs
  <2>4. c[1] = b[1] /\ Last(c) = i
    <3>1. Len(b) \in Nat \ {0}  BY <2>3
    <3>2. /\ c \in Seq(P) /\ Len(c) = Len(b) + 1 /\ c[Len(b) + 1] = i
          /\ \A k \in 1..Len(b) : c[k] = b[k]
        BY <1>1, <2>3
    <3> HIDE DEF c
    <3>3. c # << >> /\ 1 \in 1..Len(b)  BY <3>1, <3>2
    <3>4. Last(c) = c[Len(c)]  BY <3>2, <3>3, LastAndFront
    <3> QED  BY <3>2, <3>3, <3>4
  <2> HIDE DEF c
  <2>5. Len(w) = n /\ w[n] = c /\ \A k \in 1..(n - 1) : w[k] = bs[k]
    <3>2. /\ Len(w) = Len(Front(bs)) + 1 /\ w[Len(Front(bs)) + 1] = c
          /\ \A k \in 1..Len(Front(bs)) : w[k] = Front(bs)[k]
        BY <2>1, <2>2
    <3>3. (n - 1) + 1 = n  BY <1>3 DEF n
    <3> QED  BY <2>1, <3>2, <3>3
  <2>6. \A k \in 1..(n - 1) : k \in 1..n  BY <2>1
  <2>7. \A k \in 1..(n - 1) : f[k] = e[k]  BY <1>4, <2>5, <2>6
  <2>8. f[n][1] = e[n][1] /\ f[n][2] = i[2]  BY <1>4, <2>1, <2>4, <2>5 DEF b
  <2>9. e # << >> /\ f # << >>
    <3> HIDE DEF e, f
    <3>1. n # 0  BY <2>1
    <3>2. DOMAIN << >> = 1..0 /\ n \in 1..n /\ n \notin 1..0  BY <2>1
    <3> QED  BY <1>4, <2>5, <3>2
  <2>10. Lengthened(e, f, i)  BY <1>4, <2>5, <2>7, <2>8, <2>9 DEF Lengthened
  <2> QED  BY <2>10 DEF w
<1>6. CASE ~(bs # << >> /\ Last(Last(bs))[2] = i[1] /\ (size # 0 => Len(Last(bs)) < size))
  <2> DEFINE c == <<i>>
  <2>1. w = Append(bs, c)  BY <1>6 DEF w, WithNext
  <2>2. c[1] = i /\ Last(c) = i  BY DEF Last
  <2> HIDE DEF c, n
  <2>3. Len(w) = n + 1 /\ w[n + 1] = c /\ \A k \in 1..n : w[k] = bs[k]  BY <1>3, <2>1 DEF n
  <2>4. n \in Nat /\ n + 1 \in 1..(n + 1) /\ \A k \in 1..n : k \in 1..(n + 1)
      BY <1>3 DEF n
  <2>5. f[n + 1] = i  BY <1>1, <1>4, <2>2, <2>3, <2>4
  <2>6. \A k \in 1..n : f[k] = e[k]  BY <1>4, <2>3, <2>4
  <2>7. FollowedBy(e, f, i)  BY <1>4, <2>3, <2>5, <2>6 DEF FollowedBy
  <2> QED  BY <2>7 DEF w
<1> QED  BY <1>5, <1>6

\* A list in order that is over by t.
OverBy(e, t) == InOrder(e) /\ \A k \in 1..Len(e) : e[k][2] <= t

LEMMA WithNextInOrder ==
    ASSUME NEW unit, NEW top, NEW partial, NEW i \in Wanted(unit, top, partial, TRUE), NEW size,
           NEW bs \in Seq(Runs(Wanted(unit, top, partial, TRUE), TRUE)),
           OverBy(EndsOf(bs), i[1])
    PROVE  OverBy(EndsOf(WithNext(bs, i, size)), i[2])
<1> DEFINE e == EndsOf(bs)
           f == EndsOf(WithNext(bs, i, size))
           n == Len(e)
<1>1. i[1] \in Int /\ i[2] \in Int /\ i[1] < i[2]  BY DEF Wanted, Pairs
<1>2. e \in Seq(Pairs)
  <2>1. Wanted(unit, top, partial, TRUE) \subseteq Pairs  BY DEF Wanted
  <2> QED  BY <2>1, EndsOfTicks
<1>3. n \in Nat /\ \A k \in 1..n : e[k][1] \in Int /\ e[k][2] \in Int
  <2> HIDE DEF e
  <2>1. \A k \in 1..n : e[k] \in Pairs  BY <1>2
  <2> QED  BY <1>2, <2>1 DEF Pairs
<1>4. (\A j, k \in 1..n : j < k => e[j][2] <= e[k][1]) /\ \A k \in 1..n : e[k][2] <= i[1]
    BY DEF OverBy, InOrder
<1>5. Lengthened(e, f, i) \/ FollowedBy(e, f, i)  BY WithNextEnds
<1> SUFFICES OverBy(f, i[2])  OBVIOUS
<1> HIDE DEF e, f
<1>6. CASE Lengthened(e, f, i)
  <2>1. /\ Len(f) = n /\ \A k \in 1..(n - 1) : f[k] = e[k]
        /\ f[n][1] = e[n][1] /\ f[n][2] = i[2]
      BY <1>6 DEF Lengthened
  <2> HIDE DEF n
  <2>2. \A k \in 1..n : f[k][1] = e[k][1] /\ (k # n => f[k][2] = e[k][2])
    <3> TAKE k \in 1..n
    <3>1. k = n \/ k \in 1..(n - 1)  BY <1>3
    <3> QED  BY <2>1, <3>1
  <2>3. \A j, k \in 1..n : j < k => f[j][2] <= f[k][1]
    <3> TAKE j, k \in 1..n
    <3>1. j < k => j # n  BY <1>3
    <3> QED  BY <1>4, <2>2, <3>1
  <2>4. \A k \in 1..n : f[k][2] <= i[2]
    <3> TAKE k \in 1..n
    <3>1. CASE k = n  BY <1>1, <2>1, <3>1
    <3>2. CASE k # n  BY <1>1, <1>3, <1>4, <2>2, <3>2
    <3> QED  BY <3>1, <3>2
  <2> QED  BY <2>1, <2>3, <2>4 DEF OverBy, InOrder
<1>7. CASE FollowedBy(e, f, i)
  <2>1. Len(f) = n + 1 /\ f[n + 1] = i /\ \A k \in 1..n : f[k] = e[k]
      BY <1>7 DEF FollowedBy
  <2> HIDE DEF n
  <2>2. \A k \in 1..(n + 1) : k = n + 1 \/ k \in 1..n  BY <1>3
  <2>3. \A j, k \in 1..(n + 1) : j < k => f[j][2] <= f[k][1]
    <3> TAKE j, k \in 1..(n + 1)
    <3>1. j < k => j \in 1..n  BY <1>3
    <3> QED  BY <1>4, <2>1, <2>2, <3>1
  <2>4. \A k \in 1..(n + 1) : f[k][2] <= i[2]
    <3> TAKE k \in 1..(n + 1)
    <3>1. CASE k = n + 1  BY <1>1, <2>1, <3>1
    <3>2. CASE k \in 1..n  BY <1>1, <1>3, <1>4, <2>1, <3>2
    <3> QED  BY <2>2, <3>1, <3>2
  <2> QED  BY <2>1, <2>3, <2>4 DEF OverBy, InOrder
<1> QED  BY <1>5, <1>6, <1>7

LEMMA ContiguousInOrder ==
    ASSUME NEW unit, NEW top, NEW partial, NEW size,
           NEW s \in Seq(Wanted(unit, top, partial, TRUE)), InOrder(s)
    PROVE  InOrder(Contiguous(s, size))
<1> DEFINE P == Wanted(unit, top, partial, TRUE)
           R == Runs(P, TRUE)
           n == Len(s)
<1>1. PICK g : PutTogether(s, size, R, g)  BY ContiguousSteps
<1>2. \A i \in P : \A bs \in Seq(R) : OverBy(EndsOf(bs), i[1]) => OverBy(EndsOf(WithNext(bs, i, size)), i[2])
  <2> TAKE i \in P
  <2> TAKE bs \in Seq(R)
  <2>1. /\ i \in Wanted(unit, top, partial, TRUE)
        /\ bs \in Seq(Runs(Wanted(unit, top, partial, TRUE), TRUE))
      OBVIOUS
  <2> QED  BY <2>1, WithNextInOrder
<1>3. \A p \in P : p[1] \in Int /\ p[2] \in Int /\ p[1] < p[2]  BY DEF Wanted, Pairs
<1>4. s \in Seq(P)  OBVIOUS
<1>5. P \subseteq Pairs  BY DEF Wanted
<1> HIDE DEF P
<1>6. n \in Nat /\ s \in Seq(P) /\ \A k \in 1..n : s[k] \in P  BY <1>4
<1>7. \A j, k \in 1..n : j < k => s[j][2] <= s[k][1]  BY DEF InOrder
<1>8. \A b \in Seq(R) : EndsOf(b) \in Seq(Pairs)  BY <1>5, EndsOfTicks
<1> HIDE DEF n, R
<1>9. /\ g[0] = << >> /\ \A k \in 1..n : g[k] = WithNext(g[k - 1], s[k], size)
      /\ \A k \in 0..n : g[k] \in Seq(R)
      /\ Contiguous(s, size) = EndsOf(g[n])
    BY <1>1 DEF PutTogether, n
<1> DEFINE Right(k) == \A j \in 1..n : k < j => OverBy(EndsOf(g[k]), s[j][1])
           Fine(k) == InOrder(EndsOf(g[k])) /\ Right(k)
           W == {k \in 0..n : ~Fine(k)}
<1>10. ASSUME NEW k \in W PROVE k > 0 /\ k - 1 \in W
  <2>1. k \in 0..n /\ ~Fine(k)  OBVIOUS
  <2>2. Fine(0)
    <3>1. EndsOf(<< >>) = << >>  BY DEF EndsOf
    <3> QED  BY <1>9, <3>1 DEF OverBy, InOrder
  <2>3. k # 0
    <3> HIDE DEF Fine
    <3> QED  BY <2>1, <2>2
  <2>4. k \in 1..n /\ k - 1 \in 0..n /\ k > 0 /\ k - 1 < k  BY <1>6, <2>1, <2>3
  <2>5. SUFFICES ASSUME Fine(k - 1) PROVE FALSE
    <3> HIDE DEF Fine
    <3> QED  BY <2>4
  <2>6. s[k] \in P /\ g[k - 1] \in Seq(R) /\ g[k] = WithNext(g[k - 1], s[k], size)
      BY <1>6, <1>9, <2>4
  <2>7. OverBy(EndsOf(g[k - 1]), s[k][1])  BY <2>4, <2>5
  <2>8. OverBy(EndsOf(g[k]), s[k][2])  BY <1>2, <2>6, <2>7
  <2>9. EndsOf(g[k]) \in Seq(Pairs)  BY <1>8, <1>9, <2>1
  <2> DEFINE e == EndsOf(g[k])
  <2>10. \A m \in 1..Len(e) : e[m][2] \in Int
    <3> HIDE DEF e
    <3>1. \A m \in 1..Len(e) : e[m] \in Pairs  BY <2>9 DEF e
    <3> QED  BY <3>1 DEF Pairs
  <2>11. \A j \in 1..n : k < j => OverBy(e, s[j][1])
    <3> SUFFICES ASSUME NEW j \in 1..n, k < j, NEW m \in 1..Len(e)
                 PROVE  e[m][2] <= s[j][1]
        BY <2>8 DEF OverBy
    <3>1. s[k][2] <= s[j][1] /\ s[k][2] \in Int /\ s[j][1] \in Int
        BY <1>3, <1>6, <1>7, <2>4
    <3>2. e[m][2] <= s[k][2] /\ e[m][2] \in Int
      <4> HIDE DEF e
      <4> QED  BY <2>8, <2>10 DEF OverBy, e
    <3> HIDE DEF e
    <3> QED  BY <3>1, <3>2
  <2>12. Fine(k)  BY <2>8, <2>11 DEF OverBy
  <2> QED  BY <2>1, <2>12
<1>11. W = {}
  <2>1. W \subseteq 0..n  OBVIOUS
  <2> HIDE DEF W
  <2> QED  BY <1>6, <1>10, <2>1, NoFirst
<1>12. Fine(n)
  <2>1. n \in 0..n  BY <1>6
  <2> HIDE DEF Fine
  <2> QED  BY <1>11, <2>1
<1> QED  BY <1>9, <1>12

\* compute_missing_intervals returns units one behind the other.
LEMMA MissingInOrder ==
    ASSUME NEW model, model.unit \in Nat \ {0}, NEW top \in Int, NEW partial, NEW s,
           NEW lo, NEW hi, <<lo, hi>> \in Wanted(model.unit, top, partial, TRUE)
    PROVE  InOrder(ComputeMissingIntervals(s, lo, hi, model))
<1> DEFINE ts == ExpandRange(lo, hi, model.unit)
           n == Len(ts) - 1
           unloaded == {i \in 1..n : ~Covered(s, ts[i], ts[i + 1])}
           missing == IF unloaded # {} /\ model.lookback # 0
                      THEN WithLookback(unloaded, n, EffectiveLookback(model, hi))
                      ELSE unloaded
           S == {<<ts[i], ts[i + 1]>> : i \in {i \in missing : model.end # NoEnd => ts[i] < model.end}}
           c == ComputeMissingIntervals(s, lo, hi, model)
<1>1. lo \in Int /\ hi \in Int /\ lo % model.unit = 0 /\ lo < hi  BY DEF Wanted, Pairs
<1>2. IsExpanded(ts, lo, hi, model.unit)  BY <1>1, ExpandRight
<1>3. c = Sorted(S)  BY DEF ComputeMissingIntervals
<1>4. missing \subseteq 1..n
  <2> HIDE DEF ts, n
  <2>1. unloaded \subseteq 1..n  OBVIOUS
  <2> HIDE DEF unloaded
  <2>2. WithLookback(unloaded, n, EffectiveLookback(model, hi)) \subseteq 1..n
      BY <2>1 DEF WithLookback
  <2> QED  BY <2>1, <2>2
<1> HIDE DEF ts, missing, unloaded, c
<1>5. ts \in Seq(Int) /\ Len(ts) >= 2  BY <1>1, <1>2 DEF IsExpanded
<1>6. n \in Nat /\ n + 1 = Len(ts)  BY <1>5
<1>7. \A j, k \in 1..Len(ts) : j < k => ts[j] < ts[k]  BY <1>1, <1>2, ExpandedInOrder
<1> HIDE DEF n
<1>8. \A k \in 1..n : /\ k \in 1..Len(ts) /\ k + 1 \in 1..Len(ts)
                      /\ ts[k] \in Int /\ ts[k + 1] \in Int
    BY <1>5, <1>6
<1>9. S \in SUBSET Pairs
  <2>1. \A i \in missing : <<ts[i], ts[i + 1]>> \in Pairs  BY <1>4, <1>8 DEF Pairs
  <2> QED  BY <2>1
<1>10. IsFiniteSet(S)
  <2> DEFINE u == [k \in 1..n |-> <<ts[k], ts[k + 1]>>]
  <2>1. u \in [1..n -> Pairs]  BY <1>8 DEF Pairs
  <2>2. S \subseteq {u[k] : k \in 1..n}
    <3>1. \A k \in 1..n : u[k] = <<ts[k], ts[k + 1]>>  OBVIOUS
    <3> HIDE DEF u
    <3> QED  BY <1>4, <3>1
  <2> HIDE DEF S, u
  <2> QED  BY <1>6, <2>1, <2>2, FiniteImage
<1>11. \A p, q \in S : Earlier(p, q) => p[2] <= q[1]
  <2> SUFFICES ASSUME NEW p \in S, NEW q \in S, Earlier(p, q) PROVE p[2] <= q[1]  OBVIOUS
  <2>1. PICK i \in 1..n : p = <<ts[i], ts[i + 1]>>  BY <1>4
  <2>2. PICK j \in 1..n : q = <<ts[j], ts[j + 1]>>  BY <1>4
  <2> HIDE DEF S
  <2>3. p[1] = ts[i] /\ p[2] = ts[i + 1] /\ q[1] = ts[j] /\ q[2] = ts[j + 1]  BY <2>1, <2>2
  <2>4. ts[i] < ts[j] \/ (ts[i] = ts[j] /\ ts[i + 1] < ts[j + 1])  BY <2>3 DEF Earlier
  <2>5. i # j
    <3> SUFFICES ASSUME i = j PROVE FALSE  OBVIOUS
    <3>1. ts[i] \in Int /\ ts[i + 1] \in Int  BY <1>8
    <3> QED  BY <2>4, <3>1
  <2>6. ~(j < i)
    <3> SUFFICES ASSUME j < i PROVE FALSE  OBVIOUS
    <3>1. ts[j] < ts[i]  BY <1>7, <1>8
    <3>2. ts[i] \in Int /\ ts[j] \in Int  BY <1>8
    <3> QED  BY <2>4, <3>1, <3>2
  <2>7. i + 1 = j \/ i + 1 < j  BY <2>5, <2>6
  <2>8. ts[i + 1] = ts[j] \/ ts[i + 1] < ts[j]  BY <1>7, <1>8, <2>7
  <2>9. ts[i + 1] \in Int /\ ts[j] \in Int  BY <1>8
  <2> QED  BY <2>3, <2>8, <2>9
<1> HIDE DEF S
<1>12. /\ c \in Seq(S)
       /\ \A j, k \in 1..Len(c) : j < k => Earlier(c[j], c[k])
    BY <1>3, <1>9, <1>10, SortedRight
<1>13. InOrder(c)
  <2>1. \A k \in 1..Len(c) : c[k] \in S  BY <1>12
  <2> QED  BY <1>11, <1>12, <2>1 DEF InOrder
<1> QED  BY <1>13 DEF c

\* The points of a range lie one unit behind the other, but for the last one.
LEMMA ExpandedAt ==
    ASSUME NEW unit \in Nat \ {0}, NEW lo \in Int, NEW hi \in Int, lo < hi,
           NEW ts, IsExpanded(ts, lo, hi, unit), NEW k \in 1..(Len(ts) - 1)
    PROVE  ts[k] = lo + (k - 1) * unit
<1> DEFINE n == Len(ts) - 1
           W == {j \in 1..n : ts[j] # lo + (j - 1) * unit}
<1>1. /\ ts \in Seq(Int) /\ Len(ts) >= 2 /\ ts[1] = lo
      /\ \A j \in 1..(Len(ts) - 2) : ts[j + 1] = ts[j] + unit
    BY DEF IsExpanded
<1>2. n \in Nat /\ Len(ts) = n + 1 /\ Len(ts) - 2 = n - 1  BY <1>1
<1>3. \A j \in 1..n : ts[j] \in Int  BY <1>1, <1>2
<1> HIDE DEF n
<1>4. ASSUME NEW j \in W PROVE j > 0 /\ j - 1 \in W
  <2>1. j \in 1..n /\ ts[j] # lo + (j - 1) * unit  OBVIOUS
  <2>2. j # 1
    <3>1. (1 - 1) * unit = 0  OBVIOUS
    <3> QED  BY <1>1, <2>1, <3>1
  <2>3. j - 1 \in 1..n /\ j - 1 \in 1..(n - 1) /\ (j - 1) + 1 = j  BY <1>2, <2>1, <2>2
  <2>4. ts[j] = ts[j - 1] + unit  BY <1>1, <1>2, <2>3
  <2>5. (j - 1) * unit = ((j - 1) - 1) * unit + unit /\ ((j - 1) - 1) * unit \in Int  BY <2>1
  <2> DEFINE p == (j - 1) * unit
             q == ((j - 1) - 1) * unit
  <2>6. p = q + unit /\ q \in Int  BY <2>5
  <2>7. ts[j] # lo + p /\ ts[j - 1] \in Int  BY <1>3, <2>1, <2>3
  <2>8. j - 1 \in W <=> j - 1 \in 1..n /\ ts[j - 1] # lo + q  OBVIOUS
  <2> HIDE DEF p, q, W
  <2>9. ts[j - 1] # lo + q  BY <2>4, <2>6, <2>7
  <2> QED  BY <2>1, <2>3, <2>8, <2>9
<1>5. W = {}
  <2>1. W \subseteq 0..n  BY <1>2
  <2> HIDE DEF W
  <2> QED  BY <1>2, <1>4, <2>1, NoFirst
<1>6. k \in 1..n  BY DEF n
<1> QED  BY <1>5, <1>6

\* Within the model's range, rounded to units, no unit after its end counts for lookback.
LEMMA WholeLookback ==
    ASSUME NEW model, model.unit \in Nat \ {0}, model.lookback \in Nat, model.end \in Int,
           NEW hi \in Int, model.end # NoEnd => hi <= Ceiling(model.end, model.unit)
    PROVE  EffectiveLookback(model, hi) = model.lookback
<1>1. CASE model.end = NoEnd  BY <1>1 DEF EffectiveLookback
<1>2. CASE model.end # NoEnd
  <2> DEFINE after == {t \in (model.end + 1)..(hi - 1) : t % model.unit = 0}
  <2>1. ASSUME NEW t \in after PROVE FALSE
    <3>1. t \in Int /\ model.end <= t /\ t < hi /\ t % model.unit = 0  OBVIOUS
    <3> HIDE DEF after
    <3>2. Ceiling(model.end, model.unit) <= t /\ Ceiling(model.end, model.unit) \in Int
        BY <3>1, CeilingIsLeast, CeilingRight
    <3> QED  BY <1>2, <3>1, <3>2
  <2>2. after = {}  BY <2>1
  <2>3. Cardinality(after) = 0
    <3> HIDE DEF after
    <3> QED  BY <2>2, FS_EmptySet
  <2>4. EffectiveLookback(model, hi) = Max({0, model.lookback - Cardinality(after)})
      BY <1>2 DEF EffectiveLookback
  <2> HIDE DEF after
  <2>5. EffectiveLookback(model, hi) = Max({0, model.lookback})  BY <2>3, <2>4
  <2> QED  BY <2>5, MaxOfTwo
<1> QED  BY <1>1, <1>2

\* The lookback ahead of a unit lies another one: if that has not been loaded, both are
\* missing.
LEMMA MissingBehind ==
    ASSUME NEW model, model.unit \in Nat \ {0}, model.end \in Int, model.lookback \in Nat \ {0},
           NEW top \in Int, NEW partial, NEW s \in Seq(Pairs), NEW lo, NEW hi,
           <<lo, hi>> \in Wanted(model.unit, top, partial, TRUE),
           model.end # NoEnd => hi <= Ceiling(model.end, model.unit),
           NEW x \in Ticks(ComputeMissingIntervals(s, lo, hi, model)), x \notin Ticks(s),
           NEW t \in Int, lo <= t,
           Floor(x, model.unit) = Floor(t, model.unit) + model.lookback * model.unit
    PROVE  t \in Ticks(ComputeMissingIntervals(s, lo, hi, model))
<1> DEFINE u == model.unit
           back == model.lookback
           ts == ExpandRange(lo, hi, u)
           n == Len(ts) - 1
           unloaded == {i \in 1..n : ~Covered(s, ts[i], ts[i + 1])}
           missing == IF unloaded # {} /\ model.lookback # 0
                      THEN WithLookback(unloaded, n, EffectiveLookback(model, hi))
                      ELSE unloaded
           S == {<<ts[i], ts[i + 1]>> : i \in {i \in missing : model.end # NoEnd => ts[i] < model.end}}
           c == ComputeMissingIntervals(s, lo, hi, model)
<1>0. u \in Nat \ {0} /\ back \in Nat \ {0}  OBVIOUS
<1>1. lo \in Int /\ hi \in Int /\ lo % u = 0 /\ lo < hi  BY DEF Wanted, Pairs
<1>2. IsExpanded(ts, lo, hi, u)  BY <1>1, ExpandRight
<1>3. c = Sorted(S)  BY DEF ComputeMissingIntervals
<1>4. \A i \in 1..n : i \in unloaded <=> ~Covered(s, ts[i], ts[i + 1])
  <2> HIDE DEF ts, n
  <2> QED  OBVIOUS
<1>5. EffectiveLookback(model, hi) = back  BY <1>1, WholeLookback
<1>6. unloaded # {} => missing = unloaded \cup {i \in 1..n : i + back > n \/ i + back \in unloaded}
  <2> HIDE DEF unloaded, n
  <2> QED  BY <1>5 DEF WithLookback
<1>7. unloaded \subseteq 1..n /\ missing \subseteq 1..n
  <2> HIDE DEF ts, n
  <2>1. unloaded \subseteq 1..n  OBVIOUS
  <2> HIDE DEF unloaded
  <2>2. WithLookback(unloaded, n, EffectiveLookback(model, hi)) \subseteq 1..n
      BY <2>1 DEF WithLookback
  <2> QED  BY <2>1, <2>2
<1> HIDE DEF ts, missing, unloaded, c
<1>8. /\ ts \in Seq(Int) /\ Len(ts) >= 2 /\ ts[Len(ts)] = hi
      /\ \A k \in 1..n : /\ lo <= ts[k] /\ ts[k] < hi /\ ts[k] % u = 0
                         /\ ts[k + 1] <= ts[k] + u
    BY <1>1, <1>2 DEF IsExpanded
<1>9. n \in Nat /\ n + 1 = Len(ts)  BY <1>8
<1>10. ASSUME NEW k \in 1..n PROVE ts[k] = lo + (k - 1) * u
  <2>1. k \in 1..(Len(ts) - 1)  OBVIOUS
  <2> HIDE DEF n, u
  <2> QED  BY <1>0, <1>1, <1>2, <2>1, ExpandedAt
<1> HIDE DEF n
<1>11. \A k \in 1..n : ts[k] \in Int /\ ts[k + 1] \in Int
  <2> TAKE k \in 1..n
  <2>1. k \in 1..Len(ts) /\ k + 1 \in 1..Len(ts)  BY <1>9
  <2> QED  BY <1>8, <2>1
<1>12. \A k \in 1..n, y \in Int : ts[k] <= y /\ y < ts[k + 1] => Floor(y, u) = ts[k]
  <2> TAKE k \in 1..n, y \in Int
  <2> SUFFICES ASSUME ts[k] <= y, y < ts[k + 1] PROVE Floor(y, u) = ts[k]  OBVIOUS
  <2>1. ts[k] \in Int /\ ts[k + 1] \in Int /\ ts[k] % u = 0 /\ ts[k + 1] <= ts[k] + u
      BY <1>8, <1>11
  <2>2. ts[k] <= Floor(y, u) /\ Floor(y, u) \in Int /\ Floor(y, u) <= y /\ Floor(y, u) % u = 0
      BY <2>1, FloorRight, FloorIsGreatest
  <2>3. SUFFICES ASSUME ts[k] < Floor(y, u) PROVE FALSE  BY <2>1, <2>2
  <2>4. Floor(ts[k], u) + u <= Floor(y, u)  BY <2>1, <2>2, <2>3, CeilingIsLeast
  <2>5. Floor(ts[k], u) = ts[k]  BY <2>1, FloorRight
  <2> HIDE DEF u
  <2> QED  BY <1>0, <2>1, <2>2, <2>3, <2>4, <2>5
<1>13. c \in Seq(Pairs) /\ ToSet(c) = S
  <2>1. S \in SUBSET Pairs
    <3>1. \A i \in missing : <<ts[i], ts[i + 1]>> \in Pairs  BY <1>7, <1>11 DEF Pairs
    <3> QED  BY <3>1
  <2>2. IsFiniteSet(S)
    <3> DEFINE p == [k \in 1..n |-> <<ts[k], ts[k + 1]>>]
    <3>1. p \in [1..n -> Pairs]  BY <1>11 DEF Pairs
    <3>2. S \subseteq {p[k] : k \in 1..n}
      <4>1. \A k \in 1..n : p[k] = <<ts[k], ts[k + 1]>>  OBVIOUS
      <4> HIDE DEF p
      <4> QED  BY <1>7, <4>1
    <3> HIDE DEF S, p
    <3> QED  BY <1>9, <3>1, <3>2, FiniteImage
  <2> HIDE DEF S
  <2>3. Sorted(S) \in Seq(S) /\ ToSet(Sorted(S)) = S  BY <2>1, <2>2, SortedRight
  <2>4. Sorted(S) \in Seq(Pairs)  BY <2>1, <2>3
  <2> QED  BY <1>3, <2>3, <2>4
<1>14. Ticks(c) = UNION {i[1]..(i[2] - 1) : i \in S}
  <2> HIDE DEF S
  <2> QED  BY <1>13 DEF Ticks
<1>15. PICK i \in missing : /\ model.end # NoEnd => ts[i] < model.end
                            /\ x \in Int /\ ts[i] <= x /\ x < ts[i + 1]
  <2>1. x \in Ticks(c)  BY DEF c
  <2>2. PICK p \in S : x \in p[1]..(p[2] - 1)
    <3> HIDE DEF S
    <3> QED  BY <1>14, <2>1
  <2>3. PICK i \in missing : p = <<ts[i], ts[i + 1]>> /\ (model.end # NoEnd => ts[i] < model.end)
      OBVIOUS
  <2> HIDE DEF S
  <2>4. p[1] = ts[i] /\ p[2] = ts[i + 1] /\ ts[i] \in Int /\ ts[i + 1] \in Int
      BY <1>7, <1>11, <2>3
  <2>5. x \in Int /\ ts[i] <= x /\ x < ts[i + 1]  BY <2>2, <2>4
  <2> QED  BY <2>3, <2>5
<1>16. i \in 1..n /\ i \in unloaded
  <2>1. i \in 1..n  BY <1>7
  <2>2. ts[i] \in Int /\ ts[i + 1] \in Int  BY <1>11, <2>1
  <2>3. ~Covered(s, ts[i], ts[i + 1])  BY <1>15, <2>2, CoveredTicks
  <2> QED  BY <1>4, <2>1, <2>3
<1>17. Floor(x, u) = ts[i]  BY <1>12, <1>15, <1>16
<1> DEFINE d == back * u
<1>18. d \in Nat /\ d >= u
  <2>1. \A a, b \in Nat \ {0} : a * b \in Nat /\ a * b >= b  OBVIOUS
  <2> HIDE DEF u
  <2> QED  BY <2>1 DEF u
<1>19. ts[i] = Floor(t, u) + d  BY <1>17
<1>20. t < ts[i] /\ t < hi
  <2>1. Floor(t, u) \in Int /\ t < Floor(t, u) + u  BY FloorRight
  <2>2. ts[i] \in Int /\ ts[i] < hi  BY <1>8, <1>11, <1>16
  <2> HIDE DEF u, d
  <2> QED  BY <1>0, <1>1, <1>18, <1>19, <2>1, <2>2
<1>21. PICK k \in 1..n : ts[k] <= t /\ t < ts[k + 1]
  <2>1. \E k \in 1..(Len(ts) - 1) : ts[k] <= t /\ t < ts[k + 1]
    <3> HIDE DEF u, d
    <3> QED  BY <1>1, <1>2, <1>20, ExpandedCovers DEF u
  <2> QED  BY <2>1 DEF n
<1>22. Floor(t, u) = ts[k]  BY <1>12, <1>21
<1>23. i = k + back
  <2>1. lo + (i - 1) * u = lo + (k - 1) * u + back * u  BY <1>10, <1>16, <1>19, <1>22
  <2>2. i \in Int /\ k \in Int /\ back \in Int /\ u \in Nat \ {0}  BY <1>16
  <2> DEFINE a == i - 1
             b == k - 1
  <2>3. a \in Int /\ b \in Int /\ back \in Int /\ lo + a * u = lo + b * u + back * u
      BY <2>1, <2>2
  <2> HIDE DEF a, b, d, back, u
  <2>4. a * u \in Int /\ b * u \in Int /\ back * u \in Int  BY <2>2, <2>3
  <2>5. (b + back) * u = b * u + back * u  BY <2>2, <2>3
  <2>6. a * u = (b + back) * u
    <3> DEFINE A == a * u
               B == b * u
               C == back * u
    <3>1. lo + A = lo + B + C /\ A \in Int /\ B \in Int /\ C \in Int  BY <2>3, <2>4
    <3> HIDE DEF A, B, C
    <3>2. A = B + C  BY <1>1, <3>1
    <3> QED  BY <2>5, <3>2 DEF A, B, C
  <2>7. \A v, w \in Int : v * u = w * u => v = w  BY <2>2
  <2>8. b + back \in Int  BY <2>2, <2>3
  <2>9. a = b + back  BY <2>3, <2>6, <2>7, <2>8
  <2> QED  BY <2>2, <2>9 DEF a, b
<1>24. k \in missing  BY <1>6, <1>16, <1>23
<1>25. model.end # NoEnd => ts[k] < model.end
  <2>1. ts[k] \in Int /\ ts[i] \in Int /\ ts[k] <= t /\ t < ts[i]  BY <1>11, <1>16, <1>20, <1>21
  <2> HIDE DEF u, d
  <2> QED  BY <1>15, <2>1
<1>26. <<ts[k], ts[k + 1]>> \in S  BY <1>24, <1>25
<1>27. t \in ts[k]..(ts[k + 1] - 1)  BY <1>11, <1>21
<1> HIDE DEF S
<1> DEFINE p == <<ts[k], ts[k + 1]>>
<1>28. p \in S /\ t \in p[1]..(p[2] - 1)  BY <1>26, <1>27
<1> HIDE DEF p
<1>29. t \in Ticks(c)  BY <1>14, <1>28
<1> QED  BY <1>29 DEF c

LEMMA CanonicalInOrder ==
    ASSUME NEW s, Canonical(s)
    PROVE  /\ \A k \in 1..Len(s) : s[k][1] \in Int /\ s[k][2] \in Int /\ s[k][1] < s[k][2]
           /\ \A j, k \in 1..Len(s) : j < k => s[j][2] < s[k][1]
<1> DEFINE n == Len(s)
<1>1. /\ s \in Seq(Pairs) /\ n \in Nat
      /\ \A k \in 1..n : s[k][1] < s[k][2]
      /\ \A k \in 1..(n - 1) : s[k][2] < s[k + 1][1]
    BY DEF Canonical, IsCanonical
<1>2. \A k \in 1..n : s[k][1] \in Int /\ s[k][2] \in Int  BY <1>1 DEF Pairs
<1> HIDE DEF n
<1> SUFFICES ASSUME NEW j \in 1..n PROVE \A k \in 1..n : j < k => s[j][2] < s[k][1]
    BY <1>1, <1>2 DEF n
<1> DEFINE W == {k \in 1..n : j < k /\ ~(s[j][2] < s[k][1])}
<1>3. ASSUME NEW k \in W PROVE k > 0 /\ k - 1 \in W
  <2>1. k \in 1..n /\ j < k /\ ~(s[j][2] < s[k][1])  OBVIOUS
  <2>2. k - 1 \in 1..n /\ k - 1 \in 1..(n - 1) /\ (k - 1) + 1 = k  BY <1>1, <2>1
  <2>3. s[k - 1][2] < s[k][1] /\ s[k - 1][1] < s[k - 1][2]  BY <1>1, <2>2
  <2>4. k - 1 # j  BY <2>1, <2>3
  <2>5. j < k - 1  BY <2>1, <2>4
  <2>6. s[j][2] \in Int /\ s[k][1] \in Int /\ s[k - 1][1] \in Int /\ s[k - 1][2] \in Int
      BY <1>2, <2>1, <2>2
  <2>7. ~(s[j][2] < s[k - 1][1])  BY <2>1, <2>3, <2>6
  <2> QED  BY <2>1, <2>2, <2>5, <2>7
<1>4. W = {}
  <2>1. W \subseteq 0..n  BY <1>1
  <2> HIDE DEF W
  <2> QED  BY <1>1, <1>3, <2>1, NoFirst
<1> QED  BY <1>4

\* One interval lies apart from another one, and a unit from what holds back.
Apart(p, q) == p[2] <= q[1] \/ q[2] <= p[1]

ApartFrom(p, b) == \A j \in 1..Len(b) : Apart(p, b[j])

AheadOf(p, b) == \A j \in 1..Len(b) : p[2] <= b[j][1]

Kept(a, b, uninterrupted, d) ==
    /\ \A k \in 1..Len(a) :
          ApartFrom(a[k], b) /\ (uninterrupted => AheadOf(a[k], b)) => a[k] \in ToSet(d)
    /\ \A x \in ToSet(d) : x \in ToSet(a) /\ ApartFrom(x, b)

LEMMA DiffRight ==
    ASSUME NEW unit \in Nat \ {0}, NEW uninterrupted, NEW a \in Seq(Pairs), InOrder(a),
           \A k \in 1..Len(a) : /\ a[k][1] % unit = 0 /\ a[k][1] < a[k][2]
                                /\ a[k][2] <= a[k][1] + unit,
           NEW b, Canonical(b), \A k \in 1..Len(b) : b[k][1] % unit = 0
    PROVE  Kept(a, b, uninterrupted, IntervalDiff(a, b, uninterrupted))
<1> DEFINE n == Len(a)
           m == Len(b)
<1>1. b \in Seq(Pairs)  BY DEF Canonical
<1>2. CASE a = << >> \/ b = << >>
  <2>1. IntervalDiff(a, b, uninterrupted) = a  BY <1>2 DEF IntervalDiff
  <2>2. ToSet(a) = {a[k] : k \in 1..n}  BY MembersOf
  <2>3. a = << >> => n = 0  OBVIOUS
  <2>4. b = << >> => m = 0  OBVIOUS
  <2> HIDE DEF n, m
  <2>5. \A x \in ToSet(a) : ApartFrom(x, b)  BY <1>2, <2>2, <2>3, <2>4 DEF ApartFrom, m
  <2>6. \A k \in 1..n : a[k] \in ToSet(a)  BY <2>2
  <2> QED  BY <2>1, <2>5, <2>6 DEF Kept, n
<1>3. CASE a # << >> /\ b # << >>
  <2>1. PICK c : StepsThrough(a, b, uninterrupted, Seq(Pairs), c)  BY <1>1, <1>3, DiffSteps
  <2>2. /\ n \in Nat \ {0} /\ m \in Nat \ {0}  BY <1>1, <1>3
  <2>3. /\ \A k \in 1..n : /\ a[k] \in Pairs /\ a[k][1] \in Int /\ a[k][2] \in Int
                           /\ a[k][1] % unit = 0 /\ a[k][1] < a[k][2]
                           /\ a[k][2] <= a[k][1] + unit
        /\ \A j, k \in 1..n : j < k => a[j][2] <= a[k][1]
    <3>1. \A k \in 1..n : a[k] \in Pairs  OBVIOUS
    <3> QED  BY <3>1 DEF InOrder, Pairs
  <2>4. /\ \A k \in 1..m : /\ b[k][1] \in Int /\ b[k][2] \in Int /\ b[k][1] < b[k][2]
                           /\ b[k][1] % unit = 0
        /\ \A j, k \in 1..m : j < k => b[j][2] < b[k][1]
      BY CanonicalInOrder
  <2>5. /\ IntervalDiff(a, b, uninterrupted) = c[<<1, 1>>]
        /\ \A i \in 1..(n + 1), j \in 1..(m + 1) :
              /\ c[<<i, j>>] \in Seq(Pairs)
              /\ c[<<i, j>>] =
                   IF i > n THEN << >>
                   ELSE IF j > m
                   THEN IF a[i][1] >= b[m][2] \/ b[m][1] >= a[i][2] THEN SubSeq(a, i, n) ELSE << >>
                   ELSE IF a[i][1] >= b[j][2] THEN c[<<i, j + 1>>]
                   ELSE IF b[j][1] >= a[i][2] THEN <<a[i]>> \o c[<<i + 1, j>>]
                   ELSE IF uninterrupted THEN << >>
                   ELSE IF a[i][1] >= b[j][1] THEN c[<<i + 1, j>>]
                   ELSE c[<<i, j + 1>>]
    <3>1. IntervalDiff(a, b, uninterrupted) = c[<<1, 1>>]  BY <2>1 DEF StepsThrough
    <3>2. ASSUME NEW i \in 1..(n + 1), NEW j \in 1..(m + 1)
          PROVE  c[<<i, j>>] \in Seq(Pairs) /\ c[<<i, j>>] = FromHere(a, b, uninterrupted, c, i, j)
        BY <2>1 DEF StepsThrough
    <3> QED  BY <3>1, <3>2 DEF FromHere
  <2>6. ToSet(a) = {a[k] : k \in 1..n} /\ a \in Seq(Pairs)  BY MembersOf
  <2> DEFINE Off(k) == \A j \in 1..m : a[k][2] <= b[j][1] \/ b[j][2] <= a[k][1]
             Free(k) == Off(k) /\ (uninterrupted => \A j \in 1..m : a[k][2] <= b[j][1])
             Behind(i, j) == \A k \in i..n, l \in 1..(j - 1) : b[l][2] <= a[k][1]
             Right(i, j) == /\ \A k \in i..n : Free(k) => a[k] \in ToSet(c[<<i, j>>])
                            /\ \A x \in ToSet(c[<<i, j>>]) : \E k \in i..n : x = a[k] /\ Off(k)
             Good(i, j) == Behind(i, j) => Right(i, j)
             W == {d \in 0..(n + m) : \E i \in 1..(n + 1), j \in 1..(m + 1) :
                                          d = n + m + 2 - i - j /\ ~Good(i, j)}
  <2> HIDE DEF n, m
  <2>7. ASSUME NEW i \in 1..n, NEW k \in i..n
        PROVE  k \in 1..n /\ a[i][1] <= a[k][1] /\ a[i][2] <= a[k][2]
    <3>1. k \in 1..n /\ (k = i \/ i < k)  BY <2>2
    <3>2. a[i][1] \in Int /\ a[i][2] \in Int /\ a[k][1] \in Int /\ a[k][2] \in Int  BY <2>3, <3>1
    <3>3. a[i][1] < a[i][2] /\ a[k][1] < a[k][2] /\ (i < k => a[i][2] <= a[k][1])  BY <2>3, <3>1
    <3> QED  BY <3>1, <3>2, <3>3
  <2>8. ASSUME NEW i \in 1..(n + 1), NEW j \in 1..(m + 1),
               i <= n => Good(i + 1, j), j <= m => Good(i, j + 1), Behind(i, j)
        PROVE  Right(i, j)
    <3> DEFINE e == c[<<i, j>>]
    <3>0. c[<<i, j>>] =
             IF i > n THEN << >>
             ELSE IF j > m
             THEN IF a[i][1] >= b[m][2] \/ b[m][1] >= a[i][2] THEN SubSeq(a, i, n) ELSE << >>
             ELSE IF a[i][1] >= b[j][2] THEN c[<<i, j + 1>>]
             ELSE IF b[j][1] >= a[i][2] THEN <<a[i]>> \o c[<<i + 1, j>>]
             ELSE IF uninterrupted THEN << >>
             ELSE IF a[i][1] >= b[j][1] THEN c[<<i + 1, j>>]
             ELSE c[<<i, j + 1>>]
        BY <2>5
    <3>1. CASE i > n
      <4>1. e = << >>  BY <3>0, <3>1
      <4>2. i..n = {}  BY <2>2, <3>1
      <4>3. ToSet(e) = {}  BY <4>1 DEF ToSet
      <4> HIDE DEF e
      <4> QED  BY <4>2, <4>3 DEF e
    <3>2. CASE i <= n /\ j > m
      <4>1. j = m + 1 /\ m \in 1..(j - 1) /\ i \in 1..n /\ i \in i..n  BY <2>2, <3>2
      <4>2. a[i][1] >= b[m][2]
        <5>1. b[m][2] <= a[i][1]  BY <2>8, <4>1
        <5>2. m \in 1..m  BY <2>2
        <5>3. b[m][2] \in Int /\ a[i][1] \in Int  BY <2>3, <2>4, <4>1, <5>2
        <5> QED  BY <5>1, <5>3
      <4>3. e = SubSeq(a, i, n)
        <5>1. ~(i > n) /\ j > m  BY <2>2, <3>2, <4>1
        <5> QED  BY <3>0, <4>2, <5>1
      <4>4. /\ DOMAIN SubSeq(a, i, n) = 1..(n - i + 1)
            /\ \A k \in 1..(n - i + 1) : SubSeq(a, i, n)[k] = a[k + i - 1]
        <5>1. /\ SubSeq(a, i, n) = [k \in 1..(n - i + 1) |-> a[k + i - 1]]
            BY <2>2, <2>6, <4>1 DEF n
        <5> QED  BY <5>1
      <4>5. \A k \in i..n : Off(k)
        <5> TAKE k \in i..n
        <5>1. \A l \in 1..m : b[l][2] <= a[k][1]  BY <2>8, <4>1
        <5> QED  BY <5>1
      <4>6. ToSet(e) = {a[k] : k \in i..n}
        <5>1. ToSet(e) = {SubSeq(a, i, n)[k] : k \in 1..(n - i + 1)}  BY <4>3, <4>4 DEF ToSet
        <5>2. \A k \in 1..(n - i + 1) : k + i - 1 \in i..n  BY <2>2, <4>1
        <5>3. \A k \in i..n : k - i + 1 \in 1..(n - i + 1) /\ (k - i + 1) + i - 1 = k
            BY <2>2, <4>1
        <5> HIDE DEF e
        <5>4. \A k \in i..n : a[k] \in ToSet(e)  BY <4>4, <5>1, <5>3
        <5>5. \A x \in ToSet(e) : \E k \in i..n : x = a[k]  BY <4>4, <5>1, <5>2
        <5> QED  BY <5>4, <5>5
      <4> HIDE DEF e, Off
      <4> QED  BY <4>5, <4>6 DEF e
    <3>3. ASSUME i <= n, j <= m PROVE Right(i, j)
      <4>1. /\ i \in 1..n /\ j \in 1..m /\ i + 1 \in 1..(n + 1) /\ j + 1 \in 1..(m + 1)
            /\ i \in i..n /\ ~(i > n) /\ ~(j > m)
          BY <2>2, <3>3
      <4>2. /\ a[i][1] \in Int /\ a[i][2] \in Int /\ b[j][1] \in Int /\ b[j][2] \in Int
            /\ a[i][1] < a[i][2] /\ b[j][1] < b[j][2]
          BY <2>3, <2>4, <4>1
      <4>3. CASE a[i][1] >= b[j][2]
        <5>1. e = c[<<i, j + 1>>]  BY <3>0, <4>1, <4>3
        <5>2. Behind(i, j + 1)
          <6> SUFFICES ASSUME NEW k \in i..n, NEW l \in 1..((j + 1) - 1)
                       PROVE  b[l][2] <= a[k][1]
              OBVIOUS
          <6>1. l \in 1..(j - 1) \/ l = j  BY <4>1
          <6>2. CASE l \in 1..(j - 1)  BY <2>8, <6>2
          <6>3. CASE l = j
            <7>1. a[i][1] <= a[k][1] /\ k \in 1..n  BY <2>7, <4>1
            <7>2. a[k][1] \in Int  BY <2>3, <7>1
            <7>3. b[j][2] <= a[k][1]
              <8> DEFINE p == b[j][2]
                         q == a[i][1]
                         r == a[k][1]
              <8>1. p \in Int /\ q \in Int /\ r \in Int  BY <4>2, <7>2
              <8>2. q >= p /\ q <= r  BY <4>3, <7>1
              <8> HIDE DEF p, q, r
              <8>3. p <= r  BY <8>1, <8>2
              <8> QED  BY <8>3 DEF p, r
            <7> QED  BY <6>3, <7>3
          <6> QED  BY <6>1, <6>2, <6>3
        <5>3. Right(i, j + 1)  BY <2>8, <3>3, <5>2
        <5> HIDE DEF Off, Free
        <5> QED  BY <5>1, <5>3
      <4>4. CASE ~(a[i][1] >= b[j][2]) /\ b[j][1] >= a[i][2]
        <5>1. e = <<a[i]>> \o c[<<i + 1, j>>]  BY <3>0, <4>1, <4>4
        <5>2. Behind(i + 1, j)
          <6>1. \A k \in (i + 1)..n : k \in i..n  BY <4>1
          <6> QED  BY <2>8, <6>1
        <5>3. Right(i + 1, j)  BY <2>8, <3>3, <5>2
        <5>4. ToSet(e) = {a[i]} \cup ToSet(c[<<i + 1, j>>])
          <6> DEFINE one == <<a[i]>>
                     rest == c[<<i + 1, j>>]
          <6>1. one \in Seq(Pairs) /\ ToSet(one) = {a[i]}
              BY <2>3, <4>1 DEF ToSet
          <6>2. rest \in Seq(Pairs)  BY <2>5, <4>1
          <6>3. e = one \o rest  BY <5>1
          <6> HIDE DEF e, one, rest
          <6>4. ToSet(one \o rest) = ToSet(one) \cup ToSet(rest)
              BY <6>1, <6>2, MembersOfConcat
          <6> QED  BY <6>1, <6>3, <6>4 DEF rest
        <5>5. Off(i)
          <6> SUFFICES ASSUME NEW l \in 1..m PROVE a[i][2] <= b[l][1] \/ b[l][2] <= a[i][1]
              OBVIOUS
          <6>1. l \in 1..(j - 1) \/ l = j \/ j < l  BY <4>1
          <6>2. CASE l \in 1..(j - 1)  BY <2>8, <4>1, <6>2
          <6>3. CASE l = j  BY <4>2, <4>4, <6>3
          <6>4. CASE j < l
            <7>1. b[j][2] < b[l][1] /\ b[l][1] \in Int  BY <2>4, <4>1, <6>4
            <7> QED  BY <4>2, <4>4, <7>1
          <6> QED  BY <6>1, <6>2, <6>3, <6>4
        <5>6. \A k \in i..n : k = i \/ k \in (i + 1)..n  BY <4>1
        <5>7. \A k \in (i + 1)..n : k \in i..n  BY <4>1
        <5> HIDE DEF Off, Free, e
        <5>8. \A k \in i..n : Free(k) => a[k] \in ToSet(e)  BY <5>3, <5>4, <5>6
        <5>9. \A x \in ToSet(e) : \E k \in i..n : x = a[k] /\ Off(k)
            BY <4>1, <5>3, <5>4, <5>5, <5>7
        <5> QED  BY <5>8, <5>9 DEF e
      <4>5. ASSUME ~(a[i][1] >= b[j][2]), ~(b[j][1] >= a[i][2]) PROVE Right(i, j)
        <5>1. ~Free(i)  BY <4>1, <4>2, <4>5
        <5>2. CASE uninterrupted
          <6>1. e = << >>  BY <3>0, <4>1, <4>5, <5>2
          <6>2. ToSet(e) = {}  BY <6>1 DEF ToSet
          <6>3. ASSUME NEW k \in i..n PROVE ~Free(k)
            <7>1. k \in 1..n /\ a[i][2] <= a[k][2]  BY <2>7, <4>1
            <7>2. a[k][2] \in Int  BY <2>3, <7>1
            <7>3. ~(a[k][2] <= b[j][1])  BY <4>2, <4>5, <7>1, <7>2
            <7> QED  BY <4>1, <5>2, <7>3
          <6> HIDE DEF Off, Free, e
          <6> QED  BY <6>2, <6>3 DEF e
        <5>3. CASE ~uninterrupted
          <6>1. a[i][1] >= b[j][1]
            <7> SUFFICES ASSUME a[i][1] < b[j][1] PROVE FALSE  BY <4>2
            <7>1. a[i][1] % unit = 0 /\ b[j][1] % unit = 0 /\ a[i][2] <= a[i][1] + unit
                BY <2>3, <2>4, <4>1
            <7>2. Floor(a[i][1], unit) + unit <= b[j][1]  BY <4>2, <7>1, CeilingIsLeast
            <7>3. Floor(a[i][1], unit) = a[i][1]  BY <4>2, <7>1, FloorRight
            <7>4. a[i][1] + unit <= b[j][1]  BY <7>2, <7>3
            <7>5. a[i][2] <= b[j][1]  BY <4>2, <7>1, <7>4
            <7> QED  BY <4>2, <4>5, <7>5
          <6>2. e = c[<<i + 1, j>>]  BY <3>0, <4>1, <4>5, <5>3, <6>1
          <6>3. Behind(i + 1, j)
            <7>1. \A k \in (i + 1)..n : k \in i..n  BY <4>1
            <7> QED  BY <2>8, <7>1
          <6>4. Right(i + 1, j)  BY <2>8, <3>3, <6>3
          <6>5. \A k \in i..n : k = i \/ k \in (i + 1)..n  BY <4>1
          <6>6. \A k \in (i + 1)..n : k \in i..n  BY <4>1
          <6> HIDE DEF Off, Free, e
          <6>7. \A k \in i..n : Free(k) => a[k] \in ToSet(e)  BY <5>1, <6>2, <6>4, <6>5
          <6>8. \A x \in ToSet(e) : \E k \in i..n : x = a[k] /\ Off(k)  BY <6>2, <6>4, <6>6
          <6> QED  BY <6>7, <6>8 DEF e
        <5> QED  BY <5>2, <5>3
      <4> HIDE DEF Right
      <4> QED  BY <4>3, <4>4, <4>5
    <3> HIDE DEF Right
    <3> QED  BY <2>2, <3>1, <3>2, <3>3
  <2>9. ASSUME NEW d \in W PROVE d > 0 /\ d - 1 \in W
    <3>1. d \in 0..(n + m)  OBVIOUS
    <3>2. PICK i \in 1..(n + 1), j \in 1..(m + 1) : d = n + m + 2 - i - j /\ ~Good(i, j)
        OBVIOUS
    <3>3. Behind(i, j) /\ ~Right(i, j)  BY <3>2
    <3> HIDE DEF Good, Right, Behind
    <3>4. (i <= n /\ ~Good(i + 1, j)) \/ (j <= m /\ ~Good(i, j + 1))  BY <2>8, <3>3
    <3>5. CASE i <= n /\ ~Good(i + 1, j)
      <4>1. i + 1 \in 1..(n + 1) /\ d - 1 = n + m + 2 - (i + 1) - j /\ d > 0 /\ d - 1 \in 0..(n + m)
          BY <2>2, <3>1, <3>2, <3>5
      <4> QED  BY <3>5, <4>1
    <3>6. CASE j <= m /\ ~Good(i, j + 1)
      <4>1. j + 1 \in 1..(m + 1) /\ d - 1 = n + m + 2 - i - (j + 1) /\ d > 0 /\ d - 1 \in 0..(n + m)
          BY <2>2, <3>1, <3>2, <3>6
      <4> QED  BY <3>6, <4>1
    <3> QED  BY <3>4, <3>5, <3>6
  <2>10. W = {}
    <3>1. W \subseteq 0..(n + m) /\ n + m \in Nat  BY <2>2
    <3> HIDE DEF W
    <3> QED  BY <2>9, <3>1, NoFirst
  <2>11. Right(1, 1)
    <3>1. 1 \in 1..(n + 1) /\ 1 \in 1..(m + 1) /\ n + m + 2 - 1 - 1 \in 0..(n + m)  BY <2>2
    <3>2. Good(1, 1)
      <4> HIDE DEF Good
      <4> QED  BY <2>10, <3>1
    <3>3. Behind(1, 1)  OBVIOUS
    <3> HIDE DEF Right, Behind
    <3> QED  BY <3>2, <3>3
  <2> DEFINE x == IntervalDiff(a, b, uninterrupted)
  <2>12. \A k \in 1..n : Off(k) <=> ApartFrom(a[k], b)  BY DEF ApartFrom, Apart, m
  <2>13. \A k \in 1..n : Free(k) <=> ApartFrom(a[k], b) /\ (uninterrupted => AheadOf(a[k], b))
      BY <2>12 DEF AheadOf, m
  <2> HIDE DEF Off, Free
  <2>14. \A k \in 1..n : Free(k) => a[k] \in ToSet(x)  BY <2>5, <2>11
  <2>15. \A y \in ToSet(x) : \E k \in 1..n : y = a[k] /\ Off(k)  BY <2>5, <2>11
  <2> HIDE DEF x
  <2>16. \A k \in 1..n : ApartFrom(a[k], b) /\ (uninterrupted => AheadOf(a[k], b)) => a[k] \in ToSet(x)
      BY <2>13, <2>14
  <2>17. \A y \in ToSet(x) : y \in ToSet(a) /\ ApartFrom(y, b)
      BY <2>6, <2>12, <2>15
  <2> QED  BY <2>16, <2>17 DEF Kept, n, x
<1> QED  BY <1>2, <1>3

\* interval_diff leaves the order as it is, and what lies apart ahead of anything that it
\* keeps it keeps, too, also where the past matters.
LEMMA DiffInOrder ==
    ASSUME NEW uninterrupted, NEW a \in Seq(Pairs), InOrder(a),
           \A k \in 1..Len(a) : a[k][1] < a[k][2], NEW b, Canonical(b)
    PROVE  /\ InOrder(IntervalDiff(a, b, uninterrupted))
           /\ \A k, l \in 1..Len(a) :
                 /\ k < l /\ ApartFrom(a[k], b)
                 /\ a[l] \in ToSet(IntervalDiff(a, b, uninterrupted))
                 => a[k] \in ToSet(IntervalDiff(a, b, uninterrupted))
<1> DEFINE n == Len(a)
           m == Len(b)
           diff == IntervalDiff(a, b, uninterrupted)
<1>1. b \in Seq(Pairs)  BY DEF Canonical
<1>2. CASE a = << >> \/ b = << >>
  <2>1. diff = a  BY <1>2 DEF IntervalDiff
  <2>2. ToSet(a) = {a[k] : k \in 1..n}  BY MembersOf
  <2> HIDE DEF n, diff
  <2>3. InOrder(diff) /\ \A k \in 1..n : a[k] \in ToSet(diff)  BY <2>1, <2>2
  <2> QED  BY <2>3 DEF n, diff
<1>3. CASE a # << >> /\ b # << >>
  <2>1. PICK c : StepsThrough(a, b, uninterrupted, Seq(Pairs), c)  BY <1>1, <1>3, DiffSteps
  <2>2. n \in Nat \ {0} /\ m \in Nat \ {0}  BY <1>1, <1>3
  <2>3. /\ \A k \in 1..n : a[k] \in Pairs /\ a[k][1] \in Int /\ a[k][2] \in Int /\ a[k][1] < a[k][2]
        /\ \A j, k \in 1..n : j < k => a[j][2] <= a[k][1]
    <3>1. \A k \in 1..n : a[k] \in Pairs  OBVIOUS
    <3> QED  BY <3>1 DEF InOrder, Pairs
  <2>4. \A j, k \in 1..n : j < k => a[j] # a[k]
    <3> SUFFICES ASSUME NEW j \in 1..n, NEW k \in 1..n, j < k, a[j] = a[k] PROVE FALSE  OBVIOUS
    <3>1. a[j][2] <= a[k][1] /\ a[j][1] < a[j][2] /\ a[j][1] = a[k][1]
          /\ a[j][1] \in Int /\ a[j][2] \in Int
        BY <2>3
    <3> QED  BY <3>1
  <2>5. /\ diff = c[<<1, 1>>]
        /\ \A i \in 1..(n + 1), j \in 1..(m + 1) :
              /\ c[<<i, j>>] \in Seq(Pairs)
              /\ c[<<i, j>>] = FromHere(a, b, uninterrupted, c, i, j)
    <3>1. \A i \in 1..(n + 1), j \in 1..(m + 1) :
              c[<<i, j>>] \in Seq(Pairs) /\ c[<<i, j>>] = FromHere(a, b, uninterrupted, c, i, j)
        BY <2>1 DEF StepsThrough
    <3>2. diff = c[<<1, 1>>]  BY <2>1 DEF StepsThrough
    <3> QED  BY <3>1, <3>2
  <2> DEFINE Off(k) == ApartFrom(a[k], b)
             From(i, s) == InOrder(s) /\ \A x \in ToSet(s) : \E k \in i..n : x = a[k]
             KeepsAhead(i, s) == \A k, l \in i..n : k < l /\ Off(k) /\ a[l] \in ToSet(s) => a[k] \in ToSet(s)
             Good(i, j) == From(i, c[<<i, j>>]) /\ KeepsAhead(i, c[<<i, j>>])
             W == {d \in 0..(n + m) : \E i \in 1..(n + 1), j \in 1..(m + 1) :
                                          d = n + m + 2 - i - j /\ ~Good(i, j)}
  <2> HIDE DEF n, m, diff
  <2>6. ASSUME NEW i \in 1..(n + 1), NEW j \in 1..(m + 1),
               i <= n => Good(i + 1, j), j <= m => Good(i, j + 1)
        PROVE  Good(i, j)
    <3> DEFINE e == c[<<i, j>>]
    <3>0. e = IF i > n THEN << >>
              ELSE IF j > m
              THEN IF a[i][1] >= b[m][2] \/ b[m][1] >= a[i][2] THEN SubSeq(a, i, n) ELSE << >>
              ELSE IF a[i][1] >= b[j][2] THEN c[<<i, j + 1>>]
              ELSE IF b[j][1] >= a[i][2] THEN <<a[i]>> \o c[<<i + 1, j>>]
              ELSE IF uninterrupted THEN << >>
              ELSE IF a[i][1] >= b[j][1] THEN c[<<i + 1, j>>]
              ELSE c[<<i, j + 1>>]
        BY <2>5 DEF FromHere, n, m
    <3>1. CASE i > n
      <4>1. e = << >> /\ i..n = {}  BY <2>2, <3>0, <3>1
      <4> HIDE DEF e
      <4>2. From(i, e) /\ KeepsAhead(i, e)  BY <4>1 DEF InOrder, ToSet
      <4> HIDE DEF From, KeepsAhead
      <4> QED  BY <4>2 DEF e
    <3>2. CASE ~(i > n)
      <4>1. /\ i \in 1..n /\ i \in i..n /\ i + 1 \in 1..(n + 1)
            /\ \A k \in i..n : k \in 1..n /\ (k = i \/ k \in (i + 1)..n)
            /\ \A k \in i..n : \A l \in i..n : k < l => l \in (i + 1)..n
            /\ \A k \in (i + 1)..n : k \in i..n
          BY <2>2, <3>2
      <4>2. CASE e = << >>
        <5>1. From(i, << >>) /\ KeepsAhead(i, << >>)  BY DEF InOrder, ToSet
        <5> HIDE DEF From, KeepsAhead
        <5> QED  BY <4>2, <5>1
      <4>3. CASE e = SubSeq(a, i, n)
        <5>1. SubSeq(a, i, n) = [h \in 1..(n - i + 1) |-> a[h + i - 1]]
            BY <2>2, <4>1 DEF n
        <5> HIDE DEF e
        <5>2. /\ DOMAIN e = 1..(n - i + 1) /\ Len(e) = n - i + 1
              /\ \A h \in 1..(n - i + 1) : e[h] = a[h + i - 1] /\ h + i - 1 \in i..n
          <6>1. n - i + 1 \in Nat  BY <2>2, <4>1
          <6>2. e = [h \in 1..(n - i + 1) |-> a[h + i - 1]]  BY <4>3, <5>1
          <6>3. DOMAIN e = 1..(n - i + 1) /\ \A h \in 1..(n - i + 1) : e[h] = a[h + i - 1]  BY <6>2
          <6>4. Len(e) = n - i + 1  BY <6>1, <6>2
          <6>5. \A h \in 1..(n - i + 1) : h + i - 1 \in i..n  BY <2>2, <4>1
          <6> QED  BY <6>3, <6>4, <6>5
        <5>3. InOrder(e)
          <6> SUFFICES ASSUME NEW g \in 1..(n - i + 1), NEW h \in 1..(n - i + 1), g < h
                       PROVE  e[g][2] <= e[h][1]
              BY <5>2 DEF InOrder
          <6>1. /\ e[g] = a[g + i - 1] /\ e[h] = a[h + i - 1]
                /\ g + i - 1 \in 1..n /\ h + i - 1 \in 1..n /\ g + i - 1 < h + i - 1
              BY <4>1, <5>2
          <6> QED  BY <2>3, <6>1
        <5>4. \A x \in ToSet(e) : \E k \in i..n : x = a[k]  BY <5>2 DEF ToSet
        <5>5. ASSUME NEW k \in i..n PROVE a[k] \in ToSet(e)
          <6>1. k - i + 1 \in 1..(n - i + 1) /\ (k - i + 1) + i - 1 = k  BY <2>2, <4>1
          <6>2. e[k - i + 1] = a[k]  BY <5>2, <6>1
          <6> QED  BY <5>2, <6>1, <6>2 DEF ToSet
        <5>6. From(i, e) /\ KeepsAhead(i, e)  BY <5>3, <5>4, <5>5
        <5> HIDE DEF From, KeepsAhead
        <5> QED  BY <5>6 DEF e
      <4>4. CASE j <= m /\ e = c[<<i, j + 1>>]
        <5> HIDE DEF From, KeepsAhead
        <5> QED  BY <2>6, <4>4
      <4>5. CASE j <= m /\ a[i][1] < b[j][2] /\ b[j][1] < a[i][2] /\ e = c[<<i + 1, j>>]
        <5>1. ~Off(i)
          <6> SUFFICES ASSUME Off(i) PROVE FALSE  OBVIOUS
          <6>1. j \in 1..m  BY <2>2, <4>5
          <6>2. a[i][2] <= b[j][1] \/ b[j][2] <= a[i][1]  BY <6>1 DEF ApartFrom, Apart, m
          <6>3. b[j][1] \in Int /\ b[j][2] \in Int  BY <6>1, CanonicalInOrder DEF m
          <6> QED  BY <2>3, <4>1, <4>5, <6>2, <6>3
        <5>2. From(i + 1, e) /\ KeepsAhead(i + 1, e)
          <6> HIDE DEF From, KeepsAhead, e
          <6>1. i <= n  BY <4>1
          <6> QED  BY <2>6, <4>5, <6>1
        <5> HIDE DEF Off, e
        <5>3. From(i, e) /\ KeepsAhead(i, e)  BY <4>1, <5>1, <5>2
        <5> HIDE DEF From, KeepsAhead
        <5> QED  BY <5>3 DEF e
      <4>6. CASE j <= m /\ e = <<a[i]>> \o c[<<i + 1, j>>]
        <5> DEFINE one == <<a[i]>>
                   rest == c[<<i + 1, j>>]
        <5>1. one \in Seq(Pairs) /\ ToSet(one) = {a[i]} /\ InOrder(one)
            BY <2>3, <4>1 DEF ToSet, InOrder
        <5>2. rest \in Seq(Pairs)  BY <2>5, <4>1, <4>6
        <5>3. e = one \o rest  BY <4>6
        <5>4. From(i + 1, rest) /\ KeepsAhead(i + 1, rest)
          <6> HIDE DEF From, KeepsAhead
          <6>1. i <= n  BY <4>1
          <6> QED  BY <2>6, <6>1
        <5> HIDE DEF e, one, rest, Off
        <5>5. ToSet(e) = {a[i]} \cup ToSet(rest)  BY <5>1, <5>2, <5>3, MembersOfConcat
        <5>6. \A x \in ToSet(rest) : a[i][2] <= x[1]
          <6> SUFFICES ASSUME NEW x \in ToSet(rest) PROVE a[i][2] <= x[1]  OBVIOUS
          <6>1. PICK k \in (i + 1)..n : x = a[k]  BY <5>4
          <6>2. k \in 1..n /\ i < k  BY <4>1, <6>1
          <6> QED  BY <2>3, <4>1, <6>1, <6>2
        <5>7. InOrder(e)  BY <5>1, <5>2, <5>3, <5>4, <5>6, ConcatInOrder
        <5>8. \A x \in ToSet(e) : \E k \in i..n : x = a[k]  BY <4>1, <5>4, <5>5
        <5>9. ASSUME NEW k \in i..n, NEW l \in i..n, k < l, Off(k), a[l] \in ToSet(e)
              PROVE  a[k] \in ToSet(e)
          <6>1. l \in (i + 1)..n /\ l \in 1..n /\ i < l /\ (k = i \/ k \in (i + 1)..n)
              BY <4>1, <5>9
          <6>2. a[l] # a[i]  BY <2>4, <4>1, <6>1
          <6>3. a[l] \in ToSet(rest)  BY <5>5, <5>9, <6>2
          <6> QED  BY <5>4, <5>5, <5>9, <6>1, <6>3
        <5>10. From(i, e) /\ KeepsAhead(i, e)  BY <5>7, <5>8, <5>9
        <5> HIDE DEF From, KeepsAhead
        <5> QED  BY <5>10 DEF e
      <4>7. /\ j > m => e = << >> \/ e = SubSeq(a, i, n)
            /\ ~(j > m) => \/ e = << >> \/ e = c[<<i, j + 1>>]
                           \/ e = <<a[i]>> \o c[<<i + 1, j>>]
                           \/ ~(a[i][1] >= b[j][2]) /\ ~(b[j][1] >= a[i][2]) /\ e = c[<<i + 1, j>>]
        <5>1. CASE j > m  BY <3>0, <3>2, <5>1
        <5>2. CASE ~(j > m)
          <6> HIDE DEF e
          <6> QED  BY <3>0, <3>2, <5>2
        <5> QED  BY <5>1, <5>2
      <4>8. ~(j > m) => /\ j <= m
                        /\ a[i][1] \in Int /\ a[i][2] \in Int /\ b[j][1] \in Int /\ b[j][2] \in Int
        <5> SUFFICES ASSUME ~(j > m) PROVE /\ j <= m /\ a[i][1] \in Int /\ a[i][2] \in Int
                                           /\ b[j][1] \in Int /\ b[j][2] \in Int
            OBVIOUS
        <5>1. j \in 1..m /\ j <= m  BY <2>2
        <5>2. b[j][1] \in Int /\ b[j][2] \in Int  BY <5>1, CanonicalInOrder DEF m
        <5> QED  BY <2>3, <4>1, <5>1, <5>2
      <4> HIDE DEF e, From, KeepsAhead
      <4>9. CASE j > m  BY <4>2, <4>3, <4>7, <4>9
      <4>10. CASE ~(j > m)
        <5>1. CASE e = << >>  BY <4>2, <5>1
        <5>2. CASE e = c[<<i, j + 1>>]  BY <4>4, <4>8, <4>10, <5>2
        <5>3. CASE e = <<a[i]>> \o c[<<i + 1, j>>]  BY <4>6, <4>8, <4>10, <5>3
        <5>4. CASE ~(a[i][1] >= b[j][2]) /\ ~(b[j][1] >= a[i][2]) /\ e = c[<<i + 1, j>>]
          <6>1. a[i][1] < b[j][2] /\ b[j][1] < a[i][2] /\ j <= m  BY <4>8, <4>10, <5>4
          <6> QED  BY <4>5, <5>4, <6>1
        <5> QED  BY <4>7, <4>10, <5>1, <5>2, <5>3, <5>4
      <4> QED  BY <4>9, <4>10
    <3> QED  BY <3>1, <3>2
  <2>7. ASSUME NEW d \in W PROVE d > 0 /\ d - 1 \in W
    <3> HIDE DEF Good
    <3>1. PICK i \in 1..(n + 1), j \in 1..(m + 1) : d = n + m + 2 - i - j /\ ~Good(i, j)
        OBVIOUS
    <3>2. d \in 0..(n + m)  OBVIOUS
    <3>3. (i <= n /\ ~Good(i + 1, j)) \/ (j <= m /\ ~Good(i, j + 1))  BY <2>6, <3>1
    <3>4. ASSUME i <= n, ~Good(i + 1, j) PROVE d > 0 /\ d - 1 \in W
      <4>1. i + 1 \in 1..(n + 1)  BY <2>2, <3>4
      <4>2. d - 1 = n + m + 2 - (i + 1) - j /\ d > 0  BY <2>2, <3>1, <3>4
      <4>3. d - 1 \in 0..(n + m)  BY <2>2, <3>2, <4>2
      <4> QED  BY <3>4, <4>1, <4>2, <4>3
    <3>5. ASSUME j <= m, ~Good(i, j + 1) PROVE d > 0 /\ d - 1 \in W
      <4>1. j + 1 \in 1..(m + 1)  BY <2>2, <3>5
      <4>2. d - 1 = n + m + 2 - i - (j + 1) /\ d > 0  BY <2>2, <3>1, <3>5
      <4>3. d - 1 \in 0..(n + m)  BY <2>2, <3>2, <4>2
      <4> QED  BY <3>5, <4>1, <4>2, <4>3
    <3> QED  BY <3>3, <3>4, <3>5
  <2>8. W = {}
    <3>1. W \subseteq 0..(n + m) /\ n + m \in Nat  BY <2>2
    <3> HIDE DEF W
    <3> QED  BY <2>7, <3>1, NoFirst
  <2>9. Good(1, 1)
    <3> HIDE DEF Good
    <3>1. 1 \in 1..(n + 1) /\ 1 \in 1..(m + 1) /\ n + m \in 0..(n + m) /\ n + m = n + m + 2 - 1 - 1
        BY <2>2
    <3> QED  BY <2>8, <3>1
  <2>10. From(1, diff) /\ KeepsAhead(1, diff)
    <3> HIDE DEF From, KeepsAhead
    <3> QED  BY <2>5, <2>9
  <2> QED  BY <2>10 DEF n, diff
<1> QED  BY <1>2, <1>3

LEMMA RemoveAtInOrder ==
    ASSUME NEW s \in Seq(Pairs), InOrder(s), NEW k \in DOMAIN s
    PROVE  InOrder(RemoveAt(s, k))
<1> DEFINE a == SubSeq(s, 1, k - 1)
           b == SubSeq(s, k + 1, Len(s))
           n == Len(s)
<1>1. k \in 1..n /\ n \in Nat  OBVIOUS
<1>2. /\ a \in Seq(Pairs) /\ Len(a) = k - 1 /\ \A j \in 1..(k - 1) : a[j] = s[j]
  <2>1. \A j \in 1..(k - 1) : s[j] \in Pairs  BY <1>1
  <2>2. 1 \in Int /\ k - 1 \in Int  BY <1>1
  <2> QED  BY <1>1
<1>3. /\ b \in Seq(Pairs) /\ Len(b) = n - k /\ \A j \in 1..(n - k) : b[j] = s[k + j]
  <2> QED  BY <1>1
<1>4. RemoveAt(s, k) = a \o b  BY DEF RemoveAt
<1>5. \A i, j \in 1..n : i < j => s[i][2] <= s[j][1]  BY DEF InOrder
<1> HIDE DEF a, b, n
<1>6. InOrder(a)
  <2>1. \A j \in 1..(k - 1) : j \in 1..n  BY <1>1
  <2> QED  BY <1>2, <1>5, <2>1 DEF InOrder
<1>7. InOrder(b)
  <2> SUFFICES ASSUME NEW i \in 1..(n - k), NEW j \in 1..(n - k), i < j PROVE b[i][2] <= b[j][1]
      BY <1>3 DEF InOrder
  <2>1. k + i \in 1..n /\ k + j \in 1..n /\ k + i < k + j  BY <1>1
  <2> QED  BY <1>3, <1>5, <2>1
<1>8. \A p \in ToSet(a), q \in ToSet(b) : p[2] <= q[1]
  <2> SUFFICES ASSUME NEW p \in ToSet(a), NEW q \in ToSet(b) PROVE p[2] <= q[1]  OBVIOUS
  <2>1. PICK i \in 1..(k - 1) : p = a[i]  BY <1>2, MembersOf
  <2>2. PICK j \in 1..(n - k) : q = b[j]  BY <1>3, MembersOf
  <2>3. i \in 1..n /\ k + j \in 1..n /\ i < k + j  BY <1>1
  <2> QED  BY <1>2, <1>3, <1>5, <2>1, <2>2, <2>3
<1> QED  BY <1>2, <1>3, <1>4, <1>6, <1>7, <1>8, ConcatInOrder

\* Merged intervals begin where one of those that were merged does.
LEMMA MergedStarts ==
    ASSUME NEW unit \in Nat \ {0}, NEW s \in Seq(Pairs),
           \A k \in 1..Len(s) : s[k][1] < s[k][2] /\ s[k][1] % unit = 0
    PROVE  /\ Canonical(MergeIntervals(s)) /\ Ticks(MergeIntervals(s)) = Ticks(s)
           /\ \A k \in 1..Len(MergeIntervals(s)) : MergeIntervals(s)[k][1] % unit = 0
<1> DEFINE m == MergeIntervals(s)
<1>1. \A k \in 1..Len(s) : s[k][1] \in Int /\ s[k][2] \in Int
  <2>1. \A k \in 1..Len(s) : s[k] \in Pairs  OBVIOUS
  <2> QED  BY <2>1 DEF Pairs
<1>2. EndsFrom(s, Int)  BY <1>1 DEF EndsFrom
<1>3. Canonical(m) /\ Ticks(m) = Ticks(s)  BY <1>2, MergeRight
<1> HIDE DEF m
<1>4. m \in Seq(Pairs)  BY <1>3 DEF Canonical
<1>5. /\ \A k \in 1..Len(m) : m[k][1] \in Int /\ m[k][2] \in Int /\ m[k][1] < m[k][2]
      /\ \A j, k \in 1..Len(m) : j < k => m[j][2] < m[k][1]
    BY <1>3, CanonicalInOrder
<1>6. ASSUME NEW k \in 1..Len(m) PROVE m[k][1] % unit = 0
  <2> DEFINE t == m[k][1]
  <2>1. t \in Int /\ t < m[k][2] /\ t - 1 \in Int  BY <1>5
  <2>2. t \in Ticks(m)  BY <1>4, <2>1, TicksOf
  <2>3. PICK j \in 1..Len(s) : s[j][1] <= t /\ t < s[j][2]
    <3> HIDE DEF t
    <3> QED  BY <1>3, <2>1, <2>2, TicksOf
  <2>4. SUFFICES ASSUME s[j][1] # t PROVE FALSE  BY <2>3
  <2>5. s[j][1] <= t - 1 /\ t - 1 < s[j][2]  BY <1>1, <2>1, <2>3, <2>4
  <2>6. t - 1 \in Ticks(m)
    <3> HIDE DEF t
    <3> QED  BY <1>3, <2>1, <2>5, TicksOf
  <2>7. PICK l \in 1..Len(m) : m[l][1] <= t - 1 /\ t - 1 < m[l][2]
    <3> HIDE DEF t
    <3> QED  BY <1>4, <2>1, <2>6, TicksOf
  <2>8. Len(m) \in Nat /\ m[l][1] \in Int /\ m[l][2] \in Int  BY <1>4, <1>5
  <2>9. CASE l = k  BY <2>1, <2>7, <2>9
  <2>10. CASE l < k
    <3>1. m[l][2] < t  BY <1>5, <2>10
    <3> QED  BY <2>1, <2>7, <2>8, <3>1
  <2>11. CASE k < l
    <3>1. m[k][2] < m[l][1]  BY <1>5, <2>11
    <3> QED  BY <1>5, <2>1, <2>7, <2>8, <3>1
  <2> QED  BY <2>8, <2>9, <2>10, <2>11
<1> QED  BY <1>3, <1>6 DEF m

LEMMA CoveredByTicks ==
    ASSUME NEW s, Canonical(s), NEW lo \in Int, NEW hi \in Int, lo < hi,
           \A t \in lo..(hi - 1) : t \in Ticks(s)
    PROVE  Covered(s, lo, hi)
<1> DEFINE found == {k \in DOMAIN s :
                       lo < s[k][1] \/ (s[k][1] <= lo /\ hi <= s[k][2])}
<1>1. s \in Seq(Pairs)  BY DEF Canonical
<1>2. DOMAIN s = 1..Len(s) /\ Len(s) \in Nat  BY <1>1
<1>3. /\ \A k \in 1..Len(s) : s[k][1] \in Int /\ s[k][2] \in Int /\ s[k][1] < s[k][2]
      /\ \A j, k \in 1..Len(s) : j < k => s[j][2] < s[k][1]
    BY CanonicalInOrder
<1>4. PICK k \in 1..Len(s) : s[k][1] <= lo /\ lo < s[k][2]
  <2>1. lo \in Ticks(s)  OBVIOUS
  <2> QED  BY <1>1, <2>1, TicksOf
<1>5. hi <= s[k][2]
  <2> DEFINE t == s[k][2]
  <2>1. SUFFICES ASSUME t < hi PROVE FALSE  BY <1>3
  <2>2. t \in lo..(hi - 1)  BY <1>3, <1>4, <2>1
  <2>3. t \in Ticks(s)  BY <2>2
  <2>4. PICK l \in 1..Len(s) : s[l][1] <= t /\ t < s[l][2]
    <3> HIDE DEF t
    <3> QED  BY <1>1, <2>3, TicksOf
  <2>5. s[l][1] \in Int /\ s[l][2] \in Int /\ s[k][1] \in Int /\ s[k][2] \in Int /\ s[k][1] < s[k][2]
      BY <1>3
  <2>6. CASE l = k  BY <2>4, <2>5, <2>6
  <2>7. CASE l < k
    <3>1. s[l][2] < s[k][1]  BY <1>3, <2>7
    <3> QED  BY <2>4, <2>5, <3>1
  <2>8. CASE k < l
    <3>1. s[k][2] < s[l][1]  BY <1>3, <2>8
    <3> QED  BY <2>4, <2>5, <3>1
  <2> QED  BY <1>2, <2>6, <2>7, <2>8
<1>6. k \in found  BY <1>2, <1>4, <1>5
<1>7. Min(found) \in found /\ Min(found) <= k
  <2>1. found \in SUBSET Nat  BY <1>2
  <2> HIDE DEF found
  <2>2. \E m \in found : \A j \in found : m <= j  BY <1>6, <2>1, SmallestNumber
  <2> QED  BY <1>6, <2>2 DEF Min
<1> DEFINE m == Min(found)
<1>8. m \in 1..Len(s) /\ m <= k  BY <1>2, <1>7
<1> HIDE DEF m
<1>9. s[m][1] <= lo
  <2>1. m = k \/ m < k  BY <1>2, <1>8
  <2>2. CASE m = k  BY <1>4, <2>2
  <2>3. CASE m < k
    <3>1. s[m][2] < s[k][1] /\ s[m][1] < s[m][2]  BY <1>3, <1>8, <2>3
    <3>2. s[m][1] \in Int /\ s[m][2] \in Int /\ s[k][1] \in Int  BY <1>3, <1>8
    <3> QED  BY <1>4, <3>1, <3>2
  <2> QED  BY <2>1, <2>2, <2>3
<1>10. found # {} /\ s[Min(found)][1] <= lo
  <2> HIDE DEF found
  <2> QED  BY <1>6, <1>9 DEF m
<1> QED  BY <1>10 DEF Covered

\* Nothing is missing of a range that has been loaded.
Complete(s, lo, hi, model) == ComputeMissingIntervals(s, lo, hi, model) = << >>

LEMMA NothingMissing ==
    ASSUME NEW model, model.unit \in Nat \ {0}, NEW top, NEW partial, NEW s, Canonical(s),
           NEW lo, NEW hi, <<lo, hi>> \in Wanted(model.unit, top, partial, TRUE),
           \A t \in lo..(hi - 1) : t \in Ticks(s)
    PROVE  Complete(s, lo, hi, model)
<1> DEFINE ts == ExpandRange(lo, hi, model.unit)
           n == Len(ts) - 1
           unloaded == {i \in 1..n : ~Covered(s, ts[i], ts[i + 1])}
           missing == IF unloaded # {} /\ model.lookback # 0
                      THEN WithLookback(unloaded, n, EffectiveLookback(model, hi))
                      ELSE unloaded
           S == {<<ts[i], ts[i + 1]>> : i \in {i \in missing : model.end # NoEnd => ts[i] < model.end}}
<1>1. lo \in Int /\ hi \in Int /\ lo % model.unit = 0 /\ lo < hi  BY DEF Wanted, Pairs
<1>2. IsExpanded(ts, lo, hi, model.unit)  BY <1>1, ExpandRight
<1>3. ComputeMissingIntervals(s, lo, hi, model) = Sorted(S)  BY DEF ComputeMissingIntervals
<1>4. ASSUME NEW i \in 1..n PROVE Covered(s, ts[i], ts[i + 1])
  <2> HIDE DEF ts
  <2>1. /\ ts \in Seq(Int) /\ Len(ts) >= 2 /\ ts[Len(ts)] = hi
        /\ \A k \in 1..n : lo <= ts[k] /\ ts[k] < hi /\ ts[k] < ts[k + 1]
      BY <1>1, <1>2 DEF IsExpanded
  <2>2. i \in 1..Len(ts) /\ i + 1 \in 1..Len(ts)  BY <2>1
  <2>3. ts[i] \in Int /\ ts[i + 1] \in Int /\ lo <= ts[i] /\ ts[i] < ts[i + 1]
      BY <2>1, <2>2
  <2>4. ts[i + 1] <= hi
    <3>1. CASE i = n
      <4>1. i + 1 = Len(ts)  BY <2>1, <3>1
      <4> QED  BY <1>1, <2>1, <4>1
    <3>2. CASE i # n
      <4>1. i + 1 \in 1..n  BY <2>1, <3>2
      <4>2. ts[i + 1] < hi  BY <2>1, <4>1
      <4> QED  BY <1>1, <2>3, <4>2
    <3> QED  BY <3>1, <3>2
  <2>5. \A t \in ts[i]..(ts[i + 1] - 1) : t \in Ticks(s)
    <3>1. \A t \in ts[i]..(ts[i + 1] - 1) : t \in lo..(hi - 1)  BY <1>1, <2>3, <2>4
    <3> QED  BY <3>1
  <2> QED  BY <2>3, <2>5, CoveredByTicks
<1>5. unloaded = {}
  <2> HIDE DEF ts, n
  <2> QED  BY <1>4
<1> HIDE DEF ts, n, unloaded
<1>6. missing = {}  BY <1>5
<1> HIDE DEF missing
<1>7. S = {}  BY <1>6
<1>8. Sorted({}) = << >>
  <2>1. {} \in SUBSET Pairs /\ IsFiniteSet({}) /\ Cardinality({}) = 0
      BY FS_EmptySet
  <2>2. Sorted({}) \in Seq({}) /\ Len(Sorted({})) = 0  BY <2>1, SortedRight
  <2> QED  BY <2>2
<1> HIDE DEF S
<1> QED  BY <1>3, <1>7, <1>8 DEF Complete

LEMMA LeastIs ==
    ASSUME NEW S, NEW f \in S, \A x \in S : x \in Int /\ f <= x
    PROVE  Min(S) = f
<1> DEFINE m == CHOOSE x \in S : \A y \in S : x <= y
<1>1. f \in S /\ \A y \in S : f <= y  OBVIOUS
<1>2. m \in S /\ \A y \in S : m <= y  BY <1>1
<1>3. Min(S) = m  BY DEF Min
<1> HIDE DEF m
<1>4. m <= f /\ f <= m /\ m \in Int /\ f \in Int  BY <1>2
<1> QED  BY <1>3, <1>4

(***************************************************************************)
(* What is missing.                                                        *)
(***************************************************************************)

\* What a run or a restatement asks for.
Asked(r) ==
    /\ r.start \in Nat /\ r.end \in Nat /\ r.execution_time \in Nat
    /\ r.end <= r.execution_time
    /\ r.restatement # << >> =>
          r.restatement[1] \in Nat /\ r.restatement[2] \in Int /\ ~r.ignore_cron
    /\ r.unready = << >> \/ r.unready \in Signals

WantedBy(r) == Wanted(node.unit, r.execution_time, node.allow_partials, ~AfterTick)

LEMMA NodeTyped ==
    ASSUME node \in Nodes
    PROVE  /\ node.unit \in Nat \ {0} /\ node.cron \in Nat \ {0}
           /\ node.start \in Nat /\ (node.end = NoEnd \/ node.end \in Nat)
           /\ (node.full_history => node.depends_on_past)
BY MissingIntervalsConstants

LEMMA FirstTickRight ==
    ASSUME node \in Nodes, NEW r, Asked(r)
    PROVE  FirstTick(r) \in Nat
<1> DEFINE x == IF r.restatement # << >> THEN r.restatement[1] ELSE r.start
<1>1. x \in Nat  BY DEF Asked
<1>2. node.start \in Nat  BY NodeTyped
<1>3. FirstTick(r) = Max({x, node.start})  BY DEF FirstTick
<1> HIDE DEF x
<1> QED  BY <1>1, <1>2, <1>3, MaxOfTwo

LEMMA UpperBoundRight ==
    ASSUME node \in Nodes, NEW r, Asked(r), NEW end \in Int
    PROVE  /\ UpperBound(r, end) \in Int /\ UpperBound(r, end) <= r.execution_time
           /\ node.allow_partials \/ UpperBound(r, end) % node.unit = 0
           /\ \A a \in Int : /\ (node.allow_partials \/ a % node.unit = 0) /\ a <= end
                             /\ a <= (IF r.ignore_cron THEN r.execution_time
                                      ELSE CronFloor(r.execution_time))
                             => a <= UpperBound(r, end)
<1> DEFINE bound == IF r.ignore_cron THEN r.execution_time ELSE CronFloor(r.execution_time)
           bounded == IF r.end_bounded THEN Min({bound, end}) ELSE bound
<1>1. node.unit \in Nat \ {0} /\ node.cron \in Nat \ {0} /\ r.execution_time \in Int
    BY NodeTyped DEF Asked
<1>2. bound \in Int /\ bound <= r.execution_time
  <2>1. /\ CronFloor(r.execution_time) = Floor(r.execution_time, node.cron)
        /\ Floor(r.execution_time, node.cron) \in Int
        /\ Floor(r.execution_time, node.cron) <= r.execution_time
      BY <1>1, FloorRight DEF CronFloor
  <2> QED  BY <1>1, <2>1
<1>3. UpperBound(r, end) = IF node.allow_partials THEN bounded ELSE Floor(bounded, node.unit)
    BY DEF UpperBound
<1>4. \A a \in Int : a <= bound <=> a <= (IF r.ignore_cron THEN r.execution_time
                                      ELSE CronFloor(r.execution_time))
    OBVIOUS
<1> HIDE DEF bound
<1>5. /\ bounded \in Int /\ bounded <= r.execution_time
      /\ \A a \in Int : a <= end /\ a <= bound => a <= bounded
  <2>1. Min({bound, end}) = IF bound <= end THEN bound ELSE end  BY <1>2, MaxOfTwo
  <2> QED  BY <1>1, <1>2, <2>1
<1> HIDE DEF bounded
<1>6. /\ Floor(bounded, node.unit) \in Int /\ Floor(bounded, node.unit) % node.unit = 0
      /\ Floor(bounded, node.unit) <= bounded
    BY <1>1, <1>5, FloorRight
<1>7. \A a \in Int : a % node.unit = 0 /\ a <= bounded => a <= Floor(bounded, node.unit)
    BY <1>1, <1>5, FloorIsGreatest
<1>8. UpperBound(r, end) \in Int /\ UpperBound(r, end) <= r.execution_time
    BY <1>1, <1>3, <1>5, <1>6
<1>9. node.allow_partials \/ UpperBound(r, end) % node.unit = 0  BY <1>3, <1>6
<1>10. ASSUME NEW a \in Int, node.allow_partials \/ a % node.unit = 0, a <= end, a <= bound
       PROVE  a <= UpperBound(r, end)
  <2>1. a <= bounded  BY <1>5, <1>10
  <2>2. CASE node.allow_partials  BY <1>3, <2>1, <2>2
  <2>3. CASE ~node.allow_partials  BY <1>3, <1>7, <1>10, <2>1, <2>3
  <2> QED  BY <2>2, <2>3
<1> QED  BY <1>4, <1>8, <1>9, <1>10

(***************************************************************************)
(* The parts of missing_intervals, by name: what is asked for ends there,  *)
(* this has been recorded apart from what is restated, and of this range   *)
(* the missing intervals are computed, unless there is nothing to do.      *)
(***************************************************************************)
LastTick(r) == IF r.restatement # << >> THEN r.restatement[2] ELSE r.end

EndTick(r) == IF node.end # NoEnd THEN Min({node.end, LastTick(r)}) ELSE LastTick(r)

RecordedFor(r) ==
    IF r.restatement # << >> THEN RemoveInterval(intervals, r.restatement[1], r.restatement[2])
    ELSE intervals

RangeOf(r) ==
    InclusiveExclusive(FirstTick(r), EndTick(r), node.unit, node.allow_partials, TRUE)

UpTo(r) == Min({RangeOf(r)[2], UpperBound(r, RangeOf(r)[2])})

OutOfRange(r) == FirstTick(r) > LastTick(r) \/ (node.end # NoEnd /\ FirstTick(r) > node.end)

NothingToDo(r) ==
    \/ OutOfRange(r)
    \/ ~node.allow_partials /\ EndTick(r) - FirstTick(r) < node.unit
    \/ RangeOf(r)[1] = UpTo(r)

LEMMA MissingIs ==
    ASSUME NEW r
    PROVE  Missing(r) = IF NothingToDo(r) THEN << >>
                        ELSE ComputeMissingIntervals(RecordedFor(r), RangeOf(r)[1], UpTo(r), node)
<1>1. Missing(r) = IF FirstTick(r) > LastTick(r) THEN << >>
                   ELSE SnapshotMissingIntervals(RecordedFor(r), FirstTick(r), EndTick(r), r)
    BY DEF Missing, LastTick, EndTick, RecordedFor
<1>2. SnapshotMissingIntervals(RecordedFor(r), FirstTick(r), EndTick(r), r) =
          IF (node.end # NoEnd /\ FirstTick(r) > node.end)
             \/ (~node.allow_partials /\ EndTick(r) - FirstTick(r) < node.unit)
          THEN << >>
          ELSE IF RangeOf(r)[1] = UpTo(r) THEN << >>
               ELSE ComputeMissingIntervals(RecordedFor(r), RangeOf(r)[1], UpTo(r), node)
    BY DEF SnapshotMissingIntervals, RangeOf, UpTo
<1> QED  BY <1>1, <1>2 DEF NothingToDo, OutOfRange

\* A range within the model's range and before the time of execution.
IsRange(r) ==
    /\ FirstTick(r) \in Nat /\ LastTick(r) \in Int
    /\ EndTick(r) \in Int /\ FirstTick(r) <= EndTick(r)
    /\ EndTick(r) <= LastTick(r) /\ (node.end # NoEnd => EndTick(r) <= node.end)
    /\ LastTick(r) <= EndTick(r) \/ (node.end # NoEnd /\ node.end <= EndTick(r))
    /\ RangeOf(r)[1] = Floor(FirstTick(r), node.unit)
    /\ RangeOf(r)[2] = IF node.allow_partials THEN EndTick(r) ELSE Ceiling(EndTick(r), node.unit)
    /\ RangeOf(r)[2] \in Int /\ EndTick(r) <= RangeOf(r)[2]
    /\ UpTo(r) = IF RangeOf(r)[2] <= UpperBound(r, RangeOf(r)[2]) THEN RangeOf(r)[2]
                 ELSE UpperBound(r, RangeOf(r)[2])
    /\ RangeOf(r)[1] # UpTo(r) => <<RangeOf(r)[1], UpTo(r)>> \in WantedBy(r)

LEMMA RangeRight ==
    ASSUME node \in Nodes, NEW r, Asked(r), BeginsInTime(r), ~OutOfRange(r)
    PROVE  IsRange(r)
<1> DEFINE u == node.unit
           lo == FirstTick(r)
           last == LastTick(r)
           e == EndTick(r)
           range == RangeOf(r)
           hi == UpTo(r)
           top == UpperBound(r, range[2])
<1>1. /\ u \in Nat \ {0} /\ lo \in Nat /\ last \in Int /\ r.execution_time \in Nat
      /\ node.end = NoEnd \/ node.end \in Nat
    BY NodeTyped, FirstTickRight DEF Asked, LastTick
<1>2. lo <= last /\ (node.end # NoEnd => lo <= node.end)
  <2>1. ~(lo > last) /\ (node.end # NoEnd => ~(lo > node.end))  BY DEF OutOfRange
  <2> HIDE DEF lo, last
  <2> QED  BY <1>1, <2>1
<1>3. /\ e \in Int /\ lo <= e /\ e <= last /\ (node.end # NoEnd => e <= node.end)
      /\ last <= e \/ (node.end # NoEnd /\ node.end <= e)
  <2> HIDE DEF lo, last
  <2>1. CASE node.end = NoEnd
    <3>1. e = last  BY <2>1 DEF EndTick, last
    <3> HIDE DEF e
    <3> QED  BY <1>1, <1>2, <2>1, <3>1
  <2>2. CASE node.end # NoEnd
    <3>1. node.end \in Int /\ lo <= node.end /\ lo <= last  BY <1>1, <1>2, <2>2
    <3>2. Min({node.end, last}) = IF node.end <= last THEN node.end ELSE last
        BY <1>1, <3>1, MaxOfTwo
    <3>3. e = Min({node.end, last})  BY <2>2 DEF EndTick, last
    <3> HIDE DEF e
    <3>4. e = IF node.end <= last THEN node.end ELSE last  BY <3>2, <3>3
    <3>5. lo \in Int /\ last \in Int  BY <1>1
    <3>6. CASE node.end <= last  BY <2>2, <3>1, <3>4, <3>5, <3>6
    <3>7. CASE ~(node.end <= last)  BY <3>1, <3>4, <3>5, <3>7
    <3> QED  BY <3>6, <3>7
  <2> QED  BY <2>1, <2>2
<1>4. /\ range[1] = Floor(lo, u)
      /\ range[2] = IF node.allow_partials THEN e ELSE Ceiling(e, u)
    BY DEF RangeOf, InclusiveExclusive
<1>5. hi = Min({range[2], top})  BY DEF UpTo
<1>6. Floor(lo, u) = Floor(FirstTick(r), node.unit)  OBVIOUS
<1>7. r.ignore_cron => last = r.end /\ r.end <= r.execution_time  BY DEF Asked, LastTick
<1> HIDE DEF lo, last, e, range, hi
<1>8. /\ range[1] \in Int /\ range[1] % u = 0 /\ range[1] >= 0 /\ range[1] <= lo
      /\ range[2] \in Int /\ e <= range[2]
      /\ node.allow_partials \/ range[2] % u = 0
  <2> HIDE DEF u
  <2>1. lo \in Int /\ lo >= 0  BY <1>1
  <2>2. /\ Floor(lo, u) \in Int /\ Floor(lo, u) % u = 0 /\ Floor(lo, u) <= lo
        /\ Floor(lo, u) >= 0
      BY <1>1, <2>1, FloorRight
  <2>3. Ceiling(e, u) \in Int /\ Ceiling(e, u) % u = 0 /\ e <= Ceiling(e, u)
      BY <1>1, <1>3, CeilingRight
  <2> QED  BY <1>3, <1>4, <2>2, <2>3
<1>9. ~AfterTick => range[1] <= (IF r.ignore_cron THEN r.execution_time
                                 ELSE CronFloor(r.execution_time))
  <2> SUFFICES ASSUME ~AfterTick
               PROVE  range[1] <= (IF r.ignore_cron THEN r.execution_time
                                   ELSE CronFloor(r.execution_time))
      OBVIOUS
  <2>1. CASE r.ignore_cron
    <3> HIDE DEF u
    <3> QED  BY <1>1, <1>3, <1>7, <1>8, <2>1
  <2>2. CASE ~r.ignore_cron
    <3>1. Floor(lo, u) <= CronFloor(r.execution_time)  BY <1>6, <2>2 DEF BeginsInTime
    <3> HIDE DEF u
    <3> QED  BY <1>4, <2>2, <3>1
  <2> QED  BY <2>1, <2>2
<1>10. /\ top \in Int /\ top <= r.execution_time /\ (node.allow_partials \/ top % u = 0)
       /\ ~AfterTick => range[1] <= top
  <2>1. range[1] <= range[2]
    <3> HIDE DEF u
    <3> QED  BY <1>1, <1>3, <1>8
  <2> QED  BY <1>8, <1>9, <2>1, UpperBoundRight
<1> HIDE DEF top
<1>11. hi = IF range[2] <= top THEN range[2] ELSE top  BY <1>5, <1>8, <1>10, MaxOfTwo
<1> HIDE DEF u
<1>12. range[1] # hi =>
         /\ hi \in Int /\ hi <= r.execution_time /\ (node.allow_partials \/ hi % u = 0)
         /\ ~AfterTick => range[1] < hi
  <2>1. range[1] <= range[2]  BY <1>1, <1>3, <1>8
  <2> QED  BY <1>1, <1>8, <1>10, <1>11, <2>1
<1>13. range[1] # hi =>
         <<range[1], hi>> \in Wanted(u, r.execution_time, node.allow_partials, ~AfterTick)
    BY <1>8, <1>12 DEF Wanted, Pairs
<1>14. range[1] # hi => <<range[1], hi>> \in WantedBy(r)  BY <1>13 DEF WantedBy, u
<1> QED  BY <1>1, <1>3, <1>4, <1>8, <1>11, <1>14 DEF IsRange, u, lo, last, e, range, hi, top

LEMMA MissingRight ==
    ASSUME node \in Nodes, NEW r, Asked(r), BeginsInTime(r)
    PROVE  Missing(r) \in Seq(WantedBy(r))
<1>1. CASE NothingToDo(r)
  <2>1. Missing(r) = << >>  BY <1>1, MissingIs
  <2> QED  BY <2>1
<1>2. CASE ~NothingToDo(r)
  <2>1. ~OutOfRange(r) /\ RangeOf(r)[1] # UpTo(r)  BY <1>2 DEF NothingToDo
  <2> DEFINE lo == RangeOf(r)[1]
             hi == UpTo(r)
             s == RecordedFor(r)
  <2>2. <<lo, hi>> \in Wanted(node.unit, r.execution_time, node.allow_partials, ~AfterTick)
      BY <2>1, RangeRight DEF IsRange, WantedBy
  <2>3. node.unit \in Nat \ {0} /\ r.execution_time \in Int  BY NodeTyped DEF Asked
  <2>4. Missing(r) = ComputeMissingIntervals(s, lo, hi, node)  BY <1>2, MissingIs
  <2> HIDE DEF lo, hi, s
  <2> QED  BY <2>2, <2>3, <2>4, MissingWanted DEF WantedBy
<1> QED  BY <1>1, <1>2

\* No batch is more than what was asked for and has come.
LEMMA BatchesRight ==
    ASSUME node \in Nodes, NEW r, Asked(r), BeginsInTime(r)
    PROVE  Batches(r) \in Seq(WantedBy(r))
<1> DEFINE P == WantedBy(r)
           candidates == Units(Contiguous(Missing(r), 0), node.unit)
           ready == Without(candidates, r.unready)
           merged == MergeIntervals(r.unready)
           diff == IntervalDiff(ready, merged, node.depends_on_past)
<1>1. node.unit \in Nat \ {0} /\ r.execution_time \in Int  BY NodeTyped DEF Asked
<1>2. P = Wanted(node.unit, r.execution_time, node.allow_partials, ~AfterTick)  BY DEF WantedBy
<1>3. Missing(r) \in Seq(P)  BY MissingRight
<1>4. Contiguous(Missing(r), 0) \in Seq(P)
  <2> HIDE DEF P
  <2> QED  BY <1>2, <1>3, ContiguousWanted
<1>5. candidates \in Seq(P)
  <2> HIDE DEF P
  <2> QED  BY <1>1, <1>2, <1>4, UnitsWanted
<1>6. ready \in Seq(P)
  <2> HIDE DEF P, candidates
  <2> QED  BY <1>5, WithoutWanted
<1>7. merged \in Seq(Pairs)
  <2>1. r.unready \in Seq(Pairs) /\ \A k \in 1..Len(r.unready) : r.unready[k][1] < r.unready[k][2]
    <3>1. r.unready = << >> \/ r.unready \in Signals  BY DEF Asked
    <3>2. r.unready \in Seq(Pairs) /\ \A k \in DOMAIN r.unready : r.unready[k][1] < r.unready[k][2]
      <4>1. CASE r.unready = << >>  BY <4>1
      <4>2. CASE r.unready \in Signals
        <5>1. r.unready \in Seq(Int \X Int) /\ \A k \in DOMAIN r.unready : r.unready[k][1] < r.unready[k][2]
            BY <4>2, MissingIntervalsConstants
        <5> QED  BY <5>1 DEF Pairs
      <4> QED  BY <3>1, <4>1, <4>2
    <3> QED  BY <3>2
  <2>2. EndsFrom(r.unready, Int)
    <3>1. \A k \in 1..Len(r.unready) : r.unready[k] \in Pairs  BY <2>1
    <3> QED  BY <3>1 DEF EndsFrom, Pairs
  <2>3. Canonical(merged)  BY <2>1, <2>2, MergeRight
  <2> QED  BY <2>3 DEF Canonical
<1>8. diff \in Seq(P)
  <2> HIDE DEF P, ready, merged
  <2> QED  BY <1>6, <1>7, DiffWanted
<1>9. Batches(r) = Contiguous(diff, node.batch_size)  BY DEF Batches
<1> HIDE DEF P, diff
<1> QED  BY <1>2, <1>8, <1>9, ContiguousWanted DEF P

(***************************************************************************)
(* The invariant.  What is recorded is in order, whole where it must be,   *)
(* and lies in the past; no batch reaches into the future; and whatever is *)
(* loaded is as of a time after all that is loaded later in its unit.      *)
(***************************************************************************)
Whole == {x \in Int : node.allow_partials \/ x % node.unit = 0}

ListInv ==
    /\ node \in Nodes /\ now \in Time
    /\ Canonical(intervals) /\ EndsFrom(intervals, Whole)
    /\ Ticks(intervals) \subseteq 0..(now - 1)

AsOfInv ==
    /\ asof \in [Time -> Time \cup {Never}]
    /\ \A t, u \in Ticks(intervals) :
          t <= u /\ Floor(t, node.unit) = Floor(u, node.unit) => asof[t] > u

RunInv ==
    /\ run = [status |-> run.status, request |-> run.request, batches |-> run.batches]
    /\ run.status \in {"idle", "running", "success", "stopped", "error"}
    /\ run.batches \in Seq(Wanted(node.unit, now, node.allow_partials, ~AfterTick))
    /\ run.batches # << >> => run.status \in {"running", "stopped", "error"}
    /\ run.status = "running" => run.request.execution_time = now

MissingIntervalsInv == ListInv /\ AsOfInv /\ RunInv

LEMMA TimeTyped ==
    /\ Horizon \in Nat /\ Time = 0..Horizon
    /\ \A t \in Time : t \in Nat /\ t <= Horizon
BY MissingIntervalsConstants DEF Time

LEMMA IdleRight ==
    ASSUME run' = Idle
    PROVE  RunInv'
<1>1. /\ run'.status = "idle" /\ run'.request = NoRequest /\ run'.batches = << >>
      /\ run' = [status |-> run'.status, request |-> run'.request, batches |-> run'.batches]
    BY DEF Idle
<1>2. << >> \in Seq(Wanted(node.unit, now, node.allow_partials, ~AfterTick)')  OBVIOUS
<1> QED  BY <1>1, <1>2 DEF RunInv

LEMMA InitInv == Init => MissingIntervalsInv
<1> SUFFICES ASSUME Init PROVE MissingIntervalsInv  OBVIOUS
<1>1. /\ node \in Nodes /\ now = node.start /\ intervals = << >>
      /\ asof = [t \in Time |-> Never] /\ run = Idle
    BY DEF Init
<1>2. now \in Time  BY <1>1, MissingIntervalsConstants DEF Time
<1>3. Canonical(intervals) /\ EndsFrom(intervals, Whole) /\ Ticks(intervals) = {}
    BY <1>1 DEF Canonical, IsCanonical, EndsFrom, Ticks, ToSet
<1>4. ListInv  BY <1>1, <1>2, <1>3 DEF ListInv
<1>5. AsOfInv  BY <1>1, <1>3 DEF AsOfInv
<1>6. RunInv
  <2>1. /\ run.status = "idle" /\ run.batches = << >>
        /\ run = [status |-> run.status, request |-> run.request, batches |-> run.batches]
      BY <1>1 DEF Idle
  <2>2. << >> \in Seq(Wanted(node.unit, now, node.allow_partials, ~AfterTick))  OBVIOUS
  <2> QED  BY <2>1, <2>2 DEF RunInv
<1> QED  BY <1>4, <1>5, <1>6 DEF MissingIntervalsInv

LEMMA TimePassesRight ==
    ASSUME MissingIntervalsInv, TimePasses
    PROVE  MissingIntervalsInv'
<1>1. /\ now < Horizon /\ now' = now + 1 /\ run' = Idle
      /\ node' = node /\ intervals' = intervals /\ asof' = asof
    BY DEF TimePasses
<1>2. ListInv /\ AsOfInv  BY DEF MissingIntervalsInv
<1>3. now' \in Time /\ 0..(now - 1) \subseteq 0..(now' - 1)
    BY <1>1, <1>2, TimeTyped DEF ListInv
<1>4. Whole' = Whole  BY <1>1 DEF Whole
<1>5. ListInv'  BY <1>1, <1>2, <1>3, <1>4 DEF ListInv
<1>6. AsOfInv'  BY <1>1, <1>2 DEF AsOfInv
<1>7. RunInv'  BY <1>1, IdleRight
<1> QED  BY <1>5, <1>6, <1>7 DEF MissingIntervalsInv

\* A run begins with what is wanted.
LEMMA RequestRight ==
    ASSUME MissingIntervalsInv, NEW r, Asked(r), r.execution_time = now, Request(r)
    PROVE  MissingIntervalsInv'
<1>1. /\ BeginsInTime(r) /\ node' = node /\ now' = now /\ intervals' = intervals /\ asof' = asof
      /\ run' = [status |-> IF Batches(r) = << >> THEN "success" ELSE "running",
                 request |-> r, batches |-> Batches(r)]
    BY DEF Request
<1>2. ListInv /\ AsOfInv /\ node \in Nodes  BY DEF MissingIntervalsInv, ListInv
<1>3. Batches(r) \in Seq(WantedBy(r))  BY <1>1, <1>2, BatchesRight
<1>4. WantedBy(r) = Wanted(node.unit, now, node.allow_partials, ~AfterTick)  BY DEF WantedBy
<1>5. Whole' = Whole  BY <1>1 DEF Whole
<1>6. ListInv' /\ AsOfInv'  BY <1>1, <1>2, <1>5 DEF ListInv, AsOfInv
<1>7. RunInv'
  <2> DEFINE b == Batches(r)
             st == IF b = << >> THEN "success" ELSE "running"
  <2>1. run' = [status |-> st, request |-> r, batches |-> b]  BY <1>1
  <2>2. st \in {"success", "running"} /\ (b # << >> => st = "running")  OBVIOUS
  <2>3. b \in Seq(Wanted(node.unit, now, node.allow_partials, ~AfterTick)')  BY <1>1, <1>3, <1>4
  <2> HIDE DEF b, st
  <2>4. /\ run'.status = st /\ run'.request = r /\ run'.batches = b
        /\ run' = [status |-> run'.status, request |-> run'.request, batches |-> run'.batches]
      BY <2>1
  <2> QED  BY <1>1, <2>2, <2>3, <2>4 DEF RunInv
<1> QED  BY <1>6, <1>7 DEF MissingIntervalsInv

\* The ticks of the batches are missing; and all that is missing is in one, unless
\* something is held back.
LEMMA BatchesTicks ==
    ASSUME node \in Nodes, ~AfterTick, NEW r, Asked(r), BeginsInTime(r)
    PROVE  /\ Ticks(Batches(r)) \subseteq Ticks(Missing(r))
           /\ r.unready = << >> => Ticks(Batches(r)) = Ticks(Missing(r))
<1> DEFINE P == WantedBy(r)
           missing == Missing(r)
           joined == Contiguous(missing, 0)
           candidates == Units(joined, node.unit)
           ready == Without(candidates, r.unready)
           merged == MergeIntervals(r.unready)
           diff == IntervalDiff(ready, merged, node.depends_on_past)
<1>1. node.unit \in Nat \ {0} /\ r.execution_time \in Int  BY NodeTyped DEF Asked
<1>2. P = Wanted(node.unit, r.execution_time, node.allow_partials, TRUE)  BY DEF WantedBy
<1>3. P \subseteq Pairs  BY <1>2 DEF Wanted
<1>4. missing \in Seq(P)  BY MissingRight
<1> HIDE DEF P, missing
<1>5. joined \in Seq(P) /\ Ticks(joined) = Ticks(missing)
  <2>1. joined \in Seq(P)  BY <1>2, <1>4, ContiguousWanted
  <2>2. missing \in Seq(Wanted(node.unit, r.execution_time, node.allow_partials, TRUE))
      BY <1>2, <1>4
  <2>3. SameTicks(joined, missing)  BY <2>2, ContiguousTicks
  <2> HIDE DEF joined
  <2> QED  BY <2>1, <2>3 DEF SameTicks
<1> HIDE DEF joined
<1>6. candidates \in Seq(P) /\ Ticks(candidates) = Ticks(joined)
  <2>1. candidates \in Seq(P)  BY <1>1, <1>2, <1>5, UnitsWanted
  <2>2. Ticks(candidates) = Ticks(joined)  BY <1>1, <1>2, <1>5, UnitsTicks
  <2> QED  BY <2>1, <2>2
<1> HIDE DEF candidates
<1>7. merged \in Seq(Pairs) /\ (r.unready = << >> => merged = << >>)
  <2>1. r.unready \in Seq(Pairs) /\ \A k \in 1..Len(r.unready) : r.unready[k][1] < r.unready[k][2]
    <3>1. r.unready = << >> \/ r.unready \in Signals  BY DEF Asked
    <3>2. CASE r.unready = << >>  BY <3>2
    <3>3. CASE r.unready \in Signals
      <4>1. /\ r.unready \in Seq(Int \X Int)
            /\ \A k \in DOMAIN r.unready : r.unready[k][1] < r.unready[k][2]
          BY <3>3, MissingIntervalsConstants
      <4> QED  BY <4>1 DEF Pairs
    <3> QED  BY <3>1, <3>2, <3>3
  <2>2. EndsFrom(r.unready, Int)
    <3>1. \A k \in 1..Len(r.unready) : r.unready[k] \in Pairs  BY <2>1
    <3> QED  BY <3>1 DEF EndsFrom, Pairs
  <2>3. Canonical(merged) /\ Ticks(merged) = Ticks(r.unready)  BY <2>1, <2>2, MergeRight
  <2> HIDE DEF merged
  <2>4. merged \in Seq(Pairs) /\ IsCanonical(merged)  BY <2>3 DEF Canonical
  <2>5. ASSUME r.unready = << >>, merged # << >> PROVE FALSE
    <3>1. 1 \in 1..Len(merged) /\ DOMAIN merged = 1..Len(merged)  BY <2>4, <2>5
    <3>2. merged[1] \in Pairs /\ merged[1][1] < merged[1][2]  BY <2>4, <3>1 DEF IsCanonical
    <3>3. merged[1][1] \in Int  BY <3>2 DEF Pairs
    <3>4. merged[1][1] \in Ticks(merged)  BY <2>4, <3>1, <3>2, <3>3, TicksOf
    <3>5. Ticks(<< >>) = {}  BY DEF Ticks, ToSet
    <3> QED  BY <2>3, <2>5, <3>4, <3>5
  <2> QED  BY <2>4, <2>5
<1>8. ready \in Seq(ToSet(candidates))
  <2>1. candidates \in Seq(ToSet(candidates))
    <3>1. ToSet(candidates) = {candidates[k] : k \in 1..Len(candidates)}  BY <1>6, MembersOf
    <3> QED  BY <1>6, <3>1
  <2> QED  BY <2>1, WithoutWanted
<1>9. diff \in Seq(ToSet(candidates)) /\ (r.unready = << >> => diff = ready)
  <2> HIDE DEF ready, merged
  <2>1. diff \in Seq(ToSet(candidates))  BY <1>7, <1>8, DiffWanted
  <2>2. merged = << >> => diff = ready  BY DEF IntervalDiff
  <2> QED  BY <1>7, <2>1, <2>2
<1>10. r.unready = << >> => Ticks(ready) = Ticks(candidates)
  <2>1. candidates \in Seq(Pairs)  BY <1>3, <1>6
  <2> QED  BY <2>1, WithoutNone
<1> HIDE DEF ready, diff
<1>11. Ticks(diff) \subseteq Ticks(candidates)  BY <1>6, <1>9, PartTicks
<1>12. Ticks(Batches(r)) = Ticks(diff)
  <2>1. diff \in Seq(P)
    <3>1. ToSet(candidates) \subseteq P  BY <1>6, MembersOf
    <3> QED  BY <1>9, <3>1
  <2>2. Ticks(Contiguous(diff, node.batch_size)) = Ticks(diff)
    <3>1. diff \in Seq(Wanted(node.unit, r.execution_time, node.allow_partials, TRUE))
        BY <1>2, <2>1
    <3>2. SameTicks(Contiguous(diff, node.batch_size), diff)  BY <3>1, ContiguousTicks
    <3> QED  BY <3>2 DEF SameTicks
  <2>3. Batches(r) = Contiguous(diff, node.batch_size)
      BY DEF Batches, diff, ready, candidates, joined, missing, merged
  <2> QED  BY <2>2, <2>3
<1> QED  BY <1>5, <1>6, <1>9, <1>10, <1>11, <1>12 DEF missing

\* The models of which RestatedAnew is true: those that start and end with a unit.
AlignedNodes ==
    \A n \in Nodes : n.start % n.unit = 0 /\ (n.end # NoEnd => n.end % n.unit = 0)

\* What a restatement asks for.
Restates(r) ==
    /\ r.restatement[1] \in Whole /\ r.restatement[2] \in Whole
    /\ r.restatement[1] < r.restatement[2]
    /\ r.unready = << >> /\ ~r.end_bounded

LEMMA RecordedRight ==
    ASSUME ListInv, NEW r, r.restatement # << >> => Restates(r)
    PROVE  /\ RecordedFor(r) \in Seq(Pairs)
           /\ r.restatement # << >> =>
                 Ticks(RecordedFor(r)) = Ticks(intervals) \ (r.restatement[1]..(r.restatement[2] - 1))
<1>1. Canonical(intervals) /\ EndsFrom(intervals, Whole)  BY DEF ListInv
<1>2. CASE r.restatement = << >>  BY <1>1, <1>2 DEF RecordedFor, Canonical
<1>3. CASE r.restatement # << >>
  <2> DEFINE lo == r.restatement[1]
             hi == r.restatement[2]
             s == RemoveInterval(intervals, lo, hi)
  <2>1. lo \in Whole /\ hi \in Whole /\ lo < hi  BY <1>3 DEF Restates
  <2>2. RecordedFor(r) = s  BY <1>3 DEF RecordedFor
  <2> HIDE DEF lo, hi
  <2>3. lo \in Int /\ hi \in Int  BY <2>1 DEF Whole
  <2>4. Canonical(s) /\ Ticks(s) = Ticks(intervals) \ (lo..(hi - 1))
      BY <1>1, <2>1, <2>3, RemoveRight
  <2> QED  BY <2>2, <2>4 DEF Canonical, lo, hi
<1> QED  BY <1>2, <1>3

\* Nothing is missing before the model starts or after it ends.
LEMMA BatchesInRange ==
    ASSUME ListInv, ~AfterTick, AlignedNodes,
           NEW r, Asked(r), BeginsInTime(r), r.restatement # << >> => Restates(r),
           NEW t \in Ticks(Batches(r))
    PROVE  node.start <= t /\ (node.end # NoEnd => t < node.end)
<1> DEFINE u == node.unit
           lo == RangeOf(r)[1]
           hi == UpTo(r)
<1>1. /\ node \in Nodes /\ u \in Nat \ {0} /\ node.start \in Nat
      /\ node.end = NoEnd \/ node.end \in Nat
      /\ node.start % u = 0 /\ (node.end # NoEnd => node.end % u = 0)
    BY NodeTyped DEF ListInv, AlignedNodes
<1>2. t \in Ticks(Missing(r))  BY <1>1, BatchesTicks
<1>3. ~NothingToDo(r)
  <2>1. Ticks(<< >>) = {}  BY DEF Ticks, ToSet
  <2> QED  BY <1>2, <2>1, MissingIs
<1>4. ~OutOfRange(r) /\ lo # hi  BY <1>3 DEF NothingToDo
<1>5. IsRange(r)  BY <1>1, <1>4, RangeRight
<1>6. t \in lo..(hi - 1)
  <2>1. <<lo, hi>> \in Wanted(node.unit, r.execution_time, node.allow_partials, TRUE)
      BY <1>4, <1>5 DEF IsRange, WantedBy
  <2>2. RecordedFor(r) \in Seq(Pairs)  BY RecordedRight
  <2>3. node.end \in Int /\ r.execution_time \in Int  BY <1>1 DEF NoEnd, Asked
  <2>4. Computed(RecordedFor(r), lo, hi, node, t)
    <3> HIDE DEF lo, hi
    <3> QED  BY <1>1, <2>1, <2>2, <2>3, ComputedTicks
  <2>5. t \in Ticks(ComputeMissingIntervals(RecordedFor(r), lo, hi, node))
      BY <1>2, <1>3, MissingIs
  <2> HIDE DEF lo, hi
  <2> QED  BY <2>4, <2>5 DEF Computed
<1>7. /\ lo = Floor(FirstTick(r), u) /\ FirstTick(r) \in Int
      /\ EndTick(r) \in Int /\ (node.end # NoEnd => EndTick(r) <= node.end)
      /\ RangeOf(r)[2] = IF node.allow_partials THEN EndTick(r) ELSE Ceiling(EndTick(r), u)
      /\ RangeOf(r)[2] \in Int /\ hi <= RangeOf(r)[2] /\ hi \in Int
  <2>1. RangeOf(r)[2] \in Int /\ UpperBound(r, RangeOf(r)[2]) \in Int
      BY <1>1, <1>5, UpperBoundRight DEF IsRange
  <2>2. hi = IF RangeOf(r)[2] <= UpperBound(r, RangeOf(r)[2]) THEN RangeOf(r)[2]
             ELSE UpperBound(r, RangeOf(r)[2])
      BY <1>5 DEF IsRange
  <2>3. hi \in Int /\ hi <= RangeOf(r)[2]
    <3> HIDE DEF hi
    <3> QED  BY <2>1, <2>2
  <2> QED  BY <1>5, <2>1, <2>3 DEF IsRange
<1>8. node.start <= lo
  <2>1. node.start <= FirstTick(r)
    <3> DEFINE x == IF r.restatement # << >> THEN r.restatement[1] ELSE r.start
    <3>1. x \in Nat  BY DEF Asked
    <3>2. FirstTick(r) = Max({x, node.start})  BY DEF FirstTick
    <3> HIDE DEF x
    <3>3. x \in Int /\ node.start \in Int  BY <1>1, <3>1
    <3>4. Max({x, node.start}) = IF x >= node.start THEN x ELSE node.start
        BY <3>3, MaxOfTwo
    <3> QED  BY <3>2, <3>3, <3>4
  <2> HIDE DEF lo, u
  <2>2. /\ FirstTick(r) \in Int /\ node.start \in Int /\ node.start % u = 0
        /\ lo = Floor(FirstTick(r), u)
      BY <1>1, <1>7
  <2>3. node.start <= Floor(FirstTick(r), u)  BY <1>1, <2>1, <2>2, FloorIsGreatest
  <2> QED  BY <2>2, <2>3
<1>9. node.end # NoEnd => hi <= node.end
  <2> SUFFICES ASSUME node.end # NoEnd PROVE hi <= node.end  OBVIOUS
  <2>1. Ceiling(EndTick(r), u) <= node.end /\ Ceiling(EndTick(r), u) \in Int
    <3> HIDE DEF u
    <3>1. /\ EndTick(r) \in Int /\ EndTick(r) <= node.end
          /\ node.end \in Int /\ node.end % u = 0
        BY <1>1, <1>7
    <3>2. Ceiling(EndTick(r), u) <= node.end  BY <1>1, <3>1, CeilingIsLeast
    <3>3. Ceiling(EndTick(r), u) \in Int  BY <1>1, <3>1, CeilingRight
    <3> QED  BY <3>2, <3>3
  <2> HIDE DEF hi, u
  <2> QED  BY <1>1, <1>7, <2>1
<1> HIDE DEF lo, hi, u
<1>10. lo \in Int /\ hi \in Int  BY <1>1, <1>7, FloorRight
<1> QED  BY <1>1, <1>6, <1>8, <1>9, <1>10

\* What is restated and over is missing, whatever has been recorded.
LEMMA RestatedMissing ==
    ASSUME ListInv, ~AfterTick, AlignedNodes,
           NEW r, Asked(r), BeginsInTime(r), r.restatement # << >>, Restates(r),
           NEW t \in Int, node.start <= t, node.end # NoEnd => t < node.end,
           r.restatement[1] <= t, t < r.restatement[2],
           (IF node.allow_partials THEN t + 1 ELSE CronNext(t, node.unit))
               <= CronFloor(r.execution_time)
    PROVE  t \in Ticks(Batches(r))
<1> DEFINE u == node.unit
           first == FirstTick(r)
           last == LastTick(r)
           e == EndTick(r)
           lo == RangeOf(r)[1]
           hi == UpTo(r)
           top == UpperBound(r, RangeOf(r)[2])
           over == CronFloor(r.execution_time)
<1>1. /\ node \in Nodes /\ u \in Nat \ {0} /\ node.cron \in Nat \ {0} /\ node.start \in Nat
      /\ node.end = NoEnd \/ node.end \in Nat
      /\ node.start % u = 0 /\ (node.end # NoEnd => node.end % u = 0)
    BY NodeTyped DEF ListInv, AlignedNodes
<1>2. /\ first \in Nat /\ first <= t
      /\ node.allow_partials \/ first % u = 0
  <2> DEFINE x == r.restatement[1]
  <2>1. x \in Nat  BY DEF Asked
  <2>2. node.allow_partials \/ x % u = 0  BY DEF Restates, Whole
  <2>3. first = Max({x, node.start})  BY DEF FirstTick
  <2>4. x <= t  OBVIOUS
  <2> HIDE DEF x, first, u
  <2>5. Max({x, node.start}) = IF x <= node.start THEN node.start ELSE x
      BY <1>1, <2>1, MaxOfTwo
  <2> QED  BY <1>1, <2>1, <2>2, <2>3, <2>4, <2>5
<1>3. last = r.restatement[2] /\ last \in Int /\ t < last /\ (node.allow_partials \/ last % u = 0)
    BY DEF LastTick, Restates, Whole
<1>4. ~OutOfRange(r)
  <2>1. ~(first > last) /\ ~(node.end # NoEnd /\ first > node.end)
    <3> HIDE DEF first, last
    <3> QED  BY <1>1, <1>2, <1>3
  <2> QED  BY <2>1 DEF OutOfRange
<1>5. IsRange(r)  BY <1>1, <1>4, RangeRight
<1>6. /\ e \in Int /\ t < e /\ (node.allow_partials \/ e % u = 0)
  <2>1. /\ e \in Int /\ e <= last /\ (node.end # NoEnd => e <= node.end)
        /\ last <= e \/ (node.end # NoEnd /\ node.end <= e)
      BY <1>5 DEF IsRange
  <2> HIDE DEF e, last, u
  <2>2. e = last \/ (node.end # NoEnd /\ e = node.end)  BY <1>1, <1>3, <2>1
  <2> QED  BY <1>1, <1>3, <2>1, <2>2
<1>7. node.allow_partials \/ ~(e - first < u)
  <2> SUFFICES ASSUME ~node.allow_partials PROVE ~(e - first < u)  OBVIOUS
  <2> HIDE DEF e, first, u
  <2>1. first < e /\ first % u = 0 /\ e % u = 0  BY <1>2, <1>6
  <2>2. Floor(first, u) = first
    <3>1. first \in Int /\ first % u = 0  BY <1>2, <2>1
    <3> QED  BY <1>1, <3>1, FloorRight
  <2>3. Floor(first, u) + u <= e
    <3>1. first \in Int /\ e \in Int /\ e % u = 0 /\ first < e  BY <1>2, <1>6, <2>1
    <3> QED  BY <1>1, <3>1, CeilingIsLeast
  <2> QED  BY <1>1, <1>2, <1>6, <2>2, <2>3
<1>8. lo \in Int /\ lo <= t
  <2>1. lo = Floor(first, u)  BY <1>5 DEF IsRange
  <2> HIDE DEF lo, first, u
  <2>2. first \in Int /\ first <= t /\ t \in Int  BY <1>2
  <2>3. Floor(first, u) \in Int /\ Floor(first, u) <= first  BY <1>1, <2>2, FloorRight
  <2> QED  BY <2>1, <2>2, <2>3
<1>9. over \in Int /\ top \in Int /\ t < top
  <2>1. r.execution_time \in Int /\ ~r.ignore_cron /\ ~r.end_bounded  BY DEF Asked, Restates
  <2>2. over \in Int  BY <1>1, <2>1, FloorRight DEF CronFloor
  <2>3. top = IF node.allow_partials THEN over ELSE Floor(over, u)  BY <2>1 DEF UpperBound
  <2>4. (IF node.allow_partials THEN t + 1 ELSE CronNext(t, u)) <= over  OBVIOUS
  <2> HIDE DEF top, over, u
  <2>5. CASE node.allow_partials  BY <2>2, <2>3, <2>4, <2>5
  <2>6. CASE ~node.allow_partials
    <3>1. /\ CronNext(t, u) = Floor(t, u) + u /\ CronNext(t, u) % u = 0
          /\ Floor(t, u) \in Int /\ t < Floor(t, u) + u
        BY <1>1, FloorRight, CeilingRight DEF CronNext
    <3>2. CronNext(t, u) \in Int /\ CronNext(t, u) <= over  BY <1>1, <2>4, <2>6, <3>1
    <3>3. CronNext(t, u) <= Floor(over, u) /\ Floor(over, u) \in Int
        BY <1>1, <2>2, <3>1, <3>2, FloorRight, FloorIsGreatest
    <3>4. top = Floor(over, u)  BY <2>3, <2>6
    <3>5. t \in Int /\ t < CronNext(t, u)  BY <1>1, <3>1
    <3> QED  BY <2>2, <3>2, <3>3, <3>4, <3>5
  <2> QED  BY <2>2, <2>5, <2>6
<1>10. hi \in Int /\ t < hi
  <2>1. /\ RangeOf(r)[2] \in Int /\ e <= RangeOf(r)[2]
        /\ hi = IF RangeOf(r)[2] <= top THEN RangeOf(r)[2] ELSE top
      BY <1>5 DEF IsRange
  <2> HIDE DEF hi, top, e
  <2> QED  BY <1>6, <1>9, <2>1
<1>11. lo # hi /\ t \in lo..(hi - 1)
  <2> HIDE DEF lo, hi
  <2> QED  BY <1>8, <1>10
<1>12. ~NothingToDo(r)  BY <1>4, <1>7, <1>11 DEF NothingToDo
<1>13. t \in Ticks(Missing(r))
  <2>1. <<lo, hi>> \in Wanted(node.unit, r.execution_time, node.allow_partials, TRUE)
      BY <1>5, <1>11 DEF IsRange, WantedBy
  <2>2. RecordedFor(r) \in Seq(Pairs) /\ t \notin Ticks(RecordedFor(r))
    <3>1. /\ RecordedFor(r) \in Seq(Pairs)
          /\ Ticks(RecordedFor(r)) = Ticks(intervals) \ (r.restatement[1]..(r.restatement[2] - 1))
        BY RecordedRight
    <3>2. r.restatement[1] \in Int /\ r.restatement[2] \in Int  BY DEF Restates, Whole
    <3>3. t \in r.restatement[1]..(r.restatement[2] - 1)  BY <3>2
    <3> QED  BY <3>1, <3>3
  <2>3. node.end \in Int /\ r.execution_time \in Int  BY <1>1 DEF NoEnd, Asked
  <2>4. Computed(RecordedFor(r), lo, hi, node, t)
    <3> HIDE DEF lo, hi
    <3> QED  BY <1>1, <2>1, <2>2, <2>3, ComputedTicks
  <2>5. Missing(r) = ComputeMissingIntervals(RecordedFor(r), lo, hi, node)
      BY <1>12, MissingIs
  <2>6. node.end # NoEnd => Floor(t, node.unit) < node.end
    <3>1. Floor(t, node.unit) <= t /\ Floor(t, node.unit) \in Int  BY <1>1, FloorRight
    <3> QED  BY <1>1, <3>1 DEF NoEnd
  <2> HIDE DEF lo, hi
  <2> QED  BY <1>11, <2>2, <2>4, <2>5, <2>6 DEF Computed
<1>14. r.unready = << >>  BY DEF Restates
<1> QED  BY <1>1, <1>13, <1>14, BatchesTicks

LEMMA RunRight ==
    ASSUME MissingIntervalsInv,
           NEW start \in Time, NEW end \in Time, NEW ignore_cron, NEW end_bounded,
           NEW unready \in Signals, Run(start, end, ignore_cron, end_bounded, unready)
    PROVE  MissingIntervalsInv'
<1> DEFINE r == [start |-> start, end |-> end, execution_time |-> now,
                 ignore_cron |-> ignore_cron, end_bounded |-> end_bounded,
                 restatement |-> << >>, unready |-> unready]
<1>1. Request(r) /\ end <= now  BY DEF Run
<1>2. /\ r.start = start /\ r.end = end /\ r.execution_time = now
      /\ r.restatement = << >> /\ r.unready = unready
    OBVIOUS
<1> HIDE DEF r
<1>3. start \in Nat /\ end \in Nat /\ now \in Nat
    BY TimeTyped DEF MissingIntervalsInv, ListInv
<1>4. Asked(r)  BY <1>1, <1>2, <1>3 DEF Asked
<1> QED  BY <1>1, <1>2, <1>4, RequestRight

\* What is restated or cleared begins before it ends, with whole units unless the model
\* has partial intervals.
LEMMA RestatedRight ==
    ASSUME ListInv, NEW start \in Time, NEW end \in Time, start < end, end <= now
    PROVE  /\ RestatedInterval(start, end)[1] \in Nat /\ RestatedInterval(start, end)[2] \in Int
           /\ RestatedInterval(start, end)[1] < RestatedInterval(start, end)[2]
           /\ RestatedInterval(start, end)[1] \in Whole /\ RestatedInterval(start, end)[2] \in Whole
           /\ RestatedInterval(start, end) # << >>
           /\ RestatedInterval(start, end)[1]
                 <= (IF node.full_history /\ intervals # << >> THEN intervals[1][1] ELSE start)
           /\ (IF node.depends_on_past THEN now ELSE end) <= RestatedInterval(start, end)[2]
<1> DEFINE u == node.unit
           last == IF node.depends_on_past THEN now ELSE end
           first == IF node.full_history /\ intervals # << >> THEN intervals[1][1] ELSE start
           removal == RemovalInterval(start, end)
           restated == RestatedInterval(start, end)
<1>1. /\ u \in Nat \ {0} /\ start \in Nat /\ end \in Nat /\ now \in Nat
      /\ node.full_history => node.depends_on_past
    BY NodeTyped, TimeTyped DEF ListInv
<1>2. intervals # << >> => intervals[1][1] \in Nat /\ intervals[1][1] < now
  <2> SUFFICES ASSUME intervals # << >> PROVE intervals[1][1] \in Nat /\ intervals[1][1] < now
      OBVIOUS
  <2>1. intervals \in Seq(Pairs) /\ IsCanonical(intervals)  BY DEF ListInv, Canonical
  <2>2. 1 \in 1..Len(intervals) /\ DOMAIN intervals = 1..Len(intervals)  BY <2>1
  <2>3. intervals[1] \in Pairs /\ intervals[1][1] < intervals[1][2]
      BY <2>1, <2>2 DEF IsCanonical
  <2>4. intervals[1][1] \in Int  BY <2>3 DEF Pairs
  <2>5. intervals[1][1] \in Ticks(intervals)  BY <2>1, <2>2, <2>3, <2>4, TicksOf
  <2>6. intervals[1][1] \in 0..(now - 1)  BY <2>5 DEF ListInv
  <2> QED  BY <1>1, <2>6
<1>3. first \in Nat /\ last \in Nat /\ first < last
  <2>1. CASE node.full_history /\ intervals # << >>  BY <1>1, <1>2, <2>1
  <2>2. CASE ~(node.full_history /\ intervals # << >>)  BY <1>1, <2>2
  <2> QED  BY <2>1, <2>2
<1>4. removal = <<Floor(first, u), IF node.allow_partials THEN last ELSE Ceiling(last, u)>>
    BY DEF RemovalInterval, InclusiveExclusive
<1>5. restated = IF Floor(removal[2], u) < removal[2]
                 THEN <<Floor(removal[1], u), Ceiling(removal[2], u)>> ELSE removal
    BY DEF RestatedInterval
<1>6. /\ first = IF node.full_history /\ intervals # << >> THEN intervals[1][1] ELSE start
      /\ last = IF node.depends_on_past THEN now ELSE end
    OBVIOUS
<1> HIDE DEF first, last, removal, restated, u
<1>7. /\ removal[1] \in Nat /\ removal[1] % u = 0 /\ removal[1] <= first
      /\ removal[2] \in Int /\ last <= removal[2]
      /\ node.allow_partials \/ removal[2] % u = 0
  <2>1. /\ Floor(first, u) \in Int /\ Floor(first, u) % u = 0 /\ Floor(first, u) <= first
        /\ Floor(first, u) >= 0
      BY <1>1, <1>3, FloorRight
  <2>2. Ceiling(last, u) \in Int /\ Ceiling(last, u) % u = 0 /\ last <= Ceiling(last, u)
      BY <1>1, <1>3, CeilingRight
  <2> QED  BY <1>3, <1>4, <2>1, <2>2
<1>8. /\ Floor(removal[1], u) = removal[1]
      /\ Ceiling(removal[2], u) \in Int /\ Ceiling(removal[2], u) % u = 0
      /\ removal[2] <= Ceiling(removal[2], u)
  <2>1. removal[1] \in Int /\ removal[1] % u = 0 /\ removal[2] \in Int  BY <1>7
  <2> QED  BY <1>1, <2>1, FloorRight, CeilingRight
<1>9. /\ restated[1] = removal[1]
      /\ restated[2] = removal[2] \/ restated[2] = Ceiling(removal[2], u)
      /\ restated # << >>
    BY <1>4, <1>5, <1>8
<1>10. /\ restated[1] \in Nat /\ restated[2] \in Int /\ restated[1] < restated[2]
       /\ restated[1] % u = 0 /\ (node.allow_partials \/ restated[2] % u = 0)
       /\ restated[1] <= first /\ last <= restated[2]
    BY <1>3, <1>7, <1>8, <1>9
<1> QED  BY <1>6, <1>9, <1>10 DEF Whole, restated, u

\* A restated interval is made of whole units, for models with partial intervals too.
LEMMA RestatedUnits ==
    ASSUME ListInv, NEW start \in Time, NEW end \in Time, start < end, end <= now
    PROVE  RestatedInterval(start, end)[1] % node.unit = 0
           /\ RestatedInterval(start, end)[2] % node.unit = 0
<1> DEFINE u == node.unit
           last == IF node.depends_on_past THEN now ELSE end
           first == IF node.full_history /\ intervals # << >> THEN intervals[1][1] ELSE start
           removal == RemovalInterval(start, end)
           restated == RestatedInterval(start, end)
<1>1. u \in Nat \ {0} /\ start \in Nat /\ last \in Int
    BY NodeTyped, TimeTyped DEF ListInv
<1>2. first \in Int
  <2> SUFFICES ASSUME intervals # << >> PROVE intervals[1][1] \in Int  BY <1>1
  <2>1. intervals \in Seq(Pairs)  BY DEF ListInv, Canonical
  <2>2. intervals[1] \in Pairs  BY <2>1
  <2> QED  BY <2>2 DEF Pairs
<1>3. removal = <<Floor(first, u), IF node.allow_partials THEN last ELSE Ceiling(last, u)>>
    BY DEF RemovalInterval, InclusiveExclusive
<1>4. restated = IF Floor(removal[2], u) < removal[2]
                 THEN <<Floor(removal[1], u), Ceiling(removal[2], u)>> ELSE removal
    BY DEF RestatedInterval
<1> HIDE DEF first, last, removal, restated, u
<1>5. removal[1] \in Int /\ removal[1] % u = 0 /\ removal[2] \in Int
    BY <1>1, <1>2, <1>3, FloorRight, CeilingRight
<1>6. /\ Floor(removal[1], u) % u = 0 /\ Ceiling(removal[2], u) % u = 0
      /\ Floor(removal[2], u) \in Int /\ Floor(removal[2], u) <= removal[2]
      /\ Floor(removal[2], u) % u = 0
    BY <1>1, <1>5, FloorRight, CeilingRight
<1>7. ~(Floor(removal[2], u) < removal[2]) => removal[2] = Floor(removal[2], u)  BY <1>5, <1>6
<1>8. restated[1] % u = 0 /\ restated[2] % u = 0
  <2>1. CASE Floor(removal[2], u) < removal[2]  BY <1>4, <1>6, <2>1
  <2>2. CASE ~(Floor(removal[2], u) < removal[2])  BY <1>4, <1>5, <1>6, <1>7, <2>2
  <2> QED  BY <2>1, <2>2
<1> QED  BY <1>8 DEF restated, u

LEMMA RestateRight ==
    ASSUME MissingIntervalsInv, NEW start \in Time, NEW end \in Time, Restate(start, end)
    PROVE  MissingIntervalsInv'
<1> DEFINE i == RestatedInterval(start, end)
           r == [NoRequest EXCEPT !.start = start, !.end = end, !.execution_time = now,
                                  !.restatement = i]
<1>1. start < end /\ end <= now  BY DEF Restate
<1>2. ListInv  BY DEF MissingIntervalsInv
<1>3. i[1] \in Nat /\ i[2] \in Int  BY <1>1, <1>2, RestatedRight
<1>4. Request(r)  BY DEF Restate
<1>5. /\ r.start = start /\ r.end = end /\ r.execution_time = now
      /\ r.restatement = i /\ r.unready = << >> /\ r.ignore_cron = FALSE
    BY DEF NoRequest
<1> HIDE DEF r, i
<1>6. start \in Nat /\ end \in Nat /\ now \in Nat  BY <1>2, TimeTyped DEF ListInv
<1>7. Asked(r)  BY <1>1, <1>3, <1>5, <1>6 DEF Asked
<1> QED  BY <1>4, <1>5, <1>7, RequestRight

LEMMA ClearIntervalsRight ==
    ASSUME MissingIntervalsInv, NEW start \in Time, NEW end \in Time, ClearIntervals(start, end)
    PROVE  MissingIntervalsInv'
<1> DEFINE i == RestatedInterval(start, end)
<1>1. /\ start < end /\ end <= now /\ run' = Idle
      /\ intervals' = RemoveInterval(intervals, i[1], i[2])
      /\ node' = node /\ now' = now /\ asof' = asof
    BY DEF ClearIntervals
<1>2. ListInv /\ AsOfInv  BY DEF MissingIntervalsInv
<1>3. /\ i[1] \in Int /\ i[2] \in Int /\ i[1] < i[2] /\ i[1] \in Whole /\ i[2] \in Whole
  <2>1. i[1] \in Nat /\ i[2] \in Int /\ i[1] < i[2] /\ i[1] \in Whole /\ i[2] \in Whole
      BY <1>1, <1>2, RestatedRight
  <2> HIDE DEF i
  <2> QED  BY <2>1
<1> HIDE DEF i
<1>4. /\ Canonical(intervals') /\ EndsFrom(intervals', Whole)
      /\ Ticks(intervals') \subseteq Ticks(intervals)
  <2>1. Canonical(intervals) /\ EndsFrom(intervals, Whole)  BY <1>2 DEF ListInv
  <2>2. /\ Canonical(RemoveInterval(intervals, i[1], i[2]))
        /\ EndsFrom(RemoveInterval(intervals, i[1], i[2]), Whole)
        /\ Ticks(RemoveInterval(intervals, i[1], i[2])) = Ticks(intervals) \ (i[1]..(i[2] - 1))
      BY <1>3, <2>1, RemoveRight
  <2> QED  BY <1>1, <2>2
<1>5. Whole' = Whole  BY <1>1 DEF Whole
<1>6. Ticks(intervals)' = Ticks(intervals')  OBVIOUS
<1>7. ListInv'
  <2>1. Canonical(intervals)' /\ EndsFrom(intervals, Whole)'
      BY <1>4, <1>5 DEF Canonical, IsCanonical, EndsFrom
  <2> QED  BY <1>1, <1>2, <1>4, <1>6, <2>1 DEF ListInv
<1>8. AsOfInv'  BY <1>1, <1>2, <1>4, <1>6 DEF AsOfInv
<1>9. RunInv'  BY <1>1, IdleRight
<1> QED  BY <1>7, <1>8, <1>9 DEF MissingIntervalsInv

LEMMA StopRight ==
    ASSUME MissingIntervalsInv, Stop
    PROVE  MissingIntervalsInv'
<1>1. /\ run.status = "running" /\ run' = [run EXCEPT !.status = "stopped"]
      /\ node' = node /\ now' = now /\ intervals' = intervals /\ asof' = asof
    BY DEF Stop
<1>2. ListInv /\ AsOfInv /\ RunInv  BY DEF MissingIntervalsInv
<1>3. Whole' = Whole  BY <1>1 DEF Whole
<1>4. ListInv' /\ AsOfInv'  BY <1>1, <1>2, <1>3 DEF ListInv, AsOfInv
<1>5. run = [status |-> run.status, request |-> run.request, batches |-> run.batches]
    BY <1>2 DEF RunInv
<1>6. run' = [status |-> "stopped", request |-> run.request, batches |-> run.batches]
    BY <1>1, <1>5
<1>7. /\ run'.status = "stopped" /\ run'.request = run.request /\ run'.batches = run.batches
      /\ run' = [status |-> run'.status, request |-> run'.request, batches |-> run'.batches]
    BY <1>6
<1>8. run'.batches \in Seq(Wanted(node.unit, now, node.allow_partials, ~AfterTick)')
    BY <1>1, <1>2, <1>7 DEF RunInv
<1>9. RunInv'  BY <1>7, <1>8 DEF RunInv
<1> QED  BY <1>4, <1>9 DEF MissingIntervalsInv

\* What is evaluated is recorded, no more and no less, and is as of now.
LEMMA AddIntervalRight ==
    ASSUME ListInv, NEW b \in Wanted(node.unit, now, node.allow_partials, ~AfterTick),
           AddInterval(b[1], b[2])
    PROVE  /\ Canonical(intervals') /\ EndsFrom(intervals', Whole)
           /\ Ticks(intervals') = Ticks(intervals) \cup b[1]..(b[2] - 1)
<1> DEFINE u == node.unit
           i == InclusiveExclusive(b[1], b[2], u, node.allow_partials, FALSE)
<1>1. intervals' = IF i[1] >= i[2] THEN intervals ELSE MergeIntervals(Append(intervals, i))
    BY DEF AddInterval
<1>2. /\ b \in Pairs /\ b[1] \in Int /\ b[2] \in Int /\ b = <<b[1], b[2]>>
      /\ b[1] % u = 0 /\ (node.allow_partials \/ b[2] % u = 0)
    BY DEF Wanted, Pairs
<1>3. u \in Nat \ {0}  BY NodeTyped DEF ListInv
<1>4. i = b
  <2> HIDE DEF u
  <2>1. Floor(b[1], u) = b[1] /\ Ceiling(b[1], u) = b[1]  BY <1>2, <1>3, FloorRight, CeilingRight
  <2>2. ~node.allow_partials => Floor(b[2], u) = b[2]  BY <1>2, <1>3, FloorRight
  <2>3. i = <<b[1], b[2]>>  BY <2>1, <2>2 DEF InclusiveExclusive
  <2> QED  BY <1>2, <2>3
<1> HIDE DEF i
<1>5. Canonical(intervals) /\ EndsFrom(intervals, Whole)  BY DEF ListInv
<1>6. CASE b[1] >= b[2]
  <2>1. intervals' = intervals  BY <1>1, <1>4, <1>6
  <2>2. b[1]..(b[2] - 1) = {}  BY <1>2, <1>6
  <2> QED  BY <1>5, <2>1, <2>2
<1>7. CASE b[1] < b[2]
  <2> DEFINE s == Append(intervals, b)
             n == Len(intervals)
  <2>1. intervals' = MergeIntervals(s)  BY <1>1, <1>2, <1>4, <1>7
  <2>2. /\ intervals \in Seq(Pairs) /\ n \in Nat
        /\ \A k \in 1..n : intervals[k][1] < intervals[k][2]
      BY <1>5 DEF Canonical, IsCanonical
  <2>3. s \in Seq(Pairs) /\ ToSet(s) = ToSet(intervals) \cup {b}
      BY <1>2, <2>2, MembersOfAppend
  <2>4. /\ Len(s) = n + 1 /\ s[n + 1] = b
        /\ \A k \in 1..n : s[k] = intervals[k]
        /\ \A k \in 1..(n + 1) : k = n + 1 \/ k \in 1..n
      BY <1>2, <2>2
  <2>5. b[1] \in Whole /\ b[2] \in Whole  BY <1>2 DEF Whole
  <2> HIDE DEF s, n
  <2>6. \A k \in 1..Len(s) : s[k][1] < s[k][2]  BY <1>7, <2>2, <2>4
  <2>7. EndsFrom(s, Whole)  BY <1>5, <2>4, <2>5 DEF EndsFrom, n
  <2>8. Canonical(MergeIntervals(s)) /\ EndsFrom(MergeIntervals(s), Whole)
        /\ Ticks(MergeIntervals(s)) = Ticks(s)
      BY <2>3, <2>6, <2>7, MergeRight
  <2>9. Ticks(s) = Ticks(intervals) \cup b[1]..(b[2] - 1)  BY <2>3 DEF Ticks
  <2> QED  BY <2>1, <2>8, <2>9
<1> QED  BY <1>2, <1>6, <1>7

LEMMA EvaluateBatchRight ==
    ASSUME MissingIntervalsInv, NEW k \in DOMAIN run.batches, EvaluateBatch(k)
    PROVE  MissingIntervalsInv'
<1> DEFINE P == Wanted(node.unit, now, node.allow_partials, ~AfterTick)
           b == run.batches[k]
           left == RemoveAt(run.batches, k)
<1>1. ListInv /\ AsOfInv /\ RunInv  BY DEF MissingIntervalsInv
<1>2. node' = node /\ now' = now /\ run.status = "running"  BY DEF EvaluateBatch
<1>3. /\ run = [status |-> run.status, request |-> run.request, batches |-> run.batches]
      /\ run.batches \in Seq(P) /\ run.request.execution_time = now
    BY <1>1, <1>2 DEF RunInv
<1>4. Whole' = Whole /\ Wanted(node.unit, now, node.allow_partials, ~AfterTick)' = P
    BY <1>2 DEF Whole
<1>5. b \in P  BY <1>3
<1>6. left \in Seq(P)  BY <1>3, MembersOfRemoveAt
<1>7. CASE b[1] > b[2]
  <2>1. run' = [run EXCEPT !.status = "error"] /\ intervals' = intervals /\ asof' = asof
      BY <1>7 DEF EvaluateBatch
  <2>2. ListInv' /\ AsOfInv'  BY <1>1, <1>2, <1>4, <2>1 DEF ListInv, AsOfInv
  <2>3. run' = [status |-> "error", request |-> run.request, batches |-> run.batches]
      BY <1>3, <2>1
  <2>4. /\ run'.status = "error" /\ run'.request = run.request /\ run'.batches = run.batches
        /\ run' = [status |-> run'.status, request |-> run'.request, batches |-> run'.batches]
      BY <2>3
  <2> HIDE DEF P
  <2>5. RunInv'  BY <1>3, <1>4, <2>4 DEF RunInv
  <2> QED  BY <2>2, <2>5 DEF MissingIntervalsInv
<1>8. CASE ~(b[1] > b[2])
  <2>1. /\ AddInterval(b[1], b[2])
        /\ asof' = [t \in Time |-> IF b[1] <= t /\ t < b[2]
                                    THEN run.request.execution_time ELSE asof[t]]
        /\ run' = [run EXCEPT !.batches = left,
                              !.status = IF left = << >> THEN "success" ELSE @]
      BY <1>8 DEF EvaluateBatch
  <2>2. asof' = [t \in Time |-> IF b[1] <= t /\ t < b[2] THEN now ELSE asof[t]]
      BY <1>3, <2>1
  <2> HIDE DEF left
  <2>3. RunInv'
    <3> DEFINE st == IF left = << >> THEN "success" ELSE "running"
    <3>1. run' = [status |-> st, request |-> run.request, batches |-> left]
        BY <1>2, <1>3, <2>1
    <3>2. st \in {"success", "running"} /\ (left # << >> => st = "running")  OBVIOUS
    <3> HIDE DEF st, P
    <3>3. /\ run'.status = st /\ run'.request = run.request /\ run'.batches = left
          /\ run' = [status |-> run'.status, request |-> run'.request, batches |-> run'.batches]
        BY <3>1
    <3> QED  BY <1>2, <1>3, <1>4, <1>6, <3>2, <3>3 DEF RunInv
  <2> HIDE DEF b
  <2>4. /\ Canonical(intervals') /\ EndsFrom(intervals', Whole)
        /\ Ticks(intervals') = Ticks(intervals) \cup b[1]..(b[2] - 1)
      BY <1>1, <1>5, <2>1, AddIntervalRight
  <2>5. /\ b[1] \in Int /\ b[2] \in Int /\ b[1] >= 0 /\ b[2] <= now /\ b[1] % node.unit = 0
        /\ now \in Nat /\ now \in Time /\ now <= Horizon /\ node.unit \in Nat \ {0}
    <3>1. now \in Time /\ node \in Nodes  BY <1>1 DEF ListInv
    <3> QED  BY <1>5, <3>1, TimeTyped, NodeTyped DEF Wanted, Pairs
  <2>6. Ticks(intervals) \subseteq 0..(now - 1)  BY <1>1 DEF ListInv
  <2>7. b[1]..(b[2] - 1) \subseteq 0..(now - 1)  BY <2>5
  <2>8. Ticks(intervals') \subseteq 0..(now - 1)  BY <2>4, <2>6, <2>7
  <2>9. ListInv'
    <3>1. Canonical(intervals)' /\ EndsFrom(intervals, Whole)'
        BY <1>4, <2>4 DEF Canonical, IsCanonical, EndsFrom
    <3>2. Ticks(intervals)' \subseteq 0..(now - 1)'  BY <1>2, <2>8
    <3> QED  BY <1>1, <1>2, <3>1, <3>2 DEF ListInv
  <2>10. asof' \in [Time -> Time \cup {Never}]
    <3>1. asof \in [Time -> Time \cup {Never}]  BY <1>1 DEF AsOfInv
    <3> QED  BY <2>2, <2>5, <3>1
  <2>11. ASSUME NEW t \in Ticks(intervals'), NEW v \in Ticks(intervals'),
                t <= v, Floor(t, node.unit) = Floor(v, node.unit)
         PROVE  asof'[t] > v
    <3>1. /\ t \in Int /\ v \in Int /\ t \in 0..(now - 1) /\ v \in 0..(now - 1) /\ t \in Time
      <4>1. t \in 0..(now - 1) /\ v \in 0..(now - 1)  BY <2>8
      <4>2. 0..(now - 1) \subseteq Time  BY <2>5, TimeTyped
      <4> QED  BY <4>1, <4>2
    <3>2. CASE b[1] <= t /\ t < b[2]
      <4>1. asof'[t] = now  BY <2>2, <3>1, <3>2
      <4> QED  BY <2>5, <3>1, <4>1
    <3>3. CASE ~(b[1] <= t /\ t < b[2])
      <4>1. asof'[t] = asof[t] /\ t \in Ticks(intervals)
        <5>1. t \notin b[1]..(b[2] - 1)  BY <2>5, <3>3
        <5> QED  BY <2>2, <2>4, <3>1, <3>3, <5>1
      <4>2. v \in Ticks(intervals)
        <5>1. SUFFICES ASSUME v \in b[1]..(b[2] - 1) PROVE FALSE  BY <2>4
        <5>2. b[1] <= v /\ v < b[2] /\ t < b[1]  BY <2>5, <3>1, <3>3, <5>1, <2>11
        <5>3. b[1] <= Floor(v, node.unit)  BY <2>5, <3>1, <5>2, FloorIsGreatest
        <5>4. Floor(t, node.unit) <= t /\ Floor(t, node.unit) \in Int
            BY <2>5, <3>1, FloorRight
        <5> QED  BY <2>5, <2>11, <3>1, <5>2, <5>3, <5>4
      <4> QED  BY <1>1, <2>11, <4>1, <4>2 DEF AsOfInv
    <3> QED  BY <3>2, <3>3
  <2>12. AsOfInv'
    <3>1. Ticks(intervals)' = Ticks(intervals')  OBVIOUS
    <3>2. \A t, v \in Ticks(intervals') :
             t <= v /\ Floor(t, node.unit) = Floor(v, node.unit) => asof'[t] > v
        BY <2>11
    <3> QED  BY <1>2, <2>10, <3>1, <3>2 DEF AsOfInv
  <2> QED  BY <2>3, <2>9, <2>12 DEF MissingIntervalsInv
<1> QED  BY <1>7, <1>8

\* A batch goes over from what is left to what is recorded.
LEMMA BatchMoves ==
    ASSUME MissingIntervalsInv, ~AfterTick, NEW k \in DOMAIN run.batches, EvaluateBatch(k)
    PROVE  /\ node' = node /\ now' = now /\ run.status = "running"
           /\ run'.request = run.request /\ run.request.execution_time = now
           /\ run.batches[k] \in Wanted(node.unit, now, node.allow_partials, TRUE)
           /\ asof' = [t \in Time |-> IF run.batches[k][1] <= t /\ t < run.batches[k][2]
                                      THEN run.request.execution_time ELSE asof[t]]
           /\ Ticks(intervals') = Ticks(intervals) \cup run.batches[k][1]..(run.batches[k][2] - 1)
           /\ Ticks(run.batches)
                 = Ticks(run'.batches) \cup run.batches[k][1]..(run.batches[k][2] - 1)
<1> DEFINE P == Wanted(node.unit, now, node.allow_partials, TRUE)
           b == run.batches[k]
           left == RemoveAt(run.batches, k)
           st == IF left = << >> THEN "success" ELSE run.status
<1>1. ListInv /\ AsOfInv /\ RunInv  BY DEF MissingIntervalsInv
<1>2. node' = node /\ now' = now /\ run.status = "running"  BY DEF EvaluateBatch
<1>3. /\ run = [status |-> run.status, request |-> run.request, batches |-> run.batches]
      /\ run.batches \in Seq(P) /\ run.request.execution_time = now
    BY <1>1, <1>2 DEF RunInv
<1>4. b \in P
  <2> HIDE DEF P
  <2> QED  BY <1>3
<1>5. b \in Wanted(node.unit, now, node.allow_partials, ~AfterTick)
      /\ b[1] \in Int /\ b[2] \in Int /\ b[1] < b[2]
    BY <1>4 DEF Wanted, Pairs
<1>6. /\ AddInterval(b[1], b[2])
      /\ asof' = [t \in Time |-> IF b[1] <= t /\ t < b[2]
                                  THEN run.request.execution_time ELSE asof[t]]
      /\ run' = [run EXCEPT !.batches = left, !.status = st]
  <2>1. ~(b[1] > b[2])
    <3> HIDE DEF b
    <3> QED  BY <1>5
  <2> QED  BY <2>1 DEF EvaluateBatch
<1>7. run'.request = run.request /\ run'.batches = left
  <2> HIDE DEF left, st
  <2>1. run' = [status |-> st, request |-> run.request, batches |-> left]  BY <1>3, <1>6
  <2> QED  BY <2>1
<1>8. Ticks(intervals') = Ticks(intervals) \cup b[1]..(b[2] - 1)
  <2> HIDE DEF b
  <2> QED  BY <1>1, <1>5, <1>6, AddIntervalRight
<1>9. Ticks(run.batches) = Ticks(left) \cup b[1]..(b[2] - 1)
  <2> HIDE DEF P
  <2>1. ToSet(run.batches) = ToSet(left) \cup {b}  BY <1>3, MembersAtAndLeft
  <2> HIDE DEF left, b
  <2> QED  BY <2>1 DEF Ticks
<1>10. Ticks(run.batches) = Ticks(run'.batches) \cup b[1]..(b[2] - 1)  BY <1>7, <1>9
<1> QED  BY <1>2, <1>3, <1>4, <1>6, <1>7, <1>8, <1>10

LEMMA NextInv == MissingIntervalsInv /\ [Next]_vars => MissingIntervalsInv'
<1> SUFFICES ASSUME MissingIntervalsInv, [Next]_vars PROVE MissingIntervalsInv'  OBVIOUS
<1>1. CASE TimePasses  BY <1>1, TimePassesRight
<1>2. CASE \E start, end \in Time, ignore_cron, end_bounded \in BOOLEAN, unready \in Signals :
              Run(start, end, ignore_cron, end_bounded, unready)
    BY <1>2, RunRight
<1>3. CASE \E start, end \in Time : Restate(start, end) \/ ClearIntervals(start, end)
    BY <1>3, RestateRight, ClearIntervalsRight
<1>4. CASE \E k \in DOMAIN run.batches : EvaluateBatch(k)  BY <1>4, EvaluateBatchRight
<1>5. CASE Stop  BY <1>5, StopRight
<1>6. CASE UNCHANGED vars
  <2>1. /\ node' = node /\ now' = now /\ intervals' = intervals /\ asof' = asof /\ run' = run
      BY <1>6 DEF vars
  <2>2. ListInv /\ AsOfInv /\ RunInv  BY DEF MissingIntervalsInv
  <2>3. Whole' = Whole  BY <2>1 DEF Whole
  <2>4. ListInv' /\ AsOfInv'  BY <2>1, <2>2, <2>3 DEF ListInv, AsOfInv
  <2>5. RunInv'  BY <2>1, <2>2 DEF RunInv
  <2> QED  BY <2>4, <2>5 DEF MissingIntervalsInv
<1> QED  BY <1>1, <1>2, <1>3, <1>4, <1>5, <1>6 DEF Next

\* Whatever is asked for, held back, restated, cleared or fails: the list stays in order and
\* in whole units before now (merge_intervals, remove_interval, add_interval), what is
\* recorded is as of a time after it and after what follows in its unit, and what is left
\* to evaluate are units, or parts of units for a model that allows partial intervals.
THEOREM MissingIntervalsInvariant == Spec => []MissingIntervalsInv
<1> QED  BY InitInv, NextInv, PTL DEF Spec

LEMMA TypedByInv == MissingIntervalsInv /\ ~AfterTick => TypeOK
<1> SUFFICES ASSUME MissingIntervalsInv, ~AfterTick PROVE TypeOK  OBVIOUS
<1>1. ListInv /\ AsOfInv /\ RunInv  BY DEF MissingIntervalsInv
<1>2. Ticks(intervals) \subseteq Time
  <2>1. now \in Time /\ Ticks(intervals) \subseteq 0..(now - 1)  BY <1>1 DEF ListInv
  <2> QED  BY <2>1, TimeTyped
<1>3. ASSUME NEW i \in ToSet(intervals)
      PROVE  node.allow_partials \/ (i[1] % node.unit = 0 /\ i[2] % node.unit = 0)
  <2>1. ToSet(intervals) = {intervals[k] : k \in 1..Len(intervals)}
      BY <1>1, MembersOf DEF ListInv, Canonical
  <2>2. PICK k \in 1..Len(intervals) : i = intervals[k]  BY <2>1
  <2>3. i[1] \in Whole /\ i[2] \in Whole  BY <1>1, <2>2 DEF ListInv, EndsFrom
  <2> QED  BY <2>3 DEF Whole
<1>4. ASSUME NEW b \in ToSet(run.batches) PROVE b[1] < b[2]
  <2> DEFINE P == Wanted(node.unit, now, node.allow_partials, ~AfterTick)
  <2>1. run.batches \in Seq(P)  BY <1>1 DEF RunInv
  <2>2. b \in P
    <3> HIDE DEF P
    <3> QED  BY <2>1, MembersOf
  <2> QED  BY <2>2 DEF Wanted
<1>5. DOMAIN run = {"status", "request", "batches"}
  <2>1. run = [status |-> run.status, request |-> run.request, batches |-> run.batches]
      BY <1>1 DEF RunInv
  <2> DEFINE st == run.status
             r == run.request
             bs == run.batches
  <2>2. run = [status |-> st, request |-> r, batches |-> bs]  BY <2>1
  <2> HIDE DEF st, r, bs
  <2> QED  BY <2>2
<1> QED  BY <1>1, <1>2, <1>3, <1>4, <1>5 DEF ListInv, AsOfInv, RunInv, TypeOK, Canonical

LEMMA WholeByInv == MissingIntervalsInv => WholeIntervals
<1> SUFFICES ASSUME MissingIntervalsInv, NEW t \in Loaded
             PROVE  asof[t] > t /\ (UnitOf(t) \subseteq Loaded => asof[t] >= CronNext(t, node.unit))
    BY DEF WholeIntervals
<1> DEFINE u == node.unit
           v == Floor(t, u) + u - 1
<1>1. ListInv /\ AsOfInv  BY DEF MissingIntervalsInv
<1>2. u \in Nat \ {0} /\ t \in Nat /\ now \in Nat
  <2>1. now \in Nat  BY <1>1, TimeTyped DEF ListInv
  <2>2. t \in 0..(now - 1)  BY <1>1 DEF ListInv, Loaded
  <2> QED  BY <1>1, <2>1, <2>2, NodeTyped DEF ListInv
<1>3. t \in Ticks(intervals)  BY DEF Loaded
<1>4. asof[t] > t  BY <1>1, <1>2, <1>3 DEF AsOfInv
<1>5. ASSUME UnitOf(t) \subseteq Loaded PROVE asof[t] >= CronNext(t, u)
  <2> HIDE DEF u
  <2>1. Floor(t, u) \in Int /\ Floor(t, u) <= t /\ t < Floor(t, u) + u  BY <1>2, FloorRight
  <2>2. UnitOf(t) = Floor(t, u)..(Floor(t, u) + u - 1)
    <3>1. UnitOf(t) = Floor(t, u)..(CronNext(t, u) - 1)  BY DEF UnitOf, u
    <3>2. CronNext(t, u) - 1 = Floor(t, u) + u - 1  BY <1>2, <2>1 DEF CronNext
    <3> QED  BY <3>1, <3>2
  <2>3. v \in UnitOf(t) /\ v \in Int /\ t <= v  BY <1>2, <2>1, <2>2
  <2>4. Floor(v, u) = Floor(t, u)
    <3>1. (t \div u) * u <= v /\ v < (t \div u) * u + u  BY <1>2, <2>1 DEF Floor
    <3>2. t \div u \in Int  BY <1>2
    <3>3. \A q, x \in Int : q * u <= x /\ x < q * u + u => x \div u = q  BY <1>2
    <3> HIDE DEF v
    <3>4. v \div u = t \div u  BY <2>3, <3>1, <3>2, <3>3
    <3> QED  BY <3>4 DEF Floor
  <2>5. asof[t] > v  BY <1>1, <1>3, <1>5, <2>3, <2>4 DEF AsOfInv, Loaded, u
  <2>6. asof[t] \in Int
    <3>1. t \in Time  BY <1>1, <1>2, <1>3, TimeTyped DEF ListInv
    <3>2. asof[t] \in Time \cup {Never}  BY <1>1, <3>1 DEF AsOfInv
    <3> QED  BY <3>2, TimeTyped DEF Never
  <2> QED  BY <1>2, <2>1, <2>5, <2>6 DEF CronNext
<1> QED  BY <1>4, <1>5

\* Unless a range may begin after the last tick of the cron, no batch ends before it begins, and none raises an error.
THEOREM MissingIntervalsTyped == ~AfterTick => (Spec => []TypeOK)
<1> SUFFICES ASSUME ~AfterTick PROVE Spec => []TypeOK  OBVIOUS
<1>1. MissingIntervalsInv => TypeOK  BY TypedByInv
<1> QED  BY <1>1, MissingIntervalsInvariant, PTL

\* For every unit, cron, start, end, lookback and batch size: what is recorded as loaded was
\* computed when it was over (missing_intervals, compute_missing_intervals, add_interval).
THEOREM LoadedWhenOver == Spec => []WholeIntervals
<1> QED  BY WholeByInv, MissingIntervalsInvariant, PTL

(***************************************************************************)
(* Restatements.  What is recorded or about to be lies within the model's  *)
(* range; while a restatement runs, what it is to make anew has been made  *)
(* anew or is in a batch that is left.  Both need that ranges begin in     *)
(* time and that the models start and end with a unit: what lies in a      *)
(* unit that the model's range cuts is recorded, and not restated.         *)
(***************************************************************************)
Redone(t, r) ==
    /\ node.full_history \/ r.start <= t
    /\ node.depends_on_past \/ t < r.end
    /\ (IF node.allow_partials THEN t + 1 ELSE CronNext(t, node.unit))
         <= CronFloor(r.execution_time)

InModelRange ==
    \A t \in Ticks(intervals) \cup Ticks(run.batches) :
        node.start <= t /\ (node.end # NoEnd => t < node.end)

NewOrLeft ==
    run.status \in {"running", "success"} /\ run.request.restatement # << >> =>
        \A t \in Ticks(intervals) :
            Redone(t, run.request) =>
                asof[t] = run.request.execution_time \/ t \in Ticks(run.batches)

RestatementInv == InModelRange /\ NewOrLeft

LEMMA FirstIsFirst ==
    ASSUME NEW s, Canonical(s), NEW t \in Ticks(s)
    PROVE  s # << >> /\ s[1][1] <= t
<1> DEFINE n == Len(s)
           W == {k \in 1..n : s[k][1] < s[1][1]}
<1>1. s \in Seq(Pairs) /\ IsCanonical(s)  BY DEF Canonical
<1>2. PICK k \in 1..n : s[k][1] <= t /\ t < s[k][2]  BY <1>1, TicksOf
<1>3. n \in Nat /\ DOMAIN s = 1..n /\ t \in Int  BY <1>1, TicksOf
<1>4. \A j \in 1..n : s[j][1] \in Int /\ s[j][2] \in Int /\ s[j][1] < s[j][2]
  <2>1. \A j \in 1..n : s[j] \in Pairs  BY <1>1
  <2> QED  BY <1>1, <1>3, <2>1 DEF Pairs, IsCanonical
<1>5. \A j \in 1..(n - 1) : s[j][2] < s[j + 1][1]  BY <1>1 DEF IsCanonical
<1> HIDE DEF n
<1>6. 1 \in 1..n  BY <1>2, <1>3
<1>7. ASSUME NEW j \in W PROVE j > 0 /\ j - 1 \in W
  <2>1. j \in 1..n /\ s[j][1] < s[1][1]  OBVIOUS
  <2>2. j # 1  BY <1>4, <1>6, <2>1
  <2>3. j - 1 \in 1..n /\ j - 1 \in 1..(n - 1) /\ (j - 1) + 1 = j  BY <1>3, <2>1, <2>2
  <2>4. s[j - 1][1] < s[j - 1][2] /\ s[j - 1][2] < s[j][1]  BY <1>4, <1>5, <2>3
  <2>5. s[j - 1][1] < s[1][1]
    <3> DEFINE a == s[j - 1][1]
               b == s[j - 1][2]
               c == s[j][1]
               d == s[1][1]
    <3>1. a \in Int /\ b \in Int /\ c \in Int /\ d \in Int  BY <1>4, <1>6, <2>1, <2>3
    <3>2. a < b /\ b < c /\ c < d  BY <2>1, <2>4
    <3> HIDE DEF a, b, c, d
    <3>3. a < d  BY <3>1, <3>2
    <3> QED  BY <3>3 DEF a, d
  <2> QED  BY <2>1, <2>3, <2>5
<1>8. W = {}
  <2>1. W \subseteq 0..n  BY <1>3
  <2> HIDE DEF W
  <2> QED  BY <1>3, <1>7, <2>1, NoFirst
<1>9. s[1][1] <= s[k][1]  BY <1>4, <1>6, <1>8
<1>10. s # << >>  BY <1>2, <1>3 DEF n
<1>11. s[1][1] \in Int /\ s[k][1] \in Int  BY <1>4, <1>6
<1> HIDE DEF W
<1> QED  BY <1>2, <1>3, <1>9, <1>10, <1>11

LEMMA NoTicks == Ticks(<< >>) = {}
BY DEF Ticks, ToSet

\* Whatever is asked for, the batches stay in the model's range; and what a restatement
\* is to make anew is in one of them.
LEMMA RequestRestates ==
    ASSUME MissingIntervalsInv, RestatementInv, ~AfterTick, AlignedNodes,
           NEW r, Asked(r), Request(r), r.restatement # << >> => Restates(r),
           r.restatement # << >> => \A t \in Ticks(intervals) :
               Redone(t, r) => r.restatement[1] <= t /\ t < r.restatement[2]
    PROVE  RestatementInv'
<1>1. /\ BeginsInTime(r) /\ node' = node /\ now' = now /\ intervals' = intervals /\ asof' = asof
      /\ run' = [status |-> IF Batches(r) = << >> THEN "success" ELSE "running",
                 request |-> r, batches |-> Batches(r)]
    BY DEF Request
<1>2. run'.request = r /\ run'.batches = Batches(r)
  <2> DEFINE st == IF Batches(r) = << >> THEN "success" ELSE "running"
  <2>1. run' = [status |-> st, request |-> r, batches |-> Batches(r)]  BY <1>1
  <2> HIDE DEF st
  <2> QED  BY <2>1
<1>3. ListInv  BY DEF MissingIntervalsInv
<1>4. InModelRange'
  <2>1. \A t \in Ticks(Batches(r)) : node.start <= t /\ (node.end # NoEnd => t < node.end)
      BY <1>1, <1>3, BatchesInRange
  <2> QED  BY <1>1, <1>2, <2>1 DEF InModelRange, RestatementInv
<1>5. NewOrLeft'
  <2> SUFFICES ASSUME r.restatement # << >>, NEW t \in Ticks(intervals), Redone(t, r)
               PROVE  t \in Ticks(Batches(r))
      BY <1>1, <1>2 DEF NewOrLeft, Redone, CronFloor
  <2>1. t \in Int  BY <1>3, TicksOf DEF ListInv, Canonical
  <2>2. node.start <= t /\ (node.end # NoEnd => t < node.end)
      BY DEF RestatementInv, InModelRange
  <2>3. r.restatement[1] <= t /\ t < r.restatement[2]  OBVIOUS
  <2>4. (IF node.allow_partials THEN t + 1 ELSE CronNext(t, node.unit))
            <= CronFloor(r.execution_time)
      BY DEF Redone
  <2> QED  BY <1>1, <1>3, <2>1, <2>2, <2>3, <2>4, RestatedMissing
<1> QED  BY <1>4, <1>5 DEF RestatementInv

LEMMA RunRestates ==
    ASSUME MissingIntervalsInv, RestatementInv, ~AfterTick, AlignedNodes,
           NEW start \in Time, NEW end \in Time, NEW ignore_cron, NEW end_bounded,
           NEW unready \in Signals, Run(start, end, ignore_cron, end_bounded, unready)
    PROVE  RestatementInv'
<1> DEFINE r == [start |-> start, end |-> end, execution_time |-> now,
                 ignore_cron |-> ignore_cron, end_bounded |-> end_bounded,
                 restatement |-> << >>, unready |-> unready]
<1>1. Request(r) /\ end <= now  BY DEF Run
<1>2. /\ r.start = start /\ r.end = end /\ r.execution_time = now
      /\ r.restatement = << >> /\ r.unready = unready
    OBVIOUS
<1> HIDE DEF r
<1>3. start \in Nat /\ end \in Nat /\ now \in Nat
    BY TimeTyped DEF MissingIntervalsInv, ListInv
<1>4. Asked(r)  BY <1>1, <1>2, <1>3 DEF Asked
<1> QED  BY <1>1, <1>2, <1>4, RequestRestates

LEMMA RestateRestates ==
    ASSUME MissingIntervalsInv, RestatementInv, ~AfterTick, AlignedNodes,
           NEW start \in Time, NEW end \in Time, Restate(start, end)
    PROVE  RestatementInv'
<1> DEFINE i == RestatedInterval(start, end)
           r == [NoRequest EXCEPT !.start = start, !.end = end, !.execution_time = now,
                                  !.restatement = i]
<1>1. start < end /\ end <= now  BY DEF Restate
<1>2. ListInv  BY DEF MissingIntervalsInv
<1>3. /\ i[1] \in Nat /\ i[2] \in Int /\ i[1] < i[2] /\ i[1] \in Whole /\ i[2] \in Whole
      /\ i[1] <= (IF node.full_history /\ intervals # << >> THEN intervals[1][1] ELSE start)
      /\ (IF node.depends_on_past THEN now ELSE end) <= i[2]
    BY <1>1, <1>2, RestatedRight
<1>4. Request(r)  BY DEF Restate
<1>5. /\ r.start = start /\ r.end = end /\ r.execution_time = now /\ r.restatement = i
      /\ r.unready = << >> /\ r.ignore_cron = FALSE /\ r.end_bounded = FALSE
    BY DEF NoRequest
<1> HIDE DEF r, i
<1>6. start \in Nat /\ end \in Nat /\ now \in Nat  BY <1>2, TimeTyped DEF ListInv
<1>7. Asked(r)  BY <1>1, <1>3, <1>5, <1>6 DEF Asked
<1>8. Restates(r)  BY <1>3, <1>5 DEF Restates
<1>9. ASSUME NEW t \in Ticks(intervals), Redone(t, r) PROVE i[1] <= t /\ t < i[2]
  <2>1. t \in 0..(now - 1) /\ Canonical(intervals)  BY <1>2 DEF ListInv
  <2>2. t \in Int /\ t < now  BY <1>6, <2>1
  <2>3. intervals # << >> /\ intervals[1][1] <= t  BY <2>1, FirstIsFirst
  <2>4. intervals[1][1] \in Int
    <3>1. intervals[1] \in Pairs
      <4>1. intervals \in Seq(Pairs)  BY <2>1 DEF Canonical
      <4> QED  BY <2>3, <4>1
    <3> QED  BY <3>1 DEF Pairs
  <2>5. node.full_history \/ start <= t  BY <1>5, <1>9 DEF Redone
  <2>6. node.depends_on_past \/ t < end  BY <1>5, <1>9 DEF Redone
  <2>7. i[1] <= t
    <3>1. CASE node.full_history
      <4>1. i[1] <= intervals[1][1]  BY <1>3, <2>3, <3>1
      <4> QED  BY <1>3, <2>2, <2>3, <2>4, <4>1
    <3>2. CASE ~node.full_history
      <4>1. i[1] <= start /\ start <= t  BY <1>3, <2>5, <3>2
      <4> QED  BY <1>3, <1>6, <2>2, <4>1
    <3> QED  BY <3>1, <3>2
  <2>8. t < i[2]
    <3>1. CASE node.depends_on_past
      <4>1. now <= i[2]  BY <1>3, <3>1
      <4> QED  BY <1>3, <1>6, <2>2, <4>1
    <3>2. CASE ~node.depends_on_past
      <4>1. end <= i[2] /\ t < end  BY <1>3, <2>6, <3>2
      <4> QED  BY <1>3, <1>6, <2>2, <4>1
    <3> QED  BY <3>1, <3>2
  <2> QED  BY <2>7, <2>8
<1> QED  BY <1>4, <1>5, <1>7, <1>8, <1>9, RequestRestates

\* What is evaluated is as of now, and it is all that is new.
LEMMA EvaluateBatchRestates ==
    ASSUME MissingIntervalsInv, RestatementInv, ~AfterTick,
           NEW k \in DOMAIN run.batches, EvaluateBatch(k)
    PROVE  RestatementInv'
<1> DEFINE b == run.batches[k]
<1>1. ListInv  BY DEF MissingIntervalsInv
<1>2. /\ node' = node /\ run.status = "running" /\ run'.request = run.request
      /\ asof' = [t \in Time |-> IF b[1] <= t /\ t < b[2]
                                  THEN run.request.execution_time ELSE asof[t]]
      /\ Ticks(intervals') = Ticks(intervals) \cup b[1]..(b[2] - 1)
      /\ Ticks(run.batches) = Ticks(run'.batches) \cup b[1]..(b[2] - 1)
    BY BatchMoves
<1>3. b \in Wanted(node.unit, now, node.allow_partials, TRUE)  BY BatchMoves
<1>4. b[1] \in Int /\ b[2] \in Int /\ b[1] < b[2] /\ b[1] >= 0 /\ b[2] <= now
    BY <1>3 DEF Wanted, Pairs
<1> HIDE DEF b
<1>5. InModelRange'  BY <1>2 DEF InModelRange, RestatementInv
<1>6. NewOrLeft'
  <2> SUFFICES ASSUME run.request.restatement # << >>, NEW t \in Ticks(intervals'),
                      Redone(t, run.request)
               PROVE  asof'[t] = run.request.execution_time \/ t \in Ticks(run'.batches)
      BY <1>2 DEF NewOrLeft, Redone, CronFloor
  <2>1. t \in Time
    <3>1. now \in Time /\ Ticks(intervals) \subseteq 0..(now - 1)  BY <1>1 DEF ListInv
    <3>2. now \in Nat /\ now <= Horizon /\ Horizon \in Nat  BY <3>1, TimeTyped
    <3>3. 0..(now - 1) \subseteq Time  BY <3>2, TimeTyped
    <3>4. b[1]..(b[2] - 1) \subseteq 0..(now - 1)  BY <1>4, <3>2
    <3> QED  BY <1>2, <3>1, <3>3, <3>4
  <2>2. CASE b[1] <= t /\ t < b[2]  BY <1>2, <2>1, <2>2
  <2>3. CASE ~(b[1] <= t /\ t < b[2])
    <3>1. asof'[t] = asof[t]  BY <1>2, <2>1, <2>3
    <3>2. t \notin b[1]..(b[2] - 1)
      <4>1. t \in Int  BY <2>1, TimeTyped
      <4> QED  BY <1>4, <2>3, <4>1
    <3>3. t \in Ticks(intervals)  BY <1>2, <3>2
    <3>4. asof[t] = run.request.execution_time \/ t \in Ticks(run.batches)
        BY <1>2, <3>3 DEF RestatementInv, NewOrLeft
    <3> QED  BY <1>2, <3>1, <3>2, <3>4
  <2> QED  BY <2>2, <2>3
<1> QED  BY <1>5, <1>6 DEF RestatementInv

LEMMA NextRestates ==
    ASSUME ~AfterTick, AlignedNodes
    PROVE  MissingIntervalsInv /\ RestatementInv /\ [Next]_vars => RestatementInv'
<1> SUFFICES ASSUME MissingIntervalsInv, RestatementInv, [Next]_vars PROVE RestatementInv'
    OBVIOUS
<1>1. CASE TimePasses
  <2>1. node' = node /\ intervals' = intervals /\ run' = Idle  BY <1>1 DEF TimePasses
  <2>2. run'.status = "idle" /\ run'.batches = << >>  BY <2>1 DEF Idle
  <2> QED  BY <2>1, <2>2, NoTicks DEF RestatementInv, InModelRange, NewOrLeft
<1>2. CASE \E start, end \in Time, ignore_cron, end_bounded \in BOOLEAN, unready \in Signals :
              Run(start, end, ignore_cron, end_bounded, unready)
    BY <1>2, RunRestates
<1>3. ASSUME NEW start \in Time, NEW end \in Time, Restate(start, end) PROVE RestatementInv'
    BY <1>3, RestateRestates
<1>4. ASSUME NEW start \in Time, NEW end \in Time, ClearIntervals(start, end)
      PROVE  RestatementInv'
  <2> DEFINE i == RestatedInterval(start, end)
  <2>1. /\ start < end /\ end <= now /\ run' = Idle /\ node' = node
        /\ intervals' = RemoveInterval(intervals, i[1], i[2])
      BY <1>4 DEF ClearIntervals
  <2>2. ListInv /\ Canonical(intervals) /\ EndsFrom(intervals, Whole)
      BY DEF MissingIntervalsInv, ListInv
  <2>3. i[1] \in Int /\ i[2] \in Int /\ i[1] < i[2] /\ i[1] \in Whole /\ i[2] \in Whole
    <3>1. i[1] \in Nat /\ i[2] \in Int /\ i[1] < i[2] /\ i[1] \in Whole /\ i[2] \in Whole
        BY <2>1, <2>2, RestatedRight
    <3> HIDE DEF i
    <3> QED  BY <3>1
  <2> HIDE DEF i
  <2>4. Ticks(intervals') \subseteq Ticks(intervals)  BY <2>1, <2>2, <2>3, RemoveRight
  <2>5. run'.status = "idle" /\ run'.batches = << >>  BY <2>1 DEF Idle
  <2> QED  BY <2>1, <2>4, <2>5, NoTicks DEF RestatementInv, InModelRange, NewOrLeft
<1>5. CASE \E k \in DOMAIN run.batches : EvaluateBatch(k)  BY <1>5, EvaluateBatchRestates
<1>6. CASE Stop
  <2>1. /\ run' = [run EXCEPT !.status = "stopped"] /\ node' = node /\ intervals' = intervals
      BY <1>6 DEF Stop
  <2>2. run = [status |-> run.status, request |-> run.request, batches |-> run.batches]
      BY DEF MissingIntervalsInv, RunInv
  <2>3. run' = [status |-> "stopped", request |-> run.request, batches |-> run.batches]
      BY <2>1, <2>2
  <2>4. run'.status = "stopped" /\ run'.batches = run.batches  BY <2>3
  <2> QED  BY <2>1, <2>4 DEF RestatementInv, InModelRange, NewOrLeft
<1>7. CASE UNCHANGED vars
    BY <1>7 DEF vars, RestatementInv, InModelRange, NewOrLeft, Redone, CronFloor
<1> QED  BY <1>1, <1>2, <1>3, <1>4, <1>5, <1>6, <1>7 DEF Next

LEMMA AnewByInv == MissingIntervalsInv /\ RestatementInv => RestatedAnew
<1> SUFFICES ASSUME MissingIntervalsInv, RestatementInv, run.status = "success",
                    run.request.restatement # << >>, NEW t \in Loaded, Redone(t, run.request)
             PROVE  asof[t] = run.request.execution_time
    BY DEF RestatedAnew, Redone
<1>1. run.batches = << >>  BY DEF MissingIntervalsInv, RunInv
<1> QED  BY <1>1, NoTicks DEF RestatementInv, NewOrLeft, Loaded

\* A restatement leaves nothing of its range as it was, nor, where a model depends on its past
\* or is computed from its beginning, of what follows or precedes it: what it clears it also
\* evaluates, for models that start and end with a unit (RestatedInterval, Missing, Batches).
THEOREM RestatedIsNew == ~AfterTick /\ AlignedNodes => (Spec => []RestatedAnew)
<1> SUFFICES ASSUME ~AfterTick, AlignedNodes PROVE Spec => []RestatedAnew  OBVIOUS
<1>1. Init => RestatementInv
  <2> SUFFICES ASSUME Init PROVE RestatementInv  OBVIOUS
  <2>1. intervals = << >> /\ run.batches = << >> /\ run.status = "idle"  BY DEF Init, Idle
  <2> QED  BY <2>1, NoTicks DEF RestatementInv, InModelRange, NewOrLeft
<1>2. MissingIntervalsInv /\ RestatementInv /\ [Next]_vars => RestatementInv'
    BY NextRestates
<1>3. MissingIntervalsInv /\ RestatementInv => RestatedAnew  BY AnewByInv
<1> QED  BY <1>1, <1>2, <1>3, MissingIntervalsInvariant, PTL DEF Spec

(***************************************************************************)
(* Catching up.  What is held back begins with a unit: a piece of one that *)
(* is held back is not seen by interval_diff behind the unit's beginning.  *)
(* And a model that is made of whole units has one.                        *)
(***************************************************************************)
\* What is held back begins with a unit.
SignalsBegin == \A n \in Nodes, s \in Signals : \A k \in DOMAIN s : s[k][1] % n.unit = 0

LEMMA UnreadyRight ==
    ASSUME node \in Nodes, NEW r, Asked(r)
    PROVE  /\ r.unready \in Seq(Pairs)
           /\ \A k \in 1..Len(r.unready) : r.unready[k][1] < r.unready[k][2]
           /\ SignalsBegin => \A k \in 1..Len(r.unready) : r.unready[k][1] % node.unit = 0
<1>1. r.unready = << >> \/ r.unready \in Signals  BY DEF Asked
<1>2. CASE r.unready = << >>  BY <1>2
<1>3. CASE r.unready \in Signals
  <2>1. /\ r.unready \in Seq(Int \X Int)
        /\ \A k \in DOMAIN r.unready : r.unready[k][1] < r.unready[k][2]
      BY <1>3, MissingIntervalsConstants
  <2>2. SignalsBegin => \A k \in DOMAIN r.unready : r.unready[k][1] % node.unit = 0
      BY <1>3 DEF SignalsBegin
  <2>3. DOMAIN r.unready = 1..Len(r.unready)  BY <2>1
  <2> QED  BY <2>1, <2>2, <2>3 DEF Pairs
<1> QED  BY <1>1, <1>2, <1>3

\* A piece that lies apart from what is held back.
LEMMA FreeOfHeldBack ==
    ASSUME node \in Nodes, NEW r, NEW b, Canonical(b), Ticks(b) = Ticks(r.unready),
           NEW p \in Pairs, p[1] % node.unit = 0, p[1] < p[2], p[2] <= p[1] + node.unit,
           NEW t \in Time, p[1] <= t, t < p[2], t \notin HeldBack(r)
    PROVE  /\ \A x \in p[1]..(p[2] - 1) : x \notin Ticks(r.unready)
           /\ ApartFrom(p, b) /\ (node.depends_on_past => AheadOf(p, b))
<1> DEFINE u == node.unit
           f == Floor(t, u)
<1>1. u \in Nat \ {0} /\ t \in Int /\ p[1] \in Int /\ p[2] \in Int
    BY NodeTyped, TimeTyped DEF Pairs
<1>2. f \in Int /\ f <= t /\ t < f + u /\ p[1] <= f /\ f % u = 0  BY <1>1, FloorRight, FloorIsGreatest
<1>3. p[1] = f
  <2> SUFFICES ASSUME p[1] < f PROVE FALSE
    <3> HIDE DEF f
    <3> QED  BY <1>1, <1>2
  <2>1. Floor(p[1], u) + u <= f
    <3> HIDE DEF f, u
    <3> QED  BY <1>1, <1>2, CeilingIsLeast
  <2>2. Floor(p[1], u) = p[1]  BY <1>1, FloorRight
  <2> HIDE DEF f
  <2> QED  BY <1>1, <1>2, <2>1, <2>2
<1>4. p[2] <= f + u
  <2> HIDE DEF f
  <2> QED  BY <1>1, <1>3
<1>5. \A x \in f..(f + u - 1) : x \in UnitOf(t)
  <2>1. UnitOf(t) = Floor(t, u)..(CronNext(t, u) - 1)  BY DEF UnitOf
  <2>2. CronNext(t, u) = f + u  BY DEF CronNext
  <2> HIDE DEF u
  <2> QED  BY <1>1, <1>2, <2>1, <2>2
<1>6. /\ UnitOf(t) \cap Ticks(r.unready) = {}
      /\ node.depends_on_past => \A x \in Ticks(r.unready) : ~(x <= t)
    BY DEF HeldBack
<1> HIDE DEF f, u
<1>7. \A x \in f..(f + u - 1) : x \notin Ticks(b)  BY <1>5, <1>6
<1>8. \A x \in p[1]..(p[2] - 1) : x \notin Ticks(b)
  <2>1. p[1]..(p[2] - 1) \subseteq f..(f + u - 1)  BY <1>1, <1>2, <1>3, <1>4
  <2> QED  BY <1>7, <2>1
<1>9. b \in Seq(Pairs)  BY DEF Canonical
<1>10. \A j \in 1..Len(b) : b[j][1] \in Int /\ b[j][2] \in Int /\ b[j][1] < b[j][2]
    BY CanonicalInOrder
<1>11. ASSUME NEW j \in 1..Len(b) PROVE Apart(p, b[j])
  <2> DEFINE x == IF p[1] <= b[j][1] THEN b[j][1] ELSE p[1]
  <2>1. SUFFICES ASSUME ~(p[2] <= b[j][1]), ~(b[j][2] <= p[1]) PROVE FALSE  BY DEF Apart
  <2>2. x \in Int /\ b[j][1] <= x /\ x < b[j][2] /\ x \in p[1]..(p[2] - 1)  BY <1>1, <1>10, <2>1
  <2> HIDE DEF x
  <2>3. x \in Ticks(b)  BY <1>9, <2>2, TicksOf
  <2> QED  BY <1>8, <2>2, <2>3
<1>12. ASSUME node.depends_on_past, NEW j \in 1..Len(b) PROVE p[2] <= b[j][1]
  <2> DEFINE x == b[j][1]
  <2>1. SUFFICES ASSUME ~(p[2] <= x) PROVE FALSE  OBVIOUS
  <2>2. x \in Int /\ x < p[2] /\ x < b[j][2]  BY <1>1, <1>10, <2>1
  <2>3. x \in Ticks(b)  BY <1>9, <2>2, TicksOf
  <2>4. ~(x <= t)  BY <1>6, <1>12, <2>3
  <2> HIDE DEF x
  <2>5. x \in p[1]..(p[2] - 1)  BY <1>1, <2>2, <2>4
  <2> QED  BY <1>8, <2>3, <2>5
<1> QED  BY <1>8, <1>11, <1>12 DEF ApartFrom, AheadOf

(***************************************************************************)
(* The parts of batch_intervals, by name: the units of what is missing but *)
(* for those that are not ready, and what is left of them when all that    *)
(* overlaps what is not ready has been taken away.                         *)
(***************************************************************************)
ReadyUnits(r) == Without(Units(Contiguous(Missing(r), 0), node.unit), r.unready)

HeldBackIntervals(r) == MergeIntervals(r.unready)

ReadyIntervals(r) == IntervalDiff(ReadyUnits(r), HeldBackIntervals(r), node.depends_on_past)

IsUnit(p, unit) == p \in Pairs /\ p[1] % unit = 0 /\ p[1] < p[2] /\ p[2] <= p[1] + unit

MadeOfUnits(r) ==
    /\ ReadyUnits(r) \in Seq(Pairs) /\ InOrder(ReadyUnits(r))
    /\ \A p \in ToSet(ReadyUnits(r)) : IsUnit(p, node.unit)
    /\ \A t \in Ticks(Missing(r)) :
          \E p : /\ IsUnit(p, node.unit) /\ t \in p[1]..(p[2] - 1)
                 /\ p \in ToSet(r.unready) \/ p \in ToSet(ReadyUnits(r))
    /\ Canonical(HeldBackIntervals(r)) /\ Ticks(HeldBackIntervals(r)) = Ticks(r.unready)
    /\ \A k \in 1..Len(HeldBackIntervals(r)) : HeldBackIntervals(r)[k][1] % node.unit = 0
    /\ Ticks(Batches(r)) = Ticks(ReadyIntervals(r)) /\ InOrder(Batches(r))

LEMMA BatchesOfUnits ==
    ASSUME node \in Nodes, ~AfterTick, SignalsBegin, NEW r, Asked(r), BeginsInTime(r)
    PROVE  MadeOfUnits(r)
<1> DEFINE P == WantedBy(r)
           u == node.unit
           missing == Missing(r)
           joined == Contiguous(missing, 0)
           candidates == Units(joined, u)
           ready == Without(candidates, r.unready)
           merged == MergeIntervals(r.unready)
           diff == IntervalDiff(ready, merged, node.depends_on_past)
<1>1. u \in Nat \ {0} /\ r.execution_time \in Int  BY NodeTyped DEF Asked
<1>2. P = Wanted(u, r.execution_time, node.allow_partials, TRUE)  BY DEF WantedBy
<1>3. P \subseteq Pairs  BY <1>2 DEF Wanted
<1>4. missing \in Seq(P) /\ InOrder(missing)
  <2>1. missing \in Seq(P)  BY MissingRight
  <2>2. CASE NothingToDo(r)
    <3>1. missing = << >>  BY <2>2, MissingIs
    <3> QED  BY <2>1, <3>1 DEF InOrder
  <2>3. CASE ~NothingToDo(r)
    <3> DEFINE lo == RangeOf(r)[1]
               hi == UpTo(r)
               s == RecordedFor(r)
    <3>1. ~OutOfRange(r) /\ lo # hi  BY <2>3 DEF NothingToDo
    <3>2. <<lo, hi>> \in Wanted(u, r.execution_time, node.allow_partials, TRUE)
        BY <1>2, <3>1, RangeRight DEF IsRange
    <3>3. missing = ComputeMissingIntervals(s, lo, hi, node)  BY <2>3, MissingIs
    <3> HIDE DEF lo, hi, s, missing
    <3>4. InOrder(missing)  BY <1>1, <3>2, <3>3, MissingInOrder
    <3> QED  BY <2>1, <3>4 DEF missing
  <2> HIDE DEF missing
  <2> QED  BY <2>2, <2>3
<1> HIDE DEF P, missing
<1>5. joined \in Seq(P) /\ Ticks(joined) = Ticks(missing) /\ InOrder(joined)
  <2>1. joined \in Seq(P)  BY <1>2, <1>4, ContiguousWanted
  <2>2. missing \in Seq(Wanted(u, r.execution_time, node.allow_partials, TRUE))
      BY <1>2, <1>4
  <2>3. SameTicks(joined, missing)  BY <2>2, ContiguousTicks
  <2>4. InOrder(joined)  BY <1>4, <2>2, ContiguousInOrder
  <2> HIDE DEF joined
  <2> QED  BY <2>1, <2>3, <2>4 DEF SameTicks
<1> HIDE DEF joined
<1>6. /\ candidates \in Seq(P) /\ Ticks(candidates) = Ticks(joined) /\ InOrder(candidates)
      /\ \A p \in ToSet(candidates) : p[1] % u = 0 /\ p[1] < p[2] /\ p[2] <= p[1] + u
  <2>1. candidates \in Seq(P)  BY <1>1, <1>2, <1>5, UnitsWanted
  <2>2. Ticks(candidates) = Ticks(joined)  BY <1>1, <1>2, <1>5, UnitsTicks
  <2>3. joined \in Seq(Wanted(u, r.execution_time, node.allow_partials, TRUE))  BY <1>2, <1>5
  <2>4. /\ InOrder(candidates)
        /\ \A p \in ToSet(candidates) : p[1] % u = 0 /\ p[1] < p[2] /\ p[2] <= p[1] + u
      BY <1>1, <1>5, <2>3, UnitsInOrder
  <2> QED  BY <2>1, <2>2, <2>4
<1> HIDE DEF candidates
<1>7. candidates \in Seq(Pairs)  BY <1>3, <1>6
<1>8. /\ Canonical(merged) /\ Ticks(merged) = Ticks(r.unready)
      /\ \A k \in 1..Len(merged) : merged[k][1] % u = 0
  <2> HIDE DEF u
  <2> QED  BY <1>1, UnreadyRight, MergedStarts DEF u
<1>9. /\ ready \in Seq(Pairs) /\ InOrder(ready)
      /\ \A x : x \in ToSet(ready) <=> x \in ToSet(candidates) /\ x \notin ToSet(r.unready)
  <2>1. ready \in Seq(Pairs)  BY <1>7, WithoutWanted
  <2>2. InOrder(ready)  BY <1>6, <1>7, WithoutInOrder
  <2>3. \A x : x \in ToSet(ready) <=> x \in ToSet(candidates) /\ x \notin ToSet(r.unready)
      BY <1>7, WithoutMembers
  <2> QED  BY <2>1, <2>2, <2>3
<1> HIDE DEF ready, merged, u
<1>10. \A p \in ToSet(candidates) : IsUnit(p, u)
  <2>1. ToSet(candidates) \subseteq Pairs  BY <1>7, MembersOf
  <2> QED  BY <1>6, <2>1 DEF IsUnit
<1>11. \A p \in ToSet(ready) : IsUnit(p, u)  BY <1>9, <1>10
<1>12. ASSUME NEW t \in Ticks(missing)
       PROVE  \E p : /\ IsUnit(p, u) /\ t \in p[1]..(p[2] - 1)
                     /\ p \in ToSet(r.unready) \/ p \in ToSet(ready)
  <2>1. t \in Ticks(candidates)  BY <1>5, <1>6
  <2>2. PICK p \in ToSet(candidates) : t \in p[1]..(p[2] - 1)  BY <2>1 DEF Ticks
  <2> QED  BY <1>9, <1>10, <2>2
<1>13. \A k \in 1..Len(ready) : ready[k][1] < ready[k][2]
  <2>1. \A k \in 1..Len(ready) : ready[k] \in ToSet(ready)  BY <1>9, MembersOf
  <2> QED  BY <1>11, <2>1 DEF IsUnit
<1>14. diff \in Seq(P) /\ InOrder(diff)
  <2>1. candidates \in Seq(P)  BY <1>6
  <2>2. ready \in Seq(P)  BY <2>1, WithoutWanted DEF ready
  <2>3. merged \in Seq(Pairs)  BY <1>8 DEF Canonical
  <2>4. diff \in Seq(P)  BY <2>2, <2>3, DiffWanted
  <2>5. InOrder(diff)  BY <1>8, <1>9, <1>13, DiffInOrder
  <2> QED  BY <2>4, <2>5
<1>15. /\ ReadyUnits(r) = ready /\ HeldBackIntervals(r) = merged /\ ReadyIntervals(r) = diff
       /\ Batches(r) = Contiguous(diff, node.batch_size)
    BY DEF Batches, ReadyIntervals, HeldBackIntervals, ReadyUnits,
           diff, ready, candidates, joined, missing, merged, u
<1> HIDE DEF diff
<1>16. Ticks(Batches(r)) = Ticks(diff) /\ InOrder(Batches(r))
  <2>1. diff \in Seq(Wanted(u, r.execution_time, node.allow_partials, TRUE))  BY <1>2, <1>14
  <2>2. SameTicks(Contiguous(diff, node.batch_size), diff)  BY <2>1, ContiguousTicks
  <2>3. InOrder(Contiguous(diff, node.batch_size))  BY <1>14, <2>1, ContiguousInOrder
  <2> QED  BY <1>15, <2>2, <2>3 DEF SameTicks
<1> QED  BY <1>8, <1>9, <1>11, <1>12, <1>15, <1>16 DEF MadeOfUnits, missing, u

\* What is missing and not held back is in a batch, and nothing that is not ready is.
LEMMA BatchesOfReady ==
    ASSUME node \in Nodes, ~AfterTick, SignalsBegin, NEW r, Asked(r), BeginsInTime(r)
    PROVE  /\ \A t \in Time \ HeldBack(r) : t \in Ticks(Missing(r)) => t \in Ticks(Batches(r))
           /\ Ticks(Batches(r)) \cap Ticks(r.unready) = {}
<1> DEFINE u == node.unit
           ready == ReadyUnits(r)
           merged == HeldBackIntervals(r)
           diff == ReadyIntervals(r)
<1>1. u \in Nat \ {0}  BY NodeTyped
<1>2. MadeOfUnits(r)  BY BatchesOfUnits
<1>3. /\ ready \in Seq(Pairs) /\ InOrder(ready) /\ \A p \in ToSet(ready) : IsUnit(p, u)
      /\ Canonical(merged) /\ Ticks(merged) = Ticks(r.unready)
      /\ \A k \in 1..Len(merged) : merged[k][1] % u = 0
      /\ Ticks(Batches(r)) = Ticks(diff)
      /\ diff = IntervalDiff(ready, merged, node.depends_on_past)
    BY <1>2 DEF MadeOfUnits, ReadyIntervals
<1> HIDE DEF ready, merged, diff, u
<1>4. ToSet(ready) = {ready[k] : k \in 1..Len(ready)}  BY <1>3, MembersOf
<1>5. Kept(ready, merged, node.depends_on_past, diff)
  <2>1. \A k \in 1..Len(ready) : /\ ready[k][1] % u = 0 /\ ready[k][1] < ready[k][2]
                                 /\ ready[k][2] <= ready[k][1] + u
      BY <1>3, <1>4 DEF IsUnit
  <2> QED  BY <1>1, <1>3, <2>1, DiffRight
<1>6. ASSUME NEW t \in Time \ HeldBack(r), t \in Ticks(Missing(r))
      PROVE  t \in Ticks(diff)
  <2>1. PICK p : /\ IsUnit(p, u) /\ t \in p[1]..(p[2] - 1)
                 /\ p \in ToSet(r.unready) \/ p \in ToSet(ready)
      BY <1>2, <1>6 DEF MadeOfUnits, ready, u
  <2>2. p \in Pairs /\ p[1] % u = 0 /\ p[1] < p[2] /\ p[2] <= p[1] + u  BY <2>1 DEF IsUnit
  <2>3. p[1] <= t /\ t < p[2]
    <3>1. p[1] \in Int /\ p[2] \in Int  BY <2>2 DEF Pairs
    <3> QED  BY <2>1, <3>1
  <2>4. /\ \A x \in p[1]..(p[2] - 1) : x \notin Ticks(r.unready)
        /\ ApartFrom(p, merged) /\ (node.depends_on_past => AheadOf(p, merged))
      BY <1>3, <1>6, <2>2, <2>3, FreeOfHeldBack DEF u
  <2>5. p \notin ToSet(r.unready)
    <3> SUFFICES ASSUME p \in ToSet(r.unready) PROVE FALSE  OBVIOUS
    <3>1. t \in Ticks(r.unready)  BY <2>1 DEF Ticks
    <3> QED  BY <2>1, <2>4, <3>1
  <2>6. PICK k \in 1..Len(ready) : p = ready[k]  BY <1>4, <2>1, <2>5
  <2>7. p \in ToSet(diff)  BY <1>5, <2>4, <2>6 DEF Kept
  <2> QED  BY <2>1, <2>7 DEF Ticks
<1>7. ASSUME NEW t \in Ticks(diff), t \in Ticks(r.unready) PROVE FALSE
  <2>1. PICK p \in ToSet(diff) : t \in p[1]..(p[2] - 1)  BY DEF Ticks
  <2>2. p \in ToSet(ready) /\ ApartFrom(p, merged)  BY <1>5, <2>1 DEF Kept
  <2>3. p[1] \in Int /\ p[2] \in Int /\ t \in Int /\ p[1] <= t /\ t < p[2]
    <3>1. p \in Pairs  BY <1>3, <2>2 DEF IsUnit
    <3> QED  BY <2>1, <3>1 DEF Pairs
  <2>4. t \in Ticks(merged) /\ merged \in Seq(Pairs)  BY <1>3, <1>7 DEF Canonical
  <2>5. PICK j \in 1..Len(merged) : merged[j][1] <= t /\ t < merged[j][2]  BY <2>4, TicksOf
  <2>6. merged[j][1] \in Int /\ merged[j][2] \in Int  BY <1>3, CanonicalInOrder
  <2>7. p[2] <= merged[j][1] \/ merged[j][2] <= p[1]  BY <2>2 DEF ApartFrom, Apart
  <2> QED  BY <2>3, <2>5, <2>6, <2>7
<1> QED  BY <1>3, <1>6, <1>7

\* A tick of the range of a run that has not been loaded is missing.
LEMMA NotLoadedIsMissing ==
    ASSUME ListInv, ~AfterTick, NEW r, Asked(r), BeginsInTime(r), r.restatement = << >>,
           ~NothingToDo(r), NEW t \in RangeOf(r)[1]..(UpTo(r) - 1), t \notin Ticks(intervals)
    PROVE  t \in Ticks(Missing(r))
<1> DEFINE u == node.unit
           e == EndTick(r)
           lo == RangeOf(r)[1]
           hi == UpTo(r)
           top == UpperBound(r, RangeOf(r)[2])
<1>1. /\ node \in Nodes /\ u \in Nat \ {0} /\ (node.end = NoEnd \/ node.end \in Nat)
    BY NodeTyped DEF ListInv
<1>2. ~OutOfRange(r) /\ lo # hi  BY DEF NothingToDo
<1>3. IsRange(r)  BY <1>1, <1>2, RangeRight
<1>4. <<lo, hi>> \in Wanted(u, r.execution_time, node.allow_partials, TRUE)
    BY <1>2, <1>3 DEF IsRange, WantedBy
<1>5. lo \in Int /\ hi \in Int /\ t \in Int /\ t < hi /\ t \in lo..(hi - 1)
  <2>1. lo \in Int /\ hi \in Int  BY <1>4 DEF Wanted, Pairs
  <2> HIDE DEF lo, hi
  <2> QED  BY <2>1 DEF lo, hi
<1>6. node.end # NoEnd => Floor(t, u) < node.end
  <2> SUFFICES ASSUME node.end # NoEnd PROVE Floor(t, u) < node.end  OBVIOUS
  <2>1. /\ e \in Int /\ e <= node.end
        /\ RangeOf(r)[2] = IF node.allow_partials THEN e ELSE Ceiling(e, u)
        /\ RangeOf(r)[2] \in Int
        /\ hi = IF RangeOf(r)[2] <= top THEN RangeOf(r)[2] ELSE top
      BY <1>3 DEF IsRange
  <2>2. t < RangeOf(r)[2]
    <3>1. top \in Int
      <4> DEFINE x == RangeOf(r)[2]
      <4>1. x \in Int /\ top = UpperBound(r, x)  BY <2>1
      <4> HIDE DEF x, top
      <4> QED  BY <1>1, <4>1, UpperBoundRight
    <3> HIDE DEF hi, top
    <3> QED  BY <1>5, <2>1, <3>1
  <2> HIDE DEF e, hi, top, u
  <2>3. Floor(t, u) \in Int /\ Floor(t, u) <= t /\ Floor(t, u) % u = 0  BY <1>1, <1>5, FloorRight
  <2>4. CASE node.allow_partials  BY <1>1, <1>5, <2>1, <2>2, <2>3, <2>4
  <2>5. CASE ~node.allow_partials
    <3>1. t < Ceiling(e, u) /\ Ceiling(e, u) \in Int  BY <2>1, <2>2, <2>5
    <3>2. ~(e <= Floor(t, u))
      <4> SUFFICES ASSUME e <= Floor(t, u) PROVE FALSE  OBVIOUS
      <4>1. Ceiling(e, u) <= Floor(t, u)  BY <1>1, <2>1, <2>3, CeilingIsLeast
      <4> QED  BY <1>5, <2>3, <3>1, <4>1
    <3> QED  BY <1>1, <2>1, <2>3, <3>2
  <2> QED  BY <2>4, <2>5
<1>7. RecordedFor(r) = intervals /\ intervals \in Seq(Pairs)
    BY DEF RecordedFor, ListInv, Canonical
<1>8. Missing(r) = ComputeMissingIntervals(intervals, lo, hi, node)  BY <1>7, MissingIs
<1>9. node.end \in Int /\ r.execution_time \in Int  BY <1>1 DEF NoEnd, Asked
<1>10. Computed(intervals, lo, hi, node, t)
  <2> HIDE DEF lo, hi
  <2> QED  BY <1>1, <1>4, <1>7, <1>9, ComputedTicks
<1> HIDE DEF lo, hi
<1> QED  BY <1>5, <1>6, <1>8, <1>10 DEF Computed

\* What is made of whole units lasts for one at least.
LongEnough ==
    \A n \in Nodes : n.end # NoEnd => n.allow_partials \/ n.start + n.unit <= n.end

\* What a run is due to load lies in its range.
LEMMA DueInRange ==
    ASSUME node \in Nodes, ~AfterTick, LongEnough,
           NEW r, Asked(r), BeginsInTime(r), r.restatement = << >>, r.start = node.start,
           NEW t \in Due(r)
    PROVE  ~NothingToDo(r) /\ t \in RangeOf(r)[1]..(UpTo(r) - 1)
<1> DEFINE u == node.unit
           first == FirstTick(r)
           e == EndTick(r)
           f == Floor(t, u)
           lo == RangeOf(r)[1]
           hi == UpTo(r)
           top == UpperBound(r, RangeOf(r)[2])
           over == IF r.ignore_cron THEN r.execution_time ELSE CronFloor(r.execution_time)
<1>1. /\ u \in Nat \ {0} /\ node.cron \in Nat \ {0} /\ node.start \in Nat
      /\ node.end = NoEnd \/ node.end \in Nat
      /\ r.start \in Nat /\ r.end \in Nat /\ r.execution_time \in Nat
      /\ node.end # NoEnd => node.allow_partials \/ node.start + u <= node.end
    BY NodeTyped DEF Asked, LongEnough
<1>2. t \in Time /\ t \in Int  BY TimeTyped DEF Due
<1>3. f \in Int /\ f <= t /\ t < f + u /\ f % u = 0 /\ CronNext(t, u) = f + u
      /\ CronNext(t, u) % u = 0
    BY <1>1, <1>2, FloorRight, CeilingRight DEF CronNext
<1>4. Min(UnitOf(t)) = f
  <2>1. UnitOf(t) = Floor(t, u)..(CronNext(t, u) - 1)  BY DEF UnitOf
  <2>2. \A x : x \in UnitOf(t) <=> x \in Int /\ f <= x /\ x < f + u
    <3> HIDE DEF u
    <3>1. UnitOf(t) = f..(CronNext(t, u) - 1)  BY <2>1
    <3> HIDE DEF f
    <3> QED  BY <1>1, <1>3, <3>1
  <2> HIDE DEF f, u
  <2>3. f \in UnitOf(t) /\ \A x \in UnitOf(t) : f <= x /\ x \in Int  BY <1>1, <1>3, <2>2
  <2> QED  BY <2>3, LeastIs
<1>5. /\ node.start <= t /\ (node.end # NoEnd => f < node.end)
      /\ node.allow_partials => t < over /\ t < r.end /\ (node.end # NoEnd => t < node.end)
      /\ ~node.allow_partials => f + u <= over /\ f < r.end /\ ~(r.end - node.start < u)
  <2> HIDE DEF f
  <2>1. t \in IF node.allow_partials
              THEN {x \in Time : /\ node.start <= x /\ (node.end # NoEnd => Min(UnitOf(x)) < node.end)
                                 /\ x < over /\ x < r.end /\ (node.end # NoEnd => x < node.end)}
              ELSE IF r.end - node.start < u THEN {}
              ELSE {x \in Time : /\ node.start <= x /\ (node.end # NoEnd => Min(UnitOf(x)) < node.end)
                                 /\ CronNext(x, u) <= over /\ Min(UnitOf(x)) < r.end}
    BY DEF Due
  <2> HIDE DEF over, u
  <2>2. CASE node.allow_partials  BY <1>4, <2>1, <2>2
  <2>3. CASE ~node.allow_partials
    <3>1. ~(r.end - node.start < u)  BY <2>1, <2>3
    <3>2. node.start <= t /\ (node.end # NoEnd => Min(UnitOf(t)) < node.end)
          /\ CronNext(t, u) <= over /\ Min(UnitOf(t)) < r.end
        BY <2>1, <2>3, <3>1
    <3> QED  BY <1>3, <1>4, <2>3, <3>1, <3>2
  <2> QED  BY <2>2, <2>3
<1>6. first = node.start /\ LastTick(r) = r.end
  <2>1. first = Max({node.start, node.start})  BY DEF FirstTick
  <2> HIDE DEF first
  <2> QED  BY <1>1, <2>1, MaxOfTwo DEF LastTick
<1>7. over \in Int
  <2> HIDE DEF first, f, u
  <2>1. Floor(r.execution_time, node.cron) \in Int
    <3> DEFINE x == r.execution_time
               c == node.cron
    <3>1. x \in Int /\ c \in Nat \ {0}  BY <1>1
    <3> HIDE DEF x, c
    <3>2. Floor(x, c) \in Int  BY <3>1, FloorRight
    <3> QED  BY <3>2 DEF x, c
  <2>2. CronFloor(r.execution_time) \in Int  BY <2>1 DEF CronFloor
  <2> QED  BY <1>1, <2>2
<1> HIDE DEF first, f, over, u
<1>8. ~OutOfRange(r)
  <2>1. ~(first > LastTick(r))
    <3>1. CASE node.allow_partials  BY <1>1, <1>2, <1>5, <1>6, <3>1
    <3>2. CASE ~node.allow_partials  BY <1>1, <1>5, <1>6, <3>2
    <3> QED  BY <3>1, <3>2
  <2>2. ~(node.end # NoEnd /\ first > node.end)
    <3> SUFFICES ASSUME node.end # NoEnd PROVE ~(first > node.end)  OBVIOUS
    <3>1. CASE node.allow_partials  BY <1>1, <1>2, <1>5, <1>6, <3>1
    <3>2. CASE ~node.allow_partials  BY <1>1, <1>6, <3>2
    <3> QED  BY <3>1, <3>2
  <2> QED  BY <2>1, <2>2 DEF OutOfRange, first
<1>9. IsRange(r)  BY <1>8, RangeRight
<1>10. /\ e \in Int /\ e <= RangeOf(r)[2] /\ RangeOf(r)[2] \in Int
       /\ RangeOf(r)[2] = IF node.allow_partials THEN e ELSE Ceiling(e, u)
       /\ r.end <= e \/ (node.end # NoEnd /\ node.end <= e)
       /\ lo = Floor(node.start, u)
       /\ hi = IF RangeOf(r)[2] <= top THEN RangeOf(r)[2] ELSE top
    BY <1>6, <1>9 DEF IsRange, u, first
<1> HIDE DEF e, lo, hi
<1>11. ~(~node.allow_partials /\ e - first < u)
  <2> SUFFICES ASSUME ~node.allow_partials PROVE ~(e - first < u)  OBVIOUS
  <2>1. ~(r.end - node.start < u)  BY <1>5
  <2> QED  BY <1>1, <1>6, <1>10, <2>1
<1>12. lo \in Int /\ lo <= t
  <2>1. Floor(node.start, u) \in Int /\ Floor(node.start, u) <= node.start  BY <1>1, FloorRight
  <2> QED  BY <1>1, <1>2, <1>5, <1>10, <2>1
<1>13. /\ top \in Int
       /\ \A a \in Int : (node.allow_partials \/ a % u = 0) /\ a <= RangeOf(r)[2] /\ a <= over => a <= top
  <2> DEFINE x == RangeOf(r)[2]
  <2>1. x \in Int /\ top = UpperBound(r, x)  BY <1>10
  <2> HIDE DEF x, top
  <2>2. /\ top \in Int
        /\ \A a \in Int : /\ (node.allow_partials \/ a % node.unit = 0) /\ a <= x
                          /\ a <= (IF r.ignore_cron THEN r.execution_time ELSE CronFloor(r.execution_time))
                          => a <= top
      BY <2>1, UpperBoundRight
  <2> QED  BY <2>2 DEF x, over, u
<1> HIDE DEF top
<1>14. t < RangeOf(r)[2] /\ t < top
  <2>1. CASE node.allow_partials
    <3>1. t + 1 \in Int /\ t + 1 <= e /\ t + 1 <= over
        BY <1>1, <1>2, <1>5, <1>7, <1>10, <2>1
    <3>2. t + 1 <= RangeOf(r)[2]  BY <1>10, <2>1, <3>1
    <3>3. t + 1 <= top  BY <1>13, <2>1, <3>1, <3>2
    <3> QED  BY <1>2, <1>10, <1>13, <3>2, <3>3
  <2>2. CASE ~node.allow_partials
    <3>1. f < e  BY <1>1, <1>3, <1>5, <1>10, <2>2
    <3>2. Ceiling(e, u) \in Int /\ Ceiling(e, u) % u = 0 /\ e <= Ceiling(e, u)
        BY <1>1, <1>10, CeilingRight
    <3>3. Floor(f, u) = f  BY <1>1, <1>3, FloorRight
    <3>4. f < Ceiling(e, u)  BY <1>3, <1>10, <3>1, <3>2
    <3>5. f + u <= Ceiling(e, u)  BY <1>1, <1>3, <3>2, <3>3, <3>4, CeilingIsLeast
    <3>6. f + u \in Int /\ (f + u) % u = 0  BY <1>1, <1>3
    <3>7. f + u <= RangeOf(r)[2] /\ f + u <= over  BY <1>5, <1>10, <2>2, <3>5
    <3>8. f + u <= top  BY <1>13, <3>6, <3>7
    <3> QED  BY <1>1, <1>2, <1>3, <1>10, <1>13, <3>7, <3>8
  <2> QED  BY <2>1, <2>2
<1>15. hi \in Int /\ t < hi  BY <1>10, <1>13, <1>14
<1>16. lo # hi /\ t \in lo..(hi - 1)  BY <1>2, <1>12, <1>15
<1>17. ~NothingToDo(r)  BY <1>8, <1>11, <1>16 DEF NothingToDo, first, e, u, lo, hi
<1> QED  BY <1>16, <1>17 DEF lo, hi

\* While a run of all that the model has goes on, what it is to load, and not to load,
\* is known of what has been loaded and what is left to load together.
Done == Ticks(intervals) \cup Ticks(run.batches)

CatchUpInv ==
    \A r : /\ r = run.request /\ run.status \in {"running", "success"}
           /\ r.restatement = << >> /\ r.start = node.start
        => /\ Asked(r) /\ BeginsInTime(r)
           /\ \A t \in Due(r) \ HeldBack(r) : t \in Done
           /\ \A t \in Done : t \notin Ticks(r.unready)
           /\ r.unready = << >> /\ ~NothingToDo(r)
                 => \A t \in RangeOf(r)[1]..(UpTo(r) - 1) : t \in Done

LEMMA SameNode ==
    ASSUME NEW r, node' = node
    PROVE  /\ Due(r)' = Due(r) /\ HeldBack(r)' = HeldBack(r)
           /\ RangeOf(r)' = RangeOf(r) /\ UpTo(r)' = UpTo(r)
           /\ BeginsInTime(r)' = BeginsInTime(r) /\ NothingToDo(r)' = NothingToDo(r)
<1>1. Due(r)' = Due(r)  BY DEF Due, UnitOf, CronFloor
<1>2. HeldBack(r)' = HeldBack(r)  BY DEF HeldBack, UnitOf
<1>3. RangeOf(r)' = RangeOf(r)  BY DEF RangeOf, FirstTick, EndTick, LastTick
<1>4. UpTo(r)' = UpTo(r)
    BY DEF UpTo, RangeOf, UpperBound, CronFloor, FirstTick, EndTick, LastTick
<1>5. BeginsInTime(r)' = BeginsInTime(r)  BY DEF BeginsInTime, CronFloor, FirstTick
<1>6. NothingToDo(r)' = NothingToDo(r)
    BY DEF NothingToDo, OutOfRange, UpTo, RangeOf, UpperBound, CronFloor, FirstTick, EndTick, LastTick
<1> QED  BY <1>1, <1>2, <1>3, <1>4, <1>5, <1>6

LEMMA RequestCatchesUp ==
    ASSUME MissingIntervalsInv, ~AfterTick, SignalsBegin, LongEnough,
           NEW r, Asked(r), Request(r), r.restatement = << >>,
           Ticks(r.unready) \cap Ticks(intervals) = {}
    PROVE  CatchUpInv'
<1>1. /\ BeginsInTime(r) /\ node' = node /\ intervals' = intervals
      /\ run' = [status |-> IF Batches(r) = << >> THEN "success" ELSE "running",
                 request |-> r, batches |-> Batches(r)]
    BY DEF Request
<1>2. run'.request = r /\ run'.batches = Batches(r)
  <2> DEFINE st == IF Batches(r) = << >> THEN "success" ELSE "running"
  <2>1. run' = [status |-> st, request |-> r, batches |-> Batches(r)]  BY <1>1
  <2> HIDE DEF st
  <2> QED  BY <2>1
<1>3. ListInv /\ node \in Nodes  BY DEF MissingIntervalsInv, ListInv
<1>4. Done' = Ticks(intervals) \cup Ticks(Batches(r))  BY <1>1, <1>2 DEF Done
<1>5. /\ \A t \in Time \ HeldBack(r) : t \in Ticks(Missing(r)) => t \in Ticks(Batches(r))
      /\ Ticks(Batches(r)) \cap Ticks(r.unready) = {}
    BY <1>1, <1>3, BatchesOfReady
<1>6. ASSUME r.start = node.start, NEW t \in Due(r) \ HeldBack(r) PROVE t \in Done'
  <2>1. ~NothingToDo(r) /\ t \in RangeOf(r)[1]..(UpTo(r) - 1)
      BY <1>1, <1>3, <1>6, DueInRange
  <2>2. t \in Ticks(intervals) \/ t \in Ticks(Missing(r))
      BY <1>1, <1>3, <2>1, NotLoadedIsMissing
  <2>3. t \in Time  BY DEF Due
  <2> QED  BY <1>4, <1>5, <2>2, <2>3
<1>7. \A t \in Done' : t \notin Ticks(r.unready)  BY <1>4, <1>5
<1>8. ASSUME r.unready = << >>, ~NothingToDo(r), NEW t \in RangeOf(r)[1]..(UpTo(r) - 1)
      PROVE  t \in Done'
  <2>1. t \in Ticks(intervals) \/ t \in Ticks(Missing(r))
      BY <1>1, <1>3, <1>8, NotLoadedIsMissing
  <2>2. Ticks(Batches(r)) = Ticks(Missing(r))  BY <1>1, <1>3, <1>8, BatchesTicks
  <2> QED  BY <1>4, <2>1, <2>2
<1>9. /\ Due(r)' = Due(r) /\ HeldBack(r)' = HeldBack(r)
      /\ RangeOf(r)' = RangeOf(r) /\ UpTo(r)' = UpTo(r)
      /\ BeginsInTime(r)' = BeginsInTime(r) /\ NothingToDo(r)' = NothingToDo(r)
    BY <1>1, SameNode
<1>10. Asked(r)'  BY DEF Asked
<1>11. r.start = node.start =>
         /\ Asked(r)' /\ BeginsInTime(r)'
         /\ \A t \in Due(r)' \ HeldBack(r)' : t \in Done'
         /\ \A t \in Done' : t \notin Ticks(r.unready)
         /\ r.unready = << >> /\ ~NothingToDo(r)'
               => \A t \in RangeOf(r)'[1]..(UpTo(r)' - 1) : t \in Done'
    BY <1>1, <1>6, <1>7, <1>8, <1>9, <1>10
<1> QED  BY <1>1, <1>2, <1>11 DEF CatchUpInv

LEMMA RunCatchesUp ==
    ASSUME MissingIntervalsInv, ~AfterTick, SignalsBegin, LongEnough,
           NEW start \in Time, NEW end \in Time, NEW ignore_cron, NEW end_bounded,
           NEW unready \in Signals, Run(start, end, ignore_cron, end_bounded, unready)
    PROVE  CatchUpInv'
<1> DEFINE r == [start |-> start, end |-> end, execution_time |-> now,
                 ignore_cron |-> ignore_cron, end_bounded |-> end_bounded,
                 restatement |-> << >>, unready |-> unready]
<1>1. Request(r) /\ end <= now /\ Ticks(unready) \cap Ticks(intervals) = {}  BY DEF Run
<1>2. /\ r.start = start /\ r.end = end /\ r.execution_time = now
      /\ r.restatement = << >> /\ r.unready = unready
    OBVIOUS
<1> HIDE DEF r
<1>3. start \in Nat /\ end \in Nat /\ now \in Nat
    BY TimeTyped DEF MissingIntervalsInv, ListInv
<1>4. Asked(r)  BY <1>1, <1>2, <1>3 DEF Asked
<1> QED  BY <1>1, <1>2, <1>4, RequestCatchesUp

LEMMA EvaluateBatchCatchesUp ==
    ASSUME MissingIntervalsInv, CatchUpInv, ~AfterTick,
           NEW k \in DOMAIN run.batches, EvaluateBatch(k)
    PROVE  CatchUpInv'
<1> DEFINE b == run.batches[k]
<1>1. /\ node' = node /\ run.status = "running" /\ run'.request = run.request
      /\ Ticks(intervals') = Ticks(intervals) \cup b[1]..(b[2] - 1)
      /\ Ticks(run.batches) = Ticks(run'.batches) \cup b[1]..(b[2] - 1)
    BY BatchMoves
<1> HIDE DEF b
<1>2. Done' = Done  BY <1>1 DEF Done
<1> SUFFICES ASSUME NEW r, r = run'.request, r.restatement = << >>, r.start = node.start
             PROVE  /\ Asked(r)' /\ BeginsInTime(r)'
                    /\ \A t \in Due(r)' \ HeldBack(r)' : t \in Done'
                    /\ \A t \in Done' : t \notin Ticks(r.unready)
                    /\ r.unready = << >> /\ ~NothingToDo(r)'
                          => \A t \in RangeOf(r)'[1]..(UpTo(r)' - 1) : t \in Done'
    BY <1>1 DEF CatchUpInv
<1>3. /\ Due(r)' = Due(r) /\ HeldBack(r)' = HeldBack(r)
      /\ RangeOf(r)' = RangeOf(r) /\ UpTo(r)' = UpTo(r)
      /\ BeginsInTime(r)' = BeginsInTime(r) /\ NothingToDo(r)' = NothingToDo(r)
    BY <1>1, SameNode
<1>4. /\ Asked(r) /\ BeginsInTime(r)
      /\ \A t \in Due(r) \ HeldBack(r) : t \in Done
      /\ \A t \in Done : t \notin Ticks(r.unready)
      /\ r.unready = << >> /\ ~NothingToDo(r)
            => \A t \in RangeOf(r)[1]..(UpTo(r) - 1) : t \in Done
    BY <1>1 DEF CatchUpInv
<1>5. Asked(r)'  BY <1>4 DEF Asked
<1> QED  BY <1>2, <1>3, <1>4, <1>5

LEMMA NextCatchesUp ==
    ASSUME ~AfterTick, SignalsBegin, LongEnough
    PROVE  MissingIntervalsInv /\ CatchUpInv /\ [Next]_vars => CatchUpInv'
<1> SUFFICES ASSUME MissingIntervalsInv, CatchUpInv, [Next]_vars PROVE CatchUpInv'
    OBVIOUS
<1>1. ASSUME run' = Idle PROVE CatchUpInv'
  <2>1. run'.status = "idle"  BY <1>1 DEF Idle
  <2> QED  BY <2>1 DEF CatchUpInv
<1>2. CASE TimePasses  BY <1>1, <1>2 DEF TimePasses
<1>3. CASE \E start, end \in Time, ignore_cron, end_bounded \in BOOLEAN, unready \in Signals :
              Run(start, end, ignore_cron, end_bounded, unready)
    BY <1>3, RunCatchesUp
<1>4. ASSUME NEW start \in Time, NEW end \in Time, Restate(start, end) PROVE CatchUpInv'
  <2> DEFINE i == RestatedInterval(start, end)
             r == [NoRequest EXCEPT !.start = start, !.end = end, !.execution_time = now,
                                    !.restatement = i]
  <2>1. Request(r) /\ start < end /\ end <= now  BY <1>4 DEF Restate
  <2>2. i # << >>  BY <2>1, RestatedRight DEF MissingIntervalsInv
  <2> HIDE DEF i
  <2>3. r.restatement = i  BY DEF NoRequest
  <2> HIDE DEF r
  <2>4. run' = [status |-> IF Batches(r) = << >> THEN "success" ELSE "running",
                request |-> r, batches |-> Batches(r)]
      BY <2>1 DEF Request
  <2>5. run'.request = r  BY <2>4
  <2> QED  BY <2>2, <2>3, <2>5 DEF CatchUpInv
<1>5. ASSUME NEW start \in Time, NEW end \in Time, ClearIntervals(start, end) PROVE CatchUpInv'
    BY <1>1, <1>5 DEF ClearIntervals
<1>6. CASE \E k \in DOMAIN run.batches : EvaluateBatch(k)  BY <1>6, EvaluateBatchCatchesUp
<1>7. CASE Stop
  <2>1. run' = [run EXCEPT !.status = "stopped"]  BY <1>7 DEF Stop
  <2>2. run = [status |-> run.status, request |-> run.request, batches |-> run.batches]
      BY DEF MissingIntervalsInv, RunInv
  <2>3. run' = [status |-> "stopped", request |-> run.request, batches |-> run.batches]
      BY <2>1, <2>2
  <2>4. run'.status = "stopped"  BY <2>3
  <2> QED  BY <2>4 DEF CatchUpInv
<1>8. CASE UNCHANGED vars
  <2>1. node' = node /\ intervals' = intervals /\ run' = run  BY <1>8 DEF vars
  <2>2. Done' = Done  BY <2>1 DEF Done
  <2> SUFFICES ASSUME NEW r, r = run.request, run.status \in {"running", "success"},
                      r.restatement = << >>, r.start = node.start
               PROVE  /\ Asked(r)' /\ BeginsInTime(r)'
                      /\ \A t \in Due(r)' \ HeldBack(r)' : t \in Done'
                      /\ \A t \in Done' : t \notin Ticks(r.unready)
                      /\ r.unready = << >> /\ ~NothingToDo(r)'
                            => \A t \in RangeOf(r)'[1]..(UpTo(r)' - 1) : t \in Done'
      BY <2>1 DEF CatchUpInv
  <2>3. /\ Due(r)' = Due(r) /\ HeldBack(r)' = HeldBack(r)
        /\ RangeOf(r)' = RangeOf(r) /\ UpTo(r)' = UpTo(r)
        /\ BeginsInTime(r)' = BeginsInTime(r) /\ NothingToDo(r)' = NothingToDo(r)
      BY <2>1, SameNode
  <2>4. /\ Asked(r) /\ BeginsInTime(r)
        /\ \A t \in Due(r) \ HeldBack(r) : t \in Done
        /\ \A t \in Done : t \notin Ticks(r.unready)
        /\ r.unready = << >> /\ ~NothingToDo(r)
              => \A t \in RangeOf(r)[1]..(UpTo(r) - 1) : t \in Done
      BY DEF CatchUpInv
  <2>5. Asked(r)'  BY <2>4 DEF Asked
  <2> QED  BY <2>2, <2>3, <2>4, <2>5
<1> QED  BY <1>2, <1>3, <1>4, <1>5, <1>6, <1>7, <1>8 DEF Next

LEMMA CaughtUpByInv == ~AfterTick /\ MissingIntervalsInv /\ CatchUpInv => CaughtUp
<1> SUFFICES ASSUME ~AfterTick, MissingIntervalsInv, CatchUpInv,
                    NEW r, r = run.request, run.status = "success",
                    r.restatement = << >>, r.start = node.start
             PROVE  /\ Due(r) \ HeldBack(r) \subseteq Loaded
                    /\ Loaded \cap Ticks(r.unready) = {}
                    /\ r.unready = << >> => Missing(r) = << >>
    BY DEF CaughtUp
<1>1. run.batches = << >>  BY DEF MissingIntervalsInv, RunInv
<1>2. Done = Loaded  BY <1>1, NoTicks DEF Done, Loaded
<1>3. /\ Asked(r) /\ BeginsInTime(r)
      /\ \A t \in Due(r) \ HeldBack(r) : t \in Done
      /\ \A t \in Done : t \notin Ticks(r.unready)
      /\ r.unready = << >> /\ ~NothingToDo(r)
            => \A t \in RangeOf(r)[1]..(UpTo(r) - 1) : t \in Done
    BY DEF CatchUpInv
<1>4. ASSUME r.unready = << >> PROVE Missing(r) = << >>
  <2>1. CASE NothingToDo(r)  BY <2>1, MissingIs
  <2>2. CASE ~NothingToDo(r)
    <3> DEFINE lo == RangeOf(r)[1]
               hi == UpTo(r)
    <3>1. ~OutOfRange(r) /\ lo # hi  BY <2>2 DEF NothingToDo
    <3>2. node \in Nodes /\ node.unit \in Nat \ {0} /\ Canonical(intervals)
        BY NodeTyped DEF MissingIntervalsInv, ListInv
    <3>3. <<lo, hi>> \in Wanted(node.unit, r.execution_time, node.allow_partials, TRUE)
        BY <1>3, <3>1, <3>2, RangeRight DEF IsRange, WantedBy
    <3>4. \A t \in lo..(hi - 1) : t \in Ticks(intervals)
        BY <1>2, <1>3, <1>4, <2>2 DEF Loaded
    <3>5. RecordedFor(r) = intervals  BY DEF RecordedFor
    <3>6. Missing(r) = ComputeMissingIntervals(intervals, lo, hi, node)
        BY <2>2, <3>5, MissingIs
    <3> HIDE DEF lo, hi
    <3>7. Complete(intervals, lo, hi, node)  BY <3>2, <3>3, <3>4, NothingMissing
    <3> QED  BY <3>6, <3>7 DEF Complete
  <2> QED  BY <2>1, <2>2
<1> QED  BY <1>2, <1>3, <1>4

\* A run of all that the model has that succeeds has loaded all that was due and ready, and
\* nothing that was not ready; if nothing was held back, the same run would find nothing to
\* do (Missing, Batches, EvaluateBatch).
THEOREM RunsCatchUp ==
    ~AfterTick /\ SignalsBegin /\ LongEnough => (Spec => []CaughtUp)
<1> SUFFICES ASSUME ~AfterTick, SignalsBegin, LongEnough PROVE Spec => []CaughtUp  OBVIOUS
<1>1. Init => CatchUpInv
  <2> SUFFICES ASSUME Init PROVE CatchUpInv  OBVIOUS
  <2>1. run.status = "idle"  BY DEF Init, Idle
  <2> QED  BY <2>1 DEF CatchUpInv
<1>2. MissingIntervalsInv /\ CatchUpInv /\ [Next]_vars => CatchUpInv'  BY NextCatchesUp
<1>3. MissingIntervalsInv /\ CatchUpInv => CaughtUp  BY CaughtUpByInv
<1> QED  BY <1>1, <1>2, <1>3, MissingIntervalsInvariant, PTL DEF Spec

(***************************************************************************)
(* Looking back: of what has been loaded and is not just being computed    *)
(* again, nothing is older than the unit that lies the lookback ahead of   *)
(* it; and what a run is to load anew lies ahead of nothing but what the   *)
(* run computes again, or has.                                             *)
(***************************************************************************)
LiesAhead(x, t) == Floor(x, node.unit) = Floor(t, node.unit) + node.lookback * node.unit

\* What is recorded of a unit is its beginning.
FromUnit(s) == \A t \in s : \A x \in Floor(t, node.unit)..t : x \in s

LEMMA AheadIsLater ==
    ASSUME node \in Nodes, node.lookback # 0, NEW x \in Int, NEW t \in Int,
           Floor(x, node.unit) = Floor(t, node.unit) + node.lookback * node.unit
    PROVE  t < Floor(x, node.unit) /\ t < x /\ Floor(t, node.unit) + node.unit <= x
<1> DEFINE u == node.unit
           d == node.lookback * u
<1>1. u \in Nat \ {0} /\ node.lookback \in Nat \ {0}  BY MissingIntervalsConstants
<1>2. d \in Nat /\ d >= u
  <2>1. \A a, b \in Nat \ {0} : a * b \in Nat /\ a * b >= b  OBVIOUS
  <2> HIDE DEF u
  <2> QED  BY <1>1, <2>1
<1>3. Floor(x, u) = Floor(t, u) + d  OBVIOUS
<1> HIDE DEF u, d
<1>4. /\ Floor(x, u) \in Int /\ Floor(x, u) <= x
      /\ Floor(t, u) \in Int /\ t < Floor(t, u) + u
    BY <1>1, FloorRight
<1>5. t < Floor(x, u) /\ t < x /\ Floor(t, u) + u <= x  BY <1>1, <1>2, <1>3, <1>4
<1> QED  BY <1>5 DEF u

\* What a run of all that the model has finds missing, it finds missing the lookback behind
\* it, too.
LEMMA MissingLookedBack ==
    ASSUME ListInv, ~AfterTick, node.lookback # 0,
           NEW r, Asked(r), BeginsInTime(r), r.restatement = << >>, r.start = node.start,
           NEW x \in Ticks(Missing(r)), x \notin Ticks(intervals),
           NEW t \in Int, Floor(node.start, node.unit) <= t, LiesAhead(x, t)
    PROVE  t \in Ticks(Missing(r))
<1> DEFINE u == node.unit
           lo == RangeOf(r)[1]
           hi == UpTo(r)
           e == EndTick(r)
           top == UpperBound(r, RangeOf(r)[2])
<1>1. /\ node \in Nodes /\ u \in Nat \ {0} /\ node.lookback \in Nat \ {0} /\ node.start \in Nat
      /\ node.end \in Int /\ r.execution_time \in Int
    BY NodeTyped, MissingIntervalsConstants DEF ListInv, Asked, NoEnd
<1>2. ~NothingToDo(r)
  <2> SUFFICES ASSUME NothingToDo(r) PROVE FALSE  OBVIOUS
  <2>1. Missing(r) = << >>  BY MissingIs
  <2> QED  BY <2>1, NoTicks
<1>3. IsRange(r) /\ lo # hi  BY <1>1, <1>2, RangeRight DEF NothingToDo
<1>4. <<lo, hi>> \in Wanted(u, r.execution_time, node.allow_partials, TRUE)
    BY <1>3 DEF IsRange, WantedBy
<1>5. lo <= t
  <2>1. FirstTick(r) = Max({node.start, node.start})  BY DEF FirstTick
  <2>2. FirstTick(r) = node.start  BY <1>1, <2>1, MaxOfTwo
  <2> QED  BY <1>3, <2>2 DEF IsRange
<1>6. node.end # NoEnd => hi <= Ceiling(node.end, u)
  <2> SUFFICES ASSUME node.end # NoEnd PROVE hi <= Ceiling(node.end, u)  OBVIOUS
  <2> DEFINE last == RangeOf(r)[2]
  <2>1. /\ e \in Int /\ e <= node.end
        /\ last = IF node.allow_partials THEN e ELSE Ceiling(e, u)
        /\ last \in Int /\ hi = IF last <= top THEN last ELSE top
      BY <1>3 DEF IsRange
  <2>2. top \in Int
    <3>1. last \in Int /\ top = UpperBound(r, last)  BY <2>1
    <3> HIDE DEF last, top
    <3> QED  BY <1>1, <3>1, UpperBoundRight
  <2> HIDE DEF e, hi, top, u, last
  <2>3. hi <= last /\ hi \in Int  BY <2>1, <2>2
  <2>4. /\ Ceiling(node.end, u) \in Int /\ node.end <= Ceiling(node.end, u)
        /\ Ceiling(node.end, u) % u = 0
      BY <1>1, CeilingRight
  <2>5. e <= Ceiling(node.end, u)  BY <1>1, <2>1, <2>4
  <2>6. Ceiling(e, u) <= Ceiling(node.end, u)  BY <1>1, <2>1, <2>4, <2>5, CeilingIsLeast
  <2>7. last <= Ceiling(node.end, u)  BY <2>1, <2>5, <2>6
  <2> QED  BY <2>1, <2>3, <2>4, <2>7
<1>7. RecordedFor(r) = intervals /\ intervals \in Seq(Pairs)
    BY DEF RecordedFor, ListInv, Canonical
<1>8. Missing(r) = ComputeMissingIntervals(intervals, lo, hi, node)  BY <1>2, <1>7, MissingIs
<1>9. Floor(x, u) = Floor(t, u) + node.lookback * u  BY DEF LiesAhead
<1> HIDE DEF lo, hi
<1> QED  BY <1>1, <1>4, <1>5, <1>6, <1>7, <1>8, <1>9, MissingBehind

\* And if that is not held back, neither is what lies behind it and has been loaded.
LEMMA BatchesLookedBack ==
    ASSUME ListInv, FromUnit(Ticks(intervals)), ~AfterTick, SignalsBegin, node.lookback # 0,
           NEW r, Asked(r), BeginsInTime(r), r.restatement = << >>, r.start = node.start,
           Ticks(r.unready) \cap Ticks(intervals) = {},
           NEW t \in Ticks(intervals), Floor(node.start, node.unit) <= t,
           NEW x \in Ticks(Batches(r)), x \notin Ticks(intervals), LiesAhead(x, t)
    PROVE  t \in Ticks(Batches(r))
<1> DEFINE u == node.unit
           ready == ReadyUnits(r)
           b == HeldBackIntervals(r)
           diff == ReadyIntervals(r)
           past == node.depends_on_past
           f == Floor(t, u)
<1>1. node \in Nodes /\ u \in Nat \ {0}  BY NodeTyped DEF ListInv
<1>2. MadeOfUnits(r)  BY <1>1, BatchesOfUnits
<1>3. x \in Ticks(Missing(r))  BY <1>1, BatchesTicks
<1>4. t \in Int /\ intervals \in Seq(Pairs)
    BY TicksOf DEF ListInv, Canonical
<1>5. t \in Ticks(Missing(r))  BY <1>3, <1>4, MissingLookedBack
<1>6. f \in Int /\ f <= t /\ t < f + u /\ f % u = 0  BY <1>1, <1>4, FloorRight
<1>7. f \in Ticks(intervals)
  <2>1. f \in f..t  BY <1>4, <1>6
  <2> QED  BY <2>1 DEF FromUnit
<1>8. /\ f \notin Ticks(b) /\ t \notin Ticks(r.unready)
      /\ Canonical(b) /\ b \in Seq(Pairs) /\ \A k \in 1..Len(b) : b[k][1] % u = 0
      /\ ready \in Seq(Pairs) /\ InOrder(ready) /\ \A p \in ToSet(ready) : IsUnit(p, u)
      /\ Ticks(Batches(r)) = Ticks(diff) /\ diff = IntervalDiff(ready, b, past)
    BY <1>2, <1>7 DEF MadeOfUnits, Canonical, ReadyIntervals
<1>9. PICK p : /\ IsUnit(p, u) /\ t \in p[1]..(p[2] - 1)
               /\ p \in ToSet(r.unready) \/ p \in ToSet(ready)
    BY <1>2, <1>5 DEF MadeOfUnits
<1> HIDE DEF f, ready, b, diff, u
<1>10. /\ p[1] \in Int /\ p[2] \in Int /\ p[1] <= t /\ t < p[2]
       /\ p[1] % u = 0 /\ p[2] <= p[1] + u
    BY <1>4, <1>9 DEF IsUnit, Pairs
<1>11. p[1] = f
  <2>1. p[1] <= f  BY <1>1, <1>4, <1>10, FloorIsGreatest DEF f
  <2>2. SUFFICES ASSUME p[1] < f PROVE FALSE  BY <1>6, <1>10, <2>1
  <2>3. Floor(p[1], u) + u <= f  BY <1>1, <1>6, <1>10, <2>2, CeilingIsLeast
  <2>4. Floor(p[1], u) = p[1]  BY <1>1, <1>10, FloorRight
  <2> QED  BY <1>1, <1>4, <1>6, <1>10, <2>3, <2>4
<1>12. p \in ToSet(ready)
  <2> SUFFICES ASSUME p \in ToSet(r.unready) PROVE FALSE  BY <1>9
  <2>1. t \in Ticks(r.unready)  BY <1>9 DEF Ticks
  <2> QED  BY <1>8, <2>1
<1>13. ApartFrom(p, b)
  <2> SUFFICES ASSUME NEW k \in 1..Len(b), ~(p[2] <= b[k][1]), ~(b[k][2] <= p[1]) PROVE FALSE
      BY DEF ApartFrom, Apart
  <2>1. b[k][1] \in Int /\ b[k][2] \in Int /\ b[k][1] % u = 0  BY <1>8, CanonicalInOrder
  <2>2. b[k][1] < f + u /\ f < b[k][2]  BY <1>1, <1>6, <1>10, <1>11, <2>1
  <2>3. b[k][1] <= f
    <3> SUFFICES ASSUME f < b[k][1] PROVE FALSE  BY <1>6, <2>1
    <3>1. Floor(f, u) + u <= b[k][1]  BY <1>1, <1>6, <2>1, CeilingIsLeast
    <3>2. Floor(f, u) = f  BY <1>1, <1>6, FloorRight
    <3> QED  BY <1>1, <1>6, <2>1, <2>2, <3>1, <3>2
  <2>4. f \in Ticks(b)  BY <1>6, <1>8, <2>2, <2>3, TicksOf
  <2> QED  BY <1>8, <2>4
<1>14. \A k \in 1..Len(ready) : ready[k] \in ToSet(ready) /\ ready[k][1] < ready[k][2]
  <2>1. \A k \in 1..Len(ready) : ready[k] \in ToSet(ready)  BY <1>8, MembersOf
  <2> QED  BY <1>8, <2>1 DEF IsUnit
<1>15. PICK q \in ToSet(diff) : x \in q[1]..(q[2] - 1)
  <2>1. x \in Ticks(diff)  BY <1>8
  <2> QED  BY <2>1 DEF Ticks
<1>16. Kept(ready, b, past, diff)
  <2>1. \A k \in 1..Len(ready) : /\ ready[k][1] % u = 0 /\ ready[k][1] < ready[k][2]
                                 /\ ready[k][2] <= ready[k][1] + u
      BY <1>8, <1>14 DEF IsUnit
  <2> QED  BY <1>1, <1>8, <2>1, DiffRight
<1>17. /\ q \in ToSet(ready) /\ q[1] \in Int /\ q[2] \in Int
       /\ x \in Int /\ q[1] <= x /\ x < q[2] /\ q[1] < q[2] /\ q[2] <= q[1] + u
  <2>1. q \in ToSet(ready)  BY <1>15, <1>16 DEF Kept
  <2>2. IsUnit(q, u)  BY <1>8, <2>1
  <2>3. q[1] \in Int /\ q[2] \in Int /\ q[1] < q[2] /\ q[2] <= q[1] + u
      BY <2>2 DEF IsUnit, Pairs
  <2> QED  BY <1>15, <2>1, <2>3
<1>18. t < x /\ f + u <= x
    BY <1>1, <1>4, <1>17, AheadIsLater DEF LiesAhead, f, u
<1>19. PICK k \in 1..Len(ready), l \in 1..Len(ready) : p = ready[k] /\ q = ready[l]
  <2>1. ToSet(ready) = {ready[k] : k \in 1..Len(ready)}  BY <1>8, MembersOf
  <2> QED  BY <1>12, <1>17, <2>1
<1>20. k < l
  <2>1. k # l
    <3> SUFFICES ASSUME p = q PROVE FALSE  BY <1>19
    <3> QED  BY <1>1, <1>6, <1>10, <1>11, <1>17, <1>18
  <2>2. ~(l < k)
    <3> SUFFICES ASSUME l < k PROVE FALSE  OBVIOUS
    <3>1. q[2] <= p[1]  BY <1>8, <1>19 DEF InOrder
    <3> QED  BY <1>4, <1>10, <1>17, <1>18, <3>1
  <2>3. k \in Int /\ l \in Int  OBVIOUS
  <2> QED  BY <2>1, <2>2, <2>3
<1>21. p \in ToSet(diff)
    BY <1>8, <1>13, <1>14, <1>15, <1>19, <1>20, DiffInOrder
<1>22. t \in Ticks(diff)  BY <1>9, <1>21 DEF Ticks
<1> QED  BY <1>8, <1>22

\* Nothing is evaluated before the model's first unit, nor before what is asked for.
LEMMA BatchesFromStart ==
    ASSUME ListInv, ~AfterTick, NEW r, Asked(r), BeginsInTime(r),
           r.restatement # << >> => Restates(r), NEW x \in Ticks(Batches(r))
    PROVE  /\ x \in Int /\ ~OutOfRange(r) /\ IsRange(r)
           /\ x \in RangeOf(r)[1]..(RangeOf(r)[2] - 1)
           /\ Floor(node.start, node.unit) <= x
<1> DEFINE u == node.unit
           lo == RangeOf(r)[1]
           hi == UpTo(r)
           last == RangeOf(r)[2]
           top == UpperBound(r, last)
           first == FirstTick(r)
<1>1. /\ node \in Nodes /\ u \in Nat \ {0} /\ node.start \in Nat
      /\ node.end \in Int /\ r.execution_time \in Int
    BY NodeTyped DEF ListInv, Asked, NoEnd
<1>2. x \in Ticks(Missing(r))  BY <1>1, BatchesTicks
<1>3. ~NothingToDo(r)
  <2> SUFFICES ASSUME NothingToDo(r) PROVE FALSE  OBVIOUS
  <2>1. Missing(r) = << >>  BY MissingIs
  <2> QED  BY <1>2, <2>1, NoTicks
<1>4. ~OutOfRange(r) /\ IsRange(r) /\ lo # hi  BY <1>1, <1>3, RangeRight DEF NothingToDo
<1>5. <<lo, hi>> \in Wanted(u, r.execution_time, node.allow_partials, TRUE)
    BY <1>4 DEF IsRange, WantedBy
<1>6. RecordedFor(r) \in Seq(Pairs)  BY RecordedRight
<1>7. Missing(r) = ComputeMissingIntervals(RecordedFor(r), lo, hi, node)  BY <1>3, MissingIs
<1>8. Computed(RecordedFor(r), lo, hi, node, x)
  <2> HIDE DEF lo, hi
  <2> QED  BY <1>1, <1>5, <1>6, ComputedTicks
<1>9. x \in lo..(hi - 1)
  <2> HIDE DEF lo, hi
  <2> QED  BY <1>2, <1>7, <1>8 DEF Computed
<1>10. lo \in Int /\ hi \in Int  BY <1>5 DEF Wanted, Pairs
<1>11. last \in Int /\ top \in Int /\ hi = IF last <= top THEN last ELSE top
  <2>1. last \in Int /\ hi = IF last <= top THEN last ELSE top  BY <1>4 DEF IsRange
  <2>2. top \in Int
    <3>1. last \in Int /\ top = UpperBound(r, last)  BY <2>1
    <3> HIDE DEF last, top
    <3> QED  BY <1>1, <3>1, UpperBoundRight
  <2> QED  BY <2>1, <2>2
<1>12. lo = Floor(first, u) /\ first \in Int /\ node.start <= first
  <2>1. lo = Floor(first, u) /\ first \in Int  BY <1>4 DEF IsRange
  <2> DEFINE y == IF r.restatement # << >> THEN r.restatement[1] ELSE r.start
  <2>2. y \in Int  BY DEF Asked
  <2>3. first = Max({y, node.start})  BY DEF FirstTick
  <2> HIDE DEF y, first
  <2>4. node.start <= first  BY <1>1, <2>2, <2>3, MaxOfTwo
  <2> QED  BY <2>1, <2>4 DEF first
<1> HIDE DEF lo, hi, last, top, first, u
<1>13. x \in Int /\ lo <= x /\ x < last /\ x \in lo..(last - 1)  BY <1>9, <1>10, <1>11
<1>14. Floor(node.start, u) <= lo
  <2>1. /\ Floor(node.start, u) \in Int /\ Floor(node.start, u) % u = 0
        /\ Floor(node.start, u) <= node.start
    <3>1. node.start \in Int  BY <1>1
    <3> QED  BY <1>1, <3>1, FloorRight
  <2>2. Floor(node.start, u) <= first  BY <1>1, <1>12, <2>1
  <2> QED  BY <1>1, <1>12, <2>1, <2>2, FloorIsGreatest
<1>15. Floor(node.start, u) <= x
  <2>1. node.start \in Int  BY <1>1
  <2>2. Floor(node.start, u) \in Int  BY <1>1, <2>1, FloorRight
  <2> QED  BY <1>10, <1>13, <1>14, <2>2
<1> QED  BY <1>4, <1>13, <1>15 DEF lo, last, u

Pending == IF run.status = "running" /\ ~node.in_order THEN Ticks(run.batches) ELSE {}

Looked(t) ==
    LET ahead == t + node.lookback * node.unit
    IN  UnitOf(t) \cup UnitOf(ahead) \subseteq Ticks(intervals)
            => asof[t] >= CronNext(ahead, node.unit)

LooksBack ==
    \A t \in Ticks(intervals), x \in Ticks(run.batches) \ Ticks(intervals) :
        LiesAhead(x, t) => t \in Ticks(run.batches) \/ asof[t] = now

LookBackInv ==
    /\ FromUnit(Ticks(intervals))
    /\ \A t \in Done : Floor(node.start, node.unit) <= t
    /\ InOrder(run.batches)
    /\ node.lookback # 0 =>
          /\ \A t \in Ticks(intervals) \ Pending : Looked(t)
          /\ run.status = "running" => LooksBack

LEMMA RequestLooksBack ==
    ASSUME MissingIntervalsInv, LookBackInv, ~AfterTick, SignalsBegin,
           NEW r, Asked(r), Request(r), r.restatement # << >> => Restates(r),
           node.lookback # 0 =>
              \A t \in Ticks(intervals), x \in Ticks(Batches(r)) \ Ticks(intervals) :
                  LiesAhead(x, t) => t \in Ticks(Batches(r))
    PROVE  LookBackInv'
<1>1. /\ run.status # "running" /\ BeginsInTime(r)
      /\ node' = node /\ now' = now /\ intervals' = intervals /\ asof' = asof
      /\ run' = [status |-> IF Batches(r) = << >> THEN "success" ELSE "running",
                 request |-> r, batches |-> Batches(r)]
    BY DEF Request
<1>2. run'.batches = Batches(r)
  <2> DEFINE st == IF Batches(r) = << >> THEN "success" ELSE "running"
  <2>1. run' = [status |-> st, request |-> r, batches |-> Batches(r)]  BY <1>1
  <2> HIDE DEF st
  <2> QED  BY <2>1
<1>3. ListInv /\ node \in Nodes  BY DEF MissingIntervalsInv, ListInv
<1>4. FromUnit(Ticks(intervals))'  BY <1>1 DEF LookBackInv, FromUnit, Floor
<1>5. (\A t \in Done : Floor(node.start, node.unit) <= t)'
  <2>1. \A t \in Ticks(Batches(r)) : Floor(node.start, node.unit) <= t
      BY <1>1, <1>3, BatchesFromStart
  <2>2. \A t \in Ticks(intervals) : Floor(node.start, node.unit) <= t
      BY DEF LookBackInv, Done
  <2> QED  BY <1>1, <1>2, <2>1, <2>2 DEF Done
<1>6. InOrder(run.batches)'
  <2>1. InOrder(Batches(r))  BY <1>1, <1>3, BatchesOfUnits DEF MadeOfUnits
  <2> QED  BY <1>2, <2>1
<1>7. ASSUME node.lookback # 0, NEW t \in Ticks(intervals) PROVE Looked(t)'
  <2>1. Pending = {}  BY <1>1 DEF Pending
  <2>2. Looked(t)  BY <1>7, <2>1 DEF LookBackInv
  <2> QED  BY <1>1, <2>2 DEF Looked, UnitOf
<1>8. node.lookback # 0 => LooksBack'
    BY <1>1, <1>2 DEF LooksBack, LiesAhead
<1> QED  BY <1>1, <1>4, <1>5, <1>6, <1>7, <1>8 DEF LookBackInv

LEMMA RunLooksBack ==
    ASSUME MissingIntervalsInv, LookBackInv, ~AfterTick, ~WithStart, SignalsBegin,
           NEW start \in Time, NEW end \in Time, NEW ignore_cron, NEW end_bounded,
           NEW unready \in Signals, Run(start, end, ignore_cron, end_bounded, unready)
    PROVE  LookBackInv'
<1> DEFINE r == [start |-> start, end |-> end, execution_time |-> now,
                 ignore_cron |-> ignore_cron, end_bounded |-> end_bounded,
                 restatement |-> << >>, unready |-> unready]
<1>1. Request(r) /\ end <= now /\ start = node.start /\ Ticks(unready) \cap Ticks(intervals) = {}
    BY DEF Run
<1>2. /\ r.start = start /\ r.end = end /\ r.execution_time = now
      /\ r.restatement = << >> /\ r.unready = unready
    OBVIOUS
<1> HIDE DEF r
<1>3. start \in Nat /\ end \in Nat /\ now \in Nat
    BY TimeTyped DEF MissingIntervalsInv, ListInv
<1>4. Asked(r)  BY <1>1, <1>2, <1>3 DEF Asked
<1>5. ASSUME node.lookback # 0, NEW t \in Ticks(intervals),
             NEW x \in Ticks(Batches(r)) \ Ticks(intervals), LiesAhead(x, t)
      PROVE  t \in Ticks(Batches(r))
  <2>1. ListInv /\ BeginsInTime(r)  BY <1>1 DEF Request, MissingIntervalsInv
  <2>2. FromUnit(Ticks(intervals)) /\ Floor(node.start, node.unit) <= t
      BY DEF LookBackInv, Done
  <2> QED  BY <1>1, <1>2, <1>4, <1>5, <2>1, <2>2, BatchesLookedBack
<1> QED  BY <1>1, <1>2, <1>4, <1>5, RequestLooksBack

\* A restatement that begins behind no more than what has been loaded loads nothing new.
LEMMA RestateLooksBack ==
    ASSUME MissingIntervalsInv, LookBackInv, ~AfterTick, ~WithStart, SignalsBegin,
           NEW start \in Time, NEW end \in Time, Restate(start, end)
    PROVE  LookBackInv'
<1> DEFINE i == RestatedInterval(start, end)
           u == node.unit
           r == [NoRequest EXCEPT !.start = start, !.end = end, !.execution_time = now,
                                  !.restatement = i]
<1>1. start < end /\ end <= now /\ Request(r) /\ (node.lookback = 0 \/ ~Ahead(i[1], i[2]))
    BY DEF Restate
<1>2. ListInv /\ node \in Nodes /\ u \in Nat \ {0} /\ node.start \in Nat
    BY NodeTyped DEF MissingIntervalsInv, ListInv
<1>3. i[1] \in Nat /\ i[2] \in Int /\ i[1] < i[2] /\ i[1] \in Whole /\ i[2] \in Whole /\ i # << >>
    BY <1>1, <1>2, RestatedRight
<1>4. i[1] % u = 0 /\ i[2] % u = 0  BY <1>1, <1>2, RestatedUnits
<1>5. /\ r.start = start /\ r.end = end /\ r.execution_time = now /\ r.ignore_cron = FALSE
      /\ r.restatement = i /\ r.unready = << >> /\ ~r.end_bounded
    BY DEF NoRequest
<1> HIDE DEF r, i, u
<1>6. start \in Nat /\ end \in Nat /\ now \in Nat  BY <1>2, TimeTyped DEF ListInv
<1>7. Asked(r) /\ Restates(r) /\ BeginsInTime(r)
    BY <1>1, <1>3, <1>5, <1>6 DEF Asked, Restates, Request
<1>8. ASSUME node.lookback # 0, NEW x \in Ticks(Batches(r)) PROVE x \in Ticks(intervals)
  <2> DEFINE lo == RangeOf(r)[1]
             hi == RangeOf(r)[2]
             first == FirstTick(r)
             e == EndTick(r)
  <2>1. x \in Int /\ IsRange(r) /\ x \in lo..(hi - 1)
      BY <1>2, <1>7, BatchesFromStart
  <2>2. /\ lo = Floor(first, u) /\ first \in Int /\ e \in Int /\ e <= LastTick(r)
        /\ hi = IF node.allow_partials THEN e ELSE Ceiling(e, u)
      BY <2>1 DEF IsRange, u
  <2>3. LastTick(r) = i[2]  BY <1>3, <1>5 DEF LastTick
  <2>4. i[1] <= first
    <3>1. first = Max({i[1], node.start})  BY <1>3, <1>5 DEF FirstTick
    <3> HIDE DEF first
    <3>2. i[1] \in Int /\ node.start \in Int  BY <1>2, <1>3
    <3>3. Max({i[1], node.start}) = IF i[1] >= node.start THEN i[1] ELSE node.start
        BY <3>2, MaxOfTwo
    <3> QED  BY <3>1, <3>2, <3>3
  <2> HIDE DEF lo, hi, first, e
  <2>5. lo \in Int /\ i[1] <= lo
    <3>1. i[1] \in Int  BY <1>3
    <3> QED  BY <1>2, <1>4, <2>2, <2>4, <3>1, FloorRight, FloorIsGreatest
  <2>6. hi \in Int /\ hi <= i[2]
    <3>1. e <= i[2]  BY <2>2, <2>3
    <3>2. Ceiling(e, u) \in Int /\ Ceiling(e, u) <= i[2]
        BY <1>2, <1>3, <1>4, <2>2, <3>1, CeilingRight, CeilingIsLeast
    <3> QED  BY <2>2, <3>1, <3>2
  <2>7. x \in i[1]..(i[2] - 1)  BY <1>3, <2>1, <2>5, <2>6
  <2> QED  BY <1>1, <1>8, <2>7 DEF Ahead
<1> QED  BY <1>1, <1>7, <1>8, RequestLooksBack

LEMMA IdleLooksBack ==
    ASSUME MissingIntervalsInv, LookBackInv, run' = Idle, node' = node, asof' = asof,
           Ticks(intervals') \subseteq Ticks(intervals), FromUnit(Ticks(intervals')),
           run.status # "running"
    PROVE  LookBackInv'
<1>1. run'.status = "idle" /\ run'.batches = << >>  BY DEF Idle
<1>2. FromUnit(Ticks(intervals))'  BY DEF FromUnit, Floor
<1>3. (\A t \in Done : Floor(node.start, node.unit) <= t)'
  <2>1. Done' = Ticks(intervals')  BY <1>1, NoTicks DEF Done
  <2>2. \A t \in Ticks(intervals) : Floor(node.start, node.unit) <= t
      BY DEF LookBackInv, Done
  <2> QED  BY <2>1, <2>2
<1>4. InOrder(run.batches)'  BY <1>1 DEF InOrder
<1>5. ASSUME node.lookback # 0, NEW t \in Ticks(intervals') PROVE Looked(t)'
  <2>1. Pending = {}  BY DEF Pending
  <2>2. Looked(t)  BY <1>5, <2>1 DEF LookBackInv
  <2> QED  BY <2>2 DEF Looked, UnitOf
<1> QED  BY <1>1, <1>2, <1>3, <1>4, <1>5 DEF LookBackInv

LEMMA ClearIntervalsLooksBack ==
    ASSUME MissingIntervalsInv, LookBackInv,
           NEW start \in Time, NEW end \in Time, ClearIntervals(start, end)
    PROVE  LookBackInv'
<1> DEFINE i == RestatedInterval(start, end)
           u == node.unit
<1>1. /\ start < end /\ end <= now /\ run' = Idle /\ run.status # "running"
      /\ intervals' = RemoveInterval(intervals, i[1], i[2])
      /\ node' = node /\ asof' = asof
    BY DEF ClearIntervals
<1>2. ListInv /\ u \in Nat \ {0}  BY NodeTyped DEF MissingIntervalsInv, ListInv
<1>3. /\ i[1] \in Nat /\ i[2] \in Int /\ i[1] < i[2] /\ i[1] \in Whole /\ i[2] \in Whole
    BY <1>1, <1>2, RestatedRight
<1>4. i[2] % u = 0  BY <1>1, <1>2, RestatedUnits
<1> HIDE DEF i, u
<1>5. Ticks(intervals') = Ticks(intervals) \ (i[1]..(i[2] - 1))
  <2>1. Canonical(intervals) /\ EndsFrom(intervals, Whole)  BY <1>2 DEF ListInv
  <2>2. i[1] \in Int  BY <1>3
  <2>3. Ticks(RemoveInterval(intervals, i[1], i[2])) = Ticks(intervals) \ (i[1]..(i[2] - 1))
      BY <1>3, <2>1, <2>2, RemoveRight
  <2> QED  BY <1>1, <2>3
<1>6. FromUnit(Ticks(intervals'))
  <2> SUFFICES ASSUME NEW t \in Ticks(intervals'), NEW x \in Floor(t, u)..t
               PROVE  x \in Ticks(intervals')
      BY DEF FromUnit, u
  <2>1. t \in Ticks(intervals) /\ t \notin i[1]..(i[2] - 1)  BY <1>5
  <2>2. x \in Ticks(intervals)  BY <2>1 DEF LookBackInv, FromUnit, u
  <2>3. t \in Int  BY <1>2, <2>1, TicksOf DEF ListInv, Canonical
  <2>4. Floor(t, u) \in Int /\ Floor(t, u) <= t  BY <1>2, <2>3, FloorRight
  <2>5. x \in Int /\ Floor(t, u) <= x /\ x <= t  BY <2>3, <2>4
  <2>6. ASSUME x \in i[1]..(i[2] - 1) PROVE FALSE
    <3>1. i[2] <= t  BY <1>3, <2>1, <2>3, <2>5, <2>6
    <3>2. i[2] <= Floor(t, u)  BY <1>2, <1>3, <1>4, <2>3, <3>1, FloorIsGreatest
    <3> QED  BY <1>3, <2>4, <2>5, <2>6, <3>2
  <2> QED  BY <1>5, <2>2, <2>6
<1>7. Ticks(intervals') \subseteq Ticks(intervals)  BY <1>5
<1> QED  BY <1>1, <1>6, <1>7, IdleLooksBack

\* A batch that is evaluated is as of now, after all that it completes; nothing else is
\* completed behind it but what the run has loaded, or is still to load.
LEMMA EvaluateBatchLooksBack ==
    ASSUME MissingIntervalsInv, LookBackInv, ~AfterTick,
           NEW k \in DOMAIN run.batches, EvaluateBatch(k)
    PROVE  LookBackInv'
<1> DEFINE b == run.batches[k]
           u == node.unit
           L == Ticks(intervals)
           B == Ticks(run.batches)
           N == Ticks(intervals')
           C == Ticks(run'.batches)
           d == node.lookback * u
<1>1. /\ node' = node /\ now' = now /\ run.status = "running"
      /\ run.request.execution_time = now
      /\ b \in Wanted(u, now, node.allow_partials, TRUE)
      /\ asof' = [t \in Time |-> IF b[1] <= t /\ t < b[2] THEN run.request.execution_time
                                 ELSE asof[t]]
      /\ N = L \cup b[1]..(b[2] - 1)
      /\ B = C \cup b[1]..(b[2] - 1)
    BY BatchMoves
<1>2. /\ node \in Nodes /\ u \in Nat \ {0} /\ node.lookback \in Nat /\ now \in Nat /\ now <= Horizon
      /\ Horizon \in Nat
    BY NodeTyped, TimeTyped, MissingIntervalsConstants DEF MissingIntervalsInv, ListInv
<1>3. b[1] \in Int /\ b[2] \in Int /\ b[1] < b[2] /\ b[1] % u = 0
    BY <1>1 DEF Wanted, Pairs
<1>4. MissingIntervalsInv'  BY EvaluateBatchRight
<1>5. N \subseteq 0..(now - 1)  BY <1>1, <1>4 DEF MissingIntervalsInv, ListInv
<1>6. run.batches \in Seq(Pairs) /\ k \in 1..Len(run.batches)
  <2>1. run.batches \in Seq(Wanted(u, now, node.allow_partials, ~AfterTick))
      BY DEF MissingIntervalsInv, RunInv
  <2>2. Wanted(u, now, node.allow_partials, ~AfterTick) \subseteq Pairs  BY DEF Wanted
  <2> QED  BY <2>1, <2>2
<1>7. /\ run'.batches = RemoveAt(run.batches, k)
      /\ run'.status = IF run'.batches = << >> THEN "success" ELSE "running"
  <2> DEFINE left == RemoveAt(run.batches, k)
             st == IF left = << >> THEN "success" ELSE run.status
  <2>1. ~(b[1] > b[2])
    <3> HIDE DEF b
    <3> QED  BY <1>3
  <2>2. run' = [run EXCEPT !.batches = left, !.status = st]  BY <2>1 DEF EvaluateBatch
  <2>3. run = [status |-> run.status, request |-> run.request, batches |-> run.batches]
      BY DEF MissingIntervalsInv, RunInv
  <2> HIDE DEF left, st
  <2>4. run' = [status |-> st, request |-> run.request, batches |-> left]  BY <2>2, <2>3
  <2>5. run'.batches = left /\ run'.status = st  BY <2>4
  <2> QED  BY <1>1, <2>5 DEF left, st
<1>8. node.in_order => k = 1  BY DEF EvaluateBatch
<1>9. /\ FromUnit(L) /\ InOrder(run.batches)
      /\ \A t \in Done : Floor(node.start, u) <= t
      /\ node.lookback # 0 => (\A t \in L \ Pending : Looked(t)) /\ LooksBack
    BY <1>1 DEF LookBackInv
<1> HIDE DEF b, L, B, N, C, d, u
<1>10. \A t \in N : /\ t \in Int /\ t \in Time
                    /\ asof'[t] = IF b[1] <= t /\ t < b[2] THEN now ELSE asof[t]
  <2>1. \A t \in N : t \in 0..(now - 1)  BY <1>5
  <2>2. \A t \in N : t \in Int /\ t \in Time  BY <1>2, <2>1, TimeTyped
  <2> QED  BY <1>1, <2>2
<1>11. InOrder(run'.batches)  BY <1>6, <1>7, <1>9, RemoveAtInOrder
<1>12. FromUnit(N)
  <2> SUFFICES ASSUME NEW t \in N, NEW x \in Floor(t, u)..t PROVE x \in N
      BY DEF FromUnit, u
  <2>1. CASE t \in L
    <3>1. x \in L  BY <1>9, <2>1 DEF FromUnit, u
    <3> QED  BY <1>1, <3>1
  <2>2. CASE t \in b[1]..(b[2] - 1)
    <3>1. t \in Int /\ b[1] <= t /\ t < b[2]  BY <1>3, <2>2
    <3>2. b[1] <= Floor(t, u) /\ Floor(t, u) \in Int
        BY <1>2, <1>3, <3>1, FloorIsGreatest, FloorRight
    <3>3. x \in b[1]..(b[2] - 1)  BY <1>3, <3>1, <3>2
    <3> QED  BY <1>1, <3>3
  <2> QED  BY <1>1, <2>1, <2>2
<1>13. (\A t \in Done : Floor(node.start, node.unit) <= t)'
  <2>1. Done' = Done  BY <1>1 DEF Done, N, L, B, C
  <2> QED  BY <1>1, <1>9, <2>1 DEF u
<1>14. ASSUME node.lookback # 0, NEW t \in N, t \notin Pending',
              UnitOf(t) \cup UnitOf(t + d) \subseteq N
       PROVE  asof'[t] >= CronNext(t + d, u)
  <2>1. t \in Int /\ t + d \in Int /\ Floor(t + d, u) = Floor(t, u) + d
    <3>1. t \in Int /\ node.lookback \in Int  BY <1>2, <1>10
    <3> QED  BY <1>2, <3>1, FloorAhead DEF d
  <2>2. CronNext(t + d, u) <= now
    <3>1. Floor(t + d, u)..(CronNext(t + d, u) - 1) \subseteq 0..(now - 1)
        BY <1>5, <1>14 DEF UnitOf, u
    <3>2. now \in Int  BY <1>2
    <3> QED  BY <1>2, <2>1, <3>1, <3>2, UnitOver
  <2>3. CronNext(t + d, u) \in Int  BY <1>2, <2>1, FloorRight DEF CronNext
  <2>4. ASSUME asof'[t] = now PROVE asof'[t] >= CronNext(t + d, u)
      BY <1>2, <2>2, <2>3, <2>4
  <2>5. CASE b[1] <= t /\ t < b[2]  BY <1>10, <2>4, <2>5
  <2>6. CASE ~(b[1] <= t /\ t < b[2])
    <3>1. asof'[t] = asof[t]  BY <1>10, <2>6
    <3>2. t \notin b[1]..(b[2] - 1) /\ t \in L  BY <1>1, <1>3, <2>1, <2>6
    <3>3. t \notin Pending
      <4> SUFFICES ASSUME ~node.in_order, t \in B PROVE FALSE  BY <1>1 DEF Pending, B
      <4>1. t \in C  BY <1>1, <3>2
      <4>2. run'.status = "running"
        <5>1. run'.batches # << >>  BY <4>1, NoTicks DEF C
        <5> QED  BY <1>7, <5>1
      <4> QED  BY <1>1, <1>14, <4>1, <4>2 DEF Pending, C
    <3>4. CASE UnitOf(t) \cup UnitOf(t + d) \subseteq L
      <4>1. Looked(t)  BY <1>9, <1>14, <3>2, <3>3
      <4>2. asof[t] >= CronNext(t + d, u)  BY <3>4, <4>1 DEF Looked, d, u, L
      <4> QED  BY <3>1, <4>2
    <3>5. CASE ~(UnitOf(t) \cup UnitOf(t + d) \subseteq L)
      <4>1. PICK x \in UnitOf(t) \cup UnitOf(t + d) : x \notin L  BY <3>5
      <4>2. x \in b[1]..(b[2] - 1)  BY <1>1, <1>14, <4>1
      <4>3. x \in Int /\ b[1] <= x /\ x < b[2] /\ x \in B  BY <1>1, <1>3, <4>2
      <4>4. x \in UnitOf(t + d)
        <5> SUFFICES ASSUME x \in UnitOf(t) PROVE FALSE  BY <4>1
        <5>1. Floor(x, u) = Floor(t, u)  BY <1>2, <2>1, <4>3, FloorInUnit DEF UnitOf, u
        <5>2. /\ b[1] <= Floor(x, u) /\ Floor(x, u) \in Int /\ Floor(x, u) <= x
              /\ Floor(t, u) <= t
            BY <1>2, <1>3, <2>1, <4>3, FloorIsGreatest, FloorRight
        <5>3. x <= t /\ x \in Floor(t, u)..t  BY <1>3, <2>1, <2>6, <4>3, <5>1, <5>2
        <5>4. x \in L  BY <1>9, <3>2, <5>3 DEF FromUnit, u
        <5> QED  BY <4>1, <5>4
      <4>5. Floor(x, u) = Floor(t, u) + d
        <5>1. Floor(x, u) = Floor(t + d, u)
            BY <1>2, <2>1, <4>3, <4>4, FloorInUnit DEF UnitOf, u
        <5> QED  BY <2>1, <5>1
      <4>6. LiesAhead(x, t)  BY <4>5 DEF LiesAhead, d, u
      <4>7. t \in B \/ asof[t] = now
        <5>1. LooksBack  BY <1>9, <1>14
        <5> QED  BY <3>2, <4>1, <4>3, <4>6, <5>1 DEF LooksBack, L, B
      <4>8. t \notin B
        <5> SUFFICES ASSUME t \in B PROVE FALSE  OBVIOUS
        <5>1. node.in_order  BY <1>1, <3>3 DEF Pending, B
        <5>2. PICK l \in 1..Len(run.batches) : run.batches[l][1] <= t /\ t < run.batches[l][2]
            BY <1>6, TicksOf DEF B
        <5>3. k = 1 /\ l # 1 /\ l \in Int  BY <1>8, <2>6, <5>1, <5>2 DEF b
        <5>4. k < l  BY <5>2, <5>3
        <5>5. b[2] <= run.batches[l][1] /\ run.batches[l][1] \in Int
          <6>1. run.batches[l] \in Pairs  BY <1>6
          <6> QED  BY <1>6, <1>9, <5>4, <6>1 DEF InOrder, Pairs, b
        <5>6. t < x  BY <1>2, <1>14, <2>1, <4>3, <4>5, AheadIsLater DEF d, u
        <5> QED  BY <1>3, <2>1, <4>3, <5>2, <5>5, <5>6
      <4> QED  BY <2>4, <3>1, <4>7, <4>8
    <3> QED  BY <3>4, <3>5
  <2> QED  BY <2>5, <2>6
<1>15. ASSUME node.lookback # 0 PROVE LooksBack'
  <2> SUFFICES ASSUME NEW t \in N, NEW x \in C \ N, LiesAhead(x, t)
               PROVE  t \in C \/ asof'[t] = now
      BY <1>1 DEF LooksBack, LiesAhead, N, C
  <2>1. CASE b[1] <= t /\ t < b[2]  BY <1>10, <2>1
  <2>2. CASE ~(b[1] <= t /\ t < b[2])
    <3>1. t \notin b[1]..(b[2] - 1)  BY <1>3, <1>10, <2>2
    <3>2. t \in L /\ x \in B \ L  BY <1>1, <3>1
    <3>3. t \in B \/ asof[t] = now  BY <1>9, <1>15, <3>2 DEF LooksBack, L, B
    <3> QED  BY <1>1, <1>10, <2>2, <3>1, <3>3
  <2> QED  BY <2>1, <2>2
<1>16. ASSUME node.lookback # 0, NEW t \in N, t \notin Pending' PROVE Looked(t)'
    BY <1>1, <1>14, <1>16 DEF Looked, UnitOf, N, d, u
<1>17. FromUnit(Ticks(intervals))'  BY <1>1, <1>12 DEF FromUnit, N
<1> QED  BY <1>1, <1>11, <1>13, <1>15, <1>16, <1>17 DEF LookBackInv, N

LEMMA NextLooksBack ==
    ASSUME ~AfterTick, ~WithStart, ~Failures, SignalsBegin
    PROVE  MissingIntervalsInv /\ LookBackInv /\ [Next]_vars => LookBackInv'
<1> SUFFICES ASSUME MissingIntervalsInv, LookBackInv, [Next]_vars PROVE LookBackInv'
    OBVIOUS
<1>1. CASE TimePasses
  <2>1. /\ run' = Idle /\ node' = node /\ asof' = asof /\ intervals' = intervals
        /\ run.status # "running"
      BY <1>1 DEF TimePasses
  <2>2. FromUnit(Ticks(intervals'))  BY <2>1 DEF LookBackInv
  <2> QED  BY <2>1, <2>2, IdleLooksBack
<1>2. CASE \E start, end \in Time, ignore_cron, end_bounded \in BOOLEAN, unready \in Signals :
              Run(start, end, ignore_cron, end_bounded, unready)
    BY <1>2, RunLooksBack
<1>3. CASE \E start, end \in Time : Restate(start, end) \/ ClearIntervals(start, end)
    BY <1>3, RestateLooksBack, ClearIntervalsLooksBack
<1>4. CASE \E k \in DOMAIN run.batches : EvaluateBatch(k)  BY <1>4, EvaluateBatchLooksBack
<1>5. CASE Stop
  <2>1. /\ run' = [run EXCEPT !.status = "stopped"] /\ node.in_order
        /\ node' = node /\ now' = now /\ asof' = asof /\ intervals' = intervals
      BY <1>5 DEF Stop
  <2>2. run = [status |-> run.status, request |-> run.request, batches |-> run.batches]
      BY DEF MissingIntervalsInv, RunInv
  <2>3. run' = [status |-> "stopped", request |-> run.request, batches |-> run.batches]
      BY <2>1, <2>2
  <2>4. run'.status = "stopped" /\ run'.batches = run.batches  BY <2>3
  <2>5. Pending = {} /\ Pending' = {}  BY <2>1 DEF Pending
  <2>6. Done' = Done  BY <2>1, <2>4 DEF Done
  <2>7. \A t : Looked(t)' <=> Looked(t)  BY <2>1 DEF Looked, UnitOf
  <2> QED  BY <2>1, <2>4, <2>5, <2>6, <2>7 DEF LookBackInv, FromUnit
<1>6. CASE UNCHANGED vars
  <2>1. node' = node /\ now' = now /\ asof' = asof /\ intervals' = intervals /\ run' = run
      BY <1>6 DEF vars
  <2>2. Pending' = Pending /\ Done' = Done  BY <2>1 DEF Pending, Done
  <2>3. \A t : Looked(t)' <=> Looked(t)  BY <2>1 DEF Looked, UnitOf
  <2>4. LooksBack' <=> LooksBack  BY <2>1 DEF LooksBack, LiesAhead
  <2> QED  BY <2>1, <2>2, <2>3, <2>4 DEF LookBackInv, FromUnit
<1> QED  BY <1>1, <1>2, <1>3, <1>4, <1>5, <1>6 DEF Next

LEMMA LookedBackByInv == MissingIntervalsInv /\ LookBackInv => LookedBack
<1> SUFFICES ASSUME MissingIntervalsInv, LookBackInv PROVE LookedBack  OBVIOUS
<1> DEFINE left == IF run.status = "running" THEN Ticks(intervals) \ Ticks(run.batches)
                   ELSE Ticks(intervals)
           d == node.lookback * node.unit
<1> SUFFICES ASSUME NEW t \in left, UnitOf(t) \cup UnitOf(t + d) \subseteq Ticks(intervals)
             PROVE  asof[t] >= CronNext(t + d, node.unit)
    BY DEF LookedBack, Loaded
<1>1. t \in Ticks(intervals) /\ t \notin Pending  BY DEF Pending
<1>2. CASE node.lookback # 0
  <2>1. Looked(t)  BY <1>1, <1>2 DEF LookBackInv
  <2> QED  BY <2>1 DEF Looked
<1>3. CASE node.lookback = 0
  <2>1. t \in Int /\ node.unit \in Nat
      BY <1>1, NodeTyped, TicksOf DEF MissingIntervalsInv, ListInv, Canonical
  <2>2. t + d = t  BY <1>3, <2>1
  <2>3. WholeIntervals  BY WholeByInv
  <2>4. asof[t] >= CronNext(t, node.unit)  BY <1>1, <2>2, <2>3 DEF WholeIntervals, Loaded
  <2> QED  BY <2>2, <2>4
<1> QED  BY <1>2, <1>3

\* Late data is picked up: once the unit that lies the lookback ahead of another one has
\* been loaded, what had been loaded of the other one has been computed again since, or is
\* just being computed again.  That takes runs and plans of all that the model has, and
\* batches of which no later one is evaluated after an earlier one has failed
\* (compute_missing_intervals with its lookback, interval_diff, batch_intervals).
THEOREM LateDataIsPickedUp ==
    ~AfterTick /\ ~WithStart /\ ~Failures /\ SignalsBegin => (Spec => []LookedBack)
<1> SUFFICES ASSUME ~AfterTick, ~WithStart, ~Failures, SignalsBegin PROVE Spec => []LookedBack
    OBVIOUS
<1>1. Init => LookBackInv
  <2> SUFFICES ASSUME Init PROVE LookBackInv  OBVIOUS
  <2>1. intervals = << >> /\ run.batches = << >> /\ run.status = "idle"  BY DEF Init, Idle
  <2> QED  BY <2>1, NoTicks DEF LookBackInv, FromUnit, Done, InOrder
<1>2. MissingIntervalsInv /\ LookBackInv /\ [Next]_vars => LookBackInv'  BY NextLooksBack
<1>3. MissingIntervalsInv /\ LookBackInv => LookedBack  BY LookedBackByInv
<1> QED  BY <1>1, <1>2, <1>3, MissingIntervalsInvariant, PTL DEF Spec
=============================================================================
