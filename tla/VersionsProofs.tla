---------------------------- MODULE VersionsProofs ----------------------------
(***************************************************************************)
(* Proofs about Versions.                                                  *)
(***************************************************************************)
EXTENDS Versions, UpTheGraph

LEMMA TabulatedIs == \A f : Tabulated(f) = f
BY DEF Tabulated

LEMMA ModelGraph ==
    /\ Parents \in [Models -> SUBSET Models]
    /\ WithoutCycles(Models, Parents)
BY VersionsConstants, Acyclic DEF WithoutCycles

(***************************************************************************)
(* Fingerprints.  They contain one another, and there is no set known      *)
(* beforehand of which they are members.                                   *)
(***************************************************************************)
IsFingerprint(files, stamps, f, m) ==
    f[m] = [name |-> m, rev |-> files[m], stamp |-> stamps[m],
            upstream |-> {f[p] : p \in Parents[m]}]

\* Fingerprints of a model and of all that is above it.
FingerprintsFrom(files, stamps, f, m) ==
    \A q \in Reach(Parents, m) : IsFingerprint(files, stamps, f, q)

LEMMA FingerprintsAgree ==
    ASSUME NEW files, NEW stamps, NEW f, NEW g, NEW m \in Models, NEW n \in Models,
           FingerprintsFrom(files, stamps, f, m), FingerprintsFrom(files, stamps, g, n)
    PROVE  \A q \in Reach(Parents, m) \cap Reach(Parents, n) : f[q] = g[q]
<1> DEFINE Wrong == {q \in Reach(Parents, m) \cap Reach(Parents, n) : f[q] # g[q]}
<1>1. SUFFICES ASSUME Wrong # {} PROVE FALSE  OBVIOUS
<1>2. PICK q \in Wrong : Parents[q] \cap Wrong = {}
  <2>1. Wrong \in (SUBSET Models) \ {{}}  BY <1>1, ModelGraph, ReachCloses
  <2> HIDE DEF Wrong
  <2> QED  BY <2>1, ModelGraph DEF WithoutCycles
<1>3. q \in Models /\ Parents[q] \subseteq Reach(Parents, m) \cap Reach(Parents, n)
    BY ModelGraph, ReachCloses
<1>4. \A p \in Parents[q] : f[p] = g[p]  BY <1>2, <1>3
<1>5. {f[p] : p \in Parents[q]} = {g[p] : p \in Parents[q]}  BY <1>4
<1>6. IsFingerprint(files, stamps, f, q) /\ IsFingerprint(files, stamps, g, q)
    BY <1>2 DEF FingerprintsFrom
<1> QED  BY <1>2, <1>5, <1>6 DEF IsFingerprint

LEMMA FingerprintsExist ==
    ASSUME NEW files, NEW stamps
    PROVE  \A m \in Models : \E f : FingerprintsFrom(files, stamps, f, m)
<1> DEFINE Right(m, f) == FingerprintsFrom(files, stamps, f, m)
           Wrong == {m \in Models : ~\E f : Right(m, f)}
<1> HIDE DEF Right
<1>1. SUFFICES ASSUME Wrong # {} PROVE FALSE  BY DEF Right
<1>2. PICK m \in Wrong : Parents[m] \cap Wrong = {}
  <2>1. Wrong \in (SUBSET Models) \ {{}}  BY <1>1
  <2> HIDE DEF Wrong
  <2> QED  BY <2>1, ModelGraph DEF WithoutCycles
<1> DEFINE Above == UNION {Reach(Parents, p) : p \in Parents[m]}
           of(p) == CHOOSE f : Right(p, f)
           via(q) == CHOOSE p \in Parents[m] : q \in Reach(Parents, p)
           top == [name |-> m, rev |-> files[m], stamp |-> stamps[m],
                   upstream |-> {of(via(p))[p] : p \in Parents[m]}]
           f == [q \in Models |-> IF q = m THEN top ELSE of(via(q))[q]]
<1>3. Parents[m] \subseteq Models /\ Reach(Parents, m) = {m} \cup Above
    BY ModelGraph, ReachStep
<1>4. \A p \in Parents[m] : Right(p, of(p))
  <2>1. \A p \in Parents[m] : \E g : Right(p, g)  BY <1>2, <1>3
  <2> QED  BY <2>1
<1>5. m \notin Above
  <2>1. SUFFICES ASSUME NEW p \in Parents[m], m \in Reach(Parents, p) PROVE FALSE  OBVIOUS
  <2>2. Reach(Parents, m) \subseteq Reach(Parents, p)  BY <1>3, <2>1, ModelGraph, ReachCloses
  <2>3. Right(m, of(p))
    <3> HIDE DEF of
    <3> QED  BY <1>4, <2>2 DEF Right, FingerprintsFrom
  <2> QED  BY <1>2, <2>3
<1>6. \A q \in Above : via(q) \in Parents[m] /\ q \in Reach(Parents, via(q))
  <2>1. \A q \in Above : \E p \in Parents[m] : q \in Reach(Parents, p)  OBVIOUS
  <2> QED  BY <2>1
<1>7. \A p \in Parents[m] : p \in Above
    BY <1>3, ModelGraph, ReachCloses
<1>8. f[m] = top /\ \A q \in Above : q \in Models /\ f[q] = of(via(q))[q]
  <2>1. \A q \in Above : q \in Models  BY <1>3, ModelGraph, ReachCloses
  <2> QED  BY <1>5, <2>1
<1> HIDE DEF of, via, f
<1>9. \A p \in Parents[m] : \A q \in Reach(Parents, p) : f[q] = of(p)[q]
  <2> TAKE p \in Parents[m]
  <2> TAKE q \in Reach(Parents, p)
  <2>1. p \in Models /\ q \in Above  BY <1>3
  <2>2. via(q) \in Models /\ q \in Reach(Parents, via(q)) \cap Reach(Parents, p)
      BY <1>3, <1>6, <2>1
  <2>3. /\ FingerprintsFrom(files, stamps, of(p), p)
        /\ FingerprintsFrom(files, stamps, of(via(q)), via(q))
      BY <1>4, <1>6, <2>1 DEF Right
  <2>4. of(via(q))[q] = of(p)[q]  BY <2>1, <2>2, <2>3, FingerprintsAgree
  <2> QED  BY <1>8, <2>1, <2>4
<1>10. ASSUME NEW q \in Reach(Parents, m) PROVE IsFingerprint(files, stamps, f, q)
  <2>1. CASE q = m
    <3>1. {of(via(p))[p] : p \in Parents[m]} = {f[p] : p \in Parents[m]}  BY <1>7, <1>8
    <3> QED  BY <1>8, <2>1, <3>1 DEF IsFingerprint
  <2>2. CASE q \in Above
    <3>1. PICK p \in Parents[m] : q \in Reach(Parents, p)  BY <2>2
    <3>2. \A r \in Parents[q] : r \in Reach(Parents, p)
        BY <1>3, <3>1, ModelGraph, ReachCloses
    <3>3. {f[r] : r \in Parents[q]} = {of(p)[r] : r \in Parents[q]}  BY <1>9, <3>2
    <3>4. IsFingerprint(files, stamps, of(p), q)
        BY <1>4, <3>1 DEF Right, FingerprintsFrom
    <3> QED  BY <1>9, <3>1, <3>3, <3>4 DEF IsFingerprint
  <2> QED  BY <1>3, <1>10, <2>1, <2>2
<1>11. Right(m, f)  BY <1>10 DEF Right, FingerprintsFrom
<1> QED  BY <1>2, <1>11

\* The equation of the definition holds, for any graph without cycles.
LEMMA FingerprintsOf ==
    ASSUME NEW files, NEW stamps, NEW S, S = Fingerprints(files, stamps)
    PROVE  /\ S = [m \in Models |-> S[m]]
           /\ \A m \in Models :
                S[m] = [name |-> m, rev |-> files[m], stamp |-> stamps[m],
                        upstream |-> {S[p] : p \in Parents[m]}]
<1> DEFINE Eq(f) == f = [m \in Models |-> [name |-> m, rev |-> files[m], stamp |-> stamps[m],
                                           upstream |-> {f[p] : p \in Parents[m]}]]
           of(m) == CHOOSE f : FingerprintsFrom(files, stamps, f, m)
           f == [m \in Models |-> of(m)[m]]
           g == [m \in Models |-> [name |-> m, rev |-> files[m], stamp |-> stamps[m],
                                   upstream |-> {f[p] : p \in Parents[m]}]]
<1>1. \A m \in Models : FingerprintsFrom(files, stamps, of(m), m)  BY FingerprintsExist
<1> HIDE DEF of
<1>2. ASSUME NEW m \in Models PROVE f[m] = g[m]
  <2>1. m \in Reach(Parents, m) /\ Parents[m] \subseteq Reach(Parents, m)
      BY ModelGraph, ReachCloses
  <2>2. \A p \in Parents[m] : p \in Models /\ p \in Reach(Parents, p)
      BY ModelGraph, ReachCloses
  <2>3. \A p \in Parents[m] : of(p)[p] = of(m)[p]
      BY <1>1, <2>1, <2>2, FingerprintsAgree
  <2>4. {of(m)[p] : p \in Parents[m]} = {f[p] : p \in Parents[m]}  BY <2>2, <2>3
  <2>5. IsFingerprint(files, stamps, of(m), m)  BY <1>1, <2>1 DEF FingerprintsFrom
  <2> HIDE DEF f
  <2>6. g[m] = of(m)[m]  BY <2>4, <2>5 DEF IsFingerprint
  <2> QED  BY <2>6 DEF f
<1>3. f = g  BY <1>2
<1>4. \E h : Eq(h)
  <2>1. Eq(f)
    <3> HIDE DEF f
    <3> QED  BY <1>3
  <2> QED  BY <2>1
<1>5. S = CHOOSE h : Eq(h)  BY TabulatedIs DEF Fingerprints
<1>6. Eq(S)
  <2> HIDE DEF Eq
  <2> QED  BY <1>4, <1>5
<1>7. DOMAIN S = Models /\ \A m \in Models :
          S[m] = [name |-> m, rev |-> files[m], stamp |-> stamps[m],
                  upstream |-> {S[p] : p \in Parents[m]}]
    BY <1>6
<1>8. S = [m \in Models |-> S[m]]  BY <1>6
<1> QED  BY <1>7, <1>8

(***************************************************************************)
(* The other definitions by recursion over the graph.                      *)
(***************************************************************************)
LEMMA AncestorsOf ==
    /\ Ancestors \in [Models -> SUBSET Models]
    /\ WithoutCycles(Models, Ancestors)
    /\ \A m \in Models : Parents[m] \subseteq Ancestors[m]
    /\ \A m \in Models : \A p \in Ancestors[m] : Ancestors[p] \subseteq Ancestors[m]
<1>1. Collects(Ancestors, Parents, Parents)
  <2>1. DOMAIN Parents = Models  BY ModelGraph
  <2>2. Ancestors = CHOOSE f : Collects(f, Parents, Parents)
      BY <2>1, TabulatedIs DEF Ancestors, Collects
  <2>3. \E f : Collects(f, Parents, Parents)  BY ModelGraph, Collected
  <2> QED  BY <2>2, <2>3
<1>2. DOMAIN Ancestors = Models /\ \A m \in Models : Parents[m] \subseteq Ancestors[m]
    BY <1>1, ModelGraph DEF Collects
<1>3. \A m \in Models : /\ Ancestors[m] \subseteq Models
                        /\ \A p \in Ancestors[m] : Ancestors[p] \subseteq Ancestors[m]
    BY <1>1, ModelGraph, AboveAndAbove
<1>4. Ancestors \in [Models -> SUBSET Models]
  <2>1. Ancestors = [m \in Models |-> Ancestors[m]]  BY <1>1, ModelGraph DEF Collects
  <2> QED  BY <1>3, <2>1
<1>5. WithoutCycles(Models, Ancestors)
  <2> SUFFICES ASSUME NEW T \in (SUBSET Models) \ {{}} PROVE \E m \in T : Ancestors[m] \cap T = {}
      BY DEF WithoutCycles
  <2> QED  BY <1>1, ModelGraph, NoneAbove
<1> QED  BY <1>2, <1>3, <1>4, <1>5

\* What the record of a snapshot in a plan may be.
RecordsOfPlan(S, R) ==
    {stored[S[m]] : m \in Models}
    \cup {CategorizedAs(S[m], R[m], c, b) : m \in Models, c \in Categories, b \in BOOLEAN}

Categorized(S, R, m, r) ==
    \E c \in Categories, b \in BOOLEAN : r = CategorizedAs(S[m], R[m], c, b)

LEMMA RecordIsOfPlan ==
    ASSUME NEW S, NEW R, NEW forward_only \in BOOLEAN, NEW record, NEW m \in Models
    PROVE  /\ RecordOf(S, R, forward_only, record, m) \in RecordsOfPlan(S, R)
           /\ IsNew(S[m]) => Categorized(S, R, m, RecordOf(S, R, forward_only, record, m))
<1>1. \A direct : IndirectCategory(S[m], R[m], direct) \in Categories
    BY DEF IndirectCategory, OrphanedCategory, Categories
<1>2. DirectCategory(S[m], R[m]) \in Categories  BY DEF DirectCategory, Categories
<1>3. "breaking" \in Categories  BY DEF Categories
<1>4. IsNew(S[m]) => \E c \in Categories, b \in BOOLEAN :
          RecordOf(S, R, forward_only, record, m) = CategorizedAs(S[m], R[m], c, b)
  <2> HIDE DEF Categories, CategorizedAs
  <2> QED  BY <1>1, <1>2, <1>3 DEF RecordOf
<1>5. ~IsNew(S[m]) => RecordOf(S, R, forward_only, record, m) = stored[S[m]]
    BY DEF RecordOf
<1> QED  BY <1>4, <1>5 DEF RecordsOfPlan, Categorized

LEMMA RecordsHold ==
    ASSUME NEW S, NEW R, NEW forward_only \in BOOLEAN,
           NEW record, record = Records(S, R, forward_only)
    PROVE  record = [m \in Models |-> RecordOf(S, R, forward_only, record, m)]
<1> DEFINE V == RecordsOfPlan(S, R)
           step == [m \in Models |-> [f \in [Models -> V] |-> RecordOf(S, R, forward_only, f, m)]]
           Eq(f) == f = [m \in Models |-> RecordOf(S, R, forward_only, f, m)]
<1>1. CASE Models = {}
  <2>1. \A f : [m \in Models |-> RecordOf(S, R, forward_only, f, m)] = [m \in {} |-> {}]
      BY <1>1
  <2>2. Eq([m \in {} |-> {}])  BY <2>1
  <2>3. record = CHOOSE f : Eq(f)  BY TabulatedIs DEF Records
  <2> HIDE DEF Eq
  <2>4. Eq(record)  BY <2>2, <2>3
  <2> QED  BY <2>4 DEF Eq
<1>2. CASE Models # {}
  <2>1. V # {}  BY <1>2, RecordIsOfPlan
  <2>2. step \in [Models -> [[Models -> V] -> V]]
    <3> HIDE DEF V
    <3> QED  BY RecordIsOfPlan DEF V
  <2>3. ASSUME NEW m \in Models, NEW f \in [Models -> V], NEW g \in [Models -> V],
               \A p \in Ancestors[m] : f[p] = g[p]
        PROVE  step[m][f] = step[m][g]
    <3>1. {f[p].category : p \in {p \in Parents[m] : IsNew(S[p])}}
             = {g[p].category : p \in {p \in Parents[m] : IsNew(S[p])}}
        BY <2>3, AncestorsOf
    <3>2. {f[p].forward_only : p \in {p \in Ancestors[m] : IsNew(S[p])}}
             = {g[p].forward_only : p \in {p \in Ancestors[m] : IsNew(S[p])}}
        BY <2>3
    <3>3. RecordOf(S, R, forward_only, f, m) = RecordOf(S, R, forward_only, g, m)
        BY <3>1, <3>2 DEF RecordOf
    <3> HIDE DEF V
    <3> QED  BY <3>3
  <2>4. LooksUp(Models, Ancestors, V, step)
    <3> HIDE DEF V, step
    <3> QED  BY <2>2, <2>3 DEF LooksUp
  <2>5. PICK f : IsRight(Models, V, step, f)
    <3> HIDE DEF V, step
    <3> QED  BY <2>1, <2>4, AncestorsOf, Recursion
  <2>6. Eq(f)
    <3> HIDE DEF V
    <3> QED  BY <2>5 DEF IsRight
  <2>7. record = CHOOSE g : Eq(g)  BY TabulatedIs DEF Records
  <2>8. Eq(record)
    <3> HIDE DEF Eq
    <3> QED  BY <2>6, <2>7
  <2> QED  BY <2>8
<1> QED  BY <1>1, <1>2

LEMMA DeployabilityHolds ==
    ASSUME NEW S, NEW record, NEW index, index = DeployabilityIndex(S, record)
    PROVE  index = [m \in Models |-> DeployabilityOf(S, record, index, m)]
<1> DEFINE V == [deployable : BOOLEAN, representative : BOOLEAN, children : BOOLEAN]
           step == [m \in Models |-> [f \in [Models -> V] |-> DeployabilityOf(S, record, f, m)]]
           Eq(f) == f = [m \in Models |-> DeployabilityOf(S, record, f, m)]
<1>1. \A f : \A m \in Models : DeployabilityOf(S, record, f, m) \in V
    BY DEF DeployabilityOf, ByNature, StandsForProd, GoodForChildren
<1>2. [deployable |-> TRUE, representative |-> TRUE, children |-> TRUE] \in V  OBVIOUS
<1> HIDE DEF V
<1>3. step \in [Models -> [[Models -> V] -> V]]  BY <1>1
<1>4. ASSUME NEW m \in Models, NEW f \in [Models -> V], NEW g \in [Models -> V],
             \A p \in Parents[m] : f[p] = g[p]
      PROVE  step[m][f] = step[m][g]
  <2>1. (\A p \in Parents[m] : f[p].children) = (\A p \in Parents[m] : g[p].children)
      BY <1>4
  <2>2. DeployabilityOf(S, record, f, m) = DeployabilityOf(S, record, g, m)
      BY <2>1 DEF DeployabilityOf
  <2> QED  BY <2>2
<1>5. LooksUp(Models, Parents, V, step)
  <2> HIDE DEF step
  <2> QED  BY <1>3, <1>4 DEF LooksUp
<1>6. PICK f : IsRight(Models, V, step, f)
  <2> HIDE DEF step
  <2> QED  BY <1>2, <1>5, ModelGraph, Recursion
<1>7. Eq(f)  BY <1>6 DEF IsRight
<1>8. index = CHOOSE g : Eq(g)  BY TabulatedIs DEF DeployabilityIndex
<1>9. Eq(index)
  <2> HIDE DEF Eq
  <2> QED  BY <1>7, <1>8
<1> QED  BY <1>9

LEMMA FilledHolds ==
    ASSUME NEW tables, NEW S, NEW index, NEW selected, NEW start, NEW end,
           NEW filled, filled = Filled(tables, S, index, selected, start, end)
    PROVE  filled = [m \in Models |-> FilledTable(tables, S, index, selected, start, end, filled, m)]
<1> DEFINE At(f, m) == FilledTable(tables, S, index, selected, start, end, f, m)
           Old == {tables[m][x] : m \in Models, x \in Points}
           Revs == {S[m].rev : m \in Models} \cup {row.rev : row \in Old}
           Values == {Preview, NoRow} \cup {Output[p][r] : p \in Models, r \in Revs}
           C == (Models \X Values) \cup UNION {row.from : row \in Old}
           W == Old \cup [rev : Revs, from : SUBSET C]
           V == [Points -> W]
           step == [m \in Models |-> [f \in [Models -> V] |-> At(f, m)]]
           Eq(f) == f = [m \in Models |-> At(f, m)]
<1>1. CASE Models = {}
  <2>1. \A f : [m \in Models |-> At(f, m)] = [m \in {} |-> {}]  BY <1>1
  <2>2. Eq([m \in {} |-> {}])  BY <2>1
  <2>3. filled = CHOOSE f : Eq(f)  BY TabulatedIs DEF Filled
  <2> HIDE DEF Eq
  <2>4. Eq(filled)  BY <2>2, <2>3
  <2> QED  BY <2>4 DEF Eq
<1>2. CASE Models # {}
  <2>1. V # {}
    <3>1. PICK m \in Models : TRUE  BY <1>2
    <3>2. \A x \in Points : tables[m][x] \in Old  BY <3>1
    <3>3. [x \in Points |-> tables[m][x]] \in V
      <4> HIDE DEF Old, C, Revs
      <4> QED  BY <3>2
    <3> HIDE DEF V
    <3> QED  BY <3>3
  <2>2. ASSUME NEW f \in [Models -> V], NEW p \in Models, NEW x \in Points
        PROVE  Content(p, f[p][x]) \subseteq C /\ {<<p, Preview>>} \subseteq C
    <3> DEFINE row == f[p][x]
    <3>1. row \in W
      <4> HIDE DEF W
      <4> QED  BY <2>2
    <3>2. {<<p, Preview>>, <<p, NoRow>>} \subseteq C
      <4> HIDE DEF Old, Revs
      <4> QED  OBVIOUS
    <3>3. row.rev \in Revs /\ row.from \subseteq C
      <4>1. CASE row \in Old
        <5> HIDE DEF Old, Values, row
        <5> QED  BY <4>1
      <4>2. CASE row \in [rev : Revs, from : SUBSET C]
        <5> HIDE DEF Revs, C, row
        <5> QED  BY <4>2
      <4>3. row \in Old \/ row \in [rev : Revs, from : SUBSET C]
        <5> HIDE DEF Revs, C, Old, row
        <5> QED  BY <3>1
      <4> HIDE DEF Revs, C, Old, row
      <4> QED  BY <4>1, <4>2, <4>3
    <3>4. <<p, Output[p][row.rev]>> \in C
      <4> HIDE DEF Old, row
      <4>1. Output[p][row.rev] \in Values  BY <3>3
      <4> HIDE DEF Values
      <4> QED  BY <4>1
    <3> HIDE DEF C, Revs, Old, Values, W, row
    <3>5. Content(p, row) \subseteq C
      <4>1. CASE row = NoRow
        <5>1. Content(p, row) = {<<p, NoRow>>}  BY <4>1 DEF Content
        <5> QED  BY <3>2, <5>1
      <4>2. CASE row # NoRow
        <5>1. Content(p, row) = {<<p, Output[p][row.rev]>>} \cup row.from  BY <4>2 DEF Content
        <5> QED  BY <3>3, <3>4, <5>1
      <4> QED  BY <4>1, <4>2
    <3> QED  BY <3>2, <3>5 DEF row
  <2>3. ASSUME NEW f \in [Models -> V], NEW m \in Models PROVE At(f, m) \in V
    <3>1. ASSUME NEW x \in Points PROVE At(f, m)[x] \in W
      <4>1. \A p \in Parents[m] : /\ Content(p, f[p][x]) \subseteq C
                                  /\ {<<p, Preview>>} \subseteq C
        <5> HIDE DEF C, V
        <5> QED  BY <2>2, ModelGraph
      <4>2. ComputedFrom(index, f, m, x) \in SUBSET C
        <5> HIDE DEF C, V
        <5> QED  BY <4>1 DEF ComputedFrom
      <4>3. S[m].rev \in Revs
        <5> HIDE DEF Old
        <5> QED  OBVIOUS
      <4>4. [rev |-> S[m].rev, from |-> ComputedFrom(index, f, m, x)] \in W
        <5> HIDE DEF C, Revs, Old
        <5> QED  BY <4>2, <4>3
      <4>5. tables[m][x] \in W
        <5>1. tables[m][x] \in Old  OBVIOUS
        <5> HIDE DEF C, Revs, Old
        <5> QED  BY <5>1
      <4>6. \/ At(f, m)[x] = [rev |-> S[m].rev, from |-> ComputedFrom(index, f, m, x)]
            \/ At(f, m)[x] = tables[m][x]
        <5> HIDE DEF V, W
        <5> QED  BY <3>1 DEF FilledTable
      <4> HIDE DEF W
      <4> QED  BY <4>4, <4>5, <4>6
    <3>2. At(f, m) = [x \in Points |-> At(f, m)[x]]
      <4> HIDE DEF V, W
      <4> QED  BY DEF FilledTable
    <3> HIDE DEF At, W
    <3> QED  BY <3>1, <3>2
  <2> HIDE DEF V
  <2>4. step \in [Models -> [[Models -> V] -> V]]
    <3> HIDE DEF At
    <3> QED  BY <2>3
  <2>5. ASSUME NEW m \in Models, NEW f \in [Models -> V], NEW g \in [Models -> V],
               \A p \in Parents[m] : f[p] = g[p]
        PROVE  step[m][f] = step[m][g]
    <3>1. \A x : ComputedFrom(index, f, m, x) = ComputedFrom(index, g, m, x)
      <4> TAKE x
      <4>1. {IF index[p].representative THEN Content(p, f[p][x]) ELSE {<<p, Preview>>} : p \in Parents[m]}
          = {IF index[p].representative THEN Content(p, g[p][x]) ELSE {<<p, Preview>>} : p \in Parents[m]}
          BY <2>5
      <4> QED  BY <4>1 DEF ComputedFrom
    <3>2. At(f, m) = At(g, m)  BY <3>1 DEF FilledTable
    <3> HIDE DEF At
    <3> QED  BY <3>2
  <2>6. LooksUp(Models, Parents, V, step)
    <3> HIDE DEF step
    <3> QED  BY <2>4, <2>5 DEF LooksUp
  <2>7. PICK f : IsRight(Models, V, step, f)
    <3> HIDE DEF step
    <3> QED  BY <2>1, <2>6, ModelGraph, Recursion
  <2>8. Eq(f)
    <3> HIDE DEF At
    <3> QED  BY <2>7 DEF IsRight
  <2>9. filled = CHOOSE g : Eq(g)  BY TabulatedIs DEF Filled
  <2>10. Eq(filled)
    <3> HIDE DEF Eq
    <3> QED  BY <2>8, <2>9
  <2> QED  BY <2>10
<1> QED  BY <1>1, <1>2

(***************************************************************************)
(* The invariant: types, environments have a snapshot of each model under  *)
(* its name, and the rows in the table of a version are those of texts of  *)
(* its model and not computed from previews.                               *)
(***************************************************************************)
EnvsNamed ==
    \A e \in EnvNames : envs[e] # NoEnv => \A m \in Models : envs[e][m].name = m

RowRight(m, row) ==
    row # NoRow => row.rev \in Revisions[m] /\ \A c \in row.from : c[2] # Preview

RowsRight == \A v \in DOMAIN rows : \A x \in Points : RowRight(v.name, rows[v][x])

VersionsInv == TypeOK /\ EnvsNamed /\ RowsRight

SnapshotRight(s, I) ==
    /\ s.name \in Models /\ s.rev \in Revisions[s.name]
    /\ {p.name : p \in s.upstream} = Parents[s.name] /\ s.upstream \subseteq I

RecordRight(r, m, I) ==
    /\ r.category \in Categories
    /\ r.forward_only \in BOOLEAN
    /\ r.version \in I /\ r.version.name = m
    /\ r.previous \in Seq(I)

EnvsRight ==
    /\ DOMAIN envs = EnvNames
    /\ \A e \in EnvNames : envs[e] = NoEnv \/ envs[e] \in [Models -> Ids]

SnapshotsRight ==
    \A s \in Ids : SnapshotRight(s, Ids) /\ RecordRight(stored[s], s.name, Ids)

LEMMA TypeOKIs ==
    TypeOK <=> /\ SnapshotsRight
               /\ unpaused \subseteq Ids /\ unrestorable \subseteq Ids
               /\ EnvsRight
               /\ DOMAIN rows = {stored[s].version : s \in Ids}
               /\ \A v \in DOMAIN rows : DOMAIN rows[v] = Points
               /\ now \in Points /\ plans \in 0..MaxPlans
BY DEF TypeOK, SnapshotsRight, SnapshotRight, RecordRight, EnvsRight

\* A step that adds no snapshots has only the rest to take care of.
LEMMA NoNewSnapshots ==
    ASSUME TypeOK, UNCHANGED <<stored, unpaused, unrestorable, plans>>, EnvsRight',
           DOMAIN rows' = DOMAIN rows, \A v \in DOMAIN rows' : DOMAIN rows'[v] = Points,
           now' \in Points
    PROVE  TypeOK'
<1>1. Ids' = Ids  BY DEF Ids
<1>2. SnapshotsRight'  BY <1>1, TypeOKIs DEF SnapshotsRight
<1>3. DOMAIN rows' = {stored'[s].version : s \in Ids'}  BY <1>1, TypeOKIs
<1>4. unpaused' \subseteq Ids' /\ unrestorable' \subseteq Ids' /\ plans' \in 0..MaxPlans
    BY <1>1, TypeOKIs
<1> QED  BY <1>2, <1>3, <1>4 DEF TypeOK, SnapshotsRight, SnapshotRight, RecordRight, EnvsRight

LEMMA SequencesGrow ==
    ASSUME NEW I, NEW J, I \subseteq J, NEW s \in Seq(I)
    PROVE  s \in Seq(J)
OBVIOUS

LEMMA RightGrows ==
    ASSUME NEW I, NEW J, I \subseteq J
    PROVE  /\ \A s : SnapshotRight(s, I) => SnapshotRight(s, J)
           /\ \A r, m : RecordRight(r, m, I) => RecordRight(r, m, J)
<1>1. \A s : SnapshotRight(s, I) => SnapshotRight(s, J)  BY DEF SnapshotRight
<1>2. \A r, m : RecordRight(r, m, I) => RecordRight(r, m, J)
    BY SequencesGrow DEF RecordRight
<1> QED  BY <1>1, <1>2

(***************************************************************************)
(* The snapshots and the records of a plan.                                *)
(***************************************************************************)
LEMMA SnapshotsOfFiles ==
    ASSUME NEW files \in Files, NEW S, S = SnapshotsOf(files)
    PROVE  /\ S = [m \in Models |-> S[m]] /\ Range(S) = {S[m] : m \in Models}
           /\ \A m \in Models : S[m].name = m /\ S[m].rev \in Revisions[m]
           /\ \A s \in Range(S) : SnapshotRight(s, Range(S))
<1> DEFINE stamps == [m \in Models |-> IF Fingerprints(files, Unstamped)[m] \in unrestorable
                                       THEN Fingerprints(files, Unstamped)[m] ELSE NoStamp]
<1>1. S = Fingerprints(files, stamps)  BY DEF SnapshotsOf
<1> HIDE DEF stamps
<1>2. /\ S = [m \in Models |-> S[m]]
      /\ \A m \in Models : S[m] = [name |-> m, rev |-> files[m], stamp |-> stamps[m],
                                   upstream |-> {S[p] : p \in Parents[m]}]
    BY <1>1, FingerprintsOf
<1>3. Range(S) = {S[m] : m \in Models}  BY <1>2 DEF Range
<1>4. \A m \in Models : /\ S[m].name = m /\ S[m].rev \in Revisions[m]
                        /\ S[m].upstream = {S[p] : p \in Parents[m]}
  <2> TAKE m \in Models
  <2>1. S[m] = [name |-> m, rev |-> files[m], stamp |-> stamps[m],
                upstream |-> {S[p] : p \in Parents[m]}]
      BY <1>2
  <2>2. S[m].name = m /\ S[m].rev = files[m] /\ S[m].upstream = {S[p] : p \in Parents[m]}
      BY <2>1
  <2>3. files[m] \in Revisions[m]  BY DEF Files
  <2> QED  BY <2>2, <2>3
<1>5. ASSUME NEW m \in Models PROVE SnapshotRight(S[m], Range(S))
  <2>1. Parents[m] \subseteq Models  BY ModelGraph
  <2>2. {q.name : q \in {S[p] : p \in Parents[m]}} = Parents[m]  BY <1>4, <2>1
  <2>3. {S[p] : p \in Parents[m]} \subseteq Range(S)  BY <1>3, <2>1
  <2> QED  BY <1>4, <2>2, <2>3 DEF SnapshotRight
<1> QED  BY <1>2, <1>3, <1>4, <1>5

\* The snapshots of the environment that a plan is compared with.
Compared(env) == IF Remote(env) = NoEnv THEN [m \in Models |-> NoSnapshot] ELSE Remote(env)

LEMMA RecordsRight ==
    ASSUME VersionsInv, NEW env \in EnvNames, NEW files \in Files, NEW forward_only \in BOOLEAN,
           NEW S, S = SnapshotsOf(files),
           NEW record, record = Records(S, Compared(env), forward_only)
    PROVE  /\ record = [m \in Models |-> record[m]]
           /\ \A m \in Models : RecordRight(record[m], m, Ids \cup Range(S))
           /\ \A m \in Models : S[m] \in Ids => record[m] = stored[S[m]]
<1> DEFINE R == Compared(env)
<1>1. record = [m \in Models |-> RecordOf(S, R, forward_only, record, m)]  BY RecordsHold
<1>2. \A m \in Models : S[m].name = m /\ S[m] \in Range(S)  BY SnapshotsOfFiles
<1>3. ASSUME NEW m \in Models PROVE R[m] # NoSnapshot => R[m] \in Ids /\ R[m].name = m
  <2>1. CASE Remote(env) = NoEnv  BY <2>1 DEF Compared
  <2>2. CASE Remote(env) # NoEnv
    <3>1. R = Remote(env)  BY <2>2 DEF Compared
    <3>2. PICK e \in EnvNames : Remote(env) = envs[e] /\ envs[e] # NoEnv
        BY <2>2 DEF Remote, EnvNames
    <3> QED  BY <3>1, <3>2 DEF VersionsInv, TypeOK, EnvsNamed
  <2> QED  BY <2>1, <2>2
<1> HIDE DEF R
<1>4. SnapshotsRight  BY TypeOKIs DEF VersionsInv
<1>5. ASSUME NEW m \in Models, S[m] \in Ids
      PROVE  record[m] = stored[S[m]] /\ RecordRight(record[m], m, Ids \cup Range(S))
  <2>1. record[m] = RecordOf(S, R, forward_only, record, m)  BY <1>1
  <2>2. record[m] = stored[S[m]]  BY <1>5, <2>1 DEF RecordOf, IsNew
  <2>3. RecordRight(stored[S[m]], m, Ids)  BY <1>2, <1>4, <1>5 DEF SnapshotsRight
  <2> QED  BY <2>2, <2>3, RightGrows
<1>6. ASSUME NEW m \in Models, S[m] \notin Ids
      PROVE  RecordRight(record[m], m, Ids \cup Range(S))
  <2>1. PICK c \in Categories, b \in BOOLEAN : record[m] = CategorizedAs(S[m], R[m], c, b)
    <3>1. record[m] = RecordOf(S, R, forward_only, record, m)  BY <1>1
    <3>2. Categorized(S, R, m, record[m])  BY <1>6, <3>1, RecordIsOfPlan DEF IsNew
    <3> QED  BY <3>2 DEF Categorized
  <2>2. CASE R[m] = NoSnapshot
    <3>1. /\ record[m].category = c /\ record[m].forward_only = b
          /\ record[m].version = S[m] /\ record[m].previous = << >>
        BY <2>1, <2>2 DEF CategorizedAs
    <3> QED  BY <1>2, <3>1 DEF RecordRight
  <2>3. CASE R[m] # NoSnapshot
    <3>1. R[m] \in Ids /\ RecordRight(stored[R[m]], m, Ids)
        BY <1>3, <1>4, <2>3 DEF SnapshotsRight
    <3>2. stored[R[m]].previous \in Seq(Ids \cup Range(S)) /\ R[m] \in Ids \cup Range(S)
        BY <3>1, SequencesGrow DEF RecordRight
    <3>3. Chain(R[m]) \in Seq(Ids \cup Range(S))  BY <3>2 DEF Chain
    <3>4. /\ record[m].category = c /\ record[m].forward_only = b
          /\ record[m].version \in {stored[R[m]].version, S[m]}
          /\ record[m].previous = Chain(R[m])
        BY <2>1, <2>3 DEF CategorizedAs
    <3> QED  BY <1>2, <3>1, <3>3, <3>4 DEF RecordRight
  <2> QED  BY <2>2, <2>3
<1> QED  BY <1>1, <1>5, <1>6

\* What the store holds after a plan.
LEMMA StoreRight ==
    ASSUME VersionsInv, NEW env \in EnvNames, NEW files \in Files, NEW forward_only \in BOOLEAN,
           NEW S, S = SnapshotsOf(files),
           NEW record, record = Records(S, Compared(env), forward_only),
           Store(S, record)
    PROVE  /\ Ids' = Ids \cup Range(S) /\ SnapshotsRight'
           /\ \A s \in Ids : stored'[s] = stored[s]
           /\ \A m \in Models : S[m] \in Ids' /\ stored'[S[m]] = record[m]
<1>1. Ids' = Ids \cup Range(S)  BY DEF Store, Ids
<1>2. \A s \in Ids : stored'[s] = stored[s]  BY DEF Store
<1>3. \A m \in Models : S[m] \in Range(S) /\ S[m].name = m /\ S[m].rev \in Revisions[m]
    BY SnapshotsOfFiles
<1>4. /\ \A m \in Models : RecordRight(record[m], m, Ids')
      /\ \A m \in Models : S[m] \in Ids => record[m] = stored[S[m]]
    BY <1>1, RecordsRight
<1>5. \A m \in Models : S[m] \in Ids' /\ stored'[S[m]] = record[m]
    BY <1>1, <1>2, <1>3, <1>4 DEF Store
<1>6. ASSUME NEW s \in Ids' PROVE SnapshotRight(s, Ids') /\ RecordRight(stored'[s], s.name, Ids')
  <2>1. CASE s \in Ids
    <3>1. SnapshotRight(s, Ids) /\ RecordRight(stored[s], s.name, Ids)
        BY <2>1, TypeOKIs DEF VersionsInv, SnapshotsRight
    <3>2. Ids \subseteq Ids'  BY <1>1
    <3> QED  BY <1>2, <2>1, <3>1, <3>2, RightGrows
  <2>2. CASE s \in Range(S)
    <3>1. PICK m \in Models : s = S[m]  BY <2>2, SnapshotsOfFiles
    <3>2. SnapshotRight(s, Range(S))  BY <2>2, SnapshotsOfFiles
    <3>3. Range(S) \subseteq Ids'  BY <1>1
    <3>4. SnapshotRight(s, Ids')  BY <3>2, <3>3, RightGrows
    <3> QED  BY <1>3, <1>4, <1>5, <3>1, <3>4
  <2> QED  BY <1>1, <1>6, <2>1, <2>2
<1>7. SnapshotsRight'  BY <1>6 DEF SnapshotsRight
<1> QED  BY <1>1, <1>2, <1>5, <1>7

(***************************************************************************)
(* What a plan or a run puts into the tables.                              *)
(***************************************************************************)
TableRight(m, table) ==
    DOMAIN table = Points /\ \A x \in Points : RowRight(m, table[x])

\* What goes to a table that prod may take over is computed from tables that stand for prod's.
ReadsNoPreviews(index) ==
    \A m \in Models : index[m].deployable => \A p \in Parents[m] : index[p].representative

LEMMA IndexReadsNoPreviews ==
    ASSUME NEW S, NEW record, NEW index, index = DeployabilityIndex(S, record)
    PROVE  ReadsNoPreviews(index)
<1>1. index = [m \in Models |-> DeployabilityOf(S, record, index, m)]  BY DeployabilityHolds
<1>2. ASSUME NEW m \in Models, index[m].deployable, NEW p \in Parents[m]
      PROVE  index[p].representative
  <2>1. p \in Models  BY ModelGraph
  <2>2. index[m] = DeployabilityOf(S, record, index, m) /\ index[p] = DeployabilityOf(S, record, index, p)
      BY <1>1, <2>1
  <2> DEFINE this(q) == \A r \in Parents[q] : index[r].children
             nature(q) == ByNature(record[q])
             represents(q) == IF this(q) THEN nature(q) /\ StandsForProd(S[q], record[q])
                              ELSE S[q] \in unpaused
             deployable(q) == this(q) /\ ~nature(q)
             representative(q) == (this(q) /\ ~nature(q)) \/ represents(q)
             children(q) == GoodForChildren(this(q), nature(q), represents(q))
  <2>3. \A q \in {m, p} : index[q] = [deployable |-> deployable(q),
                                      representative |-> representative(q),
                                      children |-> children(q)]
      BY <2>2 DEF DeployabilityOf
  <2> HIDE DEF deployable, representative, children
  <2>4. index[m].deployable = deployable(m)  BY <2>3
  <2>5. index[p].representative = representative(p) /\ index[p].children = children(p)  BY <2>3
  <2> USE DEF deployable, representative, children
  <2>6. index[p].children  BY <1>2, <2>4
  <2> HIDE DEF this, nature, represents
  <2> QED  BY <2>5, <2>6 DEF GoodForChildren
<1> QED  BY <1>2 DEF ReadsNoPreviews

LEMMA AllDeployableReadsNoPreviews == ReadsNoPreviews(AllDeployable)
BY ModelGraph DEF ReadsNoPreviews, AllDeployable

LEMMA ContentRight ==
    ASSUME NEW m \in Models, NEW row, RowRight(m, row)
    PROVE  \A c \in Content(m, row) : c[2] # Preview
<1>1. CASE row = NoRow
  <2>1. Content(m, row) = {<<m, NoRow>>}  BY <1>1 DEF Content
  <2> QED  BY <2>1, VersionsConstants
<1>2. CASE row # NoRow
  <2>1. Content(m, row) = {<<m, Output[m][row.rev]>>} \cup row.from  BY <1>2 DEF Content
  <2>2. row.rev \in Revisions[m] /\ \A c \in row.from : c[2] # Preview
      BY <1>2 DEF RowRight
  <2>3. Output[m][row.rev] # Preview  BY <2>2, VersionsConstants
  <2> QED  BY <2>1, <2>2, <2>3
<1> QED  BY <1>1, <1>2

LEMMA FilledRight ==
    ASSUME NEW tables, NEW S, NEW index, NEW selected, NEW start, NEW end,
           NEW filled, filled = Filled(tables, S, index, selected, start, end),
           ReadsNoPreviews(index),
           \A m \in Models : S[m].rev \in Revisions[m],
           \A m \in Models : TableRight(m, tables[m])
    PROVE  \A m \in Models : TableRight(m, filled[m])
<1>1. filled = [m \in Models |-> FilledTable(tables, S, index, selected, start, end, filled, m)]
    BY FilledHolds
<1> DEFINE Wrong == {m \in Models : ~TableRight(m, filled[m])}
<1>2. SUFFICES ASSUME Wrong # {} PROVE FALSE  OBVIOUS
<1>3. PICK m \in Wrong : Parents[m] \cap Wrong = {}
  <2>1. Wrong \in (SUBSET Models) \ {{}}  BY <1>2
  <2> HIDE DEF Wrong
  <2> QED  BY <2>1, ModelGraph DEF WithoutCycles
<1>4. \A p \in Parents[m] : p \in Models /\ TableRight(p, filled[p])  BY <1>3, ModelGraph
<1>5. filled[m] = FilledTable(tables, S, index, selected, start, end, filled, m)  BY <1>1, <1>3
<1>6. DOMAIN filled[m] = Points  BY <1>5 DEF FilledTable
<1>7. ASSUME NEW x \in Points PROVE RowRight(m, filled[m][x])
  <2> DEFINE new == [rev |-> S[m].rev, from |-> ComputedFrom(index, filled, m, x)]
  <2>1. \/ filled[m][x] = tables[m][x]
        \/ index[m].deployable /\ filled[m][x] = new
      BY <1>5 DEF FilledTable
  <2>2. CASE filled[m][x] = tables[m][x]  BY <1>3, <2>2 DEF TableRight
  <2>3. CASE index[m].deployable /\ filled[m][x] = new
    <3>1. \A p \in Parents[m] : index[p].representative  BY <1>3, <2>3 DEF ReadsNoPreviews
    <3>2. ASSUME NEW c \in ComputedFrom(index, filled, m, x) PROVE c[2] # Preview
      <4>1. PICK p \in Parents[m] : c \in Content(p, filled[p][x])
          BY <3>1, <3>2 DEF ComputedFrom
      <4>2. p \in Models /\ RowRight(p, filled[p][x])  BY <1>4 DEF TableRight
      <4> QED  BY <4>1, <4>2, ContentRight
    <3>3. S[m].rev \in Revisions[m]  BY <1>3
    <3>4. new.rev = S[m].rev /\ new.from = ComputedFrom(index, filled, m, x)  OBVIOUS
    <3> HIDE DEF new
    <3> QED  BY <2>3, <3>2, <3>3, <3>4 DEF RowRight
  <2> QED  BY <2>1, <2>2, <2>3
<1> QED  BY <1>3, <1>6, <1>7 DEF TableRight

LEMMA TablesOfRecords ==
    ASSUME TypeOK, RowsRight, NEW record, \A m \in Models : record[m].version.name = m
    PROVE  \A m \in Models : TableRight(m, TablesOf(record)[m])
<1>1. TablesOf(record) = [m \in Models |-> Table(record[m].version)]  BY TabulatedIs DEF TablesOf
<1>2. ASSUME NEW m \in Models PROVE TableRight(m, Table(record[m].version))
  <2>1. CASE record[m].version \in DOMAIN rows
    <3>1. Table(record[m].version) = rows[record[m].version]  BY <2>1 DEF Table
    <3> QED  BY <2>1, <3>1 DEF TypeOK, RowsRight, TableRight
  <2>2. CASE record[m].version \notin DOMAIN rows
    <3>1. Table(record[m].version) = EmptyTable  BY <2>2 DEF Table
    <3> QED  BY <3>1 DEF EmptyTable, TableRight, RowRight
  <2> QED  BY <2>1, <2>2
<1> QED  BY <1>1, <1>2

LEMMA RowsAfter ==
    ASSUME TypeOK, RowsRight, NEW record, NEW tables, rows' = WithTables(record, tables),
           \A m \in Models : record[m].version.name = m,
           \A m \in Models : TableRight(m, tables[m])
    PROVE  /\ DOMAIN rows' = DOMAIN rows \cup {record[m].version : m \in Models}
           /\ \A v \in DOMAIN rows' : DOMAIN rows'[v] = Points
           /\ RowsRight'
<1>1. DOMAIN rows' = DOMAIN rows \cup {record[m].version : m \in Models}  BY DEF WithTables
<1>2. ASSUME NEW v \in DOMAIN rows' PROVE TableRight(v.name, rows'[v])
  <2>1. CASE \E m \in Models : record[m].version = v
    <3> DEFINE m == CHOOSE m \in Models : record[m].version = v
    <3>1. m \in Models /\ record[m].version = v  BY <2>1
    <3>2. rows'[v] = tables[m]  BY <1>1, <2>1 DEF WithTables
    <3> HIDE DEF m
    <3> QED  BY <3>1, <3>2
  <2>2. CASE ~\E m \in Models : record[m].version = v
    <3>1. v \in DOMAIN rows /\ rows'[v] = rows[v]  BY <1>1, <2>2 DEF WithTables
    <3> QED  BY <3>1 DEF TypeOK, RowsRight, TableRight
  <2> QED  BY <2>1, <2>2
<1> QED  BY <1>1, <1>2 DEF TableRight, RowsRight

(***************************************************************************)
(* The steps.                                                              *)
(***************************************************************************)
LEMMA InitIsTyped == Init => VersionsInv
<1> SUFFICES ASSUME Init PROVE VersionsInv  OBVIOUS
<1>1. Ids = {} /\ DOMAIN rows = {}  BY DEF Init, Ids
<1>2. now \in Points /\ plans \in 0..MaxPlans  BY VersionsConstants DEF Init, Points
<1>3. TypeOK  BY <1>1, <1>2 DEF Init, TypeOK
<1> QED  BY <1>1, <1>3 DEF Init, VersionsInv, EnvsNamed, RowsRight

LEMMA DevPlanRight ==
    ASSUME VersionsInv, NEW S, NEW record, NEW modified, NEW forward_only, NEW run,
           DevPlan(S, record, modified, forward_only, run),
           \A m \in Models : S[m].rev \in Revisions[m],
           \A m \in Models : record[m].version.name = m
    PROVE  /\ DOMAIN rows' = DOMAIN rows \cup {record[m].version : m \in Models}
           /\ \A v \in DOMAIN rows' : DOMAIN rows'[v] = Points
           /\ RowsRight'
<1>1. PICK selected, start, end :
        rows' = WithTables(record, Filled(TablesOf(record), S, DeployabilityIndex(S, record),
                                          selected, start, end))
    BY Zenon DEF DevPlan
<1>2. ReadsNoPreviews(DeployabilityIndex(S, record))  BY IndexReadsNoPreviews
<1>3. \A m \in Models : TableRight(m, TablesOf(record)[m])  BY TablesOfRecords DEF VersionsInv
<1> DEFINE filled == Filled(TablesOf(record), S, DeployabilityIndex(S, record), selected, start, end)
<1>4. \A m \in Models : TableRight(m, filled[m])  BY <1>2, <1>3, FilledRight
<1> HIDE DEF filled
<1> QED  BY <1>1, <1>4, RowsAfter DEF VersionsInv, filled

LEMMA ProdPlanRight ==
    ASSUME VersionsInv, NEW S, NEW record, NEW modified, NEW run,
           ProdPlan(S, record, modified, run),
           \A m \in Models : S[m].rev \in Revisions[m],
           \A m \in Models : record[m].version.name = m
    PROVE  /\ DOMAIN rows' = DOMAIN rows \cup {record[m].version : m \in Models}
           /\ \A v \in DOMAIN rows' : DOMAIN rows'[v] = Points
           /\ RowsRight'
<1> DEFINE before == BeforePromote(DeployabilityIndex(S, record))
           end == IF run THEN UpToNow ELSE ProdEnd(Models)
           tables == Filled(TablesOf(record), S, AllDeployable, before, 1, end)
           filled == Filled(tables, S, AllDeployable, Models \ before, 1, end)
<1>1. rows' = WithTables(record, filled)  BY DEF ProdPlan
<1>2. \A m \in Models : TableRight(m, TablesOf(record)[m])  BY TablesOfRecords DEF VersionsInv
<1>3. \A m \in Models : TableRight(m, tables[m])
  <2> HIDE DEF before, end
  <2> QED  BY <1>2, AllDeployableReadsNoPreviews, FilledRight
<1>4. \A m \in Models : TableRight(m, filled[m])
  <2> HIDE DEF before, end, tables
  <2> QED  BY <1>3, AllDeployableReadsNoPreviews, FilledRight
<1> HIDE DEF filled
<1> QED  BY <1>1, <1>4, RowsAfter DEF VersionsInv

LEMMA PlanRight ==
    ASSUME VersionsInv, NEW env \in EnvNames, NEW files \in Files,
           NEW forward_only \in BOOLEAN, NEW run \in BOOLEAN,
           Plan(env, files, forward_only, run)
    PROVE  VersionsInv'
<1> DEFINE S == SnapshotsOf(files)
           record == Records(S, Compared(env), forward_only)
           modified == {m \in Models : S[m] # Compared(env)[m]}
<1>1. /\ plans < MaxPlans /\ plans' = plans + 1 /\ UNCHANGED now
      /\ Store(S, record)
      /\ \/ env = Dev /\ DevPlan(S, record, modified, forward_only, run)
         \/ env # Dev /\ ProdPlan(S, record, modified, run)
    BY Zenon DEF Plan, Compared
<1>2. modified \subseteq Models  OBVIOUS
<1> HIDE DEF modified
<1>3. /\ S = [m \in Models |-> S[m]] /\ Range(S) = {S[m] : m \in Models}
      /\ \A m \in Models : S[m].name = m /\ S[m].rev \in Revisions[m]
    BY SnapshotsOfFiles
<1>4. \A m \in Models : RecordRight(record[m], m, Ids \cup Range(S))  BY RecordsRight
<1>5. /\ Ids' = Ids \cup Range(S) /\ SnapshotsRight'
      /\ \A s \in Ids : stored'[s] = stored[s]
      /\ \A m \in Models : S[m] \in Ids' /\ stored'[S[m]] = record[m]
    BY <1>1, StoreRight
<1> HIDE DEF S, record
<1>6. \A m \in Models : record[m].version.name = m  BY <1>4 DEF RecordRight
<1>7. /\ DOMAIN rows' = DOMAIN rows \cup {record[m].version : m \in Models}
      /\ \A v \in DOMAIN rows' : DOMAIN rows'[v] = Points
      /\ RowsRight'
  <2>1. \A m \in Models : S[m].rev \in Revisions[m]  BY <1>3
  <2>2. CASE env = Dev
    <3>1. DevPlan(S, record, modified, forward_only, run)  BY <1>1, <2>2
    <3> QED  BY <1>6, <2>1, <3>1, DevPlanRight
  <2>3. CASE env # Dev
    <3>1. ProdPlan(S, record, modified, run)  BY <1>1, <2>3
    <3> QED  BY <1>6, <2>1, <3>1, ProdPlanRight
  <2> QED  BY <2>2, <2>3
<1>8. DOMAIN rows' = {stored'[s].version : s \in Ids'}
  <2>1. DOMAIN rows = {stored[s].version : s \in Ids}  BY DEF VersionsInv, TypeOK
  <2>2. {stored[s].version : s \in Ids} = {stored'[s].version : s \in Ids}  BY <1>5
  <2>3. {record[m].version : m \in Models} = {stored'[s].version : s \in Range(S)}  BY <1>3, <1>5
  <2> QED  BY <1>5, <1>7, <2>1, <2>2, <2>3
<1>9. unpaused' \subseteq Ids' /\ unrestorable' \subseteq Ids'
  <2>1. unpaused \subseteq Ids' /\ unrestorable \subseteq Ids'
      BY <1>5 DEF VersionsInv, TypeOK
  <2>2. CASE UNCHANGED <<unpaused, unrestorable>>  BY <2>1, <2>2
  <2>3. CASE UnpauseSnapshots(S, record, modified)
    <3>1. unpaused' \subseteq unpaused \cup {S[m] : m \in modified}  BY <2>3 DEF UnpauseSnapshots
    <3>2. {S[m] : m \in modified} \subseteq Ids'  BY <1>2, <1>5
    <3>3. unrestorable' \subseteq unrestorable \cup Ids \cup Range(S)
        BY <2>3 DEF UnpauseSnapshots, Unrestorable
    <3> QED  BY <1>5, <2>1, <3>1, <3>2, <3>3
  <2> QED  BY <1>1, <2>2, <2>3 DEF DevPlan, ProdPlan
<1>10. envs' = [envs EXCEPT ![env] = S]
    BY <1>1 DEF DevPlan, ProdPlan, EnvNames
<1>11. /\ DOMAIN envs' = EnvNames /\ EnvsNamed'
       /\ \A e \in EnvNames : envs'[e] = NoEnv \/ envs'[e] \in [Models -> Ids']
  <2>1. DOMAIN envs = EnvNames  BY DEF VersionsInv, TypeOK
  <2>2. S \in [Models -> Ids']  BY <1>3, <1>5
  <2>3. ASSUME NEW e \in EnvNames
        PROVE  /\ envs'[e] = NoEnv \/ envs'[e] \in [Models -> Ids']
               /\ envs'[e] # NoEnv => \A m \in Models : envs'[e][m].name = m
    <3>1. CASE e = env
      <4>1. envs'[e] = S  BY <1>10, <2>1, <3>1
      <4> QED  BY <1>3, <2>2, <4>1
    <3>2. CASE e # env
      <4>1. envs'[e] = envs[e]  BY <1>10, <2>1, <3>2
      <4>2. envs[e] = NoEnv \/ envs[e] \in [Models -> Ids]  BY DEF VersionsInv, TypeOK
      <4>3. envs[e] # NoEnv => \A m \in Models : envs[e][m].name = m  BY DEF VersionsInv, EnvsNamed
      <4>4. envs[e] \in [Models -> Ids] => envs[e] \in [Models -> Ids']  BY <1>5
      <4> QED  BY <4>1, <4>2, <4>3, <4>4
    <3> QED  BY <3>1, <3>2
  <2> QED  BY <1>10, <2>1, <2>3 DEF EnvsNamed
<1>12. now' \in Points /\ plans' \in 0..MaxPlans
    BY <1>1, VersionsConstants DEF VersionsInv, TypeOK
<1>13. TypeOK'  BY <1>5, <1>7, <1>8, <1>9, <1>11, <1>12 DEF TypeOK, SnapshotsRight, SnapshotRight, RecordRight
<1> QED  BY <1>7, <1>11, <1>13 DEF VersionsInv

LEMMA RunRight ==
    ASSUME VersionsInv, NEW env \in EnvNames, Run(env)
    PROVE  VersionsInv'
<1> DEFINE S == envs[env]
           record == [m \in Models |-> stored[S[m]]]
           index == IF env = Prod THEN AllDeployable ELSE DeployabilityIndex(S, record)
           filled == Filled(TablesOf(record), S, index, Models, 1, UpToNow)
<1>1. /\ S # NoEnv /\ rows' = WithTables(record, filled)
      /\ UNCHANGED <<stored, unpaused, unrestorable, envs, now, plans>>
    BY DEF Run
<1>2. \A m \in Models : S[m] \in Ids /\ S[m].name = m
    BY <1>1 DEF VersionsInv, TypeOK, EnvsNamed
<1>3. \A m \in Models : /\ S[m].rev \in Revisions[m]
                        /\ record[m].version \in Ids /\ record[m].version.name = m
    BY <1>2 DEF VersionsInv, TypeOK
<1>4. ReadsNoPreviews(index)
  <2> HIDE DEF S, record
  <2> QED  BY IndexReadsNoPreviews, AllDeployableReadsNoPreviews
<1>5. {record[m].version : m \in Models} \subseteq DOMAIN rows
    BY <1>2 DEF VersionsInv, TypeOK
<1> HIDE DEF S, record, index
<1>6. \A m \in Models : TableRight(m, TablesOf(record)[m])
    BY <1>3, TablesOfRecords DEF VersionsInv
<1>7. \A m \in Models : TableRight(m, filled[m])  BY <1>3, <1>4, <1>6, FilledRight
<1> HIDE DEF filled
<1>8. /\ DOMAIN rows' = DOMAIN rows \cup {record[m].version : m \in Models}
      /\ \A v \in DOMAIN rows' : DOMAIN rows'[v] = Points
      /\ RowsRight'
    BY <1>1, <1>3, <1>7, RowsAfter DEF VersionsInv
<1>9. Ids' = Ids /\ DOMAIN rows' = DOMAIN rows  BY <1>1, <1>5, <1>8 DEF Ids
<1>10. TypeOK'
  <2>1. EnvsRight'  BY <1>1, <1>9, TypeOKIs DEF VersionsInv, EnvsRight
  <2>2. now' \in Points  BY <1>1 DEF VersionsInv, TypeOK
  <2> QED  BY <1>1, <1>8, <1>9, <2>1, <2>2, NoNewSnapshots DEF VersionsInv
<1>11. EnvsNamed'  BY <1>1 DEF VersionsInv, EnvsNamed
<1> QED  BY <1>8, <1>10, <1>11 DEF VersionsInv

LEMMA StepRight == VersionsInv /\ [Next]_vars => VersionsInv'
<1> SUFFICES ASSUME VersionsInv, [Next]_vars PROVE VersionsInv'  OBVIOUS
<1>1. ASSUME NEW env \in EnvNames, NEW files \in Files, NEW forward_only \in BOOLEAN,
             NEW run \in BOOLEAN, Plan(env, files, forward_only, run)
      PROVE  VersionsInv'
    BY <1>1, PlanRight
<1>2. ASSUME NEW env \in EnvNames, Run(env) PROVE VersionsInv'  BY <1>2, RunRight
<1>3. CASE RemoveDev
  <2>1. /\ UNCHANGED <<stored, unpaused, unrestorable, rows, now, plans>> /\ Ids' = Ids
        /\ envs' = [envs EXCEPT ![Dev] = NoEnv]
      BY <1>3 DEF RemoveDev, Ids
  <2>2. EnvsRight  BY TypeOKIs DEF VersionsInv
  <2>3. DOMAIN envs' = EnvNames /\ \A e \in EnvNames : envs'[e] = envs[e] \/ envs'[e] = NoEnv
      BY <2>1, <2>2 DEF EnvsRight
  <2>4. EnvsRight'  BY <2>1, <2>2, <2>3 DEF EnvsRight
  <2>5. TypeOK'  BY <2>1, <2>4, NoNewSnapshots, TypeOKIs DEF VersionsInv
  <2>6. EnvsNamed'  BY <2>3 DEF VersionsInv, EnvsNamed
  <2> QED  BY <2>1, <2>5, <2>6 DEF VersionsInv, RowsRight
<1>4. CASE TimePasses
  <2>1. UNCHANGED <<stored, unpaused, unrestorable, envs, rows, plans>> /\ Ids' = Ids
      BY <1>4 DEF TimePasses, Ids
  <2>2. now' \in Points  BY <1>4, VersionsConstants DEF TimePasses, VersionsInv, TypeOK, Points
  <2>3. EnvsRight'  BY <2>1, TypeOKIs DEF VersionsInv, EnvsRight
  <2>4. TypeOK'  BY <2>1, <2>2, <2>3, NoNewSnapshots, TypeOKIs DEF VersionsInv
  <2> QED  BY <2>1, <2>4 DEF VersionsInv, EnvsNamed, RowsRight
<1>5. CASE UNCHANGED vars
  <2>1. UNCHANGED <<stored, unpaused, unrestorable, envs, rows, now, plans>> /\ Ids' = Ids
      BY <1>5 DEF vars, Ids
  <2>2. EnvsRight'  BY <2>1, TypeOKIs DEF VersionsInv, EnvsRight
  <2>3. TypeOK'  BY <2>1, <2>2, NoNewSnapshots, TypeOKIs DEF VersionsInv
  <2> QED  BY <2>1, <2>3 DEF VersionsInv, EnvsNamed, RowsRight
<1> QED  BY <1>1, <1>2, <1>3, <1>4, <1>5 DEF Next

LEMMA InvAlways == Spec => []VersionsInv
BY InitIsTyped, StepRight, PTL DEF Spec

\* Whatever the graph of the models, the texts and how often it is planned and run: every
\* snapshot has its parents and its versions in the store, prod and the development
\* environment are of snapshots of all of the models, and there is a table for each
\* version there is a snapshot of (Plan, Run and what they do with the state).
THEOREM VersionsTyped == Spec => []TypeOK
<1>1. VersionsInv => TypeOK  BY DEF VersionsInv
<1> QED  BY <1>1, InvAlways, PTL

\* Nothing in a table that prod may take over was computed from a preview: what is deployable
\* (DeployabilityIndex.create) selects only from what stands for prod's.
THEOREM PreviewsStayOut == Spec => []ReadyForProd
<1>1. VersionsInv => ReadyForProd
    BY DEF VersionsInv, TypeOK, RowsRight, RowRight, ReadyForProd, LoadedIn
<1> QED  BY <1>1, InvAlways, PTL
=============================================================================
