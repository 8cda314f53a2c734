----------------------------- MODULE UpTheGraph -----------------------------
(***************************************************************************)
(* What is computed going up a graph: functions f of the nodes with        *)
(*                                                                         *)
(*     f[s] = own[s] \cup UNION {f[p] : p \in next[s]}                     *)
(*                                                                         *)
(* such as the ancestors of a model, or what holds it back.  There is such *)
(* a function for any graph.  In a graph without cycles, what holds of a   *)
(* node if it holds of all the nodes next to it, holds of every node: the  *)
(* nodes of which it does not would include one next to which there is no  *)
(* other.                                                                  *)
(***************************************************************************)
EXTENDS Integers, FiniteSets, FiniteSetTheorems, WellFoundedInduction, TLAPS

(***************************************************************************)
(* Least elements.                                                         *)
(***************************************************************************)

\* A finite set of finite sets has a smallest one, for inclusion is well founded on
\* finite sets.
LEMMA SmallestSet ==
    \A S, T : T # {} /\ (\A x \in T : x \in FiniteSubsetsOf(S))
                => \E x \in T : \A y \in T : y \subseteq x => y = x
<1> TAKE S, T
<1> HAVE T # {} /\ \A x \in T : x \in FiniteSubsetsOf(S)
<1>1. T \subseteq FiniteSubsetsOf(S)  OBVIOUS
<1>2. PICK x \in T : \A y \in T : ~(<<y, x>> \in StrictSubsetOrdering(S))
    BY <1>1, FS_StrictSubsetOrderingWellFounded, WFMin
<1>3. \A y \in T : y \in FiniteSubsetsOf(S)  OBVIOUS
<1> QED  BY <1>2, <1>3 DEF StrictSubsetOrdering, FiniteSubsetsOf

LEMMA SmallestNumber ==
    ASSUME NEW I \in SUBSET Nat, I # {}
    PROVE  \E i \in I : \A j \in I : i <= j
<1> DEFINE Upto(i) == 0..i
           T == {Upto(i) : i \in I}
<1>1. T # {}  OBVIOUS
<1>2. \A x \in T : x \in FiniteSubsetsOf(Nat)
  <2>1. \A i \in I : IsFiniteSet(0..i)  BY FS_Interval
  <2>2. \A i \in I : 0..i \in SUBSET Nat  OBVIOUS
  <2> QED  BY <2>1, <2>2 DEF FiniteSubsetsOf
<1>3. PICK x \in T : \A y \in T : y \subseteq x => y = x
  <2> HIDE DEF T
  <2> QED  BY <1>1, <1>2, SmallestSet
<1>4. PICK i \in I : x = Upto(i)  BY <1>3
<1>5. ASSUME NEW j \in I PROVE i <= j
  <2>1. Upto(j) \in T  OBVIOUS
  <2>2. i \in Nat /\ j \in Nat  OBVIOUS
  <2>3. CASE j < i
    <3>1. Upto(j) \subseteq Upto(i)  BY <2>2, <2>3
    <3>2. i \in Upto(i) /\ i \notin Upto(j)  BY <2>2, <2>3
    <3>3. Upto(j) = Upto(i)
      <4> HIDE DEF Upto, T
      <4> QED  BY <1>3, <1>4, <2>1, <3>1
    <3> QED  BY <3>2, <3>3
  <2> QED  BY <2>2, <2>3
<1> QED  BY <1>5

(***************************************************************************)
(* Reachable nodes: those in every set that has s and is closed.           *)
(***************************************************************************)
Closed(next, C) == \A r \in C : next[r] \subseteq C

Reach(next, s) ==
    {q \in DOMAIN next : \A C \in SUBSET DOMAIN next : s \in C /\ Closed(next, C) => q \in C}

LEMMA ReachStep ==
    ASSUME NEW S, NEW next \in [S -> SUBSET S], NEW s \in S
    PROVE  Reach(next, s) = {s} \cup UNION {Reach(next, p) : p \in next[s]}
<1> DEFINE Rest == UNION {Reach(next, p) : p \in next[s]}
<1>0. DOMAIN next = S /\ next[s] \subseteq S  OBVIOUS
<1>1. s \in Reach(next, s)  BY DEF Reach
<1>2. ASSUME NEW q \in Rest PROVE q \in Reach(next, s)
  <2>1. PICK p \in next[s] : q \in Reach(next, p)  OBVIOUS
  <2>2. q \in S  BY <2>1 DEF Reach
  <2>3. ASSUME NEW C \in SUBSET S, s \in C, Closed(next, C) PROVE q \in C
    <3>1. p \in C  BY <2>3, <2>1 DEF Closed
    <3> QED  BY <2>1, <2>3, <3>1, <1>0 DEF Reach
  <2> QED  BY <2>2, <2>3, <1>0 DEF Reach
<1>3. ASSUME NEW q \in Reach(next, s) PROVE q \in {s} \cup Rest
  <2> DEFINE C == {s} \cup Rest
  <2>1. C \in SUBSET S  BY <1>0 DEF Reach
  <2>2. ASSUME NEW r \in C, NEW u \in next[r] PROVE u \in C
    <3>1. CASE r = s
      <4>1. u \in Reach(next, u)  BY <1>0, <3>1, <2>2 DEF Reach
      <4> QED  BY <4>1, <3>1, <2>2
    <3>2. CASE r \in Rest
      <4>1. PICK p \in next[s] : r \in Reach(next, p)  BY <3>2
      <4>2. u \in Reach(next, p)
        <5>1. u \in S  BY <2>1, <2>2
        <5>2. ASSUME NEW D \in SUBSET S, p \in D, Closed(next, D) PROVE u \in D
          <6>1. r \in D  BY <4>1, <5>2, <1>0 DEF Reach
          <6> QED  BY <6>1, <5>2, <2>2 DEF Closed
        <5> QED  BY <5>1, <5>2, <1>0 DEF Reach
      <4> QED  BY <4>1, <4>2
    <3> QED  BY <3>1, <3>2, <2>2
  <2>3. Closed(next, C)  BY <2>2 DEF Closed
  <2>4. s \in C  OBVIOUS
  <2> HIDE DEF C
  <2>5. q \in C  BY <1>0, <2>1, <2>3, <2>4 DEF Reach
  <2> QED  BY <2>5 DEF C
<1> QED  BY <1>1, <1>2, <1>3

(***************************************************************************)
(* Functions that collect what is known up the graph.                      *)
(***************************************************************************)
Collects(f, own, next) ==
    f = [s \in DOMAIN next |-> own[s] \cup UNION {f[p] : p \in next[s]}]

\* There is one, whatever the graph: it collects what is known of the reachable nodes.
LEMMA Collected ==
    ASSUME NEW S, NEW next \in [S -> SUBSET S], NEW own
    PROVE  \E f : Collects(f, own, next)
<1> DEFINE f == [s \in S |-> UNION {own[q] : q \in Reach(next, s)}]
           g == [s \in S |-> own[s] \cup UNION {f[p] : p \in next[s]}]
<1>1. ASSUME NEW s \in S PROVE f[s] = g[s]
  <2>1. Reach(next, s) = {s} \cup UNION {Reach(next, p) : p \in next[s]}  BY ReachStep
  <2>2. \A p \in next[s] : f[p] = UNION {own[q] : q \in Reach(next, p)}  OBVIOUS
  <2>3. f[s] = UNION {own[q] : q \in Reach(next, s)}  OBVIOUS
  <2>4. g[s] = own[s] \cup UNION {f[p] : p \in next[s]}  OBVIOUS
  <2> HIDE DEF f, g
  <2>5. ASSUME NEW x \in f[s] PROVE x \in g[s]
    <3>1. PICK q \in Reach(next, s) : x \in own[q]  BY <2>3, <2>5
    <3>2. CASE q = s  BY <3>1, <3>2, <2>4
    <3>3. CASE \E p \in next[s] : q \in Reach(next, p)  BY <3>1, <3>3, <2>2, <2>4
    <3> QED  BY <2>1, <3>1, <3>2, <3>3
  <2>6. ASSUME NEW x \in g[s] PROVE x \in f[s]
    <3>1. CASE x \in own[s]  BY <2>1, <2>3, <3>1
    <3>2. CASE \E p \in next[s] : x \in f[p]  BY <2>1, <2>2, <2>3, <3>2
    <3> QED  BY <2>4, <2>6, <3>1, <3>2
  <2> QED  BY <2>5, <2>6
<1>2. f = g  BY <1>1
<1>3. Collects(f, own, next)  BY <1>2 DEF Collects
<1> QED  BY <1>3

(***************************************************************************)
(* Graphs without cycles: everywhere there is a node next to which there   *)
(* is no other one.                                                        *)
(***************************************************************************)
WithoutCycles(S, next) ==
    \A T \in (SUBSET S) \ {{}} : \E s \in T : next[s] \cap T = {}

\* What is above a node next to it is above the node.
LEMMA AboveAndAbove ==
    ASSUME NEW S, NEW next \in [S -> SUBSET S], WithoutCycles(S, next),
           NEW above, Collects(above, next, next)
    PROVE  \A s \in S : /\ above[s] \subseteq S
                        /\ \A q \in above[s] : above[q] \subseteq above[s]
<1> DEFINE Wrong == {s \in S : ~(/\ above[s] \subseteq S
                                /\ \A q \in above[s] : above[q] \subseteq above[s])}
<1>1. SUFFICES ASSUME Wrong # {} PROVE FALSE  OBVIOUS
<1>2. PICK s \in Wrong : next[s] \cap Wrong = {}
  <2>1. Wrong \in (SUBSET S) \ {{}}  BY <1>1
  <2> HIDE DEF Wrong
  <2> QED  BY <2>1 DEF WithoutCycles
<1>3. above[s] = next[s] \cup UNION {above[p] : p \in next[s]}  BY DEF Collects
<1>4. \A p \in next[s] : /\ above[p] \subseteq S
                         /\ \A q \in above[p] : above[q] \subseteq above[p]
    BY <1>2
<1>5. above[s] \subseteq S  BY <1>3, <1>4
<1>6. ASSUME NEW q \in above[s] PROVE above[q] \subseteq above[s]
  <2>1. CASE q \in next[s]  BY <1>3, <2>1
  <2>2. CASE \E p \in next[s] : q \in above[p]
    <3>1. PICK p \in next[s] : q \in above[p]  BY <2>2
    <3> QED  BY <1>3, <1>4, <3>1
  <2> QED  BY <1>3, <2>1, <2>2
<1> QED  BY <1>2, <1>5, <1>6

\* Of some nodes there is one above which there is no other.
LEMMA NoneAbove ==
    ASSUME NEW S, NEW next \in [S -> SUBSET S], WithoutCycles(S, next),
           NEW above, Collects(above, next, next),
           NEW T \in SUBSET S, T # {}
    PROVE  \E s \in T : above[s] \cap T = {}
<1> DEFINE Below == {s \in S : ({s} \cup above[s]) \cap T # {}}
<1>1. PICK s \in Below : next[s] \cap Below = {}
  <2>1. Below \in (SUBSET S) \ {{}}  OBVIOUS
  <2> HIDE DEF Below
  <2> QED  BY <2>1 DEF WithoutCycles
<1>2. above[s] = next[s] \cup UNION {above[p] : p \in next[s]}  BY DEF Collects
<1>3. \A p \in next[s] : p \in S /\ p \notin T /\ above[p] \cap T = {}  BY <1>1
<1>4. above[s] \cap T = {}  BY <1>2, <1>3
<1> QED  BY <1>1, <1>4

(***************************************************************************)
(* Functions of the nodes of such a graph that are defined by recursion:   *)
(* step[s][f] is the value at s, given those at the nodes next to it.      *)
(***************************************************************************)
LEMMA ReachCloses ==
    ASSUME NEW S, NEW next \in [S -> SUBSET S], NEW s \in S
    PROVE  /\ s \in Reach(next, s) /\ Reach(next, s) \subseteq S
           /\ \A q \in Reach(next, s) : next[q] \subseteq Reach(next, s)
           /\ \A q \in Reach(next, s) : Reach(next, q) \subseteq Reach(next, s)
<1>1. s \in Reach(next, s) /\ Reach(next, s) \subseteq S  BY DEF Reach
<1>2. ASSUME NEW q \in Reach(next, s), NEW r \in next[q] PROVE r \in Reach(next, s)
  <2>1. q \in S /\ r \in S  BY <1>1, <1>2
  <2>2. \A C \in SUBSET S : s \in C /\ Closed(next, C) => r \in C
      BY <1>2 DEF Reach, Closed
  <2> QED  BY <2>1, <2>2 DEF Reach
<1>3. ASSUME NEW q \in Reach(next, s), NEW r \in Reach(next, q) PROVE r \in Reach(next, s)
  <2>1. r \in S  BY <1>3 DEF Reach
  <2>2. \A C \in SUBSET S : s \in C /\ Closed(next, C) => r \in C
      BY <1>3 DEF Reach
  <2> QED  BY <2>1, <2>2 DEF Reach
<1> QED  BY <1>1, <1>2, <1>3

\* What a step takes into account.
LooksUp(S, next, V, step) ==
    /\ step \in [S -> [[S -> V] -> V]]
    /\ \A s \in S : \A f, g \in [S -> V] :
          (\A p \in next[s] : f[p] = g[p]) => step[s][f] = step[s][g]

\* A function that is right from a node upwards.
RightFrom(S, next, V, step, s, g) ==
    g \in [S -> V] /\ \A q \in Reach(next, s) : g[q] = step[q][g]

LEMMA RightIsUnique ==
    ASSUME NEW S, NEW next \in [S -> SUBSET S], WithoutCycles(S, next),
           NEW V, NEW step, LooksUp(S, next, V, step),
           NEW s \in S, NEW t \in S, NEW g, NEW h,
           RightFrom(S, next, V, step, s, g), RightFrom(S, next, V, step, t, h)
    PROVE  \A q \in Reach(next, s) \cap Reach(next, t) : g[q] = h[q]
<1> DEFINE Wrong == {q \in Reach(next, s) \cap Reach(next, t) : g[q] # h[q]}
<1>1. SUFFICES ASSUME Wrong # {} PROVE FALSE  OBVIOUS
<1>2. PICK q \in Wrong : next[q] \cap Wrong = {}
  <2>1. Wrong \in (SUBSET S) \ {{}}  BY <1>1, ReachCloses
  <2> HIDE DEF Wrong
  <2> QED  BY <2>1 DEF WithoutCycles
<1>3. q \in S /\ next[q] \subseteq Reach(next, s) \cap Reach(next, t)  BY ReachCloses
<1>4. \A p \in next[q] : g[p] = h[p]  BY <1>2, <1>3
<1>5. step[q][g] = step[q][h]  BY <1>3, <1>4 DEF LooksUp, RightFrom
<1> QED  BY <1>2, <1>5 DEF RightFrom

LEMMA RightExists ==
    ASSUME NEW S, NEW next \in [S -> SUBSET S], WithoutCycles(S, next),
           NEW V, V # {}, NEW step, LooksUp(S, next, V, step), NEW s \in S
    PROVE  \E g : RightFrom(S, next, V, step, s, g)
<1> DEFINE Right(q, g) == RightFrom(S, next, V, step, q, g)
           Wrong == {q \in S : ~\E g : Right(q, g)}
<1> HIDE DEF Right
<1>1. SUFFICES ASSUME Wrong # {} PROVE FALSE  BY DEF Right
<1>2. PICK t \in Wrong : next[t] \cap Wrong = {}
  <2>1. Wrong \in (SUBSET S) \ {{}}  BY <1>1
  <2> HIDE DEF Wrong
  <2> QED  BY <2>1 DEF WithoutCycles
<1> DEFINE Above == UNION {Reach(next, p) : p \in next[t]}
           of(p) == CHOOSE g : Right(p, g)
           via(q) == CHOOSE p \in next[t] : q \in Reach(next, p)
           v == CHOOSE v \in V : TRUE
           h == [q \in S |-> IF q \in Above THEN of(via(q))[q] ELSE v]
           k == [h EXCEPT ![t] = step[t][h]]
<1>3. next[t] \subseteq S /\ Reach(next, t) = {t} \cup Above  BY ReachStep
<1>4. \A p \in next[t] : Right(p, of(p))
  <2>1. \A p \in next[t] : \E g : Right(p, g)  BY <1>2, <1>3
  <2> QED  BY <2>1
<1>5. t \notin Above
  <2>1. SUFFICES ASSUME NEW p \in next[t], t \in Reach(next, p) PROVE FALSE  OBVIOUS
  <2>2. Reach(next, t) \subseteq Reach(next, p)  BY <1>3, <2>1, ReachCloses
  <2>3. Right(t, of(p))
    <3> HIDE DEF of
    <3> QED  BY <1>4, <2>2 DEF Right, RightFrom
  <2> QED  BY <1>2, <2>3
<1>6. \A q \in Above : via(q) \in next[t] /\ q \in Reach(next, via(q))
  <2>1. \A q \in Above : \E p \in next[t] : q \in Reach(next, p)  OBVIOUS
  <2> QED  BY <2>1
<1> HIDE DEF of, via
<1>7. \A p \in next[t] : \A q \in Reach(next, p) : h[q] = of(p)[q]
  <2> TAKE p \in next[t]
  <2> TAKE q \in Reach(next, p)
  <2>1. p \in S /\ q \in S /\ q \in Above  BY <1>3, ReachCloses
  <2>2. via(q) \in S /\ q \in Reach(next, via(q)) \cap Reach(next, p)  BY <1>3, <1>6, <2>1
  <2>3. RightFrom(S, next, V, step, p, of(p)) /\ RightFrom(S, next, V, step, via(q), of(via(q)))
      BY <1>4, <1>6, <2>1 DEF Right
  <2>4. of(via(q))[q] = of(p)[q]  BY <2>1, <2>2, <2>3, RightIsUnique
  <2> QED  BY <2>1, <2>4
<1>8. h \in [S -> V]
  <2>1. v \in V  OBVIOUS
  <2>2. \A q \in Above : q \in S /\ of(via(q))[q] \in V
    <3> TAKE q \in Above
    <3>1. via(q) \in S /\ q \in Reach(next, via(q))  BY <1>3, <1>6
    <3>2. q \in S  BY <3>1, ReachCloses
    <3>3. of(via(q)) \in [S -> V]  BY <1>4, <1>6 DEF Right, RightFrom
    <3> QED  BY <3>2, <3>3
  <2> HIDE DEF v, Above
  <2> QED  BY <2>1, <2>2
<1>9. step[t][h] \in V
  <2> HIDE DEF h
  <2> QED  BY <1>8 DEF LooksUp
<1>10. k \in [S -> V] /\ k[t] = step[t][h] /\ \A q \in S \ {t} : k[q] = h[q]
  <2> HIDE DEF h
  <2> QED  BY <1>8, <1>9
<1> HIDE DEF h, k
<1>11. ASSUME NEW q \in Reach(next, t) PROVE k[q] = step[q][k]
  <2>1. CASE q = t
    <3>1. \A p \in next[t] : p \in Above  BY <1>3, ReachCloses
    <3>2. \A p \in next[t] : k[p] = h[p]  BY <1>3, <1>5, <1>10, <3>1
    <3>3. step[t][k] = step[t][h]  BY <1>8, <1>10, <3>2 DEF LooksUp
    <3> QED  BY <1>10, <2>1, <3>3
  <2>2. CASE q \in Above
    <3>1. PICK p \in next[t] : q \in Reach(next, p)  BY <2>2
    <3>2. p \in S /\ q \in S /\ q # t  BY <1>3, <1>5, <2>2, <3>1, ReachCloses
    <3>3. \A r \in next[q] : r \in Reach(next, p) /\ r \in S /\ r # t
        BY <1>5, <3>1, <3>2, ReachCloses
    <3>4. \A r \in next[q] : k[r] = of(p)[r]  BY <1>7, <1>10, <3>3
    <3>5. of(p) \in [S -> V] /\ of(p)[q] = step[q][of(p)]
        BY <1>4, <3>1 DEF Right, RightFrom
    <3>6. step[q][k] = step[q][of(p)]  BY <1>10, <3>2, <3>4, <3>5 DEF LooksUp
    <3> QED  BY <1>7, <1>10, <3>1, <3>2, <3>5, <3>6
  <2> QED  BY <1>3, <1>11, <2>1, <2>2
<1>12. Right(t, k)  BY <1>10, <1>11 DEF Right, RightFrom
<1> QED  BY <1>2, <1>12

\* There is a function that is right everywhere.
IsRight(S, V, step, f) == f \in [S -> V] /\ \A s \in S : f[s] = step[s][f]

LEMMA Recursion ==
    ASSUME NEW S, NEW next \in [S -> SUBSET S], WithoutCycles(S, next),
           NEW V, V # {}, NEW step, LooksUp(S, next, V, step)
    PROVE  \E f : IsRight(S, V, step, f)
<1> DEFINE of(s) == CHOOSE g : RightFrom(S, next, V, step, s, g)
           f == [s \in S |-> of(s)[s]]
<1>1. \A s \in S : RightFrom(S, next, V, step, s, of(s))
  <2> TAKE s \in S
  <2>1. \E g : RightFrom(S, next, V, step, s, g)  BY RightExists
  <2> QED  BY <2>1
<1> HIDE DEF of
<1>2. f \in [S -> V]  BY <1>1 DEF RightFrom
<1>3. ASSUME NEW s \in S PROVE f[s] = step[s][f]
  <2>1. s \in Reach(next, s) /\ next[s] \subseteq Reach(next, s)  BY ReachCloses
  <2>2. \A p \in next[s] : p \in S /\ p \in Reach(next, p) /\ p \in Reach(next, s)
      BY <2>1, ReachCloses
  <2>3. \A p \in next[s] : of(p)[p] = of(s)[p]  BY <1>1, <2>2, RightIsUnique
  <2>4. \A p \in next[s] : f[p] = of(s)[p]  BY <2>2, <2>3
  <2>5. of(s) \in [S -> V] /\ of(s)[s] = step[s][of(s)]  BY <1>1, <2>1 DEF RightFrom
  <2>6. step[s][f] = step[s][of(s)]
    <3> HIDE DEF f
    <3> QED  BY <1>2, <2>4, <2>5 DEF LooksUp
  <2> QED  BY <2>5, <2>6
<1>4. IsRight(S, V, step, f)
  <2> HIDE DEF f
  <2> QED  BY <1>2, <1>3 DEF IsRight
<1> QED  BY <1>4
=============================================================================
