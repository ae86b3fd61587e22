----------------------------- MODULE FoldProofs -----------------------------
(***************************************************************************)
(* Folds of sequences, for any operator: a property that holds at the      *)
(* start and that each step keeps holds of the result.  Induction over the *)
(* natural numbers, as a fact about sets, is a hypothesis of the lemmas:   *)
(* LibraryProofs, which instantiates this module for one loop after the    *)
(* other, proves it once.                                                  *)
(***************************************************************************)
EXTENDS Integers, Sequences, Folds

\* A step of the fold: what it may depend on besides, what there is so far, the next item.
CONSTANT Op(_, _, _)

\* The last and the first of a set of positions.
Greatest(s) == CHOOSE x \in s : \A y \in s : x >= y
Least(s) == CHOOSE x \in s : \A y \in s : x =< y

\* The function a fold chooses: what it makes of a set of positions, which pick goes through
\* one at a time.
Folded(g, U, pick, item, p, base) ==
    g = [s \in SUBSET U |-> IF s = {} THEN base ELSE Op(p, g[s \ {pick[s]}], item[pick[s]])]

\* What pick takes of a set is in it, and what is left lies within the stage before: the sets
\* within stage[k] are empty after k steps.
Staged(stage, U, pick, n) ==
    /\ stage[0] = {} /\ stage[n] = U
    /\ \A k \in Nat : \A s \in SUBSET stage[k + 1] :
          /\ s # {} => pick[s] \in s /\ s \ {pick[s]} \subseteq stage[k]
    /\ \A k \in Nat : stage[k] \subseteq U

\* There is a function that folds.
LEMMA FoldedExists ==
    ASSUME \A T \in SUBSET Nat : 0 \in T /\ (\A i \in T : i + 1 \in T) => T = Nat,
           NEW U, NEW pick, NEW item, NEW p, NEW base, NEW n \in Nat, NEW stage,
           Staged(stage, U, pick, n)
    PROVE  \E g : Folded(g, U, pick, item, p, base)
<1> DEFINE Upto(g, k) == \A s \in SUBSET stage[k] :
                 g[s] = IF s = {} THEN base ELSE Op(p, g[s \ {pick[s]}], item[pick[s]])
           T == {k \in Nat : \E g : Upto(g, k)}
<1>1. 0 \in T
  <2>1. Upto([s \in SUBSET U |-> base], 0)
    BY DEF Staged
  <2> QED BY <2>1
<1>2. ASSUME NEW k \in T PROVE k + 1 \in T
  <2> PICK g : Upto(g, k)
    OBVIOUS
  <2> DEFINE h == [s \in SUBSET U |-> IF s \subseteq stage[k] THEN g[s]
                        ELSE Op(p, g[s \ {pick[s]}], item[pick[s]])]
  <2>1. \A s \in SUBSET stage[k] : h[s] = g[s] /\ (s # {} => s \ {pick[s]} \in SUBSET stage[k])
    BY DEF Staged
  <2>2. ASSUME NEW s \in SUBSET stage[k + 1]
        PROVE  h[s] = IF s = {} THEN base ELSE Op(p, h[s \ {pick[s]}], item[pick[s]])
    <3>1. CASE s \in SUBSET stage[k]
      <4>1. h[s] = g[s] /\ (s # {} => h[s \ {pick[s]}] = g[s \ {pick[s]}])
        BY <2>1, <3>1
      <4> HIDE DEF h
      <4> QED BY <3>1, <4>1
    <3>2. CASE s \notin SUBSET stage[k]
      <4>1. s # {} /\ s \in SUBSET U /\ s \ {pick[s]} \in SUBSET stage[k]
        BY <3>2 DEF Staged
      <4>2. h[s] = Op(p, g[s \ {pick[s]}], item[pick[s]])
        BY <3>2, <4>1
      <4>3. h[s \ {pick[s]}] = g[s \ {pick[s]}]
        BY <2>1, <4>1
      <4> HIDE DEF h
      <4> QED BY <4>1, <4>2, <4>3
    <3> QED BY <3>1, <3>2
  <2>3. Upto(h, k + 1)
    <3> HIDE DEF h
    <3> QED BY <2>2
  <2> HIDE DEF Upto, h
  <2> QED BY <2>3
<1>3. T = Nat
  <2>1. T \subseteq Nat
    OBVIOUS
  <2> HIDE DEF T
  <2> QED BY <1>1, <1>2, <2>1
<1>4. PICK g : Upto(g, n)
  BY <1>3
<1> DEFINE h == [s \in SUBSET U |-> g[s]]
<1>5. ASSUME NEW s \in SUBSET U
      PROVE  h[s] = IF s = {} THEN base ELSE Op(p, h[s \ {pick[s]}], item[pick[s]])
  <2>1. g[s] = IF s = {} THEN base ELSE Op(p, g[s \ {pick[s]}], item[pick[s]])
    BY <1>4 DEF Staged
  <2>2. h[s] = g[s] /\ (s # {} => h[s \ {pick[s]}] = g[s \ {pick[s]}])
    OBVIOUS
  <2> HIDE DEF h
  <2> QED BY <2>1, <2>2
<1>6. Folded(h, U, pick, item, p, base)
  <2>1. h = [s \in SUBSET U |-> h[s]]
    OBVIOUS
  <2> HIDE DEF h
  <2> QED BY <1>5, <2>1 DEF Folded
<1> QED BY <1>6

\* A set that has the start, and what a step makes of its elements, has the result.
LEMMA FoldedKeeps ==
    ASSUME \A T \in SUBSET Nat : 0 \in T /\ (\A i \in T : i + 1 \in T) => T = Nat,
           NEW U, NEW pick, NEW item, NEW p, NEW S, NEW base \in S, NEW n \in Nat, NEW stage,
           Staged(stage, U, pick, n),
           \A x \in S, u \in U : Op(p, x, item[u]) \in S,
           NEW g, Folded(g, U, pick, item, p, base)
    PROVE  g[U] \in S
<1> DEFINE T == {k \in Nat : \A s \in SUBSET stage[k] : g[s] \in S}
<1>1. \A s \in SUBSET U : g[s] = IF s = {} THEN base ELSE Op(p, g[s \ {pick[s]}], item[pick[s]])
  BY DEF Folded
<1>2. 0 \in T
  BY <1>1 DEF Staged
<1>3. ASSUME NEW k \in T PROVE k + 1 \in T
  <2> SUFFICES ASSUME NEW s \in SUBSET stage[k + 1] PROVE g[s] \in S
    OBVIOUS
  <2>1. CASE s = {}
    BY <2>1, <1>1
  <2>2. CASE s # {}
    <3>1. k \in Nat /\ k + 1 \in Nat /\ \A r \in SUBSET stage[k] : g[r] \in S
      OBVIOUS
    <3> HIDE DEF T
    <3>2. pick[s] \in s /\ s \ {pick[s]} \in SUBSET stage[k] /\ s \in SUBSET U
      BY <2>2, <3>1 DEF Staged
    <3>3. g[s \ {pick[s]}] \in S /\ pick[s] \in U
      BY <3>1, <3>2
    <3>4. g[s] = Op(p, g[s \ {pick[s]}], item[pick[s]])
      BY <1>1, <2>2, <3>2
    <3> QED BY <3>3, <3>4
  <2> QED BY <2>1, <2>2
<1>4. T = Nat
  <2>1. T \subseteq Nat
    OBVIOUS
  <2> HIDE DEF T
  <2> QED BY <1>2, <1>3, <2>1
<1> QED BY <1>4 DEF Staged

\* A property that the step of one item makes true, and that no later step makes false.
LEMMA FoldedCovers ==
    ASSUME \A T \in SUBSET Nat : 0 \in T /\ (\A i \in T : i + 1 \in T) => T = Nat,
           NEW U, NEW pick, NEW item, NEW p, NEW S, NEW base \in S, NEW n \in Nat, NEW stage,
           Staged(stage, U, pick, n),
           \A x \in S, u \in U : Op(p, x, item[u]) \in S,
           NEW H, NEW v \in U,
           \A x \in S : Op(p, x, item[v]) \in H,
           \A x \in S \cap H, u \in U : Op(p, x, item[u]) \in H,
           NEW g, Folded(g, U, pick, item, p, base)
    PROVE  g[U] \in H
<1> DEFINE Good(s) == g[s] \in S /\ (v \in s => g[s] \in H)
           T == {k \in Nat : \A s \in SUBSET stage[k] : Good(s)}
<1>1. \A s \in SUBSET U : g[s] = IF s = {} THEN base ELSE Op(p, g[s \ {pick[s]}], item[pick[s]])
  BY DEF Folded
<1>2. 0 \in T
  BY <1>1 DEF Staged
<1>3. ASSUME NEW k \in T PROVE k + 1 \in T
  <2> SUFFICES ASSUME NEW s \in SUBSET stage[k + 1] PROVE Good(s)
    OBVIOUS
  <2>1. CASE s = {}
    BY <2>1, <1>1
  <2>2. CASE s # {}
    <3>1. k \in Nat /\ k + 1 \in Nat /\ \A r \in SUBSET stage[k] : Good(r)
      OBVIOUS
    <3> HIDE DEF T
    <3>2. pick[s] \in s /\ s \ {pick[s]} \in SUBSET stage[k] /\ s \in SUBSET U
      BY <2>2, <3>1 DEF Staged
    <3>3. Good(s \ {pick[s]}) /\ pick[s] \in U
      BY <3>1, <3>2
    <3>4. g[s] = Op(p, g[s \ {pick[s]}], item[pick[s]])
      BY <1>1, <2>2, <3>2
    <3>5. v \in s => pick[s] = v \/ v \in s \ {pick[s]}
      OBVIOUS
    <3> QED BY <3>3, <3>4, <3>5
  <2> QED BY <2>1, <2>2
<1>4. T = Nat
  <2>1. T \subseteq Nat
    OBVIOUS
  <2> HIDE DEF T
  <2> QED BY <1>2, <1>3, <2>1
<1> QED BY <1>4 DEF Staged

-----------------------------------------------------------------------------
(***************************************************************************)
(* Folds of a sequence, from either end.  The two operators of the library *)
(* take the next element with a maximum and a minimum.                     *)
(***************************************************************************)

\* Every set of positions has a last and a first one.
LEMMA Extremes ==
    ASSUME \A T \in SUBSET Nat : 0 \in T /\ (\A i \in T : i + 1 \in T) => T = Nat,
           NEW n \in Nat
    PROVE  \A s \in SUBSET (1..n) : s # {} =>
              /\ Greatest(s) \in s /\ \A y \in s : Greatest(s) >= y
              /\ Least(s) \in s /\ \A y \in s : Least(s) =< y
<1> DEFINE T == {k \in Nat : \A s \in SUBSET (1..k) : s # {} =>
                    /\ \E x \in s : \A y \in s : x >= y
                    /\ \E x \in s : \A y \in s : x =< y}
<1>1. 0 \in T
  <2>1. 1..0 = {}
    OBVIOUS
  <2> QED BY <2>1
<1>2. ASSUME NEW k \in T PROVE k + 1 \in T
  <2> SUFFICES ASSUME NEW s \in SUBSET (1..k + 1), s # {}
               PROVE  /\ \E x \in s : \A y \in s : x >= y
                      /\ \E x \in s : \A y \in s : x =< y
    OBVIOUS
  <2>1. CASE k + 1 \notin s
    <3>1. s \in SUBSET (1..k)
      BY <2>1
    <3> QED BY <3>1
  <2>2. CASE s = {k + 1}
    BY <2>2
  <2>3. CASE k + 1 \in s /\ s # {k + 1}
    <3>1. s \ {k + 1} \in SUBSET (1..k) /\ s \ {k + 1} # {}
      BY <2>3
    <3>2. PICK x \in s \ {k + 1} : \A y \in s \ {k + 1} : x =< y
      BY <3>1
    <3>3. \A y \in s : k + 1 >= y
      OBVIOUS
    <3>4. \A y \in s : x =< y
      BY <3>2
    <3> QED BY <2>3, <3>3, <3>4
  <2> QED BY <2>1, <2>2, <2>3
<1>3. T \subseteq Nat
  OBVIOUS
<1>4. T = Nat
  <2> HIDE DEF T
  <2> QED BY <1>1, <1>2, <1>3
<1>5. \A s \in SUBSET (1..n) : s # {} => /\ \E x \in s : \A y \in s : x >= y
                                         /\ \E x \in s : \A y \in s : x =< y
  BY <1>4
<1> QED BY <1>5 DEF Greatest, Least

\* The function a fold from the left chooses, said of a sequence.
LeftSteps(g, p, base, seq) ==
    g = [s \in SUBSET DOMAIN seq |-> IF s = {} THEN base
                                     ELSE Op(p, g[s \ {Greatest(s)}], seq[Greatest(s)])]

\* The loops of the code that go over a list and keep a property of what they build, from
\* the first item on (Config.update, Repo.add_resource, ModuleFileHandler.parse).
LeftStage(seq) == [k \in Nat |-> (1..k) \cap DOMAIN seq]
LeftPick(seq) == [s \in SUBSET DOMAIN seq |-> Greatest(s)]

LEMMA LeftStaged ==
    ASSUME \A T \in SUBSET Nat : 0 \in T /\ (\A i \in T : i + 1 \in T) => T = Nat,
           NEW E, NEW seq \in Seq(E)
    PROVE  Len(seq) \in Nat /\ Staged(LeftStage(seq), DOMAIN seq, LeftPick(seq), Len(seq))
<1> DEFINE n == Len(seq)
           U == DOMAIN seq
           pick == LeftPick(seq)
           stage == LeftStage(seq)
<1>1. U = 1..n /\ n \in Nat
  OBVIOUS
<1>2. stage[0] = {} /\ stage[n] = U /\ \A k \in Nat : stage[k] \subseteq U
  BY <1>1 DEF LeftStage
<1>3. ASSUME NEW k \in Nat, NEW s \in SUBSET stage[k + 1], s # {}
      PROVE  pick[s] \in s /\ s \ {pick[s]} \subseteq stage[k]
  <2>1. s \in SUBSET U /\ s \in SUBSET (1..n) /\ s \in SUBSET (1..k + 1)
    BY <1>1, k + 1 \in Nat DEF LeftStage
  <2>2. pick[s] \in s /\ \A y \in s : pick[s] >= y
    BY <1>1, <1>3, <2>1, Extremes DEF LeftPick
  <2>3. \A y \in s : y # pick[s] => y \in 1..k
    BY <2>1, <2>2
  <2> QED BY <2>1, <2>2, <2>3 DEF LeftStage
<1> HIDE DEF U, pick, stage
<1>4. Staged(stage, U, pick, n)
  BY <1>2, <1>3 DEF Staged
<1> QED BY <1>1, <1>4 DEF U, pick, stage

LEMMA LeftFolded ==
    ASSUME NEW g, NEW p, NEW base, NEW seq
    PROVE  LeftSteps(g, p, base, seq) <=> Folded(g, DOMAIN seq, LeftPick(seq), seq, p, base)
BY DEF Folded, LeftSteps, LeftPick

LEMMA LeftKeeps ==
    ASSUME \A T \in SUBSET Nat : 0 \in T /\ (\A i \in T : i + 1 \in T) => T = Nat,
           NEW p, NEW E, NEW seq \in Seq(E), NEW S, NEW base \in S,
           \A x \in S, e \in E : Op(p, x, e) \in S
    PROVE  /\ \E g : LeftSteps(g, p, base, seq)
           /\ \A g : LeftSteps(g, p, base, seq) => g[DOMAIN seq] \in S
<1> DEFINE U == DOMAIN seq
<1>1. \A x \in S, u \in U : Op(p, x, seq[u]) \in S
  OBVIOUS
<1>2. Len(seq) \in Nat /\ Staged(LeftStage(seq), U, LeftPick(seq), Len(seq))
  BY LeftStaged
<1> HIDE DEF U
<1>3. \E g : Folded(g, U, LeftPick(seq), seq, p, base)
  BY <1>2, FoldedExists
<1>4. \A g : Folded(g, U, LeftPick(seq), seq, p, base) => g[U] \in S
  BY <1>1, <1>2, FoldedKeeps
<1> QED BY <1>3, <1>4, LeftFolded DEF U

RightSteps(g, p, base, seq) ==
    g = [s \in SUBSET DOMAIN seq |-> IF s = {} THEN base
                                     ELSE Op(p, g[s \ {Least(s)}], seq[Least(s)])]

\* The same from the last item on (ConfigManager.load).
LEMMA RightKeeps ==
    ASSUME \A T \in SUBSET Nat : 0 \in T /\ (\A i \in T : i + 1 \in T) => T = Nat,
           NEW p, NEW E, NEW seq \in Seq(E), NEW S, NEW base \in S,
           \A x \in S, e \in E : Op(p, x, e) \in S
    PROVE  /\ \E g : RightSteps(g, p, base, seq)
           /\ \A g : RightSteps(g, p, base, seq) => g[DOMAIN seq] \in S
<1> DEFINE n == Len(seq)
           U == DOMAIN seq
           pick == [s \in SUBSET U |-> Least(s)]
           stage == [k \in Nat |-> {i \in U : n - k < i}]
<1>1. U = 1..n /\ n \in Nat
  OBVIOUS
<1>2. Staged(stage, U, pick, n)
  <2>1. stage[0] = {} /\ stage[n] = U /\ \A k \in Nat : stage[k] \subseteq U
    BY <1>1
  <2>2. ASSUME NEW k \in Nat, NEW s \in SUBSET stage[k + 1], s # {}
        PROVE  pick[s] \in s /\ s \ {pick[s]} \subseteq stage[k]
    <3>1. s \in SUBSET U /\ s \in SUBSET (1..n) /\ \A y \in s : n - (k + 1) < y
      BY <1>1, k + 1 \in Nat
    <3>2. pick[s] \in s /\ \A y \in s : pick[s] =< y
      BY <1>1, <2>2, <3>1, Extremes
    <3>3. \A y \in s : y # pick[s] => n - k < y
      BY <1>1, <3>1, <3>2
    <3> QED BY <3>1, <3>2, <3>3
  <2> HIDE DEF U, pick, stage
  <2> QED BY <2>1, <2>2 DEF Staged
<1>3. \A x \in S, u \in U : Op(p, x, seq[u]) \in S
  OBVIOUS
<1>4. ASSUME NEW g PROVE RightSteps(g, p, base, seq) <=> Folded(g, U, pick, seq, p, base)
  BY DEF Folded, RightSteps
<1> HIDE DEF n, U, pick, stage
<1>5. \E g : Folded(g, U, pick, seq, p, base)
  BY <1>1, <1>2, FoldedExists
<1>6. \A g : Folded(g, U, pick, seq, p, base) => g[U] \in S
  BY <1>1, <1>2, <1>3, FoldedKeeps
<1> QED BY <1>4, <1>5, <1>6 DEF U

\* A fold from the left, and its type.
Fold(p, base, seq) == MapThenFoldSet(LAMBDA e, x : Op(p, x, e), base,
                                     LAMBDA i : seq[i], LAMBDA s : Greatest(s), DOMAIN seq)

LEMMA FoldKeeps ==
    ASSUME \A T \in SUBSET Nat : 0 \in T /\ (\A i \in T : i + 1 \in T) => T = Nat,
           NEW p, NEW E, NEW seq \in Seq(E), NEW S, NEW base \in S,
           \A x \in S, e \in E : Op(p, x, e) \in S
    PROVE  Fold(p, base, seq) \in S
<1> DEFINE it == CHOOSE g : LeftSteps(g, p, base, seq)
<1>1. LeftSteps(it, p, base, seq) /\ it[DOMAIN seq] \in S
  BY LeftKeeps
<1>2. Fold(p, base, seq) = it[DOMAIN seq]
  BY DEF Fold, MapThenFoldSet, LeftSteps
<1> QED BY <1>1, <1>2

LEMMA FoldCovers ==
    ASSUME \A T \in SUBSET Nat : 0 \in T /\ (\A i \in T : i + 1 \in T) => T = Nat,
           NEW p, NEW E, NEW seq \in Seq(E), NEW S, NEW base \in S,
           \A x \in S, e \in E : Op(p, x, e) \in S,
           NEW H, NEW v \in DOMAIN seq,
           \A x \in S : Op(p, x, seq[v]) \in H,
           \A x \in S \cap H, e \in E : Op(p, x, e) \in H
    PROVE  Fold(p, base, seq) \in H
<1> DEFINE it == CHOOSE g : LeftSteps(g, p, base, seq)
           U == DOMAIN seq
<1>1. LeftSteps(it, p, base, seq)
  BY LeftKeeps
<1>2. Fold(p, base, seq) = it[DOMAIN seq]
  BY DEF Fold, MapThenFoldSet, LeftSteps
<1>3. Folded(it, U, LeftPick(seq), seq, p, base)
  BY <1>1, LeftFolded
<1>4. Len(seq) \in Nat /\ Staged(LeftStage(seq), U, LeftPick(seq), Len(seq))
  BY LeftStaged
<1>5. \A u \in U : seq[u] \in E
  OBVIOUS
<1> HIDE DEF it, U
<1>6. it[U] \in H
  BY <1>3, <1>4, <1>5, FoldedCovers DEF U
<1> QED BY <1>2, <1>6 DEF U
=============================================================================
