------------------------ MODULE BuildPipelineProofs ------------------------
(***************************************************************************)
(* Theorems about BuildPipeline, for any plugins, stages, transformations  *)
(* and validations, and any number of calls and modules.                   *)
(***************************************************************************)
EXTENDS BuildPipeline, FiniteSetTheorems, SequenceTheorems, TLAPS

-----------------------------------------------------------------------------
(***************************************************************************)
(* The order of steps.  The place of step i among the steps of s is one    *)
(* more than the number of those before it; Sorted is the inverse.         *)
(***************************************************************************)
Ahead(s, i) == {j \in 1..Len(s) : Before(s, j, i)}
Rank(s, i) == 1 + Cardinality(Ahead(s, i))

LEMMA BeforeTotal ==
    ASSUME NEW s \in Seq(Nat), NEW i \in 1..Len(s), NEW j \in 1..Len(s)
    PROVE  /\ ~Before(s, i, i)
           /\ i # j => Before(s, i, j) \/ Before(s, j, i)
           /\ \A l \in 1..Len(s) : Before(s, i, j) /\ Before(s, j, l) => Before(s, i, l)
<1>1. \A l \in 1..Len(s) : s[l] \in Nat /\ l \in Nat
    OBVIOUS
<1> QED BY <1>1 DEF Before

LEMMA FirstN ==
    \A m \in Nat : IsFiniteSet(1..m) /\ Cardinality(1..m) = m
<1> TAKE m \in Nat
<1>1. /\ IsFiniteSet(1..m) 
      /\ Cardinality(1..m) = IF 1 > m THEN 0 ELSE m - 1 + 1
    BY FS_Interval
<1> QED BY <1>1

LEMMA AheadFinite ==
    ASSUME NEW s \in Seq(Nat), NEW i \in 1..Len(s)
    PROVE  /\ IsFiniteSet(Ahead(s, i)) /\ Cardinality(Ahead(s, i)) \in Nat
           /\ Cardinality(Ahead(s, i)) <= Len(s) - 1
<1>1. IsFiniteSet(1..Len(s)) /\ Cardinality(1..Len(s)) = Len(s)
    BY FirstN
<1>2. IsFiniteSet((1..Len(s)) \ {i}) /\ Cardinality((1..Len(s)) \ {i}) = Len(s) - 1
    BY <1>1, FS_RemoveElement
<1>3. Ahead(s, i) \in SUBSET ((1..Len(s)) \ {i})
    BY BeforeTotal DEF Ahead
<1>4. IsFiniteSet(Ahead(s, i)) /\ Cardinality(Ahead(s, i)) <= Cardinality((1..Len(s)) \ {i})
    BY <1>2, <1>3, FS_Subset
<1> QED BY <1>2, <1>4, FS_CardinalityType

LEMMA RankType ==
    ASSUME NEW s \in Seq(Nat), NEW i \in 1..Len(s)
    PROVE  Rank(s, i) \in 1..Len(s)
BY AheadFinite DEF Rank

LEMMA BeforeRank ==
    ASSUME NEW s \in Seq(Nat), NEW i \in 1..Len(s), NEW j \in 1..Len(s), Before(s, i, j)
    PROVE  Rank(s, i) < Rank(s, j)
<1>1. Ahead(s, i) \in SUBSET Ahead(s, j)
    BY BeforeTotal DEF Ahead
<1>2. i \in Ahead(s, j) /\ i \notin Ahead(s, i)
    BY BeforeTotal DEF Ahead
<1>3. Cardinality(Ahead(s, i)) <= Cardinality(Ahead(s, j))
      /\ (Cardinality(Ahead(s, j)) = Cardinality(Ahead(s, i)) => Ahead(s, j) = Ahead(s, i))
    BY <1>1, AheadFinite, FS_Subset
<1>4. Cardinality(Ahead(s, j)) # Cardinality(Ahead(s, i))
    BY <1>2, <1>3
<1> QED BY <1>3, <1>4, AheadFinite DEF Rank

LEMMA RankBefore ==
    ASSUME NEW s \in Seq(Nat), NEW i \in 1..Len(s), NEW j \in 1..Len(s)
    PROVE  /\ Before(s, i, j) <=> Rank(s, i) < Rank(s, j)
           /\ Rank(s, i) = Rank(s, j) => i = j
<1>1. Rank(s, i) \in Nat /\ Rank(s, j) \in Nat
    BY RankType
<1>2. Before(s, j, i) => Rank(s, j) < Rank(s, i)
    BY BeforeRank
<1>3. Before(s, i, j) => Rank(s, i) < Rank(s, j)
    BY BeforeRank
<1> QED BY <1>1, <1>2, <1>3, BeforeTotal

\* Each place has a step: Sorted lists all of them, each at its place.
LEMMA SortedRank ==
    ASSUME NEW s \in Seq(Nat), NEW r \in 1..Len(s)
    PROVE  /\ Sorted(s)[r] \in 1..Len(s)
           /\ Rank(s, Sorted(s)[r]) = r
<1> DEFINE D == 1..Len(s)
           f == [i \in D |-> Rank(s, i)]
<1>1. f \in [D -> D]
    BY RankType
<1>2. \A i, j \in D : f[i] = f[j] => i = j
    BY RankBefore
<1>3. f \in Injection(D, D)
    BY <1>1, <1>2 DEF Injection, IsInjective
<1>4. IsFiniteSet(D)
    BY FS_Interval
<1>5. f \in Surjection(D, D)
    BY <1>3, <1>4, FS_Injection
<1>6. \E i \in D : Rank(s, i) = r
    BY <1>5 DEF Surjection
<1>7. \E i \in 1..Len(s) : r = 1 + Cardinality({j \in 1..Len(s) : Before(s, j, i)})
    BY <1>6 DEF Rank, Ahead
<1> DEFINE c == CHOOSE i \in 1..Len(s) : r = 1 + Cardinality({j \in 1..Len(s) : Before(s, j, i)})
<1>8. c \in 1..Len(s) /\ r = 1 + Cardinality({j \in 1..Len(s) : Before(s, j, c)})
    BY <1>7
<1>9. Sorted(s)[r] = c
    BY DEF Sorted
<1> QED BY <1>8, <1>9 DEF Rank, Ahead

LEMMA SortedLen ==
    ASSUME NEW s \in Seq(Nat)
    PROVE  Len(Sorted(s)) = Len(s)
<1>1. Len(s) \in Nat /\ DOMAIN Sorted(s) = 1..Len(s)
    BY DEF Sorted
<1>2. Sorted(s) \in Seq(1..Len(s))
    <2>1. \A r \in 1..Len(s) : Sorted(s)[r] \in 1..Len(s)
        BY SortedRank
    <2> DEFINE c(r) == CHOOSE i \in 1..Len(s) :
                          r = 1 + Cardinality({j \in 1..Len(s) : Before(s, j, i)})
    <2>2. Sorted(s) = [r \in 1..Len(s) |-> c(r)]
        BY DEF Sorted
    <2> HIDE DEF c
    <2>3. Sorted(s) \in [1..Len(s) -> 1..Len(s)]
        BY <2>1, <2>2
    <2> QED BY <1>1, <2>3, SeqDef
<1> QED BY <1>1, <1>2

-----------------------------------------------------------------------------
(***************************************************************************)
(* The phases by their positions, and how many steps they have.            *)
(***************************************************************************)
Calls == {"prepare", "process", "build", "run"}

LEMMA PhaseNames ==
    /\ Len(Phases) = 18
    /\ \A r \in 1..18 :
          /\ (Phases[r] = "pre_parse") <=> (r = 1)
          /\ (Phases[r] = "repos") <=> (r = 2)
          /\ (Phases[r] = "inputs") <=> (r = 4)
          /\ (Phases[r] = "transform") <=> (r = 7)
          /\ (Phases[r] = "validate") <=> (r = 10)
          /\ (Phases[r] = "generate") <=> (r = 13)
          /\ (Phases[r] = "mkdir") <=> (r = 15)
          /\ (Phases[r] = "write") <=> (r = 17)
          /\ (Phases[r] \in Hooks) <=> (r \in {3, 5, 6, 8, 9, 11, 12, 14, 16, 18})
BY DEF Phases, Hooks

LEMMA Stretches ==
    /\ \A o \in Calls : /\ FirstPhase[o] \in 1..18 /\ LastPhase[o] \in 1..18
                        /\ FirstPhase[o] <= LastPhase[o]
    /\ FirstPhase["prepare"] = 1 /\ LastPhase["prepare"] = 5
    /\ FirstPhase["process"] = 6 /\ LastPhase["process"] = 14
    /\ FirstPhase["build"] = 15 /\ LastPhase["build"] = 18
    /\ FirstPhase["run"] = 1 /\ LastPhase["run"] = 18
    /\ DOMAIN FirstPhase = Calls
BY DEF FirstPhase, LastPhase, Calls

LEMMA PriorityList ==
    ASSUME NEW s \in Seq(Steps)
    PROVE  /\ Priorities(s) \in Seq(Nat) /\ Len(Priorities(s)) = Len(s)
           /\ \A i \in 1..Len(s) : s[i].design_only \in BOOLEAN
<1>1. \A i \in 1..Len(s) : s[i] \in Steps
    OBVIOUS
<1>2. \A i \in 1..Len(s) : s[i].priority \in Nat /\ s[i].design_only \in BOOLEAN
    BY <1>1 DEF Steps
<1>3. Len(s) \in Nat /\ Priorities(s) \in [1..Len(s) -> Nat]
    BY <1>2 DEF Priorities
<1> QED BY <1>2, <1>3

LEMMA ItemsAre ==
    /\ Len(Items("repos")) = 1
    /\ Items("transform") = Sorted(Priorities(Transforms)) /\ Len(Items("transform")) = Len(Transforms)
    /\ Items("validate") = Sorted(Priorities(Validations)) /\ Len(Items("validate")) = Len(Validations)
    /\ \A ph \in Hooks : Items(ph) = Sorted(Plugins) /\ Len(Items(ph)) = Len(Plugins)
<1>1. \A ph \in Hooks : Items(ph) = Sorted(Plugins)
    BY DEF Items, Hooks
<1>2. /\ Items("repos") = <<1>>
      /\ Items("transform") = Sorted(Priorities(Transforms))
      /\ Items("validate") = Sorted(Priorities(Validations))
    BY DEF Items, Hooks
<1>3. \A s \in Seq(Nat) : Len(Sorted(s)) = Len(s)
    BY SortedLen
<1>4. Len(Sorted(Plugins)) = Len(Plugins)
    BY <1>3, Parts
<1>5. Len(Sorted(Priorities(Transforms))) = Len(Transforms)
    BY <1>3, PriorityList, Parts
<1>6. Len(Sorted(Priorities(Validations))) = Len(Validations)
    BY <1>3, PriorityList, Parts
<1> QED BY <1>1, <1>2, <1>4, <1>5, <1>6

LEMMA OutputList ==
    Len(SetToSeq(Outputs)) \in Nat
<1> DEFINE c == Cardinality(Outputs)
<1>1. c \in Nat /\ ExistsBijection(1..c, Outputs)
    BY Parts, FS_CardinalityType
<1>2. PICK f \in Bijection(1..c, Outputs) : TRUE
    BY <1>1 DEF ExistsBijection
<1>3. f \in [1..c -> Outputs] /\ IsInjective(f)
    BY <1>2 DEF Bijection, Injection, IsInjective
<1>4. SetToSeq(Outputs) \in [1..c -> Outputs]
    BY <1>3 DEF SetToSeq
<1> QED BY <1>1, <1>4

LEMMA ItemsCount ==
    ASSUME NEW r \in 1..18
    PROVE  Len(Items(Phases[r])) \in Nat
<1>1. CASE Phases[r] \in Hooks
    BY <1>1, ItemsAre, Parts
<1>2. CASE Phases[r] \in {"pre_parse", "inputs"}
    <2>1. Items(Phases[r]) = [i \in 1..Inputs |-> i]
        BY <1>2 DEF Items, Hooks
    <2>2. [i \in 1..Inputs |-> i] \in [1..Inputs -> Nat] /\ Inputs \in Nat
        BY Parts
    <2>3. Len([i \in 1..Inputs |-> i]) = Inputs
        BY <2>2
    <2> QED BY <2>1, <2>2, <2>3
<1>3. CASE Phases[r] \in {"transform", "validate"}
    BY <1>3, ItemsAre, Parts
<1>4. CASE Phases[r] \in {"generate", "write"}
    <2>1. Items(Phases[r]) = SetToSeq(Outputs)
        BY <1>4 DEF Items, Hooks
    <2> QED BY <2>1, OutputList
<1>5. CASE Phases[r] \in {"repos", "mkdir"}
    <2>1. Items(Phases[r]) = <<1>>
        BY <1>5 DEF Items, Hooks
    <2> QED BY <2>1
<1> QED BY <1>1, <1>2, <1>3, <1>4, <1>5, PhaseNames

LEMMA PastIs ==
    ASSUME p \in 1..18
    PROVE  /\ Past("transform") <=> (p > 7)
           /\ Past("validate") <=> (p > 10)
BY PhaseNames DEF Past

-----------------------------------------------------------------------------
(***************************************************************************)
(* What a module has gone through so far: the steps of s that apply, from  *)
(* place `since' up to but without `lim', in order.                        *)
(***************************************************************************)
Due(s, i, design, since, lim) ==
    /\ s[i].design_only => design
    /\ since <= Rank(Priorities(s), i) /\ Rank(Priorities(s), i) < lim

Part(run, s, design, since, lim) ==
    /\ \A i \in 1..Len(s) :
          (\E a \in 1..Len(run) : run[a] = i) <=> Due(s, i, design, since, lim)
    /\ \A a, b \in 1..Len(run) : a < b => Before(Priorities(s), run[a], run[b])
    /\ since <= lim

LEMMA PartServed ==
    ASSUME NEW s \in Seq(Steps), NEW run \in Seq(1..Len(s)), NEW design, NEW since,
           Part(run, s, design, since, Len(s) + 1)
    PROVE  Served(run, s, design, since)
<1> DEFINE R(i) == Rank(Priorities(s), i)
           T == {i \in 1..Len(s) : /\ s[i].design_only => design
                                   /\ R(i) >= since}
<1>1. \A i \in 1..Len(s) : R(i) \in 1..Len(s)
    BY RankType, PriorityList
<1>2. \A i \in 1..Len(s) : (\E a \in 1..Len(run) : run[a] = i) <=> i \in T
    BY <1>1 DEF Part, Due
<1>3. T = {i \in 1..Len(s) : /\ s[i].design_only => design
                             /\ 1 + Cardinality({j \in 1..Len(s) :
                                   Before(Priorities(s), j, i)}) >= since}
    BY PriorityList DEF Rank, Ahead
<1>4. T \subseteq 1..Len(s)
    OBVIOUS
<1> HIDE DEF T
<1>5. \A x : x \in ToSet(run) <=> \E a \in 1..Len(run) : run[a] = x
    BY DEF ToSet
<1>6. \A a \in 1..Len(run) : run[a] \in 1..Len(s)
    OBVIOUS
<1>7. \A x : x \in ToSet(run) <=> x \in T
    BY <1>2, <1>4, <1>5, <1>6
<1>8. ToSet(run) = T
    BY <1>7
<1> QED BY <1>3, <1>8 DEF Served, Part

\* A module that comes has had nothing; the steps under way are due.
LEMMA PartNew ==
    ASSUME NEW s \in Seq(Steps), NEW design, NEW since \in Nat, NEW lim \in Nat,
           since = lim \/ (since = 0 /\ lim = 1)
    PROVE  Part(<<>>, s, design, since, lim)
<1>1. \A i \in 1..Len(s) : Rank(Priorities(s), i) \in Nat \ {0}
    BY RankType, PriorityList
<1>2. \A i \in 1..Len(s) : ~Due(s, i, design, since, lim)
    BY <1>1 DEF Due
<1> QED BY <1>2 DEF Part

\* The step at place lim runs.
LEMMA PartRuns ==
    ASSUME NEW s \in Seq(Steps), NEW run \in Seq(1..Len(s)), NEW design,
           NEW lim \in 1..Len(s), NEW since \in Nat, NEW w, w = Sorted(Priorities(s))[lim],
           Part(run, s, design, since, lim), s[w].design_only => design
    PROVE  Part(Append(run, w), s, design, since, lim + 1)
<1> DEFINE P == Priorities(s)
           R(i) == Rank(P, i)
<1>1. P \in Seq(Nat) /\ Len(P) = Len(s)
    BY PriorityList
<1>2. w \in 1..Len(s) /\ R(w) = lim
    BY <1>1, SortedRank
<1>3. \A i, j \in 1..Len(s) : /\ R(i) \in 1..Len(s)
                              /\ R(i) = R(j) => i = j
                              /\ R(i) < R(j) => Before(P, i, j)
    BY <1>1, RankType, RankBefore
<1>4. \A i \in 1..Len(s) : Due(s, i, design, since, lim + 1) <=> (Due(s, i, design, since, lim) \/ i = w)
    BY <1>2, <1>3 DEF Due, Part
<1>5. /\ Append(run, w) \in Seq(1..Len(s)) /\ Len(Append(run, w)) = Len(run) + 1
      /\ \A a \in 1..Len(run) : Append(run, w)[a] = run[a]
      /\ Append(run, w)[Len(run) + 1] = w
    BY <1>2
<1>6. \A i \in 1..Len(s) : (\E a \in 1..Len(Append(run, w)) : Append(run, w)[a] = i)
                              <=> ((\E a \in 1..Len(run) : run[a] = i) \/ i = w)
    BY <1>5
<1>7. \A a \in 1..Len(run) : run[a] \in 1..Len(s) /\ R(run[a]) < lim
    BY DEF Part, Due
<1>8. \A a, b \in 1..Len(Append(run, w)) : a < b => Before(P, Append(run, w)[a], Append(run, w)[b])
    <2> DEFINE new == Append(run, w)
    <2> SUFFICES ASSUME NEW a \in 1..Len(run) + 1, NEW b \in 1..Len(run) + 1, a < b
                 PROVE  Before(P, new[a], new[b])
        BY <1>5
    <2>1. a \in 1..Len(run) /\ new[a] = run[a]
        BY <1>5
    <2>2. CASE b = Len(run) + 1
        BY <1>2, <1>3, <1>5, <1>7, <2>1, <2>2
    <2>3. CASE b # Len(run) + 1
        <3>1. b \in 1..Len(run) /\ new[b] = run[b]
            BY <1>5, <2>3
        <3> QED BY <2>1, <3>1 DEF Part
    <2> QED BY <2>2, <2>3
<1> QED BY <1>4, <1>6, <1>8 DEF Part

\* The step at place lim is not for the module.
LEMMA PartSkips ==
    ASSUME NEW s \in Seq(Steps), NEW run \in Seq(1..Len(s)), NEW design \in BOOLEAN,
           NEW lim \in 1..Len(s), NEW since \in Nat, NEW w, w = Sorted(Priorities(s))[lim],
           Part(run, s, design, since, lim), s[w].design_only, ~design
    PROVE  Part(run, s, design, since, lim + 1)
<1> DEFINE P == Priorities(s)
           R(i) == Rank(P, i)
<1>1. P \in Seq(Nat) /\ Len(P) = Len(s)
    BY PriorityList
<1>2. w \in 1..Len(s) /\ R(w) = lim
    BY <1>1, SortedRank
<1>3. \A i \in 1..Len(s) : R(i) \in 1..Len(s) /\ (R(i) = lim => i = w)
    BY <1>1, <1>2, RankType, RankBefore
<1>4. \A i \in 1..Len(s) : Due(s, i, design, since, lim + 1) <=> Due(s, i, design, since, lim)
    BY <1>2, <1>3 DEF Due
<1> QED BY <1>4 DEF Part

-----------------------------------------------------------------------------
(***************************************************************************)
(* The control of a call and the shape of its context.                     *)
(***************************************************************************)
\* The call has the context it works on: prepare and run make one first.
Own == \/ op \in {"process", "build"}
       \/ op \in {"prepare", "run"} /\ (p > 2 \/ (p = 2 /\ n > 1))

Held == ctx # None \/ Own

Control ==
    /\ op \in {"none"} \cup Calls
    /\ op # "none" => /\ p \in FirstPhase[op]..LastPhase[op]
                      /\ n \in 1..Len(Items(Phase)) + 1
                      /\ calls >= 1
                      /\ k # 1 => n <= Len(Items(Phase))
    /\ k \in 1..MaxMods + 1
    /\ calls \in 0..MaxCalls

Rest ==
    /\ source \in Sources /\ settings \in Configured \cup {None}
    /\ disk = [o \in Outputs |-> disk[o]]
    /\ \A o \in Outputs : disk[o] # None => disk[o].gen \in 1..calls

ContextOK ==
    /\ ctx = [gen |-> ctx.gen, repos |-> ctx.repos, mods |-> ctx.mods,
              top |-> ctx.top, outputs |-> ctx.outputs]
    /\ ctx.gen \in 1..calls /\ ctx.repos \in Configured \cup {None}
    /\ ctx.mods \in Seq(Mods) /\ Len(ctx.mods) <= MaxMods
    /\ ctx.top \in 0..Len(ctx.mods)
    /\ DOMAIN ctx.outputs \subseteq Stored
    /\ \A o \in DOMAIN ctx.outputs : ctx.outputs[o].gen = ctx.gen

\* A call that makes a context still has the one of an earlier call.
Older == op \in {"prepare", "run"} /\ ~Own /\ ctx # None => ctx.gen < calls

Base == Control /\ Rest /\ (Held => ContextOK) /\ Older

-----------------------------------------------------------------------------
(***************************************************************************)
(* How far each module has come: the place of the first step of phase q    *)
(* that it has not been through.                                           *)
(***************************************************************************)
Limit(q, s, i) == IF p < q THEN 1
                  ELSE IF p > q THEN Len(s) + 1
                  ELSE IF i < k THEN n + 1 ELSE n

Serves(i) ==
    /\ Part(ctx.mods[i].ran, Transforms, ctx.mods[i].design, ctx.mods[i].since,
            Limit(7, Transforms, i))
    /\ Part(ctx.mods[i].seen, Validations, ctx.mods[i].design, ctx.mods[i].from,
            Limit(10, Validations, i))

Serving == op = "process" \/ (op = "run" /\ Own)

Course == Base /\ (Serving => \A i \in 1..Len(ctx.mods) : Serves(i))

\* What is kept is of a processed module.
Good(m) == m # None => Transformed(m) /\ Validated(m)

-----------------------------------------------------------------------------
LEMMA Where ==
    ASSUME Control, op # "none"
    PROVE  /\ op \in Calls /\ p \in 1..18 /\ n \in Nat \ {0}
           /\ Len(Items(Phase)) \in Nat /\ k \in Nat \ {0}
           /\ op = "prepare" => p \in 1..5
           /\ op = "process" => p \in 6..14
           /\ op = "build" => p \in 15..18
<1>1. op \in Calls /\ k \in 1..MaxMods + 1 /\ p \in FirstPhase[op]..LastPhase[op]
    BY DEF Control
<1>2. p \in 1..18
    BY <1>1, Stretches
<1>3. Len(Items(Phase)) \in Nat
    BY <1>2, ItemsCount DEF Phase
<1>4. n \in 1..Len(Items(Phase)) + 1
    BY DEF Control
<1>5. n \in Nat \ {0} /\ k \in Nat \ {0}
    BY <1>1, <1>3, <1>4, Parts
<1>6. op = "prepare" => p \in 1..5
    BY <1>1, Stretches
<1>7. op = "process" => p \in 6..14
    BY <1>1, Stretches
<1>8. op = "build" => p \in 15..18
    BY <1>1, Stretches
<1> QED BY <1>1, <1>2, <1>3, <1>5, <1>6, <1>7, <1>8

\* Where a step is, from the name of its phase.
LEMMA AtIs ==
    ASSUME Control, NEW ph, At(ph)
    PROVE  /\ op # "none" /\ p \in 1..18 /\ Phase = ph /\ n \in 1..Len(Items(Phase))
           /\ ph = "pre_parse" => p = 1
           /\ ph = "repos" => p = 2 /\ n = 1
           /\ ph = "inputs" => p = 4
           /\ ph = "transform" => p = 7 /\ n \in 1..Len(Transforms)
           /\ ph = "validate" => p = 10 /\ n \in 1..Len(Validations)
           /\ ph = "generate" => p = 13
           /\ ph = "mkdir" => p = 15
           /\ ph = "write" => p = 17
           /\ ph \in Hooks => p \in {3, 5, 6, 8, 9, 11, 12, 14, 16, 18}
<1>1. op # "none" /\ Phase = ph /\ n <= Len(Items(Phase))
    BY DEF At
<1>2. p \in 1..18 /\ n \in Nat \ {0} /\ Len(Items(Phase)) \in Nat
    BY <1>1, Where
<1>3. n \in 1..Len(Items(Phase))
    BY <1>1, <1>2
<1>4. Phases[p] = ph
    BY <1>1 DEF Phase
<1>5. /\ ph = "pre_parse" => p = 1
      /\ ph = "repos" => p = 2
      /\ ph = "inputs" => p = 4
      /\ ph = "transform" => p = 7
      /\ ph = "validate" => p = 10
      /\ ph = "generate" => p = 13
      /\ ph = "mkdir" => p = 15
      /\ ph = "write" => p = 17
      /\ ph \in Hooks => p \in {3, 5, 6, 8, 9, 11, 12, 14, 16, 18}
    <2>1. \A r \in 1..18 :
            /\ Phases[r] = "pre_parse" => r = 1
            /\ Phases[r] = "repos" => r = 2
            /\ Phases[r] = "inputs" => r = 4
            /\ Phases[r] = "transform" => r = 7
            /\ Phases[r] = "validate" => r = 10
            /\ Phases[r] = "generate" => r = 13
            /\ Phases[r] = "mkdir" => r = 15
            /\ Phases[r] = "write" => r = 17
            /\ Phases[r] \in Hooks => r \in {3, 5, 6, 8, 9, 11, 12, 14, 16, 18}
        BY PhaseNames
    <2> QED BY <1>2, <1>4, <2>1
<1>6. ph = "repos" => n = 1
    <2> HAVE ph = "repos"
    <2>1. Len(Items(Phase)) = 1
        BY <1>1, ItemsAre
    <2> QED BY <1>3, <2>1
<1>7. ph = "transform" => n \in 1..Len(Transforms)
    BY <1>1, <1>3, ItemsAre
<1>8. ph = "validate" => n \in 1..Len(Validations)
    BY <1>1, <1>3, ItemsAre
<1> QED BY <1>1, <1>2, <1>3, <1>5, <1>6, <1>7, <1>8

LEMMA StartsOwn ==
    ASSUME Control, op # "none", p > 2
    PROVE  Own /\ Held
BY Where DEF Own, Held, Calls

-----------------------------------------------------------------------------
(***************************************************************************)
(* How the position moves.                                                 *)
(***************************************************************************)
LEMMA GoesOn ==
    ASSUME Control, op # "none", n <= Len(Items(Phase)), Goes, calls' = calls
    PROVE  /\ Control' /\ op' = op /\ p' = p /\ n' = n + 1 /\ k' = 1
           /\ Own => Own'
           /\ Own' => Own \/ p = 2
<1>1. /\ op' = op /\ p' = p /\ n' = n + 1 /\ k' = 1
    BY DEF Goes
<1>2. n \in Nat \ {0} /\ Len(Items(Phase)) \in Nat /\ p \in 1..18
    BY Where
<1>3. Phase' = Phase
    BY <1>1 DEF Phase
<1>4. n' \in 1..Len(Items(Phase)) + 1
    BY <1>1, <1>2
<1>5. Control'
    BY <1>1, <1>3, <1>4, Parts DEF Control
<1>6. (Own => Own') /\ (Own' => Own \/ p = 2)
    BY <1>1, <1>2 DEF Own
<1> QED BY <1>1, <1>5, <1>6

LEMMA RaiseEnds ==
    ASSUME Control, Raise, calls' = calls
    PROVE  /\ Control' /\ op' = "none" /\ ~Own' /\ ~Serving'
           /\ k' = 1
<1>1. op' = "none" /\ k' = 1
    BY DEF Raise
<1> QED BY <1>1, Parts DEF Control, Own, Serving

LEMMA LoopGoesOn ==
    ASSUME Control, op # "none", n <= Len(Items(Phase)), Len(ctx.mods) \in 0..MaxMods, Loop,
           calls' = calls
    PROVE  /\ Control' /\ op' = op /\ p' = p /\ n' = n /\ k' = k + 1
           /\ Own' <=> Own
           /\ k <= Len(ctx.mods)
<1>1. /\ op' = op /\ p' = p /\ n' = n /\ k' = k + 1 /\ k <= Len(ctx.mods)
    BY DEF Loop
<1>2. n \in Nat \ {0} /\ Len(Items(Phase)) \in Nat /\ p \in 1..18 /\ k \in Nat \ {0}
    BY Where
<1>3. Phase' = Phase
    BY <1>1 DEF Phase
<1>4. k' \in 1..MaxMods + 1
    BY <1>1, <1>2, Parts
<1>5. Control'
    BY <1>1, <1>3, <1>4 DEF Control
<1>6. Own' <=> Own
    BY <1>1 DEF Own
<1> QED BY <1>1, <1>5, <1>6

LEMMA EndMoves ==
    ASSUME Control, EndPhase
    PROVE  /\ Control' /\ k = 1
           /\ \/ op' = op /\ p' = p + 1 /\ n' = 1 /\ k' = 1
              \/ op' = "none" /\ k' = 1
           /\ Own' => Own
           /\ op' = op /\ Own => Own'
           /\ op' = op => p <= 17 /\ n = Len(Items(Phase)) + 1
<1>1. op # "none" /\ n > Len(Items(Phase)) /\ calls' = calls /\ n' = 1 /\ k' = 1
    BY DEF EndPhase
<1>2. /\ n \in Nat \ {0} /\ Len(Items(Phase)) \in Nat /\ p \in 1..18 /\ k \in Nat \ {0}
      /\ op \in Calls
    BY <1>1, Where
<1>3. k = 1 /\ n = Len(Items(Phase)) + 1
    BY <1>1, <1>2 DEF Control
<1>4. CASE p < LastPhase[op]
    <2>1. p' = p + 1 /\ op' = op
        BY <1>1, <1>4 DEF EndPhase
    <2>2. p' \in FirstPhase[op]..LastPhase[op] /\ p <= 17 /\ p' \in 1..18
        <3>1. p \in FirstPhase[op]..LastPhase[op]
            BY <1>1 DEF Control
        <3>2. FirstPhase[op] \in 1..18 /\ LastPhase[op] \in 1..18
            BY <1>2, Stretches
        <3> QED BY <1>4, <2>1, <3>1, <3>2
    <2>3. Len(Items(Phase')) \in Nat
        BY <2>2, ItemsCount DEF Phase
    <2>4. Control'
        BY <1>1, <1>2, <2>1, <2>2, <2>3, Parts DEF Control
    <2>5. Own' => Own
        <3>1. ~Own => p <= 2 /\ op \in {"prepare", "run"}
            BY <1>2, StartsOwn, <1>1 DEF Own, Calls
        <3>2. p = 2 => n = 2
            <4> HAVE p = 2
            <4>1. Phase = "repos"
                BY PhaseNames DEF Phase
            <4>2. Len(Items(Phase)) = 1
                BY <4>1, ItemsAre
            <4> QED BY <1>3, <4>2
        <3> QED BY <1>1, <1>2, <2>1, <3>1, <3>2 DEF Own
    <2>6. Own => Own'
        BY <1>1, <1>2, <2>1 DEF Own
    <2> QED BY <1>1, <1>3, <2>1, <2>2, <2>4, <2>5, <2>6
<1>5. CASE ~(p < LastPhase[op])
    <2>1. p' = 1 /\ op' = "none"
        BY <1>1, <1>5 DEF EndPhase
    <2>2. Control' /\ ~Own' /\ op' # op
        BY <1>1, <2>1, Parts DEF Control, Own
    <2> QED BY <1>1, <1>3, <2>1, <2>2
<1> QED BY <1>4, <1>5

-----------------------------------------------------------------------------
(***************************************************************************)
(* The modules of the context: what a step adds, and which it changes.     *)
(***************************************************************************)
LEMMA MissedIs ==
    ASSUME Control, op # "none", NEW ph \in {"transform", "validate"}, NEW q \in {7, 10},
           ph = "transform" <=> q = 7
    PROVE  /\ p < q => Missed(ph) = 0
           /\ p = q => Missed(ph) = n
           /\ p > q => Missed(ph) = Len(Items(ph)) + 1
           /\ Missed(ph) \in 0..Len(Items(ph)) + 1
<1>1. p \in 1..18 /\ n \in Nat
    BY Where
<1>2. n \in 1..Len(Items(Phase)) + 1
    BY DEF Control
<1>3. (Past(ph) <=> p > q) /\ (Phase = ph <=> p = q)
    BY <1>1, PastIs, PhaseNames DEF Phase
<1>4. Len(Items(ph)) \in Nat
    BY ItemsAre, Parts
<1>5. CASE p < q
    BY <1>1, <1>3, <1>4, <1>5 DEF Missed
<1>6. CASE p = q
    <2>1. ~Past(ph) /\ Phase = ph
        BY <1>1, <1>3, <1>6
    <2>2. Missed(ph) = n
        BY <2>1 DEF Missed
    <2> QED BY <1>1, <1>2, <1>4, <1>6, <2>1, <2>2
<1>7. CASE p > q
    <2>1. Past(ph) /\ Phase # ph
        BY <1>1, <1>3, <1>7
    <2>2. Missed(ph) = Len(Items(ph)) + 1
        BY <2>1 DEF Missed
    <2> QED BY <1>1, <1>4, <1>7, <2>2
<1> QED BY <1>1, <1>5, <1>6, <1>7

LEMMA JoinsIs ==
    ASSUME Control, op # "none", NEW d \in BOOLEAN
    PROVE  /\ Joins(d) \in Mods /\ Joins(d).design = d
           /\ Joins(d).ran = <<>> /\ Joins(d).seen = <<>>
           /\ Joins(d).since = Missed("transform") /\ Joins(d).from = Missed("validate")
<1>1. Missed("transform") \in 0..Len(Transforms) + 1
    BY MissedIs, ItemsAre
<1>2. Missed("validate") \in 0..Len(Validations) + 1
    BY MissedIs, ItemsAre
<1>3. <<>> \in Seq(1..Len(Transforms)) /\ <<>> \in Seq(1..Len(Validations))
    OBVIOUS
<1> QED BY <1>1, <1>2, <1>3 DEF Joins, Module, Mods

\* The context keeps all but its modules and its top; modules come at the end.
Grows ==
    /\ ctx' = [gen |-> ctx.gen, repos |-> ctx.repos, mods |-> ctx'.mods,
               top |-> ctx'.top, outputs |-> ctx.outputs]
    /\ ctx'.mods \in Seq(Mods) /\ Len(ctx.mods) <= Len(ctx'.mods)
    /\ Len(ctx'.mods) <= MaxMods
    /\ ctx'.top \in 0..Len(ctx'.mods)
    /\ \A i \in Len(ctx.mods) + 1..Len(ctx'.mods) : \E d \in BOOLEAN : ctx'.mods[i] = Joins(d)
Keeps == \A i \in 1..Len(ctx.mods) : ctx'.mods[i] = ctx.mods[i]

LEMMA GrowsOK ==
    ASSUME ContextOK, Grows, calls' = calls
    PROVE  ContextOK'
<1>1. /\ ctx'.gen = ctx.gen /\ ctx'.repos = ctx.repos /\ ctx'.outputs = ctx.outputs
    BY DEF Grows
<1>2. ctx' = [gen |-> ctx'.gen, repos |-> ctx'.repos, mods |-> ctx'.mods,
              top |-> ctx'.top, outputs |-> ctx'.outputs]
    BY <1>1 DEF Grows
<1> QED BY <1>1, <1>2 DEF ContextOK, Grows

LEMMA SameGrows ==
    ASSUME ContextOK, ctx' = ctx
    PROVE  Grows /\ Keeps
BY DEF ContextOK, Grows, Keeps

\* Modules are appended to a list of them.
LEMMA Appended ==
    ASSUME NEW c \in Seq(Mods), NEW ms \in Seq(Mods)
    PROVE  /\ c \o ms \in Seq(Mods) /\ Len(c \o ms) = Len(c) + Len(ms)
           /\ \A i \in 1..Len(c) : (c \o ms)[i] = c[i]
           /\ \A i \in Len(c) + 1..Len(c) + Len(ms) : (c \o ms)[i] = ms[i - Len(c)]
OBVIOUS

LEMMA Regrouped ==
    \A a, b, c \in Seq(Mods) : (a \o b) \o c = a \o (b \o c)
BY ConcatAssociative

LEMMA OneModule ==
    \A J \in Mods : /\ <<J>> \in Seq(Mods) /\ Len(<<J>>) = 1
                     /\ \A i \in 1..Len(<<J>>) : <<J>>[i] = J
OBVIOUS

LEMMA AddGrows ==
    ASSUME Control, op # "none", ContextOK, MayAdd
    PROVE  Grows /\ Keeps
<1>1. CASE ctx' = ctx
    BY <1>1, SameGrows
<1>2. ASSUME Len(ctx.mods) < MaxMods,
             NEW d \in BOOLEAN, ctx' = [ctx EXCEPT !.mods = Append(@, Joins(d))]
      PROVE  Grows /\ Keeps
    <2> DEFINE ms == Append(ctx.mods, Joins(d))
    <2>1. ctx.mods \in Seq(Mods) /\ ctx.top \in 0..Len(ctx.mods)
        BY DEF ContextOK
    <2>2. ctx' = [gen |-> ctx.gen, repos |-> ctx.repos, mods |-> ms,
                  top |-> ctx.top, outputs |-> ctx.outputs]
        BY <1>2 DEF ContextOK
    <2>3. /\ ms \in Seq(Mods) /\ Len(ms) = Len(ctx.mods) + 1
          /\ \A i \in 1..Len(ctx.mods) : ms[i] = ctx.mods[i]
          /\ ms[Len(ctx.mods) + 1] = Joins(d)
        BY <2>1, JoinsIs
    <2>4. ctx'.mods = ms /\ ctx'.top = ctx.top
        BY <2>2
    <2>5. \A i \in Len(ctx.mods) + 1..Len(ms) : ms[i] = Joins(d)
        BY <2>1, <2>3
    <2> HIDE DEF ms
    <2>6. Len(ms) <= MaxMods /\ Len(ctx.mods) <= Len(ms) /\ ctx.top \in 0..Len(ms)
        BY <1>2, <2>1, <2>3, Parts
    <2> QED BY <2>2, <2>3, <2>4, <2>5, <2>6 DEF Grows, Keeps
<1> QED BY <1>1, <1>2 DEF MayAdd

LEMMA TransformGrows ==
    ASSUME Control, ContextOK, Transform
    PROVE  /\ Grows /\ k \in 1..Len(ctx.mods)
           /\ \A i \in 1..Len(ctx.mods) : i # k => ctx'.mods[i] = ctx.mods[i]
           /\ ctx'.mods[k] = [ctx.mods[k] EXCEPT !.ran = Append(@, Who)]
<1>1. op # "none" /\ p = 7 /\ Phase = "transform" /\ n \in 1..Len(Transforms)
    BY AtIs DEF Transform
<1>2. k \in 1..Len(ctx.mods) /\ ctx.mods \in Seq(Mods) /\ ctx.top \in 0..Len(ctx.mods)
      /\ Len(ctx.mods) <= MaxMods
    <2>1. k \in Nat \ {0} /\ k <= Len(ctx.mods)
        BY <1>1, Where DEF Transform
    <2> QED BY <2>1 DEF ContextOK
<1>3. Who \in 1..Len(Transforms)
    <2>1. Who = Sorted(Priorities(Transforms))[n]
        BY <1>1, ItemsAre DEF Who
    <2> QED BY <1>1, <2>1, SortedRank, PriorityList, Parts
<1> DEFINE m == [ctx.mods[k] EXCEPT !.ran = Append(@, Who)]
           ms == [ctx.mods EXCEPT ![k] = m]
           done == [ctx EXCEPT !.mods[k].ran = Append(@, Who)]
<1>4. m \in Mods
    <2>1. ctx.mods[k] \in Mods
        BY <1>2
    <2>2. Append(ctx.mods[k].ran, Who) \in Seq(1..Len(Transforms))
        BY <1>3, <2>1 DEF Mods
    <2> QED BY <2>1, <2>2 DEF Mods
<1>5. done = [gen |-> ctx.gen, repos |-> ctx.repos, mods |-> ms,
              top |-> ctx.top, outputs |-> ctx.outputs]
    <2>1. done = [ctx EXCEPT !.mods = ms]
        OBVIOUS
    <2> HIDE DEF ms, done
    <2> QED BY <2>1 DEF ContextOK
<1>6. /\ ms \in Seq(Mods) /\ Len(ms) = Len(ctx.mods) /\ ms[k] = m
      /\ \A i \in 1..Len(ctx.mods) : i # k => ms[i] = ctx.mods[i]
    BY <1>2, <1>4
<1>7. \/ ctx' = done
      \/ /\ Len(ctx.mods) < MaxMods
         /\ \E d \in BOOLEAN : ctx' = [done EXCEPT !.mods = Append(@, Joins(d))]
    BY DEF Transform
<1> DEFINE Goal == /\ Grows
                   /\ \A i \in 1..Len(ctx.mods) : i # k => ctx'.mods[i] = ctx.mods[i]
                   /\ ctx'.mods[k] = m
<1> SUFFICES Goal
    BY <1>2
<1> HIDE DEF m, done
<1>8. CASE ctx' = done
    <2>1. ctx'.mods = ms /\ ctx'.top = ctx.top
        BY <1>5, <1>8
    <2> HIDE DEF ms
    <2>2. Grows
        BY <1>2, <1>5, <1>6, <1>8, <2>1 DEF Grows
    <2> QED BY <1>2, <1>6, <2>1, <2>2
<1>9. CASE /\ Len(ctx.mods) < MaxMods
           /\ \E d \in BOOLEAN : ctx' = [done EXCEPT !.mods = Append(@, Joins(d))]
    <2>0. PICK d \in BOOLEAN : ctx' = [done EXCEPT !.mods = Append(@, Joins(d))]
        BY <1>9
    <2> DEFINE new == Append(ms, Joins(d))
    <2>1. ctx' = [gen |-> ctx.gen, repos |-> ctx.repos, mods |-> new,
                  top |-> ctx.top, outputs |-> ctx.outputs]
        BY <1>5, <2>0
    <2> HIDE DEF ms
    <2>2. /\ new \in Seq(Mods) /\ Len(new) = Len(ctx.mods) + 1
          /\ \A i \in 1..Len(ctx.mods) : new[i] = ms[i]
          /\ new[Len(ctx.mods) + 1] = Joins(d)
        BY <1>1, <1>6, JoinsIs
    <2>3. ctx'.mods = new /\ ctx'.top = ctx.top
        BY <2>1
    <2>4. \A i \in Len(ctx.mods) + 1..Len(new) : new[i] = Joins(d)
        BY <1>2, <2>2
    <2> HIDE DEF new
    <2>5. Len(new) <= MaxMods /\ Len(ctx.mods) <= Len(new) /\ ctx.top \in 0..Len(new)
        BY <1>2, <1>9, <2>2, Parts
    <2>6. Grows
        BY <2>1, <2>2, <2>3, <2>4, <2>5 DEF Grows
    <2>7. ctx'.mods[k] = m
        BY <1>2, <1>6, <2>2, <2>3
    <2>8. \A i \in 1..Len(ctx.mods) : i # k => ctx'.mods[i] = ctx.mods[i]
        BY <1>6, <2>2, <2>3
    <2> QED BY <2>6, <2>7, <2>8
<1> QED BY <1>7, <1>8, <1>9

-----------------------------------------------------------------------------
LEMMA ValidateGrows ==
    ASSUME Control, ContextOK, Validate
    PROVE  /\ Grows /\ k \in 1..Len(ctx.mods)
           /\ \A i \in 1..Len(ctx.mods) : i # k => ctx'.mods[i] = ctx.mods[i]
           /\ \/ ctx'.mods[k] = [ctx.mods[k] EXCEPT !.seen = Append(@, Who)]
              \/ Raise
<1>1. op # "none" /\ p = 10 /\ Phase = "validate" /\ n \in 1..Len(Validations)
    BY AtIs DEF Validate
<1>2. k \in 1..Len(ctx.mods) /\ ctx.mods \in Seq(Mods) /\ ctx.top \in 0..Len(ctx.mods)
      /\ Len(ctx.mods) <= MaxMods
    <2>1. k \in Nat \ {0} /\ k <= Len(ctx.mods)
        BY <1>1, Where DEF Validate
    <2> QED BY <2>1 DEF ContextOK
<1>3. Who \in 1..Len(Validations)
    <2>1. Who = Sorted(Priorities(Validations))[n]
        BY <1>1, ItemsAre DEF Who
    <2> QED BY <1>1, <2>1, SortedRank, PriorityList, Parts
<1> DEFINE m == [ctx.mods[k] EXCEPT !.seen = Append(@, Who)]
           ms == [ctx.mods EXCEPT ![k] = m]
           done == [ctx EXCEPT !.mods[k].seen = Append(@, Who)]
<1>4. m \in Mods
    <2>1. ctx.mods[k] \in Mods
        BY <1>2
    <2>2. Append(ctx.mods[k].seen, Who) \in Seq(1..Len(Validations))
        BY <1>3, <2>1 DEF Mods
    <2> QED BY <2>1, <2>2 DEF Mods
<1>5. done = [gen |-> ctx.gen, repos |-> ctx.repos, mods |-> ms,
              top |-> ctx.top, outputs |-> ctx.outputs]
    <2>1. done = [ctx EXCEPT !.mods = ms]
        OBVIOUS
    <2> HIDE DEF ms, done
    <2> QED BY <2>1 DEF ContextOK
<1>6. /\ ms \in Seq(Mods) /\ Len(ms) = Len(ctx.mods) /\ ms[k] = m
      /\ \A i \in 1..Len(ctx.mods) : i # k => ms[i] = ctx.mods[i]
    BY <1>2, <1>4
<1>7. ctx' = done \/ (ctx' = ctx /\ Raise)
    BY DEF Validate
<1> DEFINE Goal == /\ Grows
                   /\ \A i \in 1..Len(ctx.mods) : i # k => ctx'.mods[i] = ctx.mods[i]
                   /\ ctx'.mods[k] = m \/ Raise
<1> SUFFICES Goal
    BY <1>2
<1> HIDE DEF m, done
<1>8. CASE ctx' = done
    <2>1. ctx'.mods = ms /\ ctx'.top = ctx.top
        BY <1>5, <1>8
    <2> HIDE DEF ms
    <2>2. Grows
        BY <1>2, <1>5, <1>6, <1>8, <2>1 DEF Grows
    <2> QED BY <1>2, <1>6, <2>1, <2>2
<1>9. CASE ctx' = ctx /\ Raise
    BY <1>9, SameGrows DEF Keeps
<1> QED BY <1>7, <1>8, <1>9

LEMMA InputGrows ==
    ASSUME Control, ContextOK, ProcessInput
    PROVE  Grows /\ Keeps
<1>1. op # "none" /\ p = 4
    BY AtIs DEF ProcessInput
<1>2. ctx.mods \in Seq(Mods) /\ ctx.top \in 0..Len(ctx.mods) /\ Len(ctx.mods) <= MaxMods
    BY DEF ContextOK
<1> DEFINE ends(ds) == [i \in 1..Len(ds) |-> Joins(ds[i])]
           add(mods, ds) == [ctx EXCEPT !.mods = @ \o mods \o ends(ds),
                                        !.top = IF ds = <<>> THEN @ ELSE Len(ctx.mods \o mods) + 1]
<1>3. \E mods \in {<<>>, <<Joins(FALSE)>>}, ds \in {<<>>, <<TRUE>>, <<FALSE>>} :
         Len(ctx.mods \o mods) < MaxMods /\ ctx' = add(mods, ds)
    <2>1. PICK mods \in {<<>>, <<Joins(FALSE)>>} :
             /\ Len(ctx.mods \o mods) < MaxMods
             /\ \/ ctx' = add(mods, IF source = None THEN <<>> ELSE <<TRUE>>)
                \/ ctx' = add(mods, <<>>)
                \/ ctx' = add(mods, <<FALSE>>)
        BY DEF ProcessInput
    <2> HIDE DEF add
    <2> QED BY <2>1
<1>4. PICK mods \in {<<>>, <<Joins(FALSE)>>}, ds \in {<<>>, <<TRUE>>, <<FALSE>>} :
         Len(ctx.mods \o mods) < MaxMods /\ ctx' = add(mods, ds)
    BY <1>3
<1> DEFINE new == mods \o ends(ds)
<1>5. \A d \in BOOLEAN : Joins(d) \in Mods
    BY <1>1, JoinsIs
<1>6. /\ mods \in Seq(Mods) /\ Len(mods) \in {0, 1}
      /\ \A i \in 1..Len(mods) : mods[i] = Joins(FALSE)
    <2> DEFINE J == Joins(FALSE)
    <2>1. J \in Mods
        BY <1>5
    <2>2. mods = <<>> \/ mods = <<J>>
        OBVIOUS
    <2> HIDE DEF J
    <2>3. /\ mods \in Seq(Mods) /\ Len(mods) \in {0, 1}
          /\ \A i \in 1..Len(mods) : mods[i] = J
        <3>1. CASE mods = <<>>
            BY <3>1
        <3>2. CASE mods = <<J>>
            <4>1. /\ <<J>> \in Seq(Mods) /\ Len(<<J>>) = 1
                  /\ \A i \in 1..Len(<<J>>) : <<J>>[i] = J
                BY <2>1, OneModule
            <4>2. Len(<<J>>) \in {0, 1}
                BY <4>1
            <4> QED BY <3>2, <4>1, <4>2, Zenon
        <3> QED BY <2>2, <3>1, <3>2
    <2> QED BY <2>3 DEF J
<1>7. /\ ends(ds) \in Seq(Mods) /\ Len(ends(ds)) = Len(ds) /\ Len(ds) \in {0, 1}
      /\ ds = <<>> <=> Len(ds) = 0
      /\ \A i \in 1..Len(ends(ds)) : ends(ds)[i] = Joins(ds[i]) /\ ds[i] \in BOOLEAN
    <2>1. CASE ds = <<>>
        <3>1. ends(ds) = <<>>
            BY <2>1
        <3> QED BY <2>1, <3>1
    <2>2. CASE ds # <<>>
        <3>1. \E b \in BOOLEAN : ds = <<b>>
            BY <2>2, Zenon
        <3>2. PICK b \in BOOLEAN : ds = <<b>>
            BY <3>1
        <3> DEFINE J == Joins(b)
        <3>3. J \in Mods
            BY <1>5
        <3> HIDE DEF J
        <3>4. Len(ds) = 1 /\ ds[1] = b
            BY <3>2
        <3>5. ends(ds) = [i \in 1..1 |-> Joins(ds[i])]
            BY <3>4
        <3>6. [i \in 1..1 |-> Joins(ds[i])] = <<J>>
            BY <3>4 DEF J
        <3>7. ends(ds) = <<J>>
            BY <3>5, <3>6
        <3> HIDE DEF ends
        <3>8. ends(ds) \in Seq(Mods) /\ Len(ends(ds)) = 1 /\ ends(ds)[1] = J
            BY <3>3, <3>7
        <3>9. \A i \in 1..Len(ends(ds)) : ends(ds)[i] = Joins(ds[i]) /\ ds[i] = b
            BY <3>4, <3>8 DEF J
        <3>10. \A i \in 1..Len(ends(ds)) : ds[i] \in BOOLEAN
            BY <3>9, Zenon
        <3> QED BY <2>2, <3>4, <3>8, <3>9, <3>10
    <2> QED BY <2>1, <2>2
<1> HIDE DEF ends
<1>8. /\ new \in Seq(Mods) /\ Len(new) = Len(mods) + Len(ds)
      /\ \A i \in 1..Len(new) : \E d \in BOOLEAN : new[i] = Joins(d)
    <2>1. /\ new \in Seq(Mods) /\ Len(new) = Len(mods) + Len(ends(ds))
          /\ \A i \in 1..Len(mods) : new[i] = mods[i]
          /\ \A i \in Len(mods) + 1..Len(mods) + Len(ends(ds)) : new[i] = ends(ds)[i - Len(mods)]
        BY <1>6, <1>7, Appended
    <2> HIDE DEF new
    <2>2. \A i \in 1..Len(new) : i \in 1..Len(mods) \/ (i \in Len(mods) + 1..Len(mods) + Len(ends(ds))
                                                       /\ i - Len(mods) \in 1..Len(ends(ds)))
        BY <1>6, <1>7, <2>1
    <2> QED BY <1>6, <1>7, <2>1, <2>2
<1> DEFINE ms == ctx.mods \o new
           t == IF ds = <<>> THEN ctx.top ELSE Len(ctx.mods \o mods) + 1
<1>9. ms = ctx.mods \o mods \o ends(ds)
    BY <1>2, <1>6, <1>7, Regrouped
<1> HIDE DEF new
<1>10. /\ ms \in Seq(Mods) /\ Len(ms) = Len(ctx.mods) + Len(new)
       /\ \A i \in 1..Len(ctx.mods) : ms[i] = ctx.mods[i]
       /\ \A i \in Len(ctx.mods) + 1..Len(ctx.mods) + Len(new) : ms[i] = new[i - Len(ctx.mods)]
    BY <1>2, <1>8, Appended
<1>11. Len(ctx.mods \o mods) = Len(ctx.mods) + Len(mods)
    BY <1>2, <1>6
<1> HIDE DEF ms
<1>12. t \in 0..Len(ms) /\ Len(ms) <= MaxMods /\ Len(ctx.mods) <= Len(ms)
    <2>1. Len(ctx.mods) \in Nat /\ Len(mods) \in Nat /\ Len(ds) \in {0, 1} /\ MaxMods \in Nat
        BY <1>2, <1>6, <1>7, Parts
    <2>2. Len(ms) = Len(ctx.mods) + Len(mods) + Len(ds) /\ Len(ctx.mods) + Len(mods) < MaxMods
        <3>1. Len(ms) = Len(ctx.mods) + Len(new) /\ Len(new) = Len(mods) + Len(ds)
            BY <1>8, <1>10
        <3>2. Len(ctx.mods) + Len(mods) < MaxMods
            BY <1>4, <1>11
        <3>3. Len(ms) = Len(ctx.mods) + (Len(mods) + Len(ds))
            BY <3>1
        <3> DEFINE a == Len(ctx.mods)
                   b == Len(mods)
                   c == Len(ds)
                   l == Len(ms)
        <3>4. a \in Nat /\ b \in Nat /\ c \in {0, 1} /\ l = a + (b + c) /\ a + b < MaxMods
            BY <2>1, <3>2, <3>3
        <3> HIDE DEF a, b, c, l
        <3>5. l = a + b + c /\ a + b < MaxMods
            BY <3>4
        <3> QED BY <3>5 DEF a, b, c, l
    <2>3. CASE ds = <<>>
        BY <1>2, <2>1, <2>2, <2>3
    <2>4. CASE ds # <<>>
        <3>1. Len(ds) = 1
            BY <1>7, <2>4
        <3>2. t = Len(ctx.mods) + Len(mods) + 1
            BY <1>11, <2>4
        <3> QED BY <2>1, <2>2, <3>1, <3>2
    <2> QED BY <2>3, <2>4
<1>13. ctx' = [ctx EXCEPT !.mods = ctx.mods \o mods \o ends(ds), !.top = t]
    BY <1>4
<1> HIDE DEF ms, t
<1>14. ctx' = [gen |-> ctx.gen, repos |-> ctx.repos, mods |-> ms, top |-> t,
               outputs |-> ctx.outputs]
    BY <1>9, <1>13 DEF ContextOK
<1>15. ctx'.mods = ms /\ ctx'.top = t
    BY <1>14
<1>16. \A i \in Len(ctx.mods) + 1..Len(ms) : \E d \in BOOLEAN : ms[i] = Joins(d)
    <2> TAKE i \in Len(ctx.mods) + 1..Len(ms)
    <2>1. Len(ctx.mods) \in Nat /\ Len(new) \in Nat /\ Len(ms) = Len(ctx.mods) + Len(new)
        BY <1>2, <1>8, <1>10
    <2>2. i - Len(ctx.mods) \in 1..Len(new) /\ ms[i] = new[i - Len(ctx.mods)]
        BY <1>10, <2>1
    <2> QED BY <1>8, <2>2
<1> QED BY <1>10, <1>12, <1>14, <1>15, <1>16 DEF Grows, Keeps

-----------------------------------------------------------------------------
(***************************************************************************)
(* The control and the shape of the context hold.                          *)
(***************************************************************************)
LEMMA BaseInit ==
    ASSUME Init
    PROVE  Base
<1>1. ~Own /\ ~Held
    BY DEF Init, Own, Held
<1>2. Control
    BY Parts DEF Init, Control
<1>3. Rest
    BY DEF Init, Rest, Sources
<1>4. Older
    BY DEF Init, Older
<1> QED BY <1>1, <1>2, <1>3, <1>4 DEF Base

\* The steps after the context was made.
LEMMA LaterStep ==
    ASSUME Base, op # "none", p > 2, Control', Rest', ContextOK', Own' \/ op' = "none"
    PROVE  Base'
BY DEF Base, Older

LEMMA HasContext ==
    ASSUME Base, op # "none", p > 2
    PROVE  ContextOK /\ Own
BY StartsOwn DEF Base

LEMMA CallBase ==
    ASSUME Base, NEW o \in Calls, Call(o)
    PROVE  Base'
<1>1. /\ op' = o /\ p' = FirstPhase[o] /\ n' = 1 /\ k' = 1 /\ calls' = calls + 1
      /\ calls < MaxCalls /\ op = "none" /\ (o \in {"process", "build"} => ctx # None)
      /\ settings' = settings /\ disk' = disk
    BY DEF Call
<1>2. p' \in 1..18 /\ p' \in FirstPhase[o]..LastPhase[o] /\ calls \in 0..MaxCalls
    BY <1>1, Stretches DEF Base, Control
<1>3. Len(Items(Phase')) \in Nat
    BY <1>2, ItemsCount DEF Phase
<1>4. Control'
    BY <1>1, <1>2, <1>3, Parts DEF Control
<1>5. source' \in Sources
    BY DEF Call, Base, Rest
<1>6. Rest'
    BY <1>1, <1>2, <1>5, Parts DEF Base, Rest
<1>7. ctx # None => ContextOK
    BY DEF Base, Held
<1>8. o = "process" => ContextOK'
    <2> HAVE o = "process"
    <2> DEFINE ms == [i \in 1..Len(ctx.mods) |-> Fresh(ctx.mods[i])]
    <2>1. ContextOK
        BY <1>1, <1>7
    <2>2. ctx' = [ctx EXCEPT !.mods = ms]
        BY DEF Call
    <2>3. \A i \in 1..Len(ctx.mods) : Fresh(ctx.mods[i]) \in Mods
        <3>1. \A m \in Mods : Fresh(m) \in Mods
            BY Parts DEF Fresh, Module, Mods
        <3> QED BY <2>1, <3>1 DEF ContextOK
    <2>4. ctx.mods \in Seq(Mods) /\ Len(ctx.mods) \in Nat
        BY <2>1 DEF ContextOK
    <2>5. ms \in Seq(Mods) /\ Len(ms) = Len(ctx.mods)
        BY <2>3, <2>4
    <2> HIDE DEF ms
    <2>6. ctx' = [gen |-> ctx.gen, repos |-> ctx.repos, mods |-> ms,
                  top |-> ctx.top, outputs |-> ctx.outputs]
        BY <2>1, <2>2 DEF ContextOK
    <2>7. ctx'.gen = ctx.gen /\ ctx'.repos = ctx.repos /\ ctx'.mods = ms
          /\ ctx'.top = ctx.top /\ ctx'.outputs = ctx.outputs
        BY <2>6
    <2>8. ctx' = [gen |-> ctx'.gen, repos |-> ctx'.repos, mods |-> ctx'.mods,
                  top |-> ctx'.top, outputs |-> ctx'.outputs]
        BY <2>6, <2>7
    <2>9. ctx.gen \in 1..calls'
        BY <1>1, <1>2, <2>1, Parts DEF ContextOK
    <2> QED BY <2>1, <2>5, <2>7, <2>8, <2>9 DEF ContextOK
<1>9. o # "process" => ctx' = ctx
    BY DEF Call
<1>10. o # "process" /\ ctx # None => ContextOK'
    BY <1>1, <1>2, <1>7, <1>9, Parts DEF ContextOK
<1>11. Held' => ContextOK'
    <2>1. Own' => o \in {"process", "build"}
        BY <1>1, Stretches DEF Own
    <2> QED BY <1>1, <1>8, <1>9, <1>10, <2>1 DEF Held
<1>12. Older'
    <2>1. ctx' # None /\ o # "process" => ctx'.gen < calls'
        BY <1>1, <1>2, <1>7, <1>9, Parts DEF ContextOK
    <2> QED BY <1>1, <2>1 DEF Older
<1> QED BY <1>4, <1>6, <1>11, <1>12 DEF Base

LEMMA StutterBase ==
    ASSUME Base, UNCHANGED vars
    PROVE  Base'
<1>1. Control' /\ Rest' /\ Older'
    BY DEF vars, Base, Control, Rest, Older, Phase, Own
<1>2. Held' => Held
    BY DEF vars, Held, Own
<1>3. ContextOK => ContextOK'
    BY DEF vars, ContextOK
<1> QED BY <1>1, <1>2, <1>3 DEF Base

LEMMA SameContext ==
    ASSUME ContextOK, ctx' = ctx, calls' = calls
    PROVE  ContextOK'
BY DEF ContextOK

LEMMA SameRest ==
    ASSUME Rest, source' = source, settings' = settings, disk' = disk, calls' = calls
    PROVE  Rest'
BY DEF Rest

LEMMA EndPhaseBase ==
    ASSUME Base, EndPhase
    PROVE  Base'
<1>1. ctx' = ctx /\ calls' = calls /\ Rest'
    BY SameRest DEF EndPhase, Base
<1>2. /\ Control' /\ (Own' => Own) /\ (op' = op \/ op' = "none") /\ (op' = op /\ Own => Own')
    BY EndMoves DEF Base
<1>3. Held' => Held
    BY <1>1, <1>2 DEF Held
<1>4. Older'
    BY <1>1, <1>2 DEF Older, Base
<1> QED BY <1>1, <1>2, <1>3, <1>4, SameContext DEF Base

LEMMA PreParseBase ==
    ASSUME Base, PreParse
    PROVE  Base'
<1>1. op # "none" /\ p = 1 /\ n <= Len(Items(Phase))
    BY AtIs DEF PreParse, Base, At
<1>2. ctx' = ctx /\ calls' = calls /\ source' = source /\ disk' = disk
    BY DEF PreParse
<1>3. settings' \in Configured \cup {None}
    BY DEF PreParse, Base, Rest
<1>4. Rest'
    BY <1>2, <1>3 DEF Base, Rest
<1>5. CASE Goes
    <2>1. Control' /\ op' = op /\ (Own => Own') /\ (Own' => Own)
        BY <1>1, <1>2, <1>5, GoesOn DEF Base
    <2>2. (Held' => Held) /\ Older'
        BY <1>2, <2>1 DEF Held, Older, Base
    <2> QED BY <1>2, <1>4, <2>1, <2>2, SameContext DEF Base
<1>6. CASE Raise
    <2>1. Control' /\ op' = "none" /\ ~Own'
        BY <1>2, <1>6, RaiseEnds DEF Base
    <2>2. (Held' => Held) /\ Older'
        BY <1>2, <2>1 DEF Held, Older
    <2> QED BY <1>2, <1>4, <2>1, <2>2, SameContext DEF Base
<1> QED BY <1>5, <1>6 DEF PreParse

LEMMA LoadReposBase ==
    ASSUME Base, LoadRepos
    PROVE  Base'
<1>1. op # "none" /\ p = 2 /\ n = 1 /\ n <= Len(Items(Phase))
    BY AtIs DEF LoadRepos, Base, At
<1>2. calls' = calls /\ Rest'
    BY SameRest DEF LoadRepos, Base
<1>3. CASE ctx' = Context /\ Goes
    <2>1. Control' /\ op' = op /\ p' = p /\ n' = n + 1
        BY <1>1, <1>2, <1>3, GoesOn DEF Base
    <2>2. op \in {"prepare", "run"}
        BY <1>1, Where DEF Base, Calls
    <2>3. Own'
        BY <1>1, <2>1, <2>2 DEF Own
    <2>4. calls \in 1..calls /\ settings \in Configured \cup {None}
        BY <1>1 DEF Base, Control, Rest
    <2>5. /\ ctx'.gen = calls /\ ctx'.repos = settings /\ ctx'.mods = <<>> /\ ctx'.top = 0
          /\ DOMAIN ctx'.outputs = {}
          /\ ctx' = [gen |-> ctx'.gen, repos |-> ctx'.repos, mods |-> ctx'.mods,
                     top |-> ctx'.top, outputs |-> ctx'.outputs]
        BY <1>3 DEF Context
    <2>6. ContextOK'
        BY <1>2, <2>4, <2>5, Parts DEF ContextOK
    <2> QED BY <1>2, <2>1, <2>3, <2>6 DEF Base, Older
<1>4. CASE ctx' = ctx /\ Raise
    <2>1. Control' /\ op' = "none" /\ ~Own'
        BY <1>2, <1>4, RaiseEnds DEF Base
    <2>2. (Held' => Held) /\ Older'
        BY <1>4, <2>1 DEF Held, Older
    <2> QED BY <1>2, <1>4, <2>1, <2>2, SameContext DEF Base
<1> QED BY <1>3, <1>4 DEF LoadRepos

LEMMA GrowBase ==
    ASSUME Base, Hook \/ ProcessInput \/ Transform \/ Validate
    PROVE  Base'
<1>1. op # "none" /\ p > 2 /\ n <= Len(Items(Phase))
    <2>1. At("inputs") \/ At("transform") \/ At("validate") \/ (Phase \in Hooks /\ At(Phase))
        BY DEF Hook, ProcessInput, Transform, Validate
    <2>2. Control
        BY DEF Base
    <2>3. CASE At("inputs") \/ At("transform") \/ At("validate")
        BY <2>2, <2>3, AtIs DEF At
    <2>4. CASE Phase \in Hooks /\ At(Phase)
        <3> DEFINE ph == Phase
        <3>1. ph \in Hooks /\ At(ph)
            BY <2>4
        <3> HIDE DEF ph
        <3> QED BY <2>2, <3>1, AtIs DEF At
    <2> QED BY <2>1, <2>3, <2>4
<1>2. ContextOK /\ Own /\ Control
    BY <1>1, HasContext DEF Base
<1>3. calls' = calls /\ Rest'
    BY SameRest DEF Hook, ProcessInput, Transform, Validate, Base
<1>4. Grows
    BY <1>1, <1>2, AddGrows, InputGrows, TransformGrows, ValidateGrows DEF Hook
<1>5. ContextOK'
    BY <1>2, <1>3, <1>4, GrowsOK
<1>6. Goes \/ Raise \/ Loop
    BY DEF Hook, ProcessInput, Transform, Validate
<1>7. Len(ctx.mods) \in 0..MaxMods
    BY <1>2 DEF ContextOK
<1>8. Control' /\ (Own' \/ op' = "none")
    BY <1>1, <1>2, <1>3, <1>6, <1>7, GoesOn, RaiseEnds, LoopGoesOn
<1> QED BY <1>1, <1>3, <1>5, <1>8, LaterStep

LEMMA PassBase ==
    ASSUME Base, EndLoop("transform") \/ EndLoop("validate") \/ Skip \/ MakeDirs
    PROVE  Base'
<1>1. op # "none" /\ p > 2 /\ n <= Len(Items(Phase))
    <2>1. At("transform") \/ At("validate") \/ At("mkdir")
        BY DEF EndLoop, Skip, MakeDirs
    <2> QED BY <2>1, AtIs DEF Base, At
<1>2. ContextOK /\ Own /\ Control
    BY <1>1, HasContext DEF Base
<1>3. calls' = calls /\ Rest' /\ ctx' = ctx
    BY SameRest DEF EndLoop, Skip, MakeDirs, Base
<1>4. Goes \/ Raise \/ Loop
    BY DEF EndLoop, Skip, MakeDirs
<1>5. Len(ctx.mods) \in 0..MaxMods
    BY <1>2 DEF ContextOK
<1>6. Control' /\ (Own' \/ op' = "none")
    BY <1>1, <1>2, <1>3, <1>4, <1>5, GoesOn, RaiseEnds, LoopGoesOn
<1> QED BY <1>1, <1>2, <1>3, <1>6, SameContext, LaterStep

-----------------------------------------------------------------------------
\* An output is kept, made of the top module, or the context stays as it is.
LEMMA GenerateKeeps ==
    ASSUME ContextOK, Generate
    PROVE  \/ /\ Who \in Stored \ DOMAIN ctx.outputs /\ Goes
              /\ ctx' = [gen |-> ctx.gen, repos |-> ctx.repos, mods |-> ctx.mods,
                         top |-> ctx.top, outputs |-> ctx'.outputs]
              /\ DOMAIN ctx'.outputs = DOMAIN ctx.outputs \cup {Who}
              /\ ctx'.outputs[Who] = Made
              /\ \A o \in DOMAIN ctx.outputs : ctx'.outputs[o] = ctx.outputs[o]
           \/ ctx' = ctx /\ (Goes \/ Raise)
<1> DEFINE outs == [o \in DOMAIN ctx.outputs \cup {Who} |->
                      IF o = Who THEN Made ELSE ctx.outputs[o]]
<1>1. CASE Who \in Stored \ DOMAIN ctx.outputs /\ Goes /\ ctx' = [ctx EXCEPT !.outputs = outs]
    <2>1. /\ DOMAIN outs = DOMAIN ctx.outputs \cup {Who} /\ outs[Who] = Made
          /\ \A o \in DOMAIN ctx.outputs : outs[o] = ctx.outputs[o]
        BY <1>1
    <2> HIDE DEF outs
    <2>2. ctx' = [gen |-> ctx.gen, repos |-> ctx.repos, mods |-> ctx.mods,
                  top |-> ctx.top, outputs |-> outs]
        BY <1>1 DEF ContextOK
    <2>3. ctx'.outputs = outs
        BY <2>2
    <2> QED BY <1>1, <2>1, <2>2, <2>3
<1>2. CASE ctx' = ctx /\ (Goes \/ Raise)
    BY <1>2
<1>3. \/ Who \in Stored \ DOMAIN ctx.outputs /\ Goes /\ ctx' = [ctx EXCEPT !.outputs = outs]
      \/ ctx' = ctx /\ (Goes \/ Raise)
    BY DEF Generate
<1> QED BY <1>1, <1>2, <1>3

LEMMA MadeIs ==
    /\ Made.gen = ctx.gen
    /\ Made.of = IF ctx.top = 0 THEN None ELSE ctx.mods[ctx.top]
BY DEF Made

LEMMA GenerateBase ==
    ASSUME Base, Generate
    PROVE  Base'
<1>1. op # "none" /\ p > 2 /\ n <= Len(Items(Phase))
    BY AtIs DEF Generate, Base, At
<1>2. ContextOK /\ Own /\ Control
    BY <1>1, HasContext DEF Base
<1>3. calls' = calls /\ Rest'
    BY SameRest DEF Generate, Base
<1>4. Control' /\ (Own' \/ op' = "none")
    BY <1>1, <1>2, <1>3, GenerateKeeps, GoesOn, RaiseEnds
<1>5. CASE ctx' = ctx
    BY <1>1, <1>2, <1>3, <1>4, <1>5, SameContext, LaterStep
<1>6. CASE /\ Who \in Stored \ DOMAIN ctx.outputs
           /\ ctx' = [gen |-> ctx.gen, repos |-> ctx.repos, mods |-> ctx.mods,
                      top |-> ctx.top, outputs |-> ctx'.outputs]
           /\ DOMAIN ctx'.outputs = DOMAIN ctx.outputs \cup {Who}
           /\ ctx'.outputs[Who] = Made
           /\ \A o \in DOMAIN ctx.outputs : ctx'.outputs[o] = ctx.outputs[o]
    <2>1. /\ ctx'.gen = ctx.gen /\ ctx'.repos = ctx.repos /\ ctx'.mods = ctx.mods
          /\ ctx'.top = ctx.top
        BY <1>6
    <2>2. ctx' = [gen |-> ctx'.gen, repos |-> ctx'.repos, mods |-> ctx'.mods,
                  top |-> ctx'.top, outputs |-> ctx'.outputs]
        BY <1>6, <2>1
    <2>3. DOMAIN ctx'.outputs \subseteq Stored
        BY <1>2, <1>6 DEF ContextOK
    <2>4. \A o \in DOMAIN ctx'.outputs : ctx'.outputs[o].gen = ctx'.gen
        BY <1>2, <1>6, <2>1, MadeIs DEF ContextOK
    <2>5. ContextOK'
        BY <1>2, <1>3, <2>1, <2>2, <2>3, <2>4 DEF ContextOK
    <2> QED BY <1>1, <1>3, <1>4, <2>5, LaterStep
<1> QED BY <1>2, <1>5, <1>6, GenerateKeeps

\* What is written is a kept output, or made of the top module.
LEMMA WriteIs ==
    ASSUME Control, ContextOK, Rest, Write
    PROVE  /\ disk' = [o \in Outputs |-> disk'[o]]
           /\ \A o \in Outputs : \/ disk'[o] = disk[o]
                                 \/ o \in DOMAIN ctx.outputs /\ disk'[o] = ctx.outputs[o]
                                 \/ o \notin Stored /\ ctx.top # 0 /\ disk'[o] = Made
<1>1. disk = [o \in Outputs |-> disk[o]]
    BY DEF Rest
<1>2. CASE Who \in DOMAIN ctx.outputs /\ disk' = [disk EXCEPT ![Who] = ctx.outputs[Who]]
    <2> DEFINE w == Who
               x == ctx.outputs[w]
    <2>1. w \in DOMAIN ctx.outputs /\ disk' = [disk EXCEPT ![w] = x]
        BY <1>2
    <2>2. disk' = [o \in Outputs |-> disk'[o]]
        <3> HIDE DEF w, x
        <3> QED BY <1>1, <2>1
    <2>3. \A o \in Outputs : disk'[o] = IF o = w THEN x ELSE disk[o]
        <3> HIDE DEF w, x
        <3> QED BY <1>1, <2>1
    <2> QED BY <2>1, <2>2, <2>3
<1>3. CASE Who \notin Stored /\ ctx.top # 0 /\ disk' = [disk EXCEPT ![Who] = Made]
    <2> DEFINE w == Who
               x == Made
    <2>1. disk' = [disk EXCEPT ![w] = x]
        BY <1>3
    <2>2. disk' = [o \in Outputs |-> disk'[o]]
        <3> HIDE DEF w, x
        <3> QED BY <1>1, <2>1
    <2>3. \A o \in Outputs : disk'[o] = IF o = w THEN x ELSE disk[o]
        <3> HIDE DEF w, x
        <3> QED BY <1>1, <2>1
    <2> QED BY <1>3, <2>2, <2>3
<1>4. CASE disk' = disk
    BY <1>1, <1>4
<1> QED BY <1>2, <1>3, <1>4 DEF Write

LEMMA WriteBase ==
    ASSUME Base, Write
    PROVE  Base'
<1>1. op # "none" /\ p > 2 /\ n <= Len(Items(Phase))
    BY AtIs DEF Write, Base, At
<1>2. ContextOK /\ Own /\ Control /\ Rest
    BY <1>1, HasContext DEF Base
<1>3. calls' = calls /\ ctx' = ctx /\ source' = source /\ settings' = settings /\ (Goes \/ Raise)
    BY DEF Write
<1>4. Control' /\ (Own' \/ op' = "none")
    BY <1>1, <1>2, <1>3, GoesOn, RaiseEnds
<1>5. \A o \in Outputs : disk'[o] # disk[o] => disk'[o].gen = ctx.gen
    BY <1>2, WriteIs, MadeIs DEF ContextOK
<1>6. \A o \in Outputs : disk'[o] # None => disk'[o].gen \in 1..calls'
    BY <1>2, <1>3, <1>5 DEF ContextOK, Rest
<1>7. Rest'
    BY <1>2, <1>3, <1>6, WriteIs DEF Rest
<1> QED BY <1>1, <1>2, <1>3, <1>4, <1>7, SameContext, LaterStep

LEMMA BaseNext ==
    ASSUME Base, [Next]_vars
    PROVE  Base'
BY CallBase, StutterBase, EndPhaseBase, PreParseBase, LoadReposBase, GrowBase, PassBase,
   GenerateBase, WriteBase DEF Next, Calls

(***************************************************************************)
(* Whatever the plugins and the stages, the call that runs is at a step of *)
(* one of its phases, and what it works on has the shape it expects.       *)
(***************************************************************************)
THEOREM TypeCorrect == Spec => []TypeOK
<1>1. Init => Base
    BY BaseInit
<1>2. Base /\ [Next]_vars => Base'
    BY BaseNext
<1>3. Base => TypeOK
    <2> HAVE Base
    <2>1. op \in {"none"} \cup DOMAIN FirstPhase
        BY Stretches DEF Base, Control
    <2>2. op # "none" => p \in FirstPhase[op]..LastPhase[op] /\ n \in 1..Len(Items(Phase)) + 1
        BY DEF Base, Control
    <2>3. k \in 1..(MaxMods + 1) /\ calls \in 0..MaxCalls
        BY DEF Base, Control
    <2>4. source \in Sources /\ settings \in Configured \cup {None}
        BY DEF Base, Rest
    <2>5. ctx # None => /\ ctx.gen \in Gens /\ ctx.repos \in Configured \cup {None}
                        /\ ctx.mods \in Seq(Mods) /\ Len(ctx.mods) <= MaxMods
                        /\ ctx.top \in 0..Len(ctx.mods)
                        /\ DOMAIN ctx.outputs \subseteq Stored
        BY <2>3, Parts DEF Base, Held, ContextOK, Gens
    <2>6. \A o \in Outputs : disk[o] # None => disk[o].gen \in Gens
        BY <2>3, Parts DEF Base, Rest, Gens
    <2> QED BY <2>1, <2>2, <2>3, <2>4, <2>5, <2>6 DEF TypeOK
<1> QED BY <1>1, <1>2, <1>3, PTL DEF Spec

(***************************************************************************)
(* What is written was made of the context the pipeline has.               *)
(***************************************************************************)
THEOREM OwnContextWritten == Spec => WritesOwnContext
<1>1. Init => Base
    BY BaseInit
<1>2. Base /\ [Next]_vars => Base'
    BY BaseNext
<1>3. Base /\ [Next]_vars => [\A o \in Outputs : disk'[o] # disk[o] => disk'[o].gen = ctx.gen]_vars
    <2> SUFFICES ASSUME Base, Next, NEW o \in Outputs, disk'[o] # disk[o]
                 PROVE  disk'[o].gen = ctx.gen
        OBVIOUS
    <2>1. Write
        BY DEF Next, Call, EndPhase, PreParse, LoadRepos, Hook, ProcessInput, EndLoop, Skip,
               Transform, Validate, Generate, MakeDirs
    <2>2. op # "none" /\ p > 2
        BY <2>1, AtIs DEF Write, Base
    <2>3. ContextOK /\ Control /\ Rest
        BY <2>2, HasContext DEF Base
    <2> QED BY <2>1, <2>3, WriteIs, MadeIs DEF ContextOK
<1> QED BY <1>1, <1>2, <1>3, PTL DEF Spec, WritesOwnContext

-----------------------------------------------------------------------------
(***************************************************************************)
(* An output kept in a context stays there as it is.                       *)
(***************************************************************************)
THEOREM KeptOutputsStay == Spec => OutputsStay
<1> DEFINE Stays == ctx # None /\ ctx' # None /\ ctx'.gen = ctx.gen =>
                      \A o \in DOMAIN ctx.outputs :
                         o \in DOMAIN ctx'.outputs /\ ctx'.outputs[o] = ctx.outputs[o]
<1>1. Init => Base
    BY BaseInit
<1>2. Base /\ [Next]_vars => Base'
    BY BaseNext
<1>3. Base /\ [Next]_vars => [Stays]_vars
    <2> SUFFICES ASSUME Base, Next, ctx # None, ctx'.gen = ctx.gen
                 PROVE  \A o \in DOMAIN ctx.outputs :
                           o \in DOMAIN ctx'.outputs /\ ctx'.outputs[o] = ctx.outputs[o]
        OBVIOUS
    <2>1. ContextOK /\ Control
        BY DEF Base, Held
    <2>2. ASSUME NEW o \in Calls, Call(o) PROVE ctx'.outputs = ctx.outputs
        <3> DEFINE ms == [i \in 1..Len(ctx.mods) |-> Fresh(ctx.mods[i])]
        <3>1. ctx' = ctx \/ ctx' = [ctx EXCEPT !.mods = ms]
            BY <2>2 DEF Call
        <3> HIDE DEF ms
        <3> QED BY <2>1, <3>1 DEF ContextOK
    <2>3. CASE LoadRepos
        <3>1. op # "none" /\ p = 2 /\ n = 1
            BY <2>1, <2>3, AtIs DEF LoadRepos
        <3>2. op \in {"prepare", "run"} /\ ~Own
            BY <2>1, <3>1, Where DEF Calls, Own
        <3>3. ctx.gen < calls /\ ctx.gen \in Nat /\ calls \in Nat
            BY <2>1, <3>2, Parts DEF Base, Older, ContextOK, Control
        <3>4. ctx' = Context => ctx'.gen = calls
            BY DEF Context
        <3> QED BY <2>3, <3>3, <3>4 DEF LoadRepos
    <2>4. CASE Hook \/ ProcessInput \/ Transform \/ Validate
        <3>1. op # "none"
            <4>1. CASE Hook
                BY <4>1 DEF Hook, At
            <4>2. CASE ProcessInput \/ Transform \/ Validate
                BY <4>2 DEF ProcessInput, Transform, Validate, At
            <4> QED BY <2>4, <4>1, <4>2
        <3>2. Grows
            BY <2>1, <2>4, <3>1, AddGrows, InputGrows, TransformGrows, ValidateGrows DEF Hook
        <3> QED BY <3>2 DEF Grows
    <2>5. CASE Generate
        BY <2>1, <2>5, GenerateKeeps
    <2>6. ASSUME ctx' = ctx PROVE ctx'.outputs = ctx.outputs
        BY <2>6
    <2> QED BY <2>2, <2>3, <2>4, <2>5, <2>6
            DEF Next, Calls, EndPhase, PreParse, EndLoop, Skip, MakeDirs, Write
<1> QED BY <1>1, <1>2, <1>3, PTL DEF Spec, OutputsStay

(***************************************************************************)
(* Hooks are invoked in order of decreasing priority, and equals in the    *)
(* order they are installed.                                               *)
(***************************************************************************)
THEOREM HooksInOrder == Spec => HooksByPriority
<1> DEFINE InOrder == op # "none" /\ op' = op /\ p' = p /\ n' = n + 1 /\ Phase \in Hooks
                        /\ n' <= Len(Items(Phase)) => Before(Plugins, Who, Who')
<1>1. Init => Base
    BY BaseInit
<1>2. Base /\ [Next]_vars => Base'
    BY BaseNext
<1>3. Base => [InOrder]_vars
    <2> SUFFICES ASSUME Base, op # "none", p' = p, n' = n + 1, Phase \in Hooks,
                        n' <= Len(Items(Phase))
                 PROVE  Before(Plugins, Who, Who')
        OBVIOUS
    <2>1. Phase' = Phase
        BY DEF Phase
    <2>2. n \in Nat \ {0}
        BY Where DEF Base
    <2>3. Items(Phase) = Sorted(Plugins) /\ Len(Items(Phase)) = Len(Plugins)
        BY ItemsAre
    <2>4. Len(Plugins) \in Nat
        BY Parts
    <2>5. n \in 1..Len(Plugins) /\ n + 1 \in 1..Len(Plugins)
        BY <2>2, <2>3, <2>4
    <2>6. Who = Sorted(Plugins)[n]
        BY <2>3 DEF Who
    <2>7. Who' = Sorted(Plugins)[n + 1]
        BY <2>1, <2>3 DEF Who
    <2>8. /\ Who \in 1..Len(Plugins) /\ Rank(Plugins, Who) = n
          /\ Who' \in 1..Len(Plugins) /\ Rank(Plugins, Who') = n + 1
        BY <2>5, <2>6, <2>7, SortedRank, Parts
    <2> DEFINE a == Who
               b == Who'
    <2>9. a \in 1..Len(Plugins) /\ b \in 1..Len(Plugins) /\ Rank(Plugins, a) < Rank(Plugins, b)
        BY <2>2, <2>8
    <2> HIDE DEF a, b
    <2>10. Before(Plugins, a, b)
        BY <2>9, RankBefore, Parts
    <2> QED BY <2>10 DEF a, b
<1> QED BY <1>1, <1>2, <1>3, PTL DEF Spec, HooksByPriority

-----------------------------------------------------------------------------
(***************************************************************************)
(* How far the modules have come.                                          *)
(***************************************************************************)
LEMMA ServesTypes ==
    ASSUME ContextOK, NEW i \in 1..Len(ctx.mods)
    PROVE  /\ ctx.mods[i] \in Mods /\ ctx.mods[i].design \in BOOLEAN
           /\ ctx.mods[i].ran \in Seq(1..Len(Transforms))
           /\ ctx.mods[i].seen \in Seq(1..Len(Validations))
           /\ ctx.mods[i].since \in Nat /\ ctx.mods[i].from \in Nat
<1>1. ctx.mods[i] \in Mods
    BY DEF ContextOK
<1> QED BY <1>1, Parts DEF Mods

LEMMA SameServes ==
    ASSUME NEW i, Serves(i), ctx'.mods[i] = ctx.mods[i],
           Limit(7, Transforms, i)' = Limit(7, Transforms, i),
           Limit(10, Validations, i)' = Limit(10, Validations, i)
    PROVE  Serves(i)'
BY DEF Serves

\* A module that comes is served with the step under way, or the next one.
LEMMA NewServes ==
    ASSUME Control, op # "none", p' = p, NEW i, NEW d \in BOOLEAN, ctx'.mods[i] = Joins(d),
           p = 7 => Limit(7, Transforms, i)' = n,
           p = 10 => Limit(10, Validations, i)' = n
    PROVE  Serves(i)'
<1>1. /\ Joins(d).ran = <<>> /\ Joins(d).seen = <<>> /\ Joins(d).design = d
      /\ Joins(d).since = Missed("transform") /\ Joins(d).from = Missed("validate")
    BY JoinsIs
<1>2. p \in 1..18 /\ n \in Nat \ {0}
    BY Where
<1>3. /\ p < 7 => Missed("transform") = 0
      /\ p = 7 => Missed("transform") = n
      /\ p > 7 => Missed("transform") = Len(Transforms) + 1
      /\ Missed("transform") \in Nat
    BY MissedIs, ItemsAre, Parts
<1>4. /\ p < 10 => Missed("validate") = 0
      /\ p = 10 => Missed("validate") = n
      /\ p > 10 => Missed("validate") = Len(Validations) + 1
      /\ Missed("validate") \in Nat
    BY MissedIs, ItemsAre, Parts
<1> DEFINE l == Limit(7, Transforms, i)'
           m == Limit(10, Validations, i)'
<1>5. l \in Nat /\ (Missed("transform") = l \/ (Missed("transform") = 0 /\ l = 1))
    BY <1>2, <1>3, Parts DEF Limit
<1>6. m \in Nat /\ (Missed("validate") = m \/ (Missed("validate") = 0 /\ m = 1))
    BY <1>2, <1>4, Parts DEF Limit
<1> HIDE DEF l, m
<1>7. Part(<<>>, Transforms, d, Missed("transform"), l)
    BY <1>3, <1>5, PartNew, Parts
<1>8. Part(<<>>, Validations, d, Missed("validate"), m)
    BY <1>4, <1>6, PartNew, Parts
<1> QED BY <1>1, <1>7, <1>8 DEF Serves, l, m

Progress == Serving => \A i \in 1..Len(ctx.mods) : Serves(i)

LEMMA NotServing ==
    ASSUME ~Serving'
    PROVE  Progress'
BY DEF Progress

LEMMA CallCourse ==
    ASSUME Base, NEW o \in Calls, Call(o)
    PROVE  Progress'
<1>1. op' = o /\ p' = FirstPhase[o] /\ n' = 1 /\ k' = 1
    BY DEF Call
<1>2. CASE o # "process"
    BY <1>1, <1>2, Stretches DEF Progress, Serving, Own
<1>3. CASE o = "process"
    <2> DEFINE ms == [i \in 1..Len(ctx.mods) |-> Fresh(ctx.mods[i])]
    <2>1. ContextOK /\ p' = 6
        BY <1>1, <1>3, Stretches DEF Call, Base, Held
    <2>2. ctx' = [ctx EXCEPT !.mods = ms]
        BY <1>3 DEF Call
    <2>3. Len(ctx.mods) \in Nat /\ DOMAIN ms = 1..Len(ctx.mods)
        BY <2>1 DEF ContextOK
    <2>4. ctx'.mods = ms /\ Len(ctx'.mods) = Len(ctx.mods)
        <3>1. ctx'.mods = ms
            <4> HIDE DEF ms
            <4> QED BY <2>1, <2>2 DEF ContextOK
        <3>2. ctx'.mods \in Seq(Mods)
            BY <1>3, CallBase DEF Base, Held, Own, Call, ContextOK
        <3> QED BY <2>3, <3>1, <3>2
    <2> SUFFICES ASSUME NEW i \in 1..Len(ctx.mods) PROVE Serves(i)'
        BY <2>4 DEF Progress
    <2>6. ctx'.mods[i] = Module(ctx.mods[i].design, 0, 0)
        BY <2>4 DEF Fresh
    <2>7. /\ ctx'.mods[i].ran = <<>> /\ ctx'.mods[i].seen = <<>>
          /\ ctx'.mods[i].since = 0 /\ ctx'.mods[i].from = 0
        BY <2>6 DEF Module
    <2>8. Limit(7, Transforms, i)' = 1 /\ Limit(10, Validations, i)' = 1
        BY <2>1 DEF Limit
    <2> DEFINE d == ctx'.mods[i].design
    <2> HIDE DEF d
    <2>9. Part(<<>>, Transforms, d, 0, 1) /\ Part(<<>>, Validations, d, 0, 1)
        BY PartNew, Parts
    <2> QED BY <2>7, <2>8, <2>9 DEF Serves, d
<1> QED BY <1>2, <1>3

LEMMA EndPhaseCourse ==
    ASSUME Course, EndPhase
    PROVE  Progress'
<1>1. ctx' = ctx /\ Control /\ op # "none"
    BY DEF EndPhase, Course, Base
<1>2. CASE op' = op /\ p' = p + 1 /\ n' = 1 /\ k' = 1
    <2>1. k = 1 /\ n = Len(Items(Phase)) + 1 /\ (Own' => Own)
        BY <1>1, <1>2, EndMoves
    <2>2. Serving' => Serving
        BY <1>2, <2>1 DEF Serving
    <2>3. p \in 1..18
        BY <1>1, Where
    <2>4. p = 7 => n = Len(Transforms) + 1
        <3> HAVE p = 7
        <3>1. Phase = "transform"
            BY PhaseNames DEF Phase
        <3> QED BY <2>1, <3>1, ItemsAre
    <2>5. p = 10 => n = Len(Validations) + 1
        <3> HAVE p = 10
        <3>1. Phase = "validate"
            BY PhaseNames DEF Phase
        <3> QED BY <2>1, <3>1, ItemsAre
    <2> SUFFICES ASSUME NEW i \in 1..Len(ctx.mods), Serving PROVE Serves(i)'
        BY <1>1, <2>2 DEF Progress
    <2>6. Limit(7, Transforms, i)' = Limit(7, Transforms, i)
        BY <1>2, <2>1, <2>3, <2>4 DEF Limit
    <2>7. Limit(10, Validations, i)' = Limit(10, Validations, i)
        BY <1>2, <2>1, <2>3, <2>5 DEF Limit
    <2> QED BY <1>1, <2>6, <2>7, SameServes DEF Course
<1>3. CASE op' = "none"
    BY <1>3 DEF Progress, Serving, Own
<1> QED BY <1>1, <1>2, <1>3, EndMoves

-----------------------------------------------------------------------------
LEMMA FirstStepsCourse ==
    ASSUME Base, PreParse \/ LoadRepos
    PROVE  Progress'
<1>1. op # "none" /\ p \in {1, 2} /\ n <= Len(Items(Phase)) /\ Control
    <2>1. At("pre_parse") \/ At("repos")
        BY DEF PreParse, LoadRepos
    <2> QED BY <2>1, AtIs DEF Base, At
<1>2. op # "process" /\ calls' = calls
    BY <1>1, Where DEF PreParse, LoadRepos
<1>3. CASE Raise
    BY <1>1, <1>2, <1>3, RaiseEnds, NotServing
<1>4. CASE PreParse /\ Goes
    <2>1. p = 1
        BY <1>1, <1>4, AtIs DEF PreParse
    <2>2. op' = op /\ p' = p
        BY <1>4 DEF Goes
    <2> QED BY <1>2, <2>1, <2>2, NotServing DEF Serving, Own
<1>5. CASE ctx' = Context
    <2>1. ctx'.mods = <<>>
        BY <1>5 DEF Context
    <2> QED BY <2>1 DEF Progress
<1> QED BY <1>3, <1>4, <1>5 DEF PreParse, LoadRepos

\* A step outside the loops over modules: those there are as they were.
LEMMA PlainCourse ==
    ASSUME Course, Hook \/ ProcessInput \/ Generate \/ MakeDirs \/ Write
    PROVE  Progress'
<1>1. op # "none" /\ p > 2 /\ p \notin {7, 10} /\ n <= Len(Items(Phase)) /\ Control
    <2>1. At("inputs") \/ At("generate") \/ At("mkdir") \/ At("write")
          \/ (Phase \in Hooks /\ At(Phase))
        BY DEF Hook, ProcessInput, Generate, MakeDirs, Write
    <2>2. Control
        BY DEF Course, Base
    <2>3. CASE At("inputs") \/ At("generate") \/ At("mkdir") \/ At("write")
        BY <2>2, <2>3, AtIs DEF At
    <2>4. CASE Phase \in Hooks /\ At(Phase)
        <3> DEFINE ph == Phase
        <3>1. ph \in Hooks /\ At(ph)
            BY <2>4
        <3> HIDE DEF ph
        <3> QED BY <2>2, <3>1, AtIs DEF At
    <2> QED BY <2>1, <2>3, <2>4
<1>2. ContextOK
    BY <1>1, HasContext DEF Course
<1>3. calls' = calls /\ (Goes \/ Raise)
    BY DEF Hook, ProcessInput, Generate, MakeDirs, Write
<1>4. CASE Raise
    BY <1>1, <1>3, <1>4, RaiseEnds, NotServing
<1>5. CASE Goes
    <2>1. op' = op /\ p' = p /\ k' = 1 /\ (Own' => Own)
        BY <1>1, <1>3, <1>5, GoesOn
    <2>2. Serving' => Serving
        BY <2>1 DEF Serving
    <2>3. \A i : /\ Limit(7, Transforms, i)' = Limit(7, Transforms, i)
                 /\ Limit(10, Validations, i)' = Limit(10, Validations, i)
        <3>1. p \in 1..18
            BY <1>1, Where
        <3> QED BY <1>1, <2>1, <3>1 DEF Limit
    <2>4. Keeps /\ \/ Len(ctx'.mods) = Len(ctx.mods)
                   \/ Grows
        <3>1. CASE Hook \/ ProcessInput
            BY <1>1, <1>2, <3>1, AddGrows, InputGrows DEF Hook
        <3>2. CASE Generate
            <4>1. ctx'.mods = ctx.mods
                BY <1>2, <3>2, GenerateKeeps
            <4> QED BY <4>1 DEF Keeps
        <3>3. CASE MakeDirs \/ Write
            BY <3>3 DEF Keeps, MakeDirs, Write
        <3> QED BY <3>1, <3>2, <3>3
    <2> SUFFICES ASSUME Serving, NEW i \in 1..Len(ctx'.mods) PROVE Serves(i)'
        BY <2>2 DEF Progress
    <2>5. Len(ctx.mods) \in Nat
        BY <1>2 DEF ContextOK
    <2>6. CASE i \in 1..Len(ctx.mods)
        <3>1. Serves(i) /\ ctx'.mods[i] = ctx.mods[i]
            BY <2>4, <2>6 DEF Course, Keeps
        <3> QED BY <2>3, <3>1, SameServes
    <2>7. CASE i \notin 1..Len(ctx.mods)
        <3>1. Grows
            BY <2>4, <2>7
        <3>2. i \in Len(ctx.mods) + 1..Len(ctx'.mods)
            BY <2>5, <2>7, <3>1 DEF Grows
        <3>3. PICK d \in BOOLEAN : ctx'.mods[i] = Joins(d)
            BY <3>1, <3>2 DEF Grows
        <3> QED BY <1>1, <2>1, <3>3, NewServes
    <2> QED BY <2>6, <2>7
<1> QED BY <1>3, <1>4, <1>5

LEMMA EndLoopCourse ==
    ASSUME Course, EndLoop("transform") \/ EndLoop("validate")
    PROVE  Progress'
<1>1. op # "none" /\ p \in {7, 10} /\ n <= Len(Items(Phase)) /\ Control
    <2>1. At("transform") \/ At("validate")
        BY DEF EndLoop
    <2> QED BY <2>1, AtIs DEF Course, Base, At
<1>2. calls' = calls /\ ctx' = ctx /\ k > Len(ctx.mods) /\ Goes
    BY DEF EndLoop
<1>3. op' = op /\ p' = p /\ n' = n + 1 /\ k' = 1 /\ (Own' => Own)
    BY <1>1, <1>2, GoesOn
<1>4. ContextOK /\ n \in Nat /\ k \in Nat
    BY <1>1, HasContext, Where DEF Course
<1> SUFFICES ASSUME Serving, NEW i \in 1..Len(ctx.mods) PROVE Serves(i)'
    BY <1>2, <1>3 DEF Progress, Serving
<1>5. Len(ctx.mods) \in Nat
    BY <1>4 DEF ContextOK
<1>6. i < k /\ ~(i < k')
    BY <1>2, <1>3, <1>4, <1>5
<1>7. /\ Limit(7, Transforms, i)' = Limit(7, Transforms, i)
      /\ Limit(10, Validations, i)' = Limit(10, Validations, i)
    BY <1>1, <1>3, <1>4, <1>6 DEF Limit
<1> QED BY <1>2, <1>7, SameServes DEF Course

\* A step of an inner loop leaves the limits of the other modules.
LEMMA LoopLimits ==
    ASSUME p' = p, n' = n, k' = k + 1, NEW i \in Nat, k \in Nat, p \in 1..18, n \in Nat
    PROVE  /\ i # k => /\ Limit(7, Transforms, i)' = Limit(7, Transforms, i)
                       /\ Limit(10, Validations, i)' = Limit(10, Validations, i)
           /\ p # 7 => Limit(7, Transforms, i)' = Limit(7, Transforms, i)
           /\ p # 10 => Limit(10, Validations, i)' = Limit(10, Validations, i)
           /\ p = 7 /\ i = k => /\ Limit(7, Transforms, i) = n
                                /\ Limit(7, Transforms, i)' = n + 1
           /\ p = 10 /\ i = k => /\ Limit(10, Validations, i) = n
                                 /\ Limit(10, Validations, i)' = n + 1
           /\ p = 7 /\ i > k => Limit(7, Transforms, i)' = n
           /\ p = 10 /\ i > k => Limit(10, Validations, i)' = n
BY DEF Limit

LEMMA SkipCourse ==
    ASSUME Course, Skip
    PROVE  Progress'
<1>1. op # "none" /\ p \in {7, 10} /\ n <= Len(Items(Phase)) /\ Control
    <2>1. At("transform") \/ At("validate")
        BY DEF Skip
    <2> QED BY <2>1, AtIs DEF Course, Base, At
<1>2. calls' = calls /\ ctx' = ctx /\ Loop
    BY DEF Skip
<1>3. ContextOK /\ n \in Nat /\ k \in Nat \ {0} /\ p \in 1..18
    BY <1>1, HasContext, Where DEF Course
<1>4. Len(ctx.mods) \in 0..MaxMods
    BY <1>3 DEF ContextOK
<1>5. op' = op /\ p' = p /\ n' = n /\ k' = k + 1 /\ (Own' <=> Own) /\ k <= Len(ctx.mods)
    BY <1>1, <1>2, <1>4, LoopGoesOn
<1> SUFFICES ASSUME Serving, NEW i \in 1..Len(ctx.mods) PROVE Serves(i)'
    BY <1>2, <1>5 DEF Progress, Serving
<1>6. Serves(i)
    BY DEF Course
<1>7. CASE i # k
    BY <1>2, <1>3, <1>5, <1>6, <1>7, LoopLimits, SameServes
<1>8. CASE i = k /\ At("transform") /\ Skips(Transforms[Who])
    <2>1. p = 7 /\ n \in 1..Len(Transforms) /\ Phase = "transform"
        BY <1>1, <1>8, AtIs
    <2>2. Who = Sorted(Priorities(Transforms))[n]
        BY <2>1, ItemsAre DEF Who
    <2>3. Transforms[Who].design_only /\ ~ctx.mods[i].design
        BY <1>8 DEF Skips
    <2>4. Limit(7, Transforms, i) = n /\ Limit(7, Transforms, i)' = n + 1
          /\ Limit(10, Validations, i)' = Limit(10, Validations, i)
        BY <1>3, <1>5, <1>8, <2>1, LoopLimits
    <2>5. Part(ctx.mods[i].ran, Transforms, ctx.mods[i].design, ctx.mods[i].since, n)
        BY <1>6, <2>4 DEF Serves
    <2>6. Part(ctx.mods[i].ran, Transforms, ctx.mods[i].design, ctx.mods[i].since, n + 1)
        BY <1>3, <2>1, <2>2, <2>3, <2>5, ServesTypes, PartSkips, Parts
    <2> QED BY <1>2, <1>6, <2>4, <2>6 DEF Serves
<1>9. CASE i = k /\ At("validate") /\ Skips(Validations[Who])
    <2>1. p = 10 /\ n \in 1..Len(Validations) /\ Phase = "validate"
        BY <1>1, <1>9, AtIs
    <2>2. Who = Sorted(Priorities(Validations))[n]
        BY <2>1, ItemsAre DEF Who
    <2>3. Validations[Who].design_only /\ ~ctx.mods[i].design
        BY <1>9 DEF Skips
    <2>4. Limit(10, Validations, i) = n /\ Limit(10, Validations, i)' = n + 1
          /\ Limit(7, Transforms, i)' = Limit(7, Transforms, i)
        BY <1>3, <1>5, <1>9, <2>1, LoopLimits
    <2>5. Part(ctx.mods[i].seen, Validations, ctx.mods[i].design, ctx.mods[i].from, n)
        BY <1>6, <2>4 DEF Serves
    <2>6. Part(ctx.mods[i].seen, Validations, ctx.mods[i].design, ctx.mods[i].from, n + 1)
        BY <1>3, <2>1, <2>2, <2>3, <2>5, ServesTypes, PartSkips, Parts
    <2> QED BY <1>2, <1>6, <2>4, <2>6 DEF Serves
<1> QED BY <1>7, <1>8, <1>9 DEF Skip

-----------------------------------------------------------------------------
LEMMA TransformCourse ==
    ASSUME Course, Transform
    PROVE  Progress'
<1>1. op # "none" /\ p = 7 /\ n \in 1..Len(Transforms) /\ Phase = "transform"
      /\ n <= Len(Items(Phase)) /\ Control
    BY AtIs DEF Transform, Course, Base, At
<1>2. ContextOK /\ n \in Nat /\ k \in Nat \ {0} /\ p \in 1..18
    BY <1>1, HasContext, Where DEF Course
<1>3. /\ Grows /\ k \in 1..Len(ctx.mods)
      /\ \A i \in 1..Len(ctx.mods) : i # k => ctx'.mods[i] = ctx.mods[i]
      /\ ctx'.mods[k] = [ctx.mods[k] EXCEPT !.ran = Append(@, Who)]
    BY <1>1, <1>2, TransformGrows
<1>4. Len(ctx.mods) \in 0..MaxMods
    BY <1>2 DEF ContextOK
<1>5. calls' = calls
    BY DEF Transform
<1>6. CASE Raise
    BY <1>1, <1>5, <1>6, RaiseEnds, NotServing
<1>7. CASE Loop
    <2>1. op' = op /\ p' = p /\ n' = n /\ k' = k + 1 /\ (Own' <=> Own)
        BY <1>1, <1>4, <1>5, <1>7, LoopGoesOn
    <2> SUFFICES ASSUME Serving, NEW i \in 1..Len(ctx'.mods) PROVE Serves(i)'
        BY <2>1 DEF Progress, Serving
    <2>2. CASE i \in 1..Len(ctx.mods) /\ i # k
        <3>1. ctx'.mods[i] = ctx.mods[i] /\ Serves(i)
            BY <1>3, <2>2 DEF Course
        <3> QED BY <1>2, <2>1, <2>2, <3>1, LoopLimits, SameServes
    <2>3. CASE i = k
        <3>1. Serves(i) /\ i \in 1..Len(ctx.mods)
            BY <1>3, <2>3 DEF Course
        <3>2. Limit(7, Transforms, i) = n /\ Limit(7, Transforms, i)' = n + 1
              /\ Limit(10, Validations, i)' = Limit(10, Validations, i)
            BY <1>1, <1>2, <2>1, <2>3, LoopLimits
        <3> DEFINE m == ctx.mods[i]
                   new == ctx'.mods[i]
        <3>3. /\ m \in Mods /\ m.design \in BOOLEAN /\ m.since \in Nat
              /\ m.ran \in Seq(1..Len(Transforms))
            BY <1>2, <3>1, ServesTypes
        <3>4. new = [m EXCEPT !.ran = Append(@, Who)]
            BY <1>3, <2>3
        <3>5. /\ new.ran = Append(m.ran, Who) /\ new.seen = m.seen /\ new.since = m.since
              /\ new.from = m.from /\ new.design = m.design
            <4> HIDE DEF m, new
            <4> QED BY <3>3, <3>4 DEF Mods
        <3>6. Who = Sorted(Priorities(Transforms))[n]
            BY <1>1, ItemsAre DEF Who
        <3>7. Transforms[Who].design_only => m.design
            BY <2>3 DEF Transform, Skips
        <3>8. Part(m.ran, Transforms, m.design, m.since, n)
            BY <3>1, <3>2 DEF Serves
        <3>9. Part(Append(m.ran, Who), Transforms, m.design, m.since, n + 1)
            <4> HIDE DEF m
            <4> QED BY <1>1, <3>3, <3>6, <3>7, <3>8, PartRuns, Parts
        <3>10. Part(new.ran, Transforms, new.design, new.since, Limit(7, Transforms, i)')
            BY <3>2, <3>5, <3>9
        <3>11. Part(new.seen, Validations, new.design, new.from, Limit(10, Validations, i)')
            BY <3>1, <3>2, <3>5 DEF Serves
        <3> QED BY <3>10, <3>11 DEF Serves
    <2>4. CASE i \notin 1..Len(ctx.mods)
        <3>1. i \in Len(ctx.mods) + 1..Len(ctx'.mods) /\ i > k
            BY <1>3, <1>4, <2>4
        <3>2. PICK d \in BOOLEAN : ctx'.mods[i] = Joins(d)
            BY <1>3, <3>1 DEF Grows
        <3>3. Limit(7, Transforms, i)' = n
            BY <1>1, <1>2, <2>1, <3>1, LoopLimits
        <3> QED BY <1>1, <2>1, <3>2, <3>3, NewServes
    <2> QED BY <2>2, <2>3, <2>4
<1> QED BY <1>6, <1>7 DEF Transform

LEMMA ValidateCourse ==
    ASSUME Course, Validate
    PROVE  Progress'
<1>1. op # "none" /\ p = 10 /\ n \in 1..Len(Validations) /\ Phase = "validate"
      /\ n <= Len(Items(Phase)) /\ Control
    BY AtIs DEF Validate, Course, Base, At
<1>2. ContextOK /\ n \in Nat /\ k \in Nat \ {0} /\ p \in 1..18
    BY <1>1, HasContext, Where DEF Course
<1>3. /\ Grows /\ k \in 1..Len(ctx.mods)
      /\ \A i \in 1..Len(ctx.mods) : i # k => ctx'.mods[i] = ctx.mods[i]
      /\ ctx'.mods[k] = [ctx.mods[k] EXCEPT !.seen = Append(@, Who)] \/ Raise
    BY <1>1, <1>2, ValidateGrows
<1>4. Len(ctx.mods) \in 0..MaxMods
    BY <1>2 DEF ContextOK
<1>5. calls' = calls
    BY DEF Validate
<1>6. CASE Raise
    BY <1>1, <1>5, <1>6, RaiseEnds, NotServing
<1>7. CASE Loop
    <2>1. op' = op /\ p' = p /\ n' = n /\ k' = k + 1 /\ (Own' <=> Own)
        BY <1>1, <1>4, <1>5, <1>7, LoopGoesOn
    <2>2. op' # "none"
        BY <1>1, <2>1
    <2> SUFFICES ASSUME Serving, NEW i \in 1..Len(ctx'.mods) PROVE Serves(i)'
        BY <2>1 DEF Progress, Serving
    <2>3. CASE i \in 1..Len(ctx.mods) /\ i # k
        <3>1. ctx'.mods[i] = ctx.mods[i] /\ Serves(i)
            BY <1>3, <2>3 DEF Course
        <3> QED BY <1>2, <2>1, <2>3, <3>1, LoopLimits, SameServes
    <2>4. CASE i = k
        <3>1. Serves(i) /\ i \in 1..Len(ctx.mods)
            BY <1>3, <2>4 DEF Course
        <3>2. Limit(10, Validations, i) = n /\ Limit(10, Validations, i)' = n + 1
              /\ Limit(7, Transforms, i)' = Limit(7, Transforms, i)
            BY <1>1, <1>2, <2>1, <2>4, LoopLimits
        <3> DEFINE m == ctx.mods[i]
                   new == ctx'.mods[i]
        <3>3. /\ m \in Mods /\ m.design \in BOOLEAN /\ m.from \in Nat
              /\ m.seen \in Seq(1..Len(Validations))
            BY <1>2, <3>1, ServesTypes
        <3>4. new = [m EXCEPT !.seen = Append(@, Who)]
            BY <1>3, <2>2, <2>4 DEF Raise
        <3>5. /\ new.seen = Append(m.seen, Who) /\ new.ran = m.ran /\ new.since = m.since
              /\ new.from = m.from /\ new.design = m.design
            <4> HIDE DEF m, new
            <4> QED BY <3>3, <3>4 DEF Mods
        <3>6. Who = Sorted(Priorities(Validations))[n]
            BY <1>1, ItemsAre DEF Who
        <3>7. Validations[Who].design_only => m.design
            BY <2>4 DEF Validate, Skips
        <3>8. Part(m.seen, Validations, m.design, m.from, n)
            BY <3>1, <3>2 DEF Serves
        <3>9. Part(Append(m.seen, Who), Validations, m.design, m.from, n + 1)
            <4> HIDE DEF m
            <4> QED BY <1>1, <3>3, <3>6, <3>7, <3>8, PartRuns, Parts
        <3>10. Part(new.seen, Validations, new.design, new.from, Limit(10, Validations, i)')
            BY <3>2, <3>5, <3>9
        <3>11. Part(new.ran, Transforms, new.design, new.since, Limit(7, Transforms, i)')
            BY <3>1, <3>2, <3>5 DEF Serves
        <3> QED BY <3>10, <3>11 DEF Serves
    <2>5. CASE i \notin 1..Len(ctx.mods)
        <3>1. i \in Len(ctx.mods) + 1..Len(ctx'.mods) /\ i > k
            BY <1>3, <1>4, <2>5
        <3>2. PICK d \in BOOLEAN : ctx'.mods[i] = Joins(d)
            BY <1>3, <3>1 DEF Grows
        <3>3. Limit(10, Validations, i)' = n
            BY <1>1, <1>2, <2>1, <3>1, LoopLimits
        <3> QED BY <1>1, <2>1, <3>2, <3>3, NewServes
    <2> QED BY <2>3, <2>4, <2>5
<1> QED BY <1>6, <1>7 DEF Validate

LEMMA CourseInit ==
    ASSUME Init
    PROVE  Course
BY BaseInit DEF Init, Course, Serving

LEMMA CourseNext ==
    ASSUME Course, [Next]_vars
    PROVE  Course'
<1>1. Base /\ Base'
    BY BaseNext DEF Course
<1>2. Course' <=> Base' /\ Progress'
    BY DEF Course, Progress
<1>3. CASE UNCHANGED vars
    <2>1. ctx' = ctx /\ (Serving' <=> Serving)
        BY <1>3 DEF vars, Serving, Own
    <2>2. \A i : /\ Limit(7, Transforms, i)' = Limit(7, Transforms, i)
                 /\ Limit(10, Validations, i)' = Limit(10, Validations, i)
        BY <1>3 DEF vars, Limit
    <2>3. Progress'
        <3> SUFFICES ASSUME Serving, NEW i \in 1..Len(ctx.mods) PROVE Serves(i)'
            BY <2>1 DEF Progress
        <3> QED BY <2>1, <2>2, SameServes DEF Course
    <2> QED BY <1>1, <1>2, <2>3
<1>4. CASE Next
    <2>1. Progress'
        BY <1>1, <1>4, CallCourse, EndPhaseCourse, FirstStepsCourse, PlainCourse, EndLoopCourse,
           SkipCourse, TransformCourse, ValidateCourse DEF Next, Calls
    <2> QED BY <1>1, <1>2, <2>1
<1> QED BY <1>3, <1>4

(***************************************************************************)
(* Each module, whenever it was loaded, has been through each              *)
(* transformation and validation that applies to it from then on, once and *)
(* in the order of priorities, when the loops are over.                    *)
(***************************************************************************)
LEMMA AllServed ==
    ASSUME Course, Serving, NEW i \in 1..Len(ctx.mods), op # "none"
    PROVE  /\ p > 7 => Transformed(ctx.mods[i])
           /\ p > 10 => Validated(ctx.mods[i])
<1>1. Serves(i) /\ Control /\ ContextOK
    <2>1. Own
        BY DEF Serving, Own
    <2> QED BY <2>1 DEF Course, Base, Held
<1>2. p \in 1..18
    BY <1>1, Where
<1> DEFINE m == ctx.mods[i]
<1>3. m.ran \in Seq(1..Len(Transforms)) /\ m.seen \in Seq(1..Len(Validations))
    BY <1>1, ServesTypes
<1>4. p > 7 => Part(m.ran, Transforms, m.design, m.since, Len(Transforms) + 1)
    BY <1>1, <1>2 DEF Serves, Limit
<1>5. p > 10 => Part(m.seen, Validations, m.design, m.from, Len(Validations) + 1)
    BY <1>1, <1>2 DEF Serves, Limit
<1> HIDE DEF m
<1>6. p > 7 => Transformed(m)
    BY <1>3, <1>4, PartServed, Parts DEF Transformed
<1>7. p > 10 => Validated(m)
    BY <1>3, <1>5, PartServed, Parts DEF Validated
<1> QED BY <1>6, <1>7 DEF m

THEOREM ModulesServed == Spec => []ServedFromBirth
<1>1. Init => Course
    BY CourseInit
<1>2. Course /\ [Next]_vars => Course'
    BY CourseNext
<1>3. Course => ServedFromBirth
    <2> SUFFICES ASSUME Course, op \in {"process", "run"}, ctx # None, NEW i \in 1..Len(ctx.mods)
                 PROVE  /\ Past("transform") => Transformed(ctx.mods[i])
                        /\ Past("validate") => Validated(ctx.mods[i])
        BY DEF ServedFromBirth
    <2>1. Control /\ p \in 1..18 /\ op # "none"
        BY Where DEF Course, Base
    <2>2. (Past("transform") <=> p > 7) /\ (Past("validate") <=> p > 10)
        BY <2>1, PastIs
    <2>3. p > 7 => Serving
        BY <2>1 DEF Serving, Own
    <2> QED BY <2>1, <2>2, <2>3, AllServed
<1> QED BY <1>1, <1>2, <1>3, PTL DEF Spec

-----------------------------------------------------------------------------
(***************************************************************************)
(* What is kept of a processed module: the outputs in the context, and     *)
(* what was written of them or, in a run, of the top module.               *)
(***************************************************************************)
LEMMA TopGood ==
    ASSUME Course, op \in {"process", "run"}, p > 10
    PROVE  Good(Made.of)
<1>1. Control /\ op # "none"
    BY DEF Course, Base
<1>2. p \in 1..18
    BY <1>1, Where
<1>3. Serving /\ ContextOK
    BY <1>1, <1>2, HasContext DEF Serving, Own, Course
<1>4. ctx.top # 0 => ctx.top \in 1..Len(ctx.mods)
    BY <1>3 DEF ContextOK
<1>5. CASE ctx.top = 0
    BY <1>5, MadeIs DEF Good
<1>6. CASE ctx.top # 0
    <2> DEFINE t == ctx.top
    <2>1. t \in 1..Len(ctx.mods) /\ Made.of = ctx.mods[t]
        BY <1>4, <1>6, MadeIs
    <2> HIDE DEF t
    <2>2. Transformed(ctx.mods[t]) /\ Validated(ctx.mods[t])
        BY <1>1, <1>2, <1>3, <2>1, AllServed
    <2> QED BY <2>1, <2>2 DEF Good
<1> QED BY <1>5, <1>6

Kept == Held => \A o \in DOMAIN ctx.outputs : Good(ctx.outputs[o].of)
Written == \A o \in Stored : disk[o] # None => Good(disk[o].of)
RunWritten == op = "run" => \A o \in Outputs :
                 disk[o] # None /\ disk[o].gen = calls => Good(disk[o].of)

LEMMA SameDisk ==
    ASSUME Written, RunWritten, disk' = disk, calls' = calls, op' \in {op, "none"}
    PROVE  Written' /\ RunWritten'
BY DEF Written, RunWritten

LEMMA WorthNext ==
    ASSUME Course, Kept, Written, RunWritten, [Next]_vars
    PROVE  Kept' /\ Written' /\ RunWritten'
<1>1. Base /\ Control /\ Rest
    BY DEF Course, Base
<1>2. Held => ContextOK
    BY DEF Course, Base
<1>3. ASSUME NEW o \in Calls, Call(o)
      PROVE  Kept' /\ Written' /\ RunWritten'
    <2>1. /\ op' = o /\ calls' = calls + 1 /\ disk' = disk /\ p' = FirstPhase[o] /\ n' = 1
          /\ o \in {"process", "build"} => ctx # None
        BY <1>3 DEF Call
    <2>2. ctx # None => Held /\ ContextOK
        BY <1>2 DEF Held
    <2>3. ctx # None => ctx'.outputs = ctx.outputs
        <3> HAVE ctx # None
        <3> DEFINE ms == [i \in 1..Len(ctx.mods) |-> Fresh(ctx.mods[i])]
        <3>1. ctx' = ctx \/ ctx' = [ctx EXCEPT !.mods = ms]
            BY <1>3 DEF Call
        <3> HIDE DEF ms
        <3> QED BY <2>2, <3>1 DEF ContextOK
    <2>4. Held' => ctx # None
        <3>1. Own' => o \in {"process", "build"}
            BY <2>1, Stretches DEF Own
        <3>2. o \notin {"process", "build"} => ctx' = ctx
            BY <1>3 DEF Call
        <3> QED BY <2>1, <3>1, <3>2 DEF Held
    <2>5. Kept'
        BY <2>2, <2>3, <2>4 DEF Kept
    <2>6. Written'
        BY <2>1 DEF Written
    <2>7. \A x \in Outputs : disk[x] # None => disk[x].gen # calls + 1
        BY <1>1, Parts DEF Rest, Control
    <2> QED BY <2>1, <2>5, <2>6, <2>7 DEF RunWritten
<1>4. ASSUME UNCHANGED vars
      PROVE  Kept' /\ Written' /\ RunWritten'
    <2>1. Held' <=> Held
        BY <1>4 DEF vars, Held, Own
    <2> QED BY <1>4, <2>1 DEF vars, Kept, Written, RunWritten
<1>5. ASSUME EndPhase \/ PreParse
      PROVE  Kept' /\ Written' /\ RunWritten'
    <2>1. ctx' = ctx /\ disk' = disk /\ calls' = calls
        BY <1>5 DEF EndPhase, PreParse
    <2>2. op' \in {op, "none"} /\ (Own' => Own)
        <3>1. CASE EndPhase
            BY <1>1, <3>1, EndMoves
        <3>2. CASE PreParse
            <4>1. op # "none" /\ p = 1 /\ n <= Len(Items(Phase))
                BY <1>1, <3>2, AtIs DEF PreParse, At
            <4>2. Goes \/ Raise
                BY <3>2 DEF PreParse
            <4> QED BY <1>1, <2>1, <4>1, <4>2, GoesOn, RaiseEnds
        <3> QED BY <1>5, <3>1, <3>2
    <2>3. Kept'
        BY <2>1, <2>2 DEF Kept, Held
    <2> QED BY <2>1, <2>2, <2>3, SameDisk
<1>6. ASSUME LoadRepos
      PROVE  Kept' /\ Written' /\ RunWritten'
    <2>1. disk' = disk /\ calls' = calls /\ ((ctx' = Context /\ Goes) \/ (ctx' = ctx /\ Raise))
        BY <1>6 DEF LoadRepos
    <2>2. op' \in {op, "none"}
        BY <2>1 DEF Goes, Raise
    <2>3. ctx' = Context => Kept'
        <3> HAVE ctx' = Context
        <3>1. DOMAIN ctx'.outputs = {}
            BY DEF Context
        <3> QED BY <3>1 DEF Kept
    <2>4. ctx' = ctx /\ Raise => Kept'
        BY <1>1, <2>1, RaiseEnds DEF Kept, Held
    <2> QED BY <2>1, <2>2, <2>3, <2>4, SameDisk
<1>7. ASSUME Hook \/ ProcessInput \/ Transform \/ Validate
      PROVE  Kept' /\ Written' /\ RunWritten'
    <2>1. op # "none" /\ p > 2
        <3>1. CASE Hook
            <4> DEFINE ph == Phase
            <4>1. ph \in Hooks /\ At(ph)
                BY <3>1 DEF Hook
            <4> HIDE DEF ph
            <4> QED BY <1>1, <4>1, AtIs
        <3>2. CASE ProcessInput \/ Transform \/ Validate
            <4>1. At("inputs") \/ At("transform") \/ At("validate")
                BY <3>2 DEF ProcessInput, Transform, Validate
            <4> QED BY <1>1, <4>1, AtIs
        <3> QED BY <1>7, <3>1, <3>2
    <2>2. ContextOK /\ Held
        BY <1>1, <1>2, <2>1, StartsOwn
    <2>3. Grows
        BY <1>1, <1>7, <2>1, <2>2, AddGrows, InputGrows, TransformGrows, ValidateGrows DEF Hook
    <2>4. ctx'.outputs = ctx.outputs
        BY <2>3 DEF Grows
    <2>5. Kept'
        BY <2>2, <2>4 DEF Kept
    <2>6. disk' = disk /\ calls' = calls /\ op' \in {op, "none"}
        BY <1>7 DEF Hook, ProcessInput, Transform, Validate, Goes, Raise, Loop
    <2> QED BY <2>5, <2>6, SameDisk
<1>8. ASSUME EndLoop("transform") \/ EndLoop("validate") \/ Skip \/ MakeDirs
      PROVE  Kept' /\ Written' /\ RunWritten'
    <2>1. op # "none" /\ p > 2
        <3>1. At("transform") \/ At("validate") \/ At("mkdir")
            BY <1>8 DEF EndLoop, Skip, MakeDirs
        <3> QED BY <1>1, <3>1, AtIs
    <2>2. Held
        BY <1>1, <2>1, StartsOwn
    <2>3. ctx' = ctx /\ disk' = disk /\ calls' = calls /\ op' \in {op, "none"}
        BY <1>8 DEF EndLoop, Skip, MakeDirs, Goes, Raise, Loop
    <2>4. Kept'
        BY <2>2, <2>3 DEF Kept
    <2> QED BY <2>3, <2>4, SameDisk
<1>9. ASSUME Generate
      PROVE  Kept' /\ Written' /\ RunWritten'
    <2>1. op # "none" /\ p = 13
        BY <1>1, <1>9, AtIs DEF Generate
    <2>2. ContextOK /\ Held /\ op \in {"process", "run"}
        BY <1>1, <1>2, <2>1, StartsOwn, Where DEF Calls
    <2>3. Good(Made.of)
        BY <2>1, <2>2, TopGood
    <2>4. disk' = disk /\ calls' = calls /\ op' \in {op, "none"}
        BY <1>9 DEF Generate, Goes, Raise
    <2> SUFFICES Kept'
        BY <2>4, SameDisk
    <2>5. CASE ctx' = ctx
        BY <2>2, <2>5 DEF Kept
    <2>6. CASE /\ DOMAIN ctx'.outputs = DOMAIN ctx.outputs \cup {Who}
               /\ ctx'.outputs[Who] = Made
               /\ \A o \in DOMAIN ctx.outputs : ctx'.outputs[o] = ctx.outputs[o]
        <3> SUFFICES ASSUME NEW o \in DOMAIN ctx'.outputs PROVE Good(ctx'.outputs[o].of)
            BY DEF Kept
        <3>1. CASE o \in DOMAIN ctx.outputs
            BY <2>2, <2>6, <3>1 DEF Kept
        <3>2. CASE o \notin DOMAIN ctx.outputs
            <4>1. ctx'.outputs[o] = Made
                BY <2>6, <3>2
            <4> QED BY <2>3, <4>1
        <3> QED BY <3>1, <3>2
    <2> QED BY <1>9, <2>2, <2>5, <2>6, GenerateKeeps
<1>10. ASSUME Write
       PROVE  Kept' /\ Written' /\ RunWritten'
    <2>1. op # "none" /\ p = 17
        BY <1>1, <1>10, AtIs DEF Write
    <2>2. ContextOK /\ Held
        BY <1>1, <1>2, <2>1, StartsOwn
    <2>3. ctx' = ctx /\ calls' = calls /\ op' \in {op, "none"}
        BY <1>10 DEF Write, Goes, Raise
    <2>4. Kept'
        BY <2>2, <2>3 DEF Kept
    <2>5. \A o \in Outputs : \/ disk'[o] = disk[o]
                             \/ o \in DOMAIN ctx.outputs /\ disk'[o] = ctx.outputs[o]
                             \/ o \notin Stored /\ disk'[o] = Made
        BY <1>1, <1>10, <2>2, WriteIs
    <2>6. \A o \in DOMAIN ctx.outputs : Good(ctx.outputs[o].of)
        BY <2>2 DEF Kept
    <2>7. Written'
        <3> SUFFICES ASSUME NEW o \in Stored, disk'[o] # None PROVE Good(disk'[o].of)
            BY DEF Written
        <3>1. o \in Outputs
            BY Parts
        <3> QED BY <2>5, <2>6, <3>1 DEF Written
    <2>8. RunWritten'
        <3> SUFFICES ASSUME op' = "run", NEW o \in Outputs, disk'[o] # None, disk'[o].gen = calls
                     PROVE  Good(disk'[o].of)
            BY <2>3 DEF RunWritten
        <3>1. op = "run"
            BY <2>3
        <3>2. Good(Made.of)
            BY <2>1, <3>1, TopGood
        <3> QED BY <2>5, <2>6, <3>1, <3>2 DEF RunWritten
    <2> QED BY <2>4, <2>7, <2>8
<1> QED BY <1>3, <1>4, <1>5, <1>6, <1>7, <1>8, <1>9, <1>10 DEF Next, Calls

IInv == Course /\ Kept /\ Written /\ RunWritten

LEMMA IInvInductive ==
    /\ Init => IInv
    /\ IInv /\ [Next]_vars => IInv'
<1>1. Init => IInv
    <2> HAVE Init
    <2>1. ~Held
        BY DEF Init, Held, Own
    <2>2. \A o \in Outputs : disk[o] = None
        BY DEF Init
    <2>3. Written /\ RunWritten
        BY <2>2, Parts DEF Written, RunWritten
    <2> QED BY <2>1, <2>3, CourseInit DEF IInv, Kept
<1>2. IInv /\ [Next]_vars => IInv'
    BY CourseNext, WorthNext DEF IInv
<1> QED BY <1>1, <1>2

(***************************************************************************)
(* However calls follow each other and whichever failed, an output kept in *)
(* the context and written is of a module that was processed.              *)
(***************************************************************************)
THEOREM KeptIsProcessed == Spec => []StoredIsProcessed
<1>1. IInv => StoredIsProcessed
    BY DEF IInv, Written, Good, StoredIsProcessed
<1> QED BY <1>1, IInvInductive, PTL DEF Spec

(***************************************************************************)
(* All that `run' writes is of a module that was processed.                *)
(***************************************************************************)
THEOREM RunIsProcessed == Spec => []RunWritesProcessed
<1>1. IInv => RunWritesProcessed
    BY DEF IInv, RunWritten, Good, RunWritesProcessed
<1> QED BY <1>1, IInvInductive, PTL DEF Spec
=============================================================================
