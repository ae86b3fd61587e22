--------------------------- MODULE LibraryProofs ----------------------------
(***************************************************************************)
(* What user repositories promise, for any sources, definitions,           *)
(* directories and numbers of commands and kills: the types, what a        *)
(* command may change, and what inference makes of the modules it stores.  *)
(***************************************************************************)
EXTENDS LibraryPromises, SequenceTheorems, FiniteSetTheorems, WellFoundedInduction, TLAPS

(***************************************************************************)
(* The loops of the code are folds: FoldProofs, one instance for each.     *)
(***************************************************************************)
\* Their steps.
AmongStep(good, out, e) == IF e \in good THEN Append(out, e) ELSE out
Filtering == INSTANCE FoldProofs WITH Op <- AmongStep
Sorting == INSTANCE FoldProofs WITH Op <- InsertBy
PortStep(names, d, p) == Put(d, DropIoPrefix(p, names), Sel(p.name, <<>>))
Naming == INSTANCE FoldProofs WITH Op <- PortStep
StructStep(p, g, port) == g \o GroupsOf(port)
Opening == INSTANCE FoldProofs WITH Op <- StructStep
SplitStep(p, found, e) == found \o NewPrefixes(found, e[1])
Splitting == INSTANCE FoldProofs WITH Op <- SplitStep
GroupStep(prefix, g, e) ==
    IF IsPrefix(prefix, e[1])
    THEN Put(g, SkipSeparators(SubSeq(e[1], Len(prefix) + 1, Len(e[1]))), e[2]) ELSE g
Grouping == INSTANCE FoldProofs WITH Op <- GroupStep
Merging == INSTANCE FoldProofs WITH Op <- AddGroup
Matching == INSTANCE FoldProofs WITH Op <- MatchSignal
Offering == INSTANCE FoldProofs WITH Op <- Offer
Taking == INSTANCE FoldProofs WITH Op <- Take
BuildStep(p, m, e) == BuildInterface(m, e[1], e[2])
Building == INSTANCE FoldProofs WITH Op <- BuildStep
KnownStep(p, defs, r) == defs \o DefsAt(r[2])
Knowing == INSTANCE FoldProofs WITH Op <- KnownStep
PutStep(p, dict, e) == Put(dict, e[1], e[2])
Putting == INSTANCE FoldProofs WITH Op <- PutStep
LoadStep(p, config, file) ==
    IF file.state = "valid" THEN UpdateConfig(config, file) ELSE config
Loading == INSTANCE FoldProofs WITH Op <- LoadStep
Parsing == INSTANCE FoldProofs WITH Op <- ParseNext
Adding == INSTANCE FoldProofs WITH Op <- AddCore

\* A set of natural numbers that has 0 and, with each number, the next one has them all.
LEMMA Induction == \A T \in SUBSET Nat : 0 \in T /\ (\A i \in T : i + 1 \in T) => T = Nat
<1> SUFFICES ASSUME NEW T \in SUBSET Nat, 0 \in T, \A i \in T : i + 1 \in T
             PROVE  T = Nat
  OBVIOUS
<1> DEFINE R == OpToRel(<, Nat)
           U == Nat \ T
<1>1. ASSUME U # {} PROVE FALSE
  <2>1. \E x \in U : \A y \in U : ~(<<y, x>> \in R)
    <3> HIDE DEF U
    <3>1. U \subseteq Nat
      BY DEF U
    <3> HIDE DEF R
    <3>2. IsWellFoundedOn(R, Nat)
      BY NatLessThanWellFounded DEF R
    <3> QED BY <1>1, <3>1, <3>2, WFMin
  <2>2. PICK x \in U : \A y \in U : ~(<<y, x>> \in R)
    BY <2>1
  <2>3. x - 1 \in U
    OBVIOUS
  <2>4. <<x - 1, x>> \in R
    BY <2>3 DEF OpToRel
  <2> QED BY <2>2, <2>3, <2>4
<1> QED BY <1>1

\* What each fold of the model is.

LEMMA AmongIs == ASSUME NEW seq, NEW good
                 PROVE Among(seq, good) = Filtering!Fold(good, <<>>, seq)
BY Zenon DEF Among, AmongStep, FoldLeft, MapThenFoldSet, Max,
   Filtering!Fold, Filtering!MapThenFoldSet, Filtering!Greatest

LEMMA FallingIs == ASSUME NEW seq, NEW key
                   PROVE Falling(seq, key) = Sorting!Fold(key, <<>>, seq)
BY Zenon DEF Falling, FoldLeft, MapThenFoldSet, Max,
   Sorting!Fold, Sorting!MapThenFoldSet, Sorting!Greatest

LEMMA UpdateIs == ASSUME NEW dict, NEW other
                  PROVE Update(dict, other) = Putting!Fold(0, dict, other)
BY Zenon DEF Update, PutStep, FoldLeft, MapThenFoldSet, Max,
   Putting!Fold, Putting!MapThenFoldSet, Putting!Greatest

LEMMA PortDictIs ==
    ASSUME NEW mod
    PROVE  LET free == NonIntfPorts(mod)
           IN  PortDict(mod) = Naming!Fold({p.name : p \in ToSet(mod.ports)}, <<>>,
                                           Among(free, {p \in ToSet(free) : ~IsStruct(p.type)}))
BY Zenon DEF PortDict, PortStep, FoldLeft, MapThenFoldSet, Max,
   Naming!Fold, Naming!MapThenFoldSet, Naming!Greatest

LEMMA StructGroupsIs ==
    ASSUME NEW mod PROVE StructGroups(mod) = Opening!Fold(0, <<>>, NonIntfPorts(mod))
BY Zenon DEF StructGroups, StructStep, FoldLeft, MapThenFoldSet, Max,
   Opening!Fold, Opening!MapThenFoldSet, Opening!Greatest

LEMMA SplitPrefixesIs ==
    ASSUME NEW ports PROVE SplitPrefixes(ports) = Splitting!Fold(0, <<>>, ports)
BY Zenon DEF SplitPrefixes, SplitStep, FoldLeft, MapThenFoldSet, Max,
   Splitting!Fold, Splitting!MapThenFoldSet, Splitting!Greatest

LEMMA PrefixGroupIs ==
    ASSUME NEW prefix, NEW ports
    PROVE  PrefixGroup(prefix, ports) = Grouping!Fold(prefix, <<>>, ports)
BY Zenon DEF PrefixGroup, GroupStep, FoldLeft, MapThenFoldSet, Max,
   Grouping!Fold, Grouping!MapThenFoldSet, Grouping!Greatest

LEMMA CandidateGroupsIs ==
    ASSUME NEW mod, NEW hints
    PROVE  CandidateGroups(mod, hints) =
             Put(Merging!Fold([mod |-> mod, hints |-> hints], <<>>,
                              StructGroups(mod) \o PrefixGroups(PortDict(mod))), <<>>, PortDict(mod))
BY Zenon DEF CandidateGroups, FoldLeft, MapThenFoldSet, Max,
   Merging!Fold, Merging!MapThenFoldSet, Merging!Greatest

LEMMA MatchSignalsIs ==
    ASSUME NEW ports, NEW def
    PROVE  MatchSignals(ports, def) = Matching!Fold(ports, <<>>, ByLength(Definitions[def]))
BY Zenon DEF MatchSignals, FoldLeft, MapThenFoldSet, Max,
   Matching!Fold, Matching!MapThenFoldSet, Matching!Greatest

LEMMA CandidatesIs ==
    ASSUME NEW mod, NEW groups, NEW defs
    PROVE  LET all == Offering!Fold([mod |-> mod, defs |-> defs], <<>>, groups)
           IN  Candidates(mod, groups, defs) = Among(all, {c \in ToSet(all) : c.mode # "none"})
BY Zenon DEF Candidates, FoldLeft, MapThenFoldSet, Max,
   Offering!Fold, Offering!MapThenFoldSet, Offering!Greatest

LEMMA InferIs ==
    ASSUME NEW mod, NEW defs, NEW hints
    PROVE  LET self == [groups |-> CandidateGroups(mod, hints), hints |-> hints]
               cands == Candidates(mod, self.groups, defs)
               taken == Among(Ranked(cands), {c \in ToSet(cands) : c.score > 0 \/ Len(cands) = 1})
               start == [used |-> {}, out |-> <<>>, names |-> [n \in {i.name : i \in ToSet(mod.intfs)} |->
                             Cardinality({k \in DOMAIN mod.intfs : mod.intfs[k].name = n})]]
           IN  Infer(mod, defs, hints) = Taking!Fold(self, start, taken).out
BY Zenon DEF Infer, FoldLeft, MapThenFoldSet, Max,
   Taking!Fold, Taking!MapThenFoldSet, Taking!Greatest

LEMMA MapInterfacesIs ==
    ASSUME NEW mod, NEW mapping
    PROVE  MapInterfaces(mod, mapping) = Building!Fold(0, mod, mapping)
BY Zenon DEF MapInterfaces, BuildStep, FoldLeft, MapThenFoldSet, Max,
   Building!Fold, Building!MapThenFoldSet, Building!Greatest

LEMMA ParsedModulesIs ==
    ASSUME NEW req
    PROVE  LET self == [tops |-> req.tops, defs |-> CandidateDefs(req), hints |-> req.hints]
           IN  ParsedModules(req) = Parsing!Fold(self, <<>>, req.modules)
BY Zenon DEF ParsedModules, FoldLeft, MapThenFoldSet, Max,
   Parsing!Fold, Parsing!MapThenFoldSet, Parsing!Greatest

LEMMA AddResourcesIs ==
    ASSUME NEW path, NEW mods, NEW defs, NEW strategy
    PROVE  LET repo == [stored |-> CoresAt(path), new |-> <<>>,
                        refused |-> strategy = "raise" /\ defs \cap ToSet(DefsAt(path)) # {}]
           IN  AddResources(path, mods, defs, strategy) = Adding!Fold(strategy, repo, mods)
BY Zenon DEF AddResources, FoldLeft, MapThenFoldSet, Max,
   Adding!Fold, Adding!MapThenFoldSet, Adding!Greatest

LEMMA KnownDefsIs == KnownDefs = Knowing!Fold(0, <<>>, CurrentConfig.repos)
BY Zenon DEF KnownDefs, KnownStep, FoldLeft, MapThenFoldSet, Max,
   Knowing!Fold, Knowing!MapThenFoldSet, Knowing!Greatest

(***************************************************************************)
(* Sequences and dictionaries.                                             *)
(***************************************************************************)
LEMMA Listing ==
    ASSUME NEW M, NEW s \in Seq(M)
    PROVE  s \in Seq(ToSet(s)) /\ DOMAIN s = 1..Len(s) /\ Len(s) \in Nat
<1>1. DOMAIN s = 1..Len(s) /\ Len(s) \in Nat
  OBVIOUS
<1>2. s = [i \in 1..Len(s) |-> s[i]]
  OBVIOUS
<1>3. \A i \in 1..Len(s) : s[i] \in ToSet(s)
  BY <1>1 DEF ToSet
<1>4. s \in [1..Len(s) -> ToSet(s)]
  BY <1>2, <1>3
<1> QED BY <1>1, <1>4, SeqDef

\* What is in a sequence, and what sequences of more have.
LEMMA Members ==
    ASSUME NEW M, NEW s \in Seq(M)
    PROVE  ToSet(s) \subseteq M
BY DEF ToSet

LEMMA Wider ==
    ASSUME NEW M, NEW N, M \subseteq N
    PROVE  Seq(M) \subseteq Seq(N)
OBVIOUS

LEMMA AmongType ==
    ASSUME NEW M, NEW s \in Seq(M), NEW good
    PROVE  Among(s, good) \in Seq(M \cap good)
<1> DEFINE S == Seq(M \cap good)
<1>1. <<>> \in S
  OBVIOUS
<1>2. \A out \in S, e \in M : AmongStep(good, out, e) \in S
  BY DEF AmongStep
<1> HIDE DEF S
<1>3. Filtering!Fold(good, <<>>, s) \in S
  BY <1>1, <1>2, Induction, Filtering!FoldKeeps
<1> QED BY <1>3, AmongIs DEF S

LEMMA FallingType ==
    ASSUME NEW M, NEW s \in Seq(M), NEW key
    PROVE  Falling(s, key) \in Seq(M)
<1> DEFINE S == Seq(M)
<1>1. <<>> \in S
  OBVIOUS
<1>2. ASSUME NEW out \in S, NEW e \in M PROVE InsertBy(key, out, e) \in S
  <2> DEFINE above == {x \in ToSet(out) : key[x] >= key[e]}
             below == {x \in ToSet(out) : key[x] < key[e]}
  <2> HIDE DEF above, below
  <2>1. Among(out, above) \in Seq(M \cap above) /\ Among(out, below) \in Seq(M \cap below)
    BY AmongType
  <2>2. Among(out, above) \in S /\ Among(out, below) \in S
    BY <2>1, Wider
  <2>3. InsertBy(key, out, e) = Among(out, above) \o <<e>> \o Among(out, below)
    BY DEF InsertBy, above, below
  <2> QED BY <2>2, <2>3
<1> HIDE DEF S
<1>3. Sorting!Fold(key, <<>>, s) \in S
  BY <1>1, <1>2, Induction, Sorting!FoldKeeps
<1> QED BY <1>3, FallingIs DEF S

\* Pairs.
IsPairs(E) == \A e \in E : e = <<e[1], e[2]>>

\* A dictionary after an update has what it had, and what is put, and each key once.
Once(d) == \A i, j \in DOMAIN d : d[i][1] = d[j][1] => i = j

LEMMA PutIn ==
    ASSUME NEW E, NEW d \in Seq(E), NEW key, NEW value, <<key, value>> \in E
    PROVE  /\ Put(d, key, value) \in Seq(E)
           /\ Once(d) => Once(Put(d, key, value))
<1> DEFINE new == Put(d, key, value)
<1>0. DOMAIN d = 1..Len(d) /\ Len(d) \in Nat
  OBVIOUS
<1>1. CASE \E i \in DOMAIN d : d[i][1] = key
  <2>1. new = [i \in DOMAIN d |-> IF d[i][1] = key THEN <<key, value>> ELSE d[i]]
    BY <1>1, Zenon DEF Put
  <2> HIDE DEF new
  <2>2. new \in [1..Len(d) -> E]
    BY <1>0, <2>1
  <2>3. new \in Seq(E)
    BY <1>0, <2>2, SeqDef
  <2>4. DOMAIN new = DOMAIN d /\ \A i \in DOMAIN d : new[i][1] = d[i][1]
    BY <2>1
  <2> QED BY <2>3, <2>4 DEF Once, new
<1>2. CASE ~\E i \in DOMAIN d : d[i][1] = key
  <2>1. new = Append(d, <<key, value>>)
    BY <1>2, Zenon DEF Put
  <2> HIDE DEF new
  <2>2. /\ new \in Seq(E) /\ DOMAIN new = 1..Len(d) + 1 /\ new[Len(d) + 1] = <<key, value>>
        /\ \A i \in 1..Len(d) : new[i] = d[i]
    BY <2>1
  <2>3. new[Len(d) + 1][1] = key
    BY <2>2
  <2>4. ASSUME Once(d), NEW i \in DOMAIN new, NEW j \in DOMAIN new, new[i][1] = new[j][1]
        PROVE  i = j
    <3>1. i \in 1..Len(d) \/ i = Len(d) + 1
      BY <1>0, <2>2
    <3>2. j \in 1..Len(d) \/ j = Len(d) + 1
      BY <1>0, <2>2
    <3> QED BY <1>0, <1>2, <2>2, <2>3, <2>4, <3>1, <3>2 DEF Once
  <2> QED BY <2>2, <2>4 DEF Once, new
<1> QED BY <1>1, <1>2

LEMMA UpdateIn ==
    ASSUME NEW E, IsPairs(E), NEW d \in Seq(E), NEW other \in Seq(E)
    PROVE  Update(d, other) \in Seq(E)
<1> DEFINE S == Seq(E)
<1>1. \A x \in S, e \in E : PutStep(0, x, e) \in S
  BY PutIn DEF PutStep, IsPairs
<1> HIDE DEF S
<1>2. d \in S
  BY DEF S
<1>3. Putting!Fold(0, d, other) \in S
  BY <1>1, <1>2, Induction, Putting!FoldKeeps
<1> QED BY <1>3, UpdateIs DEF S

\* What a key is for.
LEMMA AtIn ==
    ASSUME NEW E, IsPairs(E), NEW d \in Seq(E), NEW key \in Keys(d)
    PROVE  /\ <<key, At(d, key)>> \in ToSet(d)
           /\ \A i \in DOMAIN d : Once(d) /\ d[i][1] = key => At(d, key) = d[i][2]
<1>1. PICK i \in DOMAIN d : d[i][1] = key
  BY DEF Keys
<1> DEFINE j == CHOOSE j \in DOMAIN d : d[j][1] = key
<1>2. j \in DOMAIN d /\ d[j][1] = key
  BY <1>1
<1>3. At(d, key) = d[j][2]
  BY DEF At
<1> HIDE DEF j
<1>4. d[j] \in E
  BY <1>2
<1>5. d[j] = <<key, At(d, key)>>
  BY <1>2, <1>3, <1>4 DEF IsPairs
<1> QED BY <1>2, <1>3, <1>5 DEF ToSet, Once

LEMMA MinIn ==
    ASSUME NEW s, s \subseteq Nat, s # {}
    PROVE  Min(s) \in s
<1> DEFINE T == {n \in Nat : \A m \in 0..n : m \notin s}
<1>1. ASSUME ~\E x \in s : \A y \in s : x <= y PROVE FALSE
  <2>1. 0 \in T
    BY <1>1
  <2>2. ASSUME NEW n \in T PROVE n + 1 \in T
    <3>1. n \in Nat /\ \A m \in 0..n : m \notin s
      OBVIOUS
    <3>2. \A m \in 0..n + 1 : m \in 0..n \/ m = n + 1
      BY <3>1
    <3>3. n + 1 \notin s
      BY <1>1, <3>1
    <3> QED BY <3>1, <3>2, <3>3
  <2>3. T \subseteq Nat
    OBVIOUS
  <2>4. T = Nat
    <3> HIDE DEF T
    <3> QED BY <2>1, <2>2, <2>3, Induction
  <2>5. \A n \in Nat : n \notin s
    BY <2>4
  <2> QED BY <2>5
<1> QED BY <1>1 DEF Min

(***************************************************************************)
(* The names that ports are given.                                         *)
(***************************************************************************)
LEMMA SeqJoin ==
    ASSUME NEW A, NEW a \in Seq(A), NEW B, NEW b \in Seq(B)
    PROVE  a \o b \in Seq(A \cup B) /\ Len(a \o b) = Len(a) + Len(b)
<1>1. a \in Seq(A \cup B) /\ b \in Seq(A \cup B)
  BY Wider
<1> QED BY <1>1

LEMMA TriedType ==
    ASSUME NEW A, NEW name \in Seq(A), NEW n \in Nat
    PROVE  \E T : Tried(name, n) \in Seq(T) /\ Len(Tried(name, n)) = Len(name) + 2 * n
<1> DEFINE tail == [i \in 1..(2 * n) |-> IF i % 2 = 1 THEN "_" ELSE ToString(i \div 2 + 1)]
           B == {tail[i] : i \in 1..(2 * n)}
<1>1. 2 * n \in Nat
  OBVIOUS
<1>2. tail \in [1..(2 * n) -> B] /\ DOMAIN tail = 1..(2 * n)
  OBVIOUS
<1>3. Tried(name, n) = name \o tail
  BY DEF Tried
<1> HIDE DEF tail, B
<1>4. tail \in Seq(B) /\ Len(tail) = 2 * n
  BY <1>1, <1>2, SeqDef
<1>5. name \o tail \in Seq(A \cup B) /\ Len(name \o tail) = Len(name) + 2 * n
  BY <1>4, SeqJoin
<1> QED BY <1>3, <1>5

LEMMA DropType ==
    ASSUME NEW names, IsFiniteSet(names), NEW port, port.name \in Seq(ToSet(port.name))
    PROVE  \E T : DropIoPrefix(port, names) \in Seq(T)
<1> DEFINE A == ToSet(port.name)
           io == IoPrefix[port.dir]
           moved == SubSeq(port.name, 3, Len(port.name)) \o <<"_", io>>
           N == Cardinality(names)
           f == [n \in 0..N |-> Numbered(Tried(moved, n), n + 1)]
           free == {n \in 0..N : Numbered(Tried(moved, n), n + 1) \notin names}
<1>1. N \in Nat
  BY FS_CardinalityType
<1>2. moved \in Seq(A \cup {"_", io})
  <2>1. SubSeq(port.name, 3, Len(port.name)) \in Seq(A)
    OBVIOUS
  <2>2. <<"_", io>> \in Seq({"_", io})
    OBVIOUS
  <2> QED BY <2>1, <2>2, SeqJoin
<1> HIDE DEF moved, A, io, N
<1>3. ASSUME NEW n \in Nat
      PROVE  /\ \E T : Tried(moved, n) \in Seq(T)
             /\ Len(Numbered(Tried(moved, n), n + 1)) = Len(moved) + 2 * n + 2
  <2>1. PICK T : Tried(moved, n) \in Seq(T) /\ Len(Tried(moved, n)) = Len(moved) + 2 * n
    BY <1>2, TriedType
  <2> DEFINE t == ToString(n + 1)
  <2>2. <<"_", t>> \in Seq({"_", t}) /\ Len(<<"_", t>>) = 2
    OBVIOUS
  <2>3. Numbered(Tried(moved, n), n + 1) = Tried(moved, n) \o <<"_", t>>
    BY DEF Numbered
  <2> HIDE DEF t
  <2>4. Len(Tried(moved, n) \o <<"_", t>>) = Len(Tried(moved, n)) + 2
    BY <2>1, <2>2, SeqJoin
  <2> QED BY <2>1, <2>3, <2>4
<1>4. free # {}
  <2> SUFFICES ASSUME free = {} PROVE FALSE
    OBVIOUS
  <2>1. f \in [0..N -> names]
    OBVIOUS
  <2>2. IsFiniteSet(0..N) /\ Cardinality(0..N) = N + 1
    BY <1>1, FS_Interval
  <2> HIDE DEF f
  <2>3. \E m, n \in 0..N : m # n /\ f[m] = f[n]
    BY <1>1, <2>1, <2>2, FS_PigeonHole DEF N
  <2>4. PICK m \in 0..N, n \in 0..N : m # n /\ f[m] = f[n]
    BY <2>3
  <2>5. Len(moved) \in Nat /\ m \in Nat /\ n \in Nat
    <3>1. Len(moved) \in Nat
      BY <1>2, Listing
    <3>2. \A k \in 0..N : k \in Nat
      BY <1>1
    <3> QED BY <3>1, <3>2
  <2>6. Len(moved) + 2 * m + 2 = Len(moved) + 2 * n + 2
    <3>1. f[m] = Numbered(Tried(moved, m), m + 1) /\ f[n] = Numbered(Tried(moved, n), n + 1)
      BY DEF f
    <3> QED BY <1>3, <2>4, <2>5, <3>1
  <2> QED BY <2>4, <2>5, <2>6
<1>5. Min(free) \in Nat
  <2>1. free \subseteq Nat
    BY <1>1
  <2> HIDE DEF free
  <2> QED BY <1>4, <2>1, MinIn
<1>6. \/ DropIoPrefix(port, names) = port.name
      \/ DropIoPrefix(port, names) = moved
      \/ DropIoPrefix(port, names) = Tried(moved, Min(free))
  BY Zenon DEF DropIoPrefix, moved, io, N
<1> HIDE DEF free
<1> QED BY <1>2, <1>3, <1>5, <1>6 DEF A

(***************************************************************************)
(* Groups of ports.                                                        *)
(***************************************************************************)
PortNames(m) == {p.name : p \in ToSet(m.ports)}
Free(m) == {p \in ToSet(m.ports) : p.name \notin UsedPorts(m)}
PlainOf(m) == {<<DropIoPrefix(p, PortNames(m)), Sel(p.name, <<>>)>> :
                  p \in {q \in Free(m) : ~IsStruct(q.type)}}

LEMMA ModuleIs ==
    ASSUME NEW m, IsModule(m)
    PROVE  /\ m.ports \in Seq(ToSet(m.ports)) /\ IsFiniteSet(PortNames(m))
           /\ NonIntfPorts(m) \in Seq(Free(m))
           /\ \A p, q \in ToSet(m.ports) : p.name = q.name => p = q
           /\ \A p \in ToSet(m.ports) : Find(m.ports, p.name) = p
<1>1. /\ m.ports \in Seq(ToSet(m.ports))
      /\ \A i, j \in DOMAIN m.ports : m.ports[i].name = m.ports[j].name => i = j
  BY DEF IsModule, Shaped
<1>2. \A p, q \in ToSet(m.ports) : p.name = q.name => p = q
  BY <1>1 DEF ToSet
<1>3. \A p \in ToSet(m.ports) : Named(m.ports, p.name) = {p}
  BY <1>2 DEF Named
<1>4. \A p \in ToSet(m.ports) : Find(m.ports, p.name) = p
  BY <1>3 DEF Find
<1>5. IsFiniteSet(PortNames(m))
  <2>1. DOMAIN m.ports = 1..Len(m.ports) /\ Len(m.ports) \in Nat
    BY <1>1, Listing
  <2>2. IsFiniteSet(DOMAIN m.ports)
    BY <2>1, FS_Interval
  <2>3. PortNames(m) = {m.ports[i].name : i \in DOMAIN m.ports}
    BY DEF PortNames, ToSet
  <2> DEFINE f == [i \in DOMAIN m.ports |-> m.ports[i].name]
  <2>4. f \in Surjection(DOMAIN m.ports, PortNames(m))
    BY <2>3 DEF Surjection
  <2> HIDE DEF f
  <2> QED BY <2>2, <2>4, FS_Surjection
<1>6. NonIntfPorts(m) \in Seq(Free(m))
  <2> DEFINE good == {p \in ToSet(m.ports) : p.name \notin UsedPorts(m)}
  <2>1. ToSet(m.ports) \cap good = Free(m)
    BY DEF Free
  <2>2. NonIntfPorts(m) = Among(m.ports, good)
    BY DEF NonIntfPorts
  <2> HIDE DEF good
  <2>3. Among(m.ports, good) \in Seq(ToSet(m.ports) \cap good)
    BY <1>1, AmongType
  <2> QED BY <2>1, <2>2, <2>3
<1> QED BY <1>1, <1>2, <1>4, <1>5, <1>6

LEMMA PortDictType ==
    ASSUME NEW m, IsModule(m)
    PROVE  PortDict(m) \in Seq(PlainOf(m))
<1> DEFINE free == NonIntfPorts(m)
           names == {p.name : p \in ToSet(m.ports)}
           good == {p \in ToSet(free) : ~IsStruct(p.type)}
           E == {q \in Free(m) : ~IsStruct(q.type)}
           S == Seq(PlainOf(m))
<1>1. PortDict(m) = Naming!Fold(names, <<>>, Among(free, good))
  BY PortDictIs
<1>2. free \in Seq(Free(m))
  BY ModuleIs
<1> HIDE DEF free
<1>3. Among(free, good) \in Seq(E)
  <2>1. Among(free, good) \in Seq(Free(m) \cap good)
    <3> HIDE DEF good
    <3> QED BY <1>2, AmongType
  <2>2. Free(m) \cap good \subseteq E
    OBVIOUS
  <2> HIDE DEF good, E
  <2> QED BY <2>1, <2>2, Wider
<1>4. ASSUME NEW d \in S, NEW p \in E PROVE PortStep(names, d, p) \in S
  <2>1. <<DropIoPrefix(p, names), Sel(p.name, <<>>)>> \in PlainOf(m)
    BY DEF PlainOf, PortNames
  <2> HIDE DEF names
  <2> QED BY <2>1, PutIn DEF PortStep
<1>5. <<>> \in S
  OBVIOUS
<1> HIDE DEF S, E, names, good
<1>6. Naming!Fold(names, <<>>, Among(free, good)) \in S
  BY <1>3, <1>4, <1>5, Induction, Naming!FoldKeeps
<1> QED BY <1>1, <1>6 DEF S

\* What the groups have of ports: the name is known by the part of the port.
LEMMA PlainIs ==
    ASSUME NEW m, IsModule(m)
    PROVE  /\ IsPairs(PlainOf(m))
           /\ \A e, f \in PlainOf(m) : e[2] = f[2] => e = f
           /\ \A e \in PlainOf(m) : \E T : e[1] \in Seq(T)
<1>1. \A e \in PlainOf(m) : \E p \in Free(m) :
          e = <<DropIoPrefix(p, PortNames(m)), Sel(p.name, <<>>)>>
  BY DEF PlainOf
<1>2. \A p \in Free(m) : p \in ToSet(m.ports) /\ p.name \in Seq(ToSet(p.name))
  BY DEF Free, IsModule, Shaped
<1>3. \A e, f \in PlainOf(m) : e[2] = f[2] => e = f
  <2> SUFFICES ASSUME NEW e \in PlainOf(m), NEW f \in PlainOf(m), e[2] = f[2] PROVE e = f
    OBVIOUS
  <2>1. PICK p \in Free(m) : e = <<DropIoPrefix(p, PortNames(m)), Sel(p.name, <<>>)>>
    BY <1>1
  <2>2. PICK q \in Free(m) : f = <<DropIoPrefix(q, PortNames(m)), Sel(q.name, <<>>)>>
    BY <1>1
  <2>3. p.name = q.name
    BY <2>1, <2>2 DEF Sel
  <2> QED BY <1>2, <2>1, <2>2, <2>3, ModuleIs
<1>4. \A e \in PlainOf(m) : \E T : e[1] \in Seq(T)
  <2> SUFFICES ASSUME NEW e \in PlainOf(m) PROVE \E T : e[1] \in Seq(T)
    OBVIOUS
  <2>1. PICK p \in Free(m) : e = <<DropIoPrefix(p, PortNames(m)), Sel(p.name, <<>>)>>
    BY <1>1
  <2>2. \E T : DropIoPrefix(p, PortNames(m)) \in Seq(T)
    BY <1>2, ModuleIs, DropType
  <2> QED BY <2>1, <2>2
<1> QED BY <1>1, <1>3, <1>4 DEF IsPairs

StructOf(m) ==
    UNION {{<<f.path, Sel(p.name, <<Field(f.path)>>)>> : f \in ToSet(p.type.fields)} :
              p \in {q \in Free(m) : IsStruct(q.type)}}
ElementOf(m) ==
    UNION {{<<f.path, Sel(p.name, <<Slice(i, i), Field(f.path)>>)>> :
                f \in ToSet(p.type.fields), i \in Int} :
              p \in {q \in Free(m) : q.type.kind = "structs"}}
FieldsOf(m) == StructOf(m) \cup ElementOf(m)

LEMMA GroupsOfType ==
    ASSUME NEW m, IsModule(m), NEW port \in Free(m)
    PROVE  \E N : GroupsOf(port) \in Seq(N \X Seq(FieldsOf(m)))
<1> DEFINE type == port.type
           F == FieldsOf(m)
<1>1. /\ port \in ToSet(m.ports) /\ type.dims \in Seq(Int \X Int)
      /\ type.fields \in Seq(ToSet(type.fields))
  BY DEF Free, IsModule, Shaped
<1>2. DOMAIN type.fields = 1..Len(type.fields) /\ Len(type.fields) \in Nat
      /\ \A i \in DOMAIN type.fields : type.fields[i] \in ToSet(type.fields)
  BY <1>1, Listing DEF ToSet
<1>3. ASSUME NEW sel, \A f \in ToSet(type.fields) :
                        <<f.path, [sel EXCEPT !.ops = Append(@, Field(f.path))]>> \in F
      PROVE  StructMembers(sel, type) \in Seq(F)
  <2> DEFINE s == StructMembers(sel, type)
  <2>1. s = [i \in 1..Len(type.fields) |->
               <<type.fields[i].path, [sel EXCEPT !.ops = Append(@, Field(type.fields[i].path))]>>]
    BY <1>2 DEF StructMembers
  <2> HIDE DEF s, F, type
  <2>2. s \in [1..Len(type.fields) -> F]
    BY <1>2, <1>3, <2>1
  <2> QED BY <1>2, <2>2, SeqDef DEF s
<1>4. CASE type.kind = "structs" /\ Len(type.dims) = 1
  <2> DEFINE lower == type.dims[1][2]
             upper == type.dims[1][1]
             n == upper - lower + 1
             N == {Indexed(port.name, lower + i - 1) : i \in 1..n}
             el == ElementGroups(port)
  <2>1. lower \in Int /\ upper \in Int
    <3>1. type.dims[1] \in Int \X Int
      BY <1>1, <1>4
    <3> QED BY <3>1
  <2>2. ASSUME NEW i \in 1..n
        PROVE  StructMembers(Sel(port.name, <<Slice(lower + i - 1, lower + i - 1)>>), type) \in Seq(F)
    <3> DEFINE j == lower + i - 1
               sel == Sel(port.name, <<Slice(j, j)>>)
    <3>1. j \in Int
      BY <2>1
    <3> HIDE DEF j
    <3>2. ASSUME NEW f \in ToSet(type.fields)
          PROVE  <<f.path, [sel EXCEPT !.ops = Append(@, Field(f.path))]>> \in F
      <4>1. [sel EXCEPT !.ops = Append(@, Field(f.path))]
              = Sel(port.name, <<Slice(j, j), Field(f.path)>>)
        BY DEF Sel
      <4> QED BY <1>4, <3>1, <4>1 DEF FieldsOf, ElementOf
    <3> HIDE DEF sel, F, type
    <3> QED BY <1>3, <3>2 DEF sel, j
  <2>3. el = [i \in 1..n |-> <<Indexed(port.name, lower + i - 1),
                StructMembers(Sel(port.name, <<Slice(lower + i - 1, lower + i - 1)>>), type)>>]
    BY DEF ElementGroups
  <2>4. el \in [1..n -> N \X Seq(F)]
    <3>1. \A i \in 1..n : Indexed(port.name, lower + i - 1) \in N
      OBVIOUS
    <3> HIDE DEF el, F, type, lower, N, n
    <3> QED BY <2>2, <2>3, <3>1
  <2>5. n \in Int
    BY <2>1
  <2>7. GroupsOf(port) = ElementGroups(port)
    BY <1>4 DEF GroupsOf, IsStruct
  <2> HIDE DEF el, n, F, N
  <2>6. el \in Seq(N \X Seq(F))
    <3>1. CASE n >= 0
      BY <2>4, <2>5, <3>1, SeqDef
    <3>2. CASE n < 0
      <4>1. 1..n = 1..0
        BY <2>5, <3>2
      <4>2. el \in [1..0 -> N \X Seq(F)]
        BY <2>4, <4>1
      <4> QED BY <4>2, SeqDef
    <3> QED BY <2>5, <3>1, <3>2
  <2> QED BY <2>6, <2>7 DEF F, el
<1>5. CASE ~(type.kind = "structs" /\ Len(type.dims) = 1) /\ IsStruct(type)
  <2> DEFINE sel == Sel(port.name, <<>>)
  <2>1. ASSUME NEW f \in ToSet(type.fields)
        PROVE  <<f.path, [sel EXCEPT !.ops = Append(@, Field(f.path))]>> \in F
    <3>1. [sel EXCEPT !.ops = Append(@, Field(f.path))] = Sel(port.name, <<Field(f.path)>>)
      BY DEF Sel
    <3> QED BY <1>5, <3>1 DEF FieldsOf, StructOf
  <2>2. StructMembers(sel, type) \in Seq(F)
    <3> HIDE DEF sel, F, type
    <3> QED BY <1>3, <2>1
  <2>3. GroupsOf(port) = <<<<port.name, StructMembers(sel, type)>>>>
    BY <1>5 DEF GroupsOf
  <2> HIDE DEF sel, F
  <2>4. GroupsOf(port) \in Seq({port.name} \X Seq(F))
    BY <2>2, <2>3
  <2> QED BY <2>4 DEF F
<1>6. CASE ~(type.kind = "structs" /\ Len(type.dims) = 1) /\ ~IsStruct(type)
  <2>1. GroupsOf(port) = <<>>
    BY <1>6 DEF GroupsOf
  <2>2. GroupsOf(port) \in Seq({port.name} \X Seq(F))
    BY <2>1
  <2> QED BY <2>2
<1> QED BY <1>4, <1>5, <1>6

LEMMA StructGroupsType ==
    ASSUME NEW m, IsModule(m)
    PROVE  \E N : StructGroups(m) \in Seq(N \X Seq(FieldsOf(m)))
<1> DEFINE F == Seq(FieldsOf(m))
           N == {x[1] : x \in UNION {ToSet(GroupsOf(p)) : p \in Free(m)}}
           S == Seq(N \X F)
<1>1. NonIntfPorts(m) \in Seq(Free(m))
  BY ModuleIs
<1>2. ASSUME NEW p \in Free(m) PROVE GroupsOf(p) \in S
  <2>1. PICK M : GroupsOf(p) \in Seq(M \X F)
    BY GroupsOfType
  <2> DEFINE g == GroupsOf(p)
  <2>2. DOMAIN g = 1..Len(g) /\ Len(g) \in Nat /\ \A i \in DOMAIN g : g[i] \in M \X F
    BY <2>1
  <2>3. \A i \in DOMAIN g : g[i] \in ToSet(g) /\ g[i] = <<g[i][1], g[i][2]>> /\ g[i][2] \in F
    <3> HIDE DEF F, g
    <3> QED BY <2>2 DEF ToSet
  <2>4. \A i \in DOMAIN g : g[i][1] \in N
    BY <2>3
  <2> HIDE DEF F, g, N
  <2>5. \A i \in 1..Len(g) : g[i] \in N \X F
    BY <2>2, <2>3, <2>4
  <2>6. g = [i \in 1..Len(g) |-> g[i]]
    BY <2>1 DEF g
  <2>7. g \in [1..Len(g) -> N \X F]
    BY <2>5, <2>6
  <2> QED BY <2>2, <2>7, SeqDef DEF g
<1>3. ASSUME NEW g \in S, NEW p \in Free(m) PROVE StructStep(0, g, p) \in S
  <2> HIDE DEF N, F
  <2> QED BY <1>2 DEF StructStep
<1>4. <<>> \in S
  OBVIOUS
<1> HIDE DEF S, N, F
<1>5. Opening!Fold(0, <<>>, NonIntfPorts(m)) \in S
  BY <1>1, <1>3, <1>4, Induction, Opening!FoldKeeps
<1>6. StructGroups(m) \in S
  BY <1>5, StructGroupsIs
<1> QED BY <1>6 DEF S, F

\* A sequence that a function of the positions gives.
LEMMA Listed ==
    ASSUME NEW M, NEW n \in Nat, NEW f, f = [i \in 1..n |-> f[i]], \A i \in 1..n : f[i] \in M
    PROVE  f \in Seq(M) /\ Len(f) = n
<1>1. f \in [1..n -> M]
  OBVIOUS
<1> QED BY <1>1, SeqDef

StartsOf(name) == {SubSeq(name, 1, n - 1) : n \in 1..Len(name)}

LEMMA NewPrefixesType ==
    ASSUME NEW found, NEW T, NEW name \in Seq(T)
    PROVE  NewPrefixes(found, name) \in Seq(StartsOf(name))
<1> DEFINE starts == [n \in 1..Len(name) |-> SubSeq(name, 1, n - 1)]
           good == {p \in ToSet(starts) : ValidPrefix(name, Len(p)) /\ p \notin ToSet(found)}
<1>1. Len(name) \in Nat
  OBVIOUS
<1>2. starts = [n \in 1..Len(name) |-> starts[n]] /\ \A n \in 1..Len(name) : starts[n] \in StartsOf(name)
  BY DEF StartsOf
<1>3. NewPrefixes(found, name) = Among(starts, good)
  BY DEF NewPrefixes
<1> HIDE DEF starts, good
<1>4. starts \in Seq(StartsOf(name))
  BY <1>1, <1>2, Listed
<1>5. Among(starts, good) \in Seq(StartsOf(name) \cap good)
  BY <1>4, AmongType
<1> QED BY <1>3, <1>5, Wider

LEMMA PrefixesType ==
    ASSUME NEW m, IsModule(m)
    PROVE  LET prefixes == SplitPrefixes(PortDict(m)) IN prefixes \in Seq(ToSet(prefixes))
<1> DEFINE ports == PortDict(m)
           X == UNION {StartsOf(e[1]) : e \in PlainOf(m)}
           S == Seq(X)
<1>1. ports \in Seq(PlainOf(m))
  BY PortDictType
<1>2. ASSUME NEW found \in S, NEW e \in PlainOf(m) PROVE SplitStep(0, found, e) \in S
  <2>1. PICK T : e[1] \in Seq(T)
    BY PlainIs
  <2>2. NewPrefixes(found, e[1]) \in Seq(StartsOf(e[1]))
    BY <2>1, NewPrefixesType
  <2>3. StartsOf(e[1]) \subseteq X
    OBVIOUS
  <2> HIDE DEF X
  <2>4. NewPrefixes(found, e[1]) \in S
    BY <2>2, <2>3, Wider
  <2> QED BY <2>4 DEF SplitStep
<1>3. <<>> \in S
  OBVIOUS
<1> HIDE DEF S, ports
<1>4. Splitting!Fold(0, <<>>, ports) \in S
  BY <1>1, <1>2, <1>3, Induction, Splitting!FoldKeeps
<1> HIDE DEF X
<1>5. SplitPrefixes(ports) \in Seq(X)
  BY <1>4, SplitPrefixesIs DEF S
<1> QED BY <1>5, Listing DEF ports

\* The part of a name that a prefix leaves, and the ports that have the prefix by it.
Rest(a, name) == SkipSeparators(SubSeq(name, Len(a) + 1, Len(name)))
RestOf(m, a) ==
    {<<Rest(a, e[1]), e[2]>> : e \in {f \in ToSet(PortDict(m)) : IsPrefix(a, f[1])}}

LEMMA PrefixGroupType ==
    ASSUME NEW m, IsModule(m), NEW a
    PROVE  PrefixGroup(a, PortDict(m)) \in Seq(RestOf(m, a))
<1> DEFINE ports == PortDict(m)
           S == Seq(RestOf(m, a))
<1>1. ports \in Seq(ToSet(ports))
  BY PortDictType, Listing
<1>2. ASSUME NEW g \in S, NEW e \in ToSet(ports) PROVE GroupStep(a, g, e) \in S
  <2>1. CASE IsPrefix(a, e[1])
    <3>1. <<Rest(a, e[1]), e[2]>> \in RestOf(m, a)
      BY <2>1 DEF RestOf
    <3>2. GroupStep(a, g, e) = Put(g, Rest(a, e[1]), e[2])
      BY <2>1 DEF GroupStep, Rest
    <3> QED BY <3>1, <3>2, PutIn
  <2>2. CASE ~IsPrefix(a, e[1])
    BY <2>2 DEF GroupStep
  <2> QED BY <2>1, <2>2
<1>3. <<>> \in S
  OBVIOUS
<1> HIDE DEF S, ports
<1>4. Grouping!Fold(a, <<>>, ports) \in S
  BY <1>1, <1>2, <1>3, Induction, Grouping!FoldKeeps
<1> QED BY <1>4, PrefixGroupIs DEF S, ports

PrefixedOf(m) == UNION {{a} \X Seq(RestOf(m, a)) : a \in ToSet(SplitPrefixes(PortDict(m)))}

LEMMA PrefixGroupsType ==
    ASSUME NEW m, IsModule(m)
    PROVE  PrefixGroups(PortDict(m)) \in Seq(PrefixedOf(m))
<1> DEFINE ports == PortDict(m)
           prefixes == SplitPrefixes(ports)
           all == [i \in DOMAIN prefixes |-> <<prefixes[i], PrefixGroup(prefixes[i], ports)>>]
           good == {g \in ToSet(all) : Len(g[2]) >= MinGroupSize}
<1>1. prefixes \in Seq(ToSet(prefixes))
  BY PrefixesType
<1>2. DOMAIN prefixes = 1..Len(prefixes) /\ Len(prefixes) \in Nat
      /\ \A i \in DOMAIN prefixes : prefixes[i] \in ToSet(prefixes)
  BY <1>1, Listing DEF ToSet
<1>3. \A i \in 1..Len(prefixes) : all[i] \in PrefixedOf(m)
  <2> SUFFICES ASSUME NEW i \in 1..Len(prefixes) PROVE all[i] \in PrefixedOf(m)
    OBVIOUS
  <2>1. PrefixGroup(prefixes[i], ports) \in Seq(RestOf(m, prefixes[i]))
    BY PrefixGroupType
  <2>2. all[i] = <<prefixes[i], PrefixGroup(prefixes[i], ports)>>
    BY <1>2
  <2> HIDE DEF all
  <2> QED BY <1>2, <2>1, <2>2 DEF PrefixedOf
<1>4. all = [i \in 1..Len(prefixes) |-> all[i]]
  BY <1>2
<1>5. PrefixGroups(ports) = Among(all, good)
  BY DEF PrefixGroups
<1> HIDE DEF all, good, prefixes
<1>6. all \in Seq(PrefixedOf(m))
  BY <1>2, <1>3, <1>4, Listed
<1>7. Among(all, good) \in Seq(PrefixedOf(m) \cap good)
  BY <1>6, AmongType
<1> QED BY <1>5, <1>7, Wider

\* What a group of a name can have, where no two prefixes of a port are given that name.
Bag(m, hints, n) ==
    FieldsOf(m) \cup UNION {RestOf(m, a) : a \in
        {b \in ToSet(SplitPrefixes(PortDict(m))) : GroupName(m, hints, b) = n}}
Apart(m, hints) ==
    LET ports == PortDict(m)
    IN  \A e \in ToSet(ports), a, b \in ToSet(SplitPrefixes(ports)) :
          /\ IsPrefix(a, e[1]) /\ IsPrefix(b, e[1])
          /\ GroupName(m, hints, a) = GroupName(m, hints, b)
          => a = b

\* The parts of ports that inference uses: a port, a field of a struct, a field of an element.
Part(m, s) ==
    \E p \in Free(m) :
       /\ s = Sel(p.name, s.ops)
       /\ \/ s.ops = <<>> /\ ~IsStruct(p.type)
          \/ \E path : s.ops = <<Field(path)>> /\ IsStruct(p.type)
          \/ \E path, i : s.ops = <<Slice(i, i), Field(path)>> /\ p.type.kind = "structs"
Known(m, g) ==
    /\ \A e \in g : e = <<e[1], e[2]>> /\ Part(m, e[2])
    /\ HintsApart => \A e, f \in g : e[2] = f[2] => e = f

LEMMA BagKnown ==
    ASSUME NEW m, IsModule(m), NEW hints, HintsApart => Apart(m, hints), NEW n
    PROVE  Known(m, Bag(m, hints, n))
<1> DEFINE ports == PortDict(m)
           R == UNION {RestOf(m, a) : a \in {b \in ToSet(SplitPrefixes(ports)) : GroupName(m, hints, b) = n}}
<1>0. Bag(m, hints, n) = StructOf(m) \cup ElementOf(m) \cup R
  BY DEF Bag, FieldsOf
<1>1. \A e \in StructOf(m) : \E p \in Free(m) : \E path :
         e = <<path, Sel(p.name, <<Field(path)>>)>> /\ IsStruct(p.type)
  BY DEF StructOf
<1>2. \A e \in ElementOf(m) : \E p \in Free(m) : \E path, i :
         e = <<path, Sel(p.name, <<Slice(i, i), Field(path)>>)>> /\ p.type.kind = "structs"
  BY DEF ElementOf
<1>3. \A e \in R : \E a \in ToSet(SplitPrefixes(ports)), f \in ToSet(ports) :
         GroupName(m, hints, a) = n /\ IsPrefix(a, f[1]) /\ e = <<Rest(a, f[1]), f[2]>>
  BY DEF RestOf
<1>4. ports \in Seq(PlainOf(m)) /\ ToSet(ports) \subseteq PlainOf(m)
  BY PortDictType, Members
<1>5. \A f \in ToSet(ports) : \E p \in Free(m) : f[2] = Sel(p.name, <<>>) /\ ~IsStruct(p.type)
  BY <1>4 DEF PlainOf
<1> DEFINE Of(e) == e = <<e[1], e[2]>> /\ Part(m, e[2])
<1>6. \A e \in StructOf(m) : Of(e) /\ \E path : e[1] = path /\ e[2].ops = <<Field(path)>>
  BY <1>1 DEF Part, Sel
<1>7. \A e \in ElementOf(m) : Of(e) /\ \E path, i : e[1] = path /\ e[2].ops = <<Slice(i, i), Field(path)>>
  <2> SUFFICES ASSUME NEW e \in ElementOf(m)
               PROVE  Of(e) /\ \E path, i : e[1] = path /\ e[2].ops = <<Slice(i, i), Field(path)>>
    OBVIOUS
  <2>1. PICK p \in Free(m) :  \E path, i :
           e = <<path, Sel(p.name, <<Slice(i, i), Field(path)>>)>> /\ p.type.kind = "structs"
    BY <1>2
  <2>2. PICK path, i : e = <<path, Sel(p.name, <<Slice(i, i), Field(path)>>)>>
    BY <2>1
  <2>3. e[1] = path /\ e[2].ops = <<Slice(i, i), Field(path)>> /\ e = <<e[1], e[2]>>
    BY <2>2 DEF Sel
  <2>4. e[2] = Sel(p.name, e[2].ops)
    BY <2>2 DEF Sel
  <2> QED BY <2>1, <2>3, <2>4 DEF Part
<1>8. \A e \in R : Of(e) /\ e[2].ops = <<>>
  <2> SUFFICES ASSUME NEW e \in R PROVE Of(e) /\ e[2].ops = <<>>
    OBVIOUS
  <2>1. PICK f \in ToSet(ports) : \E a : e = <<Rest(a, f[1]), f[2]>>
    BY <1>3
  <2>2. PICK p \in Free(m) : f[2] = Sel(p.name, <<>>) /\ ~IsStruct(p.type)
    BY <1>5
  <2>3. e[2] = Sel(p.name, <<>>) /\ e = <<e[1], e[2]>>
    BY <2>1, <2>2
  <2>4. e[2].ops = <<>>
    BY <2>3 DEF Sel
  <2> QED BY <2>2, <2>3, <2>4 DEF Part
<1>9. HintsApart => \A e, f \in R : e[2] = f[2] => e = f
  <2> SUFFICES ASSUME HintsApart, NEW e \in R, NEW f \in R, e[2] = f[2] PROVE e = f
    OBVIOUS
  <2>1. PICK a \in ToSet(SplitPrefixes(ports)), x \in ToSet(ports) :
           GroupName(m, hints, a) = n /\ IsPrefix(a, x[1]) /\ e = <<Rest(a, x[1]), x[2]>>
    BY <1>3
  <2>2. PICK b \in ToSet(SplitPrefixes(ports)), y \in ToSet(ports) :
           GroupName(m, hints, b) = n /\ IsPrefix(b, y[1]) /\ f = <<Rest(b, y[1]), y[2]>>
    BY <1>3
  <2>3. x[2] = y[2]
    BY <2>1, <2>2
  <2>4. x = y
    BY <1>4, <2>3, PlainIs
  <2>5. a = b
    BY <2>1, <2>2, <2>4 DEF Apart
  <2> QED BY <2>1, <2>2, <2>4, <2>5
<1> HIDE DEF R, Of
<1>10. \A e, f \in StructOf(m) : e[2] = f[2] => e = f
  <2> SUFFICES ASSUME NEW e \in StructOf(m), NEW f \in StructOf(m), e[2] = f[2] PROVE e = f
    OBVIOUS
  <2>1. PICK p : e[1] = p /\ e[2].ops = <<Field(p)>>
    BY <1>6
  <2>2. PICK q : f[1] = q /\ f[2].ops = <<Field(q)>>
    BY <1>6
  <2>3. Field(p) = Field(q)
    BY <2>1, <2>2
  <2>4. p = q
    BY <2>3 DEF Field
  <2> QED BY <1>6, <2>1, <2>2, <2>4 DEF Of
<1>11. \A e, f \in ElementOf(m) : e[2] = f[2] => e = f
  <2> SUFFICES ASSUME NEW e \in ElementOf(m), NEW f \in ElementOf(m), e[2] = f[2] PROVE e = f
    OBVIOUS
  <2>1. PICK p, i : e[1] = p /\ e[2].ops = <<Slice(i, i), Field(p)>>
    BY <1>7
  <2>2. PICK q, j : f[1] = q /\ f[2].ops = <<Slice(j, j), Field(q)>>
    BY <1>7
  <2>3. Field(p) = Field(q)
    BY <2>1, <2>2
  <2>4. p = q
    BY <2>3 DEF Field
  <2> QED BY <1>7, <2>1, <2>2, <2>4 DEF Of
<1>12. \A e \in StructOf(m) : Len(e[2].ops) = 1
  <2> SUFFICES ASSUME NEW e \in StructOf(m) PROVE Len(e[2].ops) = 1
    OBVIOUS
  <2>1. PICK p : e[2].ops = <<Field(p)>>
    BY <1>6
  <2> QED BY <2>1
<1>13. \A e \in ElementOf(m) : Len(e[2].ops) = 2
  <2> SUFFICES ASSUME NEW e \in ElementOf(m) PROVE Len(e[2].ops) = 2
    OBVIOUS
  <2>1. PICK p, i : e[2].ops = <<Slice(i, i), Field(p)>>
    BY <1>7
  <2> QED BY <2>1
<1>14. \A e \in R : Len(e[2].ops) = 0
  BY <1>8
<1>15. \A e \in StructOf(m) \cup ElementOf(m) \cup R : Of(e)
  BY <1>6, <1>7, <1>8
<1>16. HintsApart => \A e, f \in StructOf(m) \cup ElementOf(m) \cup R : e[2] = f[2] => e = f
  BY <1>9, <1>10, <1>11, <1>12, <1>13, <1>14
<1> QED BY <1>0, <1>15, <1>16 DEF Of, Known

LEMMA PlainKnown ==
    ASSUME NEW m, IsModule(m) PROVE Known(m, PlainOf(m))
<1>1. \A e \in PlainOf(m) : e = <<e[1], e[2]>> /\ \E p \in Free(m) :
         e[2] = Sel(p.name, <<>>) /\ ~IsStruct(p.type)
  BY DEF PlainOf
<1>2. \A e \in PlainOf(m) : Part(m, e[2])
  <2> SUFFICES ASSUME NEW e \in PlainOf(m) PROVE Part(m, e[2])
    OBVIOUS
  <2>1. PICK p \in Free(m) : e[2] = Sel(p.name, <<>>) /\ ~IsStruct(p.type)
    BY <1>1
  <2>2. e[2].ops = <<>>
    BY <2>1 DEF Sel
  <2> QED BY <2>1, <2>2 DEF Part
<1> QED BY <1>1, <1>2, PlainIs DEF Known

\* Sequences of what is known have known items.
LEMMA KnownItems ==
    ASSUME NEW m, NEW B, Known(m, B), NEW g \in Seq(B)
    PROVE  Known(m, ToSet(g)) /\ IsPairs(ToSet(g)) /\ g \in Seq(ToSet(g))
<1>1. ToSet(g) \subseteq B
  BY Members
<1> QED BY <1>1, Listing DEF Known, IsPairs

\* The groups of a module are known by their names, and what they have is known.
Grouped(m, groups) ==
    /\ groups \in Seq(ToSet(groups)) /\ Once(groups)
    /\ \A g \in ToSet(groups) :
          g = <<g[1], g[2]>> /\ g[2] \in Seq(ToSet(g[2])) /\ Known(m, ToSet(g[2]))

LEMMA GroupsKnown ==
    ASSUME NEW m, IsModule(m), NEW hints, HintsApart => Apart(m, hints)
    PROVE  Grouped(m, CandidateGroups(m, hints))
<1> DEFINE ports == PortDict(m)
           self == [mod |-> m, hints |-> hints]
           B(n) == Bag(m, hints, n)
           all == StructGroups(m) \o PrefixGroups(ports)
           Name(g) == GroupName(m, hints, g[1])
           In == {g \in ToSet(all) : g = <<g[1], g[2]>> /\ g[2] \in Seq(B(Name(g)))}
           N == {Name(g) : g \in ToSet(all)}
           E == UNION {{n} \X Seq(B(n)) : n \in N}
           S == {d \in Seq(E) : Once(d)}
<1>1. all \in Seq(In)
  <2>1. PICK M : StructGroups(m) \in Seq(M \X Seq(FieldsOf(m)))
    BY StructGroupsType
  <2>2. PrefixGroups(ports) \in Seq(PrefixedOf(m))
    BY PrefixGroupsType
  <2>3. all \in Seq((M \X Seq(FieldsOf(m))) \cup PrefixedOf(m))
    BY <2>1, <2>2, SeqJoin
  <2> HIDE DEF all
  <2>4. all \in Seq(ToSet(all)) /\ ToSet(all) \subseteq (M \X Seq(FieldsOf(m))) \cup PrefixedOf(m)
    BY <2>3, Listing, Members
  <2>5. \A g \in M \X Seq(FieldsOf(m)) : g = <<g[1], g[2]>> /\ g[2] \in Seq(B(Name(g)))
    <3> SUFFICES ASSUME NEW g \in M \X Seq(FieldsOf(m))
                 PROVE  g = <<g[1], g[2]>> /\ g[2] \in Seq(B(Name(g)))
      OBVIOUS
    <3>1. FieldsOf(m) \subseteq B(Name(g))
      BY DEF Bag
    <3>2. g = <<g[1], g[2]>> /\ g[2] \in Seq(FieldsOf(m))
      OBVIOUS
    <3> HIDE DEF B, Name
    <3> QED BY <3>1, <3>2, Wider
  <2>6. \A g \in PrefixedOf(m) : g = <<g[1], g[2]>> /\ g[2] \in Seq(B(Name(g)))
    <3> SUFFICES ASSUME NEW g \in PrefixedOf(m)
                 PROVE  g = <<g[1], g[2]>> /\ g[2] \in Seq(B(Name(g)))
      OBVIOUS
    <3>1. g[1] \in ToSet(SplitPrefixes(ports)) /\ g = <<g[1], g[2]>> /\ g[2] \in Seq(RestOf(m, g[1]))
      BY DEF PrefixedOf
    <3>2. RestOf(m, g[1]) \subseteq B(Name(g))
      BY <3>1 DEF Bag
    <3> HIDE DEF B, Name
    <3> QED BY <3>1, <3>2, Wider
  <2>7. ToSet(all) \subseteq In
    <3> HIDE DEF B, Name
    <3> QED BY <2>4, <2>5, <2>6
  <2> HIDE DEF In
  <2> QED BY <2>4, <2>7, Wider
<1>2. \A n : Known(m, B(n)) /\ IsPairs(B(n))
  BY BagKnown DEF Known, IsPairs
<1>3. \A g \in In : Name(g) \in N /\ g[2] \in Seq(B(Name(g)))
  OBVIOUS
<1>4. \A n \in N : \A v \in Seq(B(n)) : <<n, v>> \in E
  OBVIOUS
<1>5. \A e \in E : e = <<e[1], e[2]>> /\ e[2] \in Seq(B(e[1]))
  OBVIOUS
<1>6. <<>> \in S
  BY DEF Once
<1> HIDE DEF In, N, E, B
<1>7. ASSUME NEW d \in S, NEW g \in In PROVE AddGroup(self, d, g) \in S
  <2> DEFINE name == Name(g)
             value == IF name \in Keys(d) THEN Update(At(d, name), g[2]) ELSE g[2]
  <2>1. AddGroup(self, d, g) = Put(d, name, value)
    BY DEF AddGroup
  <2>2. value \in Seq(B(name))
    <3>1. CASE name \in Keys(d)
      <4>1. <<name, At(d, name)>> \in E
        <5>1. IsPairs(E) /\ d \in Seq(E)
          BY <1>5 DEF IsPairs
        <5> HIDE DEF name
        <5> QED BY <3>1, <5>1, AtIn, Members
      <4>2. At(d, name) \in Seq(B(name))
        <5> HIDE DEF name
        <5> QED BY <1>5, <4>1
      <4>3. g[2] \in Seq(B(name))
        BY <1>3
      <4> HIDE DEF name
      <4>4. Update(At(d, name), g[2]) \in Seq(B(name))
        BY <1>2, <4>2, <4>3, UpdateIn
      <4> QED BY <3>1, <4>4
    <3>2. CASE name \notin Keys(d)
      BY <1>3, <3>2
    <3> QED BY <3>1, <3>2
  <2>3. <<name, value>> \in E
    <3>1. name \in N
      BY <1>3
    <3> HIDE DEF name, value
    <3> QED BY <1>4, <2>2, <3>1
  <2> HIDE DEF name, value
  <2>4. d \in Seq(E) /\ Once(d)
    OBVIOUS
  <2>5. Put(d, name, value) \in Seq(E) /\ Once(Put(d, name, value))
    BY <2>3, <2>4, PutIn
  <2> QED BY <2>1, <2>5
<1> DEFINE merged == Merging!Fold(self, <<>>, all)
<1> HIDE DEF S
<1>8. merged \in S
  <2> HIDE DEF all, self
  <2> QED BY <1>1, <1>6, <1>7, Induction, Merging!FoldKeeps
<1>9. CandidateGroups(m, hints) = Put(merged, <<>>, ports)
  BY CandidateGroupsIs
<1> HIDE DEF merged, all, self, Name
<1>10. merged \in Seq(E) /\ Once(merged)
  BY <1>8 DEF S
<1> DEFINE E2 == E \cup {<<<<>>, ports>>}
           groups == CandidateGroups(m, hints)
<1>11. groups \in Seq(E2) /\ Once(groups)
  <2>1. merged \in Seq(E2) /\ <<<<>>, ports>> \in E2
    BY <1>10, Wider
  <2> HIDE DEF E2
  <2> QED BY <1>9, <1>10, <2>1, PutIn
<1>12. ports \in Seq(ToSet(ports)) /\ Known(m, ToSet(ports))
  <2>1. ports \in Seq(PlainOf(m)) /\ Known(m, PlainOf(m))
    BY PortDictType, PlainKnown
  <2> HIDE DEF ports
  <2> QED BY <2>1, KnownItems
<1>13. \A g \in E2 : g = <<g[1], g[2]>> /\ g[2] \in Seq(ToSet(g[2])) /\ Known(m, ToSet(g[2]))
  <2>1. ASSUME NEW g \in E
        PROVE  g = <<g[1], g[2]>> /\ g[2] \in Seq(ToSet(g[2])) /\ Known(m, ToSet(g[2]))
    BY <1>2, <1>5, KnownItems
  <2> HIDE DEF ports
  <2> QED BY <1>12, <2>1
<1> HIDE DEF E2, groups
<1>14. groups \in Seq(ToSet(groups)) /\ ToSet(groups) \subseteq E2
  BY <1>11, Listing, Members
<1> QED BY <1>11, <1>13, <1>14 DEF Grouped, groups

(***************************************************************************)
(* Candidates.                                                             *)
(***************************************************************************)
LEMMA MatchSignalsType ==
    ASSUME NEW P, NEW ports \in Seq(P), NEW d \in DOMAIN Definitions
    PROVE  LET matched == MatchSignals(ports, d)
           IN  matched \in Seq(Keys(ports) \X ToSet(Definitions[d])) /\ Once(matched)
<1> DEFINE signals == Definitions[d]
           E == Keys(ports) \X ToSet(signals)
           S == {x \in Seq(E) : Once(x)}
<1>1. signals \in Seq(ToSet(signals))
  BY Interfaces
<1>2. ByLength(signals) \in Seq(ToSet(signals))
  BY <1>1, FallingType DEF ByLength
<1>3. ASSUME NEW out \in S, NEW sig \in ToSet(signals) PROVE MatchSignal(ports, out, sig) \in S
  <2> DEFINE fits == {i \in DOMAIN ports : Matches(sig, ports[i][1])}
             key == ports[Min(fits)][1]
  <2>1. CASE fits = {}
    BY <2>1 DEF MatchSignal
  <2>2. CASE fits # {}
    <3>1. fits \subseteq DOMAIN ports /\ DOMAIN ports \subseteq Nat
      OBVIOUS
    <3>2. Min(fits) \in DOMAIN ports
      <4> HIDE DEF fits
      <4>1. Min(fits) \in fits
        BY <2>2, <3>1, MinIn
      <4> QED BY <3>1, <4>1
    <3>3. key \in Keys(ports)
      BY <3>2 DEF Keys
    <3>4. MatchSignal(ports, out, sig) = Put(out, key, sig)
      BY <2>2 DEF MatchSignal
    <3> HIDE DEF key, fits
    <3>5. <<key, sig>> \in E
      BY <3>3
    <3> HIDE DEF E, signals
    <3>6. out \in Seq(E) /\ Once(out)
      OBVIOUS
    <3> QED BY <3>4, <3>5, <3>6, PutIn
  <2> QED BY <2>1, <2>2
<1>4. <<>> \in S
  BY DEF Once
<1> HIDE DEF S, signals
<1>5. Matching!Fold(ports, <<>>, ByLength(signals)) \in S
  BY <1>2, <1>3, <1>4, Induction, Matching!FoldKeeps
<1> QED BY <1>5, MatchSignalsIs DEF S, signals

Offered(groups, c) ==
    /\ c.prefix \in Keys(groups) /\ c.def \in DOMAIN Definitions
    /\ c.matched \in Seq(Keys(At(groups, c.prefix)) \X ToSet(Definitions[c.def]))
    /\ Once(c.matched)

LEMMA CandidatesType ==
    ASSUME NEW m, NEW groups, Grouped(m, groups), NEW defs \in Seq(DOMAIN Definitions)
    PROVE  LET cands == Candidates(m, groups, defs)
           IN  cands \in Seq(ToSet(cands)) /\ \A c \in ToSet(cands) : Offered(groups, c)
<1> DEFINE self == [mod |-> m, defs |-> defs]
           G == ToSet(groups)
           X == {Candidate(m, g[1], g[2], d) : g \in G, d \in DOMAIN Definitions}
           S == Seq(X)
           cands == Candidates(m, groups, defs)
<1>1. groups \in Seq(G)
  BY DEF Grouped
<1>2. ASSUME NEW out \in S, NEW g \in G PROVE Offer(self, out, g) \in S
  <2> DEFINE new == [j \in DOMAIN defs |-> Candidate(m, g[1], g[2], defs[j])]
  <2>1. Offer(self, out, g) = out \o new
    BY DEF Offer
  <2>2. DOMAIN defs = 1..Len(defs) /\ Len(defs) \in Nat
        /\ \A j \in DOMAIN defs : defs[j] \in DOMAIN Definitions
    OBVIOUS
  <2>3. \A j \in 1..Len(defs) : Candidate(m, g[1], g[2], defs[j]) \in X
    BY <2>2
  <2> HIDE DEF X
  <2>4. new \in [1..Len(defs) -> X]
    BY <2>2, <2>3
  <2> HIDE DEF new
  <2>5. new \in Seq(X)
    BY <2>2, <2>4, SeqDef
  <2>6. out \o new \in Seq(X)
    BY <2>5
  <2> HIDE DEF self
  <2> QED BY <2>1, <2>6
<1>3. <<>> \in S
  OBVIOUS
<1> DEFINE all == Offering!Fold(self, <<>>, groups)
           good == {c \in ToSet(all) : c.mode # "none"}
<1>4. cands = Among(all, good)
  BY CandidatesIs
<1> HIDE DEF S, G, self
<1>5. all \in S
  BY <1>1, <1>2, <1>3, Induction, Offering!FoldKeeps
<1> HIDE DEF all, good, cands, X
<1>6. Among(all, good) \in Seq(X \cap good)
  BY <1>5, AmongType DEF S
<1>7. cands \in Seq(X)
  BY <1>4, <1>6, Wider
<1>8. cands \in Seq(ToSet(cands)) /\ ToSet(cands) \subseteq X
  BY <1>7, Listing, Members
<1>9. ASSUME NEW c \in X PROVE Offered(groups, c)
  <2>1. PICK g \in G, d \in DOMAIN Definitions : c = Candidate(m, g[1], g[2], d)
    BY DEF X
  <2>2. g = <<g[1], g[2]>> /\ g[2] \in Seq(ToSet(g[2])) /\ Once(groups) /\ IsPairs(G)
    BY DEF Grouped, G, IsPairs
  <2>3. PICK i \in DOMAIN groups : groups[i] = g
    BY DEF G, ToSet
  <2>4. g[1] \in Keys(groups)
    BY <2>3 DEF Keys
  <2>5. At(groups, g[1]) = g[2]
    BY <1>1, <2>2, <2>3, <2>4, AtIn
  <2>6. c.prefix = g[1] /\ c.def = d /\ c.matched = MatchSignals(g[2], d)
    BY <2>1 DEF Candidate
  <2>7. /\ MatchSignals(g[2], d) \in Seq(Keys(g[2]) \X ToSet(Definitions[d]))
        /\ Once(MatchSignals(g[2], d))
    BY <2>2, MatchSignalsType
  <2> QED BY <2>4, <2>5, <2>6, <2>7 DEF Offered
<1> QED BY <1>8, <1>9 DEF cands

\* The signals of an interface are signals of its definition and parts of free ports, no two
\* of them the same part.
Sound(m, g) ==
    /\ g.def \in DOMAIN Definitions /\ g.signals = [s \in DOMAIN g.signals |-> g.signals[s]]
    /\ \A s \in DOMAIN g.signals :
          Part(m, g.signals[s]) /\ \E x \in ToSet(Definitions[g.def]) : x.name = s
    /\ HintsApart => \A s, t \in DOMAIN g.signals : g.signals[s] = g.signals[t] => s = t

LEMMA GroupSound ==
    ASSUME NEW m, NEW groups, Grouped(m, groups), NEW c, Offered(groups, c)
    PROVE  LET ports == At(groups, c.prefix)
               g == Group(c, ports)
           IN  /\ Sound(m, g)
               /\ \A s \in DOMAIN g.signals : g.signals[s] \in {e[2] : e \in ToSet(ports)}
<1> DEFINE ports == At(groups, c.prefix)
           g == Group(c, ports)
           M == ToSet(c.matched)
           sigs == ToSet(Definitions[c.def])
           entry(s) == CHOOSE e \in M : e[2].name = s
<1>1. ports \in Seq(ToSet(ports)) /\ Known(m, ToSet(ports)) /\ IsPairs(ToSet(ports))
  <2>1. groups \in Seq(ToSet(groups)) /\ IsPairs(ToSet(groups)) /\ c.prefix \in Keys(groups)
    BY DEF Grouped, IsPairs, Offered
  <2>2. <<c.prefix, ports>> \in ToSet(groups)
    BY <2>1, AtIn
  <2> HIDE DEF ports
  <2>3. ports \in Seq(ToSet(ports)) /\ Known(m, ToSet(ports))
    BY <2>2 DEF Grouped
  <2> QED BY <2>3 DEF Known, IsPairs
<1>2. c.matched \in Seq(Keys(ports) \X sigs) /\ Once(c.matched)
  BY DEF Offered
<1>3. M \subseteq Keys(ports) \X sigs
  BY <1>2, Members
<1>4. \A e, f \in M : e[1] = f[1] => e = f
  BY DEF Once, ToSet, Offered
<1>5. /\ g.def = c.def /\ DOMAIN g.signals = {e[2].name : e \in M}
      /\ \A s \in DOMAIN g.signals : g.signals[s] = At(ports, entry(s)[1])
      /\ g.signals = [s \in DOMAIN g.signals |-> g.signals[s]] /\ g.def \in DOMAIN Definitions
  BY DEF Group, Offered
<1>6. \A s \in DOMAIN g.signals : entry(s) \in M /\ entry(s)[2].name = s
  BY <1>5
<1> HIDE DEF g, M, sigs, entry, ports
<1>7. ASSUME NEW s \in DOMAIN g.signals
      PROVE  /\ <<entry(s)[1], g.signals[s]>> \in ToSet(ports)
             /\ entry(s)[2] \in sigs
  <2>1. entry(s)[1] \in Keys(ports) /\ entry(s)[2] \in sigs
    BY <1>3, <1>6
  <2>2. <<entry(s)[1], At(ports, entry(s)[1])>> \in ToSet(ports)
    BY <1>1, <2>1, AtIn
  <2> QED BY <1>5, <2>1, <2>2
<1>8. ASSUME NEW s \in DOMAIN g.signals
      PROVE  /\ g.signals[s] \in {e[2] : e \in ToSet(ports)}
             /\ Part(m, g.signals[s])
             /\ \E x \in ToSet(Definitions[g.def]) : x.name = s
  <2>1. g.signals[s] = (<<entry(s)[1], g.signals[s]>>)[2]
    OBVIOUS
  <2>2. Part(m, g.signals[s])
    BY <1>1, <1>7, <2>1 DEF Known
  <2>3. entry(s)[2] \in ToSet(Definitions[g.def]) /\ entry(s)[2].name = s
    BY <1>5, <1>6, <1>7 DEF sigs
  <2> QED BY <1>7, <2>1, <2>2, <2>3
<1>9. ASSUME HintsApart, NEW s \in DOMAIN g.signals, NEW t \in DOMAIN g.signals,
             g.signals[s] = g.signals[t]
      PROVE  s = t
  <2>1. /\ <<entry(s)[1], g.signals[s]>> \in ToSet(ports)
        /\ <<entry(t)[1], g.signals[s]>> \in ToSet(ports)
    BY <1>7, <1>9
  <2>2. <<entry(s)[1], g.signals[s]>> = <<entry(t)[1], g.signals[s]>>
    BY <1>1, <1>9, <2>1 DEF Known
  <2>3. entry(s) = entry(t)
    BY <1>4, <1>6, <2>2
  <2> QED BY <1>6, <2>3
<1> QED BY <1>5, <1>8, <1>9 DEF Sound, g, ports

LEMMA PutAt ==
    ASSUME NEW E, NEW d \in Seq(E), NEW key, NEW value
    PROVE  LET new == Put(d, key, value)
           IN  \A i \in DOMAIN new : new[i] = <<key, value>> \/ (i \in DOMAIN d /\ new[i] = d[i])
<1>1. CASE \E i \in DOMAIN d : d[i][1] = key
  <2>1. Put(d, key, value) = [i \in DOMAIN d |-> IF d[i][1] = key THEN <<key, value>> ELSE d[i]]
    BY <1>1, Zenon DEF Put
  <2> QED BY <2>1
<1>2. CASE ~\E i \in DOMAIN d : d[i][1] = key
  <2>1. Put(d, key, value) = Append(d, <<key, value>>)
    BY <1>2, Zenon DEF Put
  <2> QED BY <2>1
<1> QED BY <1>1, <1>2

(***************************************************************************)
(* What is taken: no two interfaces have a part of a port in common.       *)
(***************************************************************************)
Disjoint(m, out, used) ==
    /\ \A i \in DOMAIN out :
          Sound(m, out[i][2]) /\ \A s \in DOMAIN out[i][2].signals : out[i][2].signals[s] \in used
    /\ \A i, j \in DOMAIN out :
          \A s \in DOMAIN out[i][2].signals, t \in DOMAIN out[j][2].signals :
             out[i][2].signals[s] = out[j][2].signals[t] => i = j

LEMMA PutDisjoint ==
    ASSUME NEW m, NEW E, NEW out \in Seq(E), NEW used, Disjoint(m, out, used),
           NEW name, NEW g, NEW more, Sound(m, g), more \cap used = {},
           \A s \in DOMAIN g.signals : g.signals[s] \in more, Once(Put(out, name, g))
    PROVE  Disjoint(m, Put(out, name, g), used \cup more)
<1> DEFINE new == Put(out, name, g)
<1>1. \A i \in DOMAIN new : new[i] = <<name, g>> \/ (i \in DOMAIN out /\ new[i] = out[i])
  BY PutAt
<1>2. Once(new)
  OBVIOUS
<1> HIDE DEF new
<1>3. \A i \in DOMAIN new : new[i] = <<name, g>> => new[i][1] = name /\ new[i][2] = g
  OBVIOUS
<1>4. \A i, j \in DOMAIN new : new[i] = <<name, g>> /\ new[j] = <<name, g>> => i = j
  BY <1>2, <1>3 DEF Once
<1>5. ASSUME NEW i \in DOMAIN new
      PROVE  Sound(m, new[i][2]) /\ \A s \in DOMAIN new[i][2].signals : new[i][2].signals[s] \in used \cup more
  <2>1. CASE new[i] = <<name, g>>
    BY <2>1, <1>3
  <2>2. CASE i \in DOMAIN out /\ new[i] = out[i]
    BY <2>2 DEF Disjoint
  <2> QED BY <1>1, <2>1, <2>2
<1>6. ASSUME NEW i \in DOMAIN new, NEW j \in DOMAIN new,
             NEW s \in DOMAIN new[i][2].signals, NEW t \in DOMAIN new[j][2].signals,
             new[i][2].signals[s] = new[j][2].signals[t]
      PROVE  i = j
  <2>1. CASE new[i] = <<name, g>> /\ new[j] = <<name, g>>
    BY <1>4, <2>1
  <2>2. CASE new[i] = <<name, g>> /\ j \in DOMAIN out /\ new[j] = out[j]
    <3>1. new[i][2].signals[s] \in more
      BY <1>3, <2>2
    <3>2. new[j][2].signals[t] \in used
      BY <2>2 DEF Disjoint
    <3> QED BY <1>6, <3>1, <3>2
  <2>3. CASE new[j] = <<name, g>> /\ i \in DOMAIN out /\ new[i] = out[i]
    <3>1. new[j][2].signals[t] \in more
      BY <1>3, <2>3
    <3>2. new[i][2].signals[s] \in used
      BY <2>3 DEF Disjoint
    <3> QED BY <1>6, <3>1, <3>2
  <2>4. CASE i \in DOMAIN out /\ new[i] = out[i] /\ j \in DOMAIN out /\ new[j] = out[j]
    BY <1>6, <2>4 DEF Disjoint
  <2> QED BY <1>1, <2>1, <2>2, <2>3, <2>4
<1> QED BY <1>5, <1>6 DEF Disjoint, new

\* The names that `Take' can give.
Bases(hints, cands) ==
    {c.prefix : c \in cands} \cup {DefName(c.def) : c \in cands}
        \cup {hints[DefName(c.def)] : c \in cands}
NamesOf(m, hints, cands) ==
    Bases(hints, cands) \cup {Numbered(b, n) : b \in Bases(hints, cands), n \in Nat}
        \cup {i.name : i \in ToSet(m.intfs)}
Counts(U) == UNION {[D -> Nat] : D \in SUBSET U}

LEMMA CountUse ==
    ASSUME NEW U, NEW names \in Counts(U), NEW n \in U
    PROVE  Counted(names, n) \in Counts(U)
<1>1. PICK D \in SUBSET U : names \in [D -> Nat]
  BY DEF Counts
<1>2. Uses(names, n) + 1 \in Nat
  BY <1>1 DEF Uses
<1>3. Counted(names, n) = [x \in D \cup {n} |-> IF x = n THEN Uses(names, n) + 1 ELSE names[x]]
  BY <1>1 DEF Counted
<1>4. Counted(names, n) \in [D \cup {n} -> Nat]
  BY <1>1, <1>2, <1>3
<1>5. D \cup {n} \in SUBSET U
  BY <1>1
<1> QED BY <1>4, <1>5 DEF Counts

LEMMA UsesIn == ASSUME NEW U, NEW names \in Counts(U), NEW n PROVE Uses(names, n) \in Nat
BY DEF Counts, Uses

SelsOf(groups) == UNION {{e[2] : e \in ToSet(g[2])} : g \in ToSet(groups)}
TakenOf(m, groups, hints, cands) ==
    LET U == NamesOf(m, hints, cands)
    IN  {st \in [used : SUBSET SelsOf(groups), names : Counts(U),
                 out : Seq(U \X {Group(c, At(groups, c.prefix)) : c \in cands})] :
            Once(st.out) /\ Disjoint(m, st.out, st.used)}

LEMMA TakeKeeps ==
    ASSUME NEW m, NEW groups, Grouped(m, groups), NEW hints, NEW cands,
           \A c \in cands : Offered(groups, c),
           NEW st \in TakenOf(m, groups, hints, cands), NEW c \in cands
    PROVE  Take([groups |-> groups, hints |-> hints], st, c) \in TakenOf(m, groups, hints, cands)
<1> DEFINE self == [groups |-> groups, hints |-> hints]
           ports == At(groups, c.prefix)
           sels == {e[2] : e \in ToSet(ports)}
           def == DefName(c.def)
           hinted == IF def \in DOMAIN hints THEN hints[def] ELSE def
           base == IF c.prefix # <<>> THEN c.prefix ELSE hinted
           times == Uses(st.names, base)
           name == IF times > 0 THEN Numbered(base, times) ELSE base
           g == Group(c, ports)
           U == NamesOf(m, hints, cands)
           E == U \X {Group(x, At(groups, x.prefix)) : x \in cands}
           out == Put(st.out, name, g)
           new == [used |-> st.used \cup sels, names |-> Counted(st.names, name), out |-> out]
<1>1. /\ st.used \in SUBSET SelsOf(groups) /\ st.names \in Counts(U) /\ st.out \in Seq(E)
      /\ Once(st.out) /\ Disjoint(m, st.out, st.used)
  BY DEF TakenOf
<1>2. CASE sels \cap st.used # {}
  <2>1. Take(self, st, c) = st
    BY <1>2 DEF Take
  <2> QED BY <2>1
<1>3. CASE sels \cap st.used = {}
  <2>1. Take(self, st, c) = new
    BY <1>3 DEF Take
  <2>2. base \in Bases(hints, cands)
    BY DEF Bases
  <2>3. times \in Nat
    <3> HIDE DEF base, U
    <3> QED BY <1>1, UsesIn
  <2>4. name \in U
    <3> HIDE DEF base, times
    <3> QED BY <2>2, <2>3 DEF NamesOf
  <2> HIDE DEF name, U, base, times
  <2>5. Counted(st.names, name) \in Counts(U)
    BY <1>1, <2>4, CountUse
  <2>6. sels \subseteq SelsOf(groups)
    <3>1. groups \in Seq(ToSet(groups)) /\ IsPairs(ToSet(groups)) /\ c.prefix \in Keys(groups)
      BY DEF Grouped, IsPairs, Offered
    <3>2. <<c.prefix, ports>> \in ToSet(groups)
      BY <3>1, AtIn
    <3> HIDE DEF ports
    <3> QED BY <3>2 DEF SelsOf
  <2>7. <<name, g>> \in E
    BY <2>4
  <2>8. Sound(m, g) /\ \A s \in DOMAIN g.signals : g.signals[s] \in sels
    BY GroupSound
  <2> HIDE DEF g, sels, E
  <2>9. out \in Seq(E) /\ Once(out)
    BY <1>1, <2>7, PutIn
  <2>10. Disjoint(m, out, st.used \cup sels)
    BY <1>1, <1>3, <2>8, <2>9, PutDisjoint
  <2> HIDE DEF out
  <2>11. new \in [used : SUBSET SelsOf(groups), names : Counts(U), out : Seq(E)]
    BY <1>1, <2>5, <2>6, <2>9
  <2>12. new.out = out /\ new.used = st.used \cup sels
    OBVIOUS
  <2> HIDE DEF new
  <2>13. new \in TakenOf(m, groups, hints, cands)
    BY <2>9, <2>10, <2>11, <2>12 DEF TakenOf, E, U
  <2> QED BY <2>1, <2>13
<1> QED BY <1>2, <1>3

\* The interfaces that inference makes of a module, before they are mapped to it.
Mapped(m, mapping) ==
    /\ mapping \in Seq(ToSet(mapping))
    /\ \A i \in DOMAIN mapping : Sound(m, mapping[i][2])
    /\ \A i, j \in DOMAIN mapping :
          \A s \in DOMAIN mapping[i][2].signals, t \in DOMAIN mapping[j][2].signals :
             mapping[i][2].signals[s] = mapping[j][2].signals[t] => i = j

LEMMA InferMapped ==
    ASSUME NEW m, IsModule(m), NEW hints, HintsApart => Apart(m, hints),
           NEW defs \in Seq(DOMAIN Definitions)
    PROVE  Mapped(m, Infer(m, defs, hints))
<1> DEFINE groups == CandidateGroups(m, hints)
           self == [groups |-> groups, hints |-> hints]
           cands == Candidates(m, groups, defs)
           C == ToSet(cands)
           good == {c \in C : c.score > 0 \/ Len(cands) = 1}
           taken == Among(Ranked(cands), good)
           names == [n \in {i.name : i \in ToSet(m.intfs)} |->
                        Cardinality({k \in DOMAIN m.intfs : m.intfs[k].name = n})]
           start == [used |-> {}, out |-> <<>>, names |-> names]
           S == TakenOf(m, groups, hints, C)
<1>1. Infer(m, defs, hints) = Taking!Fold(self, start, taken).out
  BY InferIs
<1>2. Grouped(m, groups)
  BY GroupsKnown
<1>3. cands \in Seq(C) /\ \A c \in C : Offered(groups, c)
  <2> HIDE DEF groups
  <2> QED BY <1>2, CandidatesType
<1>4. taken \in Seq(C)
  <2> HIDE DEF C, good, cands
  <2>1. Ranked(cands) \in Seq(C)
    BY <1>3, FallingType DEF Ranked
  <2>2. taken \in Seq(C \cap good)
    BY <2>1, AmongType
  <2> QED BY <2>2, Wider
<1>5. start \in S
  <2> DEFINE U == NamesOf(m, hints, C)
             D == {i.name : i \in ToSet(m.intfs)}
  <2>1. D \in SUBSET U
    <3> HIDE DEF C
    <3> QED BY DEF NamesOf
  <2>2. \A n \in D : Cardinality({k \in DOMAIN m.intfs : m.intfs[k].name = n}) \in Nat
    <3>1. m.intfs \in Seq(ToSet(m.intfs))
      BY DEF IsModule, Shaped
    <3>2. DOMAIN m.intfs = 1..Len(m.intfs) /\ Len(m.intfs) \in Nat
      BY <3>1, Listing
    <3>3. IsFiniteSet(DOMAIN m.intfs)
      BY <3>2, FS_Interval
    <3> QED BY <3>3, FS_Subset, FS_CardinalityType
  <2>3. names \in [D -> Nat]
    BY <2>2
  <2> HIDE DEF names, D, U
  <2>4. names \in Counts(U)
    BY <2>1, <2>3 DEF Counts
  <2>5. Once(<<>>) /\ Disjoint(m, <<>>, {})
    BY DEF Once, Disjoint
  <2> HIDE DEF C, groups
  <2>6. start \in [used : SUBSET SelsOf(groups), names : Counts(U),
                   out : Seq(U \X {Group(c, At(groups, c.prefix)) : c \in C})]
    BY <2>4
  <2>7. start.out = <<>> /\ start.used = {}
    OBVIOUS
  <2> HIDE DEF start
  <2> QED BY <2>5, <2>6, <2>7 DEF TakenOf, U
<1> HIDE DEF groups, cands, C, taken, start
<1>6. \A st \in S, c \in C : Take(self, st, c) \in S
  BY <1>2, <1>3, TakeKeeps
<1> HIDE DEF S, self
<1>7. Taking!Fold(self, start, taken) \in S
  BY <1>4, <1>5, <1>6, Induction, Taking!FoldKeeps
<1> DEFINE st == Taking!Fold(self, start, taken)
<1> HIDE DEF st
<1>8. PICK E : st.out \in Seq(E)
  <2>1. st \in S
    BY <1>7 DEF st
  <2>2. st.out \in Seq(NamesOf(m, hints, C) \X {Group(c, At(groups, c.prefix)) : c \in C})
    BY <2>1 DEF S, TakenOf
  <2> QED BY <2>2
<1>9. Disjoint(m, st.out, st.used)
  BY <1>7 DEF S, TakenOf, st
<1>10. st.out \in Seq(ToSet(st.out))
  BY <1>8, Listing
<1>11. Mapped(m, st.out)
  BY <1>9, <1>10 DEF Disjoint, Mapped
<1> QED BY <1>1, <1>11 DEF st

(***************************************************************************)
(* Interfaces in the module.                                               *)
(***************************************************************************)
LEMMA PrefixSame ==
    ASSUME NEW M, NEW s \in Seq(M), NEW t \in Seq(M), Len(s) = Len(t), IsPrefix(s, t)
    PROVE  s = t
<1>1. SubSeq(s, 1, Len(s)) = SubSeq(t, 1, Len(t))
  BY DEF IsPrefix
<1>2. SubSeq(s, 1, Len(s)) = s /\ SubSeq(t, 1, Len(t)) = t
  OBVIOUS
<1> QED BY <1>1, <1>2

LEMMA JoinParts ==
    ASSUME NEW M, NEW s \in Seq(M), NEW N, NEW t \in Seq(N)
    PROVE  /\ IsPrefix(s, s \o t) /\ SubSeq(s \o t, Len(s) + 1, Len(s \o t)) = t
           /\ \A x : Append(s \o t, x) = s \o Append(t, x)
<1>1. s \in Seq(M \cup N) /\ t \in Seq(M \cup N)
  BY Wider
<1>2. SubSeq(s, 1, Len(s)) = SubSeq(s \o t, 1, Len(s)) /\ Len(s) <= Len(s \o t)
  BY <1>1
<1>3. SubSeq(s \o t, Len(s) + 1, Len(s \o t)) = t
  BY <1>1
<1>4. ASSUME NEW x PROVE Append(s \o t, x) = s \o Append(t, x)
  <2>1. s \in Seq(M \cup N \cup {x}) /\ t \in Seq(M \cup N \cup {x}) /\ x \in M \cup N \cup {x}
    BY <1>1, Wider
  <2> QED BY <2>1
<1> QED BY <1>2, <1>3, <1>4 DEF IsPrefix

LEMMA PartOverlap ==
    ASSUME NEW m, IsModule(m), NEW s, NEW t, Part(m, s), Part(m, t), Overlap(s, t),
           NEW mod, mod.ports = m.ports
    PROVE  s = t \/ WholeArray(mod, s, t)
<1>1. PICK p \in Free(m) :
       /\ s = Sel(p.name, s.ops)
       /\ \/ s.ops = <<>> /\ ~IsStruct(p.type)
          \/ \E path : s.ops = <<Field(path)>> /\ IsStruct(p.type)
          \/ \E path, i : s.ops = <<Slice(i, i), Field(path)>> /\ p.type.kind = "structs"
  BY DEF Part
<1>2. PICK q \in Free(m) :
       /\ t = Sel(q.name, t.ops)
       /\ \/ t.ops = <<>> /\ ~IsStruct(q.type)
          \/ \E path : t.ops = <<Field(path)>> /\ IsStruct(q.type)
          \/ \E path, i : t.ops = <<Slice(i, i), Field(path)>> /\ q.type.kind = "structs"
  BY DEF Part
<1>3. s.port = p.name /\ t.port = q.name
  BY <1>1, <1>2 DEF Sel
<1>4. p = q
  <2>1. p.name = q.name
    BY <1>3 DEF Overlap
  <2>2. p \in ToSet(m.ports) /\ q \in ToSet(m.ports)
    BY DEF Free
  <2> QED BY <2>1, <2>2, ModuleIs
<1>5. Find(mod.ports, s.port) = p
  <2>1. Find(m.ports, p.name) = p
    BY ModuleIs DEF Free
  <2> QED BY <1>3, <2>1
<1>6. ASSUME NEW x, NEW y, IsPrefix(<<x>>, <<y>>) PROVE <<x>> = <<y>>
  <2>1. <<x>> \in Seq({x, y}) /\ <<y>> \in Seq({x, y}) /\ Len(<<x>>) = Len(<<y>>)
    OBVIOUS
  <2> QED BY <1>6, <2>1, PrefixSame
<1>7. ASSUME NEW x, NEW y, NEW z, NEW w, IsPrefix(<<x, y>>, <<z, w>>) PROVE <<x, y>> = <<z, w>>
  <2> DEFINE M == {x, y, z, w}
  <2>1. <<x, y>> \in Seq(M) /\ <<z, w>> \in Seq(M) /\ Len(<<x, y>>) = Len(<<z, w>>)
    OBVIOUS
  <2> QED BY <1>7, <2>1, PrefixSame
<1>8. s.ops = t.ops => s = t
  BY <1>1, <1>2, <1>4
<1>9. IsPrefix(s.ops, t.ops) \/ IsPrefix(t.ops, s.ops)
  BY DEF Overlap
<1>10. CASE IsStruct(p.type)
  <2>1. p.type.kind = "struct"
    BY <1>10 DEF IsStruct
  <2>2. PICK x : s.ops = <<Field(x)>>
    BY <1>1, <1>10, <2>1
  <2>3. PICK y : t.ops = <<Field(y)>>
    BY <1>2, <1>4, <1>10, <2>1
  <2>4. s.ops = t.ops
    BY <1>6, <1>9, <2>2, <2>3
  <2> QED BY <1>8, <2>4
<1>11. CASE ~IsStruct(p.type)
  <2>1. CASE s.ops = <<>> /\ t.ops = <<>>
    BY <1>8, <2>1
  <2>2. CASE s.ops = <<>> /\ t.ops # <<>>
    <3>1. p.type.kind = "structs"
      BY <1>2, <1>4, <1>11, <2>2
    <3> QED BY <1>5, <2>2, <3>1 DEF WholeArray
  <2>3. CASE s.ops # <<>> /\ t.ops = <<>>
    <3>1. p.type.kind = "structs"
      BY <1>1, <1>11, <2>3
    <3> QED BY <1>5, <2>3, <3>1 DEF WholeArray
  <2>4. CASE s.ops # <<>> /\ t.ops # <<>>
    <3>1. PICK x, i : s.ops = <<Slice(i, i), Field(x)>>
      BY <1>1, <1>11, <2>4
    <3>2. PICK y, j : t.ops = <<Slice(j, j), Field(y)>>
      BY <1>2, <1>4, <1>11, <2>4
    <3>3. s.ops = t.ops
      BY <1>7, <1>9, <3>1, <3>2
    <3> QED BY <1>8, <3>3
  <2> QED BY <2>1, <2>2, <2>3, <2>4
<1> QED BY <1>10, <1>11

\* The module with more interfaces.
Joined(m, built) == [m EXCEPT !.intfs = @ \o built]
Distinct(intfs) == \A i, j \in DOMAIN intfs : intfs[i].name = intfs[j].name => i = j
Interface(name, group) ==
    [name |-> name, def |-> group.def, mode |-> group.mode,
     signals |-> group.signals, clock |-> "", reset |-> "", size |-> 0]
BuiltOf(m, mapping) ==
    {Interface(e[1], e[2]) : e \in {f \in ToSet(mapping) : Named(m.intfs, f[1]) = {}}}

LEMMA JoinedIs ==
    ASSUME NEW m, IsModule(m), NEW built
    PROVE  /\ Joined(m, built) = Module(m.name, m.ports, m.intfs \o built, m.params, m.clocks, m.resets)
           /\ Joined(m, built).name = m.name /\ Joined(m, built).ports = m.ports
           /\ Joined(m, built).intfs = m.intfs \o built
           /\ \A y : [Joined(m, built) EXCEPT !.intfs = y] = [m EXCEPT !.intfs = y]
<1>1. m = Module(m.name, m.ports, m.intfs, m.params, m.clocks, m.resets)
  BY DEF IsModule, Shaped
<1>2. \A y : [m EXCEPT !.intfs = y] = Module(m.name, m.ports, y, m.params, m.clocks, m.resets)
  BY <1>1 DEF Module
<1>3. Joined(m, built) = Module(m.name, m.ports, m.intfs \o built, m.params, m.clocks, m.resets)
  BY <1>2 DEF Joined
<1> DEFINE z == m.intfs \o built
           x == Module(m.name, m.ports, z, m.params, m.clocks, m.resets)
<1> HIDE DEF z
<1>4. \A y : [x EXCEPT !.intfs = y] = Module(m.name, m.ports, y, m.params, m.clocks, m.resets)
  BY DEF Module
<1>5. x.name = m.name /\ x.ports = m.ports /\ x.intfs = z
  BY DEF Module
<1> HIDE DEF x
<1>6. \A y : [x EXCEPT !.intfs = y] = [m EXCEPT !.intfs = y]
  BY <1>2, <1>4
<1>7. Joined(m, built) = x
  BY <1>3 DEF x, z
<1> QED BY <1>3, <1>5, <1>6, <1>7 DEF z

LEMMA MapJoins ==
    ASSUME NEW m, IsModule(m), NEW mapping, mapping \in Seq(ToSet(mapping))
    PROVE  \E built \in Seq(BuiltOf(m, mapping)) :
              MapInterfaces(m, mapping) = Joined(m, built) /\ Distinct(m.intfs \o built)
<1> DEFINE B == BuiltOf(m, mapping)
           S == {Joined(m, b) : b \in {c \in Seq(B) : Distinct(m.intfs \o c)}}
<1>1. m.intfs \in Seq(ToSet(m.intfs)) /\ Distinct(m.intfs)
  BY DEF IsModule, Shaped, Distinct
<1>2. m \in S
  <2>1. <<>> \in Seq(B) /\ m.intfs \o <<>> = m.intfs
    BY <1>1
  <2>2. [m EXCEPT !.intfs = m.intfs] = m
    BY DEF IsModule, Shaped, Module
  <2>3. Joined(m, <<>>) = m
    BY <2>1, <2>2 DEF Joined
  <2> HIDE DEF B
  <2> QED BY <1>1, <2>1, <2>3
<1>3. ASSUME NEW x \in S, NEW e \in ToSet(mapping) PROVE BuildStep(0, x, e) \in S
  <2>1. PICK b \in Seq(B) : x = Joined(m, b) /\ Distinct(m.intfs \o b)
    OBVIOUS
  <2> DEFINE new == Interface(e[1], e[2])
             joined == m.intfs \o b
             M == ToSet(m.intfs) \cup B
  <2>2. x.intfs = joined /\ \A y : [x EXCEPT !.intfs = y] = [m EXCEPT !.intfs = y]
    <3>1. /\ Joined(m, b).intfs = m.intfs \o b
          /\ \A y : [Joined(m, b) EXCEPT !.intfs = y] = [m EXCEPT !.intfs = y]
      BY JoinedIs
    <3> QED BY <2>1, <3>1
  <2>3. joined \in Seq(M) /\ Len(joined) = Len(m.intfs) + Len(b)
    <3> HIDE DEF B
    <3> QED BY <1>1, SeqJoin
  <2>4. CASE Named(x.intfs, e[1]) # {}
    BY <2>4 DEF BuildStep, BuildInterface
  <2>5. CASE Named(x.intfs, e[1]) = {}
    <3>1. \A i \in ToSet(joined) : i.name # e[1]
      BY <2>2, <2>5 DEF Named
    <3>2. ToSet(m.intfs) \subseteq ToSet(joined)
      <4> SUFFICES ASSUME NEW i \in DOMAIN m.intfs PROVE m.intfs[i] \in ToSet(joined)
        BY DEF ToSet
      <4>1. Len(b) \in Nat
        <5> HIDE DEF B
        <5> QED BY Listing
      <4>2. joined[i] = m.intfs[i]
        <5> HIDE DEF B
        <5> QED BY <1>1
      <4>3. DOMAIN joined = 1..Len(joined) /\ DOMAIN m.intfs = 1..Len(m.intfs) /\ Len(m.intfs) \in Nat
        <5> HIDE DEF joined, M
        <5> QED BY <1>1, <2>3, Listing
      <4>4. i \in DOMAIN joined
        <5> HIDE DEF joined, B
        <5> QED BY <2>3, <4>1, <4>3
      <4> QED BY <4>2, <4>4 DEF ToSet
    <3>3. Named(m.intfs, e[1]) = {}
      BY <3>1, <3>2 DEF Named
    <3>4. new \in B
      BY <3>3 DEF BuiltOf
    <3>5. BuildStep(0, x, e) = [x EXCEPT !.intfs = Append(joined, new)]
      <4>1. BuildStep(0, x, e) = [x EXCEPT !.intfs = Append(x.intfs, new)]
        BY <2>5 DEF BuildStep, BuildInterface, Interface
      <4> QED BY <2>2, <4>1
    <3> HIDE DEF B, new
    <3>6. Append(joined, new) = m.intfs \o Append(b, new)
      <4>1. \A y : Append(m.intfs \o b, y) = m.intfs \o Append(b, y)
        BY <1>1, JoinParts
      <4> QED BY <4>1
    <3>7. BuildStep(0, x, e) = Joined(m, Append(b, new))
      BY <2>2, <3>5, <3>6 DEF Joined
    <3>8. Append(b, new) \in Seq(B)
      BY <3>4
    <3>9. Distinct(Append(joined, new))
      <4> HIDE DEF joined, M
      <4>1. /\ DOMAIN Append(joined, new) = 1..Len(joined) + 1 /\ DOMAIN joined = 1..Len(joined)
            /\ Len(joined) \in Nat /\ Append(joined, new)[Len(joined) + 1] = new
            /\ \A i \in 1..Len(joined) : Append(joined, new)[i] = joined[i]
        BY <2>3
      <4>2. \A i \in 1..Len(joined) : joined[i].name # e[1]
        BY <3>1, <4>1 DEF ToSet
      <4>3. new.name = e[1]
        BY DEF new, Interface
      <4>4. \A i, j \in 1..Len(joined) : joined[i].name = joined[j].name => i = j
        BY <2>1, <4>1 DEF Distinct, joined
      <4> DEFINE z == Append(joined, new)
      <4> HIDE DEF z
      <4>5. \A i \in DOMAIN z : i \in 1..Len(joined) \/ i = Len(joined) + 1
        BY <4>1 DEF z
      <4>6. z[Len(joined) + 1].name = e[1] /\ \A i \in 1..Len(joined) : z[i] = joined[i]
        BY <4>1, <4>3 DEF z
      <4>7. Distinct(z)
        BY <4>2, <4>4, <4>5, <4>6 DEF Distinct
      <4> QED BY <4>7 DEF z
    <3> QED BY <3>6, <3>7, <3>8, <3>9
  <2> QED BY <2>4, <2>5
<1> HIDE DEF S
<1>4. Building!Fold(0, m, mapping) \in S
  BY <1>2, <1>3, Induction, Building!FoldKeeps
<1> QED BY <1>4, MapInterfacesIs DEF S

\* The signal s of the k-th interface is in that place.
PlaceAt(mapping, a, k, s) ==
    /\ k \in DOMAIN mapping /\ s \in DOMAIN mapping[k][2].signals
    /\ a = <<mapping[k][1], s, mapping[k][2].signals[s]>>

LEMMA PlaceOf ==
    ASSUME NEW m, NEW mapping, NEW built \in Seq(BuiltOf(m, mapping)), NEW a \in PlacesOf(built)
    PROVE  \E k, s : PlaceAt(mapping, a, k, s)
<1>1. PICK i, s : i \in ToSet(built) /\ s \in DOMAIN i.signals /\ a = <<i.name, s, i.signals[s]>>
  BY DEF PlacesOf
<1>2. i \in BuiltOf(m, mapping)
  BY <1>1, Members
<1>3. PICK e \in ToSet(mapping) : i = Interface(e[1], e[2])
  BY <1>2 DEF BuiltOf
<1>4. i.name = e[1] /\ i.signals = e[2].signals
  BY <1>3 DEF Interface
<1>5. PICK k \in DOMAIN mapping : mapping[k] = e
  BY DEF ToSet
<1>6. PlaceAt(mapping, a, k, s)
  BY <1>1, <1>4, <1>5 DEF PlaceAt
<1> QED BY <1>6

LEMMA MapSound ==
    ASSUME HintsApart, NEW m, IsModule(m), NEW mapping, Mapped(m, mapping), Mappable(m, mapping)
    PROVE  SoundlyInferred(m, MapInterfaces(m, mapping))
<1> DEFINE mod == MapInterfaces(m, mapping)
<1>1. PICK built \in Seq(BuiltOf(m, mapping)) : mod = Joined(m, built) /\ Distinct(m.intfs \o built)
  BY MapJoins DEF Mapped
<1> DEFINE inferred == Inferred(m, mod)
           places == PlacesOf(inferred)
<1>2. mod.name = m.name /\ mod.ports = m.ports /\ mod.intfs = m.intfs \o built
  <2> HIDE DEF mod
  <2>1. mod = Joined(m, built)
    BY <1>1
  <2> QED BY <2>1, JoinedIs
<1>3. m.intfs \in Seq(ToSet(m.intfs))
  BY DEF IsModule, Shaped
<1>4. IsPrefix(m.intfs, m.intfs \o built) /\ SubSeq(m.intfs \o built, Len(m.intfs) + 1, Len(m.intfs \o built)) = built
  BY <1>3, JoinParts
<1>5. inferred = built
  BY <1>2, <1>4 DEF Inferred
<1> HIDE DEF mod, inferred
<1>6. ASSUME NEW a \in places
      PROVE  \E k, s : PlaceAt(mapping, a, k, s)
  BY <1>5, PlaceOf
<1>7. ASSUME NEW a \in places PROVE Part(m, a[3])
  <2>1. PICK k, s : PlaceAt(mapping, a, k, s)
    BY <1>6
  <2>2. Part(m, mapping[k][2].signals[s])
    BY <2>1 DEF Mapped, Sound, PlaceAt
  <2> QED BY <2>1, <2>2 DEF PlaceAt
<1>8. ASSUME NEW a \in places, NEW b \in places, a # b, Overlap(a[3], b[3])
      PROVE  WholeArray(mod, a[3], b[3])
  <2> SUFFICES ASSUME a[3] = b[3] PROVE FALSE
    BY <1>2, <1>7, <1>8, PartOverlap
  <2>1. PICK k, s : PlaceAt(mapping, a, k, s)
    BY <1>6
  <2>2. PICK l, t : PlaceAt(mapping, b, l, t)
    BY <1>6
  <2>3. mapping[k][2].signals[s] = mapping[l][2].signals[t]
    BY <2>1, <2>2 DEF PlaceAt
  <2>4. k = l
    BY <2>1, <2>2, <2>3 DEF Mapped, PlaceAt
  <2>5. s = t
    BY <2>1, <2>2, <2>3, <2>4 DEF Mapped, Sound, PlaceAt
  <2> QED BY <1>8, <2>1, <2>2, <2>4, <2>5 DEF PlaceAt
<1>9. ASSUME NEW a \in places PROVE a[3].port \notin UsedPorts(m)
  <2>1. PICK p \in Free(m) : a[3] = Sel(p.name, a[3].ops)
    BY <1>7 DEF Part
  <2>2. a[3].port = p.name
    BY <2>1 DEF Sel
  <2> QED BY <2>2 DEF Free
<1>10. ASSUME NEW i \in ToSet(inferred)
       PROVE  /\ Complete(i)
              /\ \A s \in DOMAIN i.signals :
                    Find(mod.ports, i.signals[s].port).dir = SignalDir(SignalOf(i.def, s), i.mode)
  <2>1. i \in BuiltOf(m, mapping)
    BY <1>5, Members
  <2>2. PICK e \in ToSet(mapping) : Named(m.intfs, e[1]) = {} /\ i = Interface(e[1], e[2])
    BY <2>1 DEF BuiltOf
  <2>3. i.def = e[2].def /\ i.mode = e[2].mode /\ i.signals = e[2].signals
    BY <2>2 DEF Interface
  <2>4. PICK k \in DOMAIN mapping : mapping[k] = e
    BY DEF ToSet
  <2>5. Fits(m, e[2]) /\ Sound(m, e[2])
    BY <2>2, <2>4 DEF Mappable, Mapped
  <2>6. Complete(i)
    BY <2>3, <2>5 DEF Complete, Fits
  <2>7. ASSUME NEW s \in DOMAIN i.signals
        PROVE  Find(mod.ports, i.signals[s].port).dir = SignalDir(SignalOf(i.def, s), i.mode)
    <3> DEFINE sig == SignalOf(i.def, s)
    <3>1. \E x \in ToSet(Definitions[i.def]) : x.name = s
      BY <2>3, <2>5 DEF Sound
    <3>2. sig \in ToSet(Definitions[i.def]) /\ sig.name = s
      BY <3>1 DEF SignalOf
    <3> HIDE DEF sig
    <3>3. Referenced(i.signals[s], m.ports, SignalDir(sig, i.mode))
      BY <2>3, <2>5, <3>2 DEF Fits
    <3> QED BY <1>2, <3>3 DEF Referenced, sig
  <2> QED BY <2>6, <2>7
<1> QED BY <1>1, <1>2, <1>4, <1>8, <1>9, <1>10 DEF SoundlyInferred, Distinct, inferred, mod

\* A module that is parsed is the module of the source, with interfaces that share nothing.
LEMMA ParsedSound ==
    ASSUME HintsApart, NEW m, IsModule(m), NEW hints, Apart(m, hints),
           NEW defs \in Seq(DOMAIN Definitions), ParseModule(m, defs, hints) # NoModule
    PROVE  SoundlyInferred(m, ParseModule(m, defs, hints))
<1> DEFINE mapping == Infer(m, defs, hints)
<1>1. Mappable(m, mapping) /\ ParseModule(m, defs, hints) = MapInterfaces(m, mapping)
  BY DEF ParseModule, WithMapping
<1>2. Mapped(m, mapping)
  BY InferMapped
<1> QED BY <1>1, <1>2, MapSound

(***************************************************************************)
(* Dictionaries.                                                           *)
(***************************************************************************)
LEMMA PutType ==
    ASSUME NEW A, NEW B, NEW dict \in Seq(A \X B), NEW key \in A, NEW value \in B
    PROVE  /\ Put(dict, key, value) \in Seq(A \X B)
           /\ \A e \in ToSet(dict) : e[1] = key \/ e \in ToSet(Put(dict, key, value))
<1> DEFINE new == Put(dict, key, value)
<1>1. CASE \E i \in DOMAIN dict : dict[i][1] = key
  <2>1. new = [i \in 1..Len(dict) |-> IF dict[i][1] = key THEN <<key, value>> ELSE dict[i]]
    <3>1. new = [i \in DOMAIN dict |-> IF dict[i][1] = key THEN <<key, value>> ELSE dict[i]]
      BY <1>1, Zenon DEF Put
    <3>2. DOMAIN dict = 1..Len(dict)
      OBVIOUS
    <3> HIDE DEF new
    <3> QED BY <3>1, <3>2
  <2>2. \A i \in 1..Len(dict) : dict[i] \in A \X B /\ new[i] \in A \X B
    BY <2>1
  <2>3. new \in Seq(A \X B)
    <3> HIDE DEF new
    <3>1. Len(dict) \in Nat
      OBVIOUS
    <3>2. new \in [1..Len(dict) -> A \X B]
      BY <2>1, <2>2
    <3> QED BY <3>1, <3>2, SeqDef
  <2>4. DOMAIN new = DOMAIN dict
    BY <2>1
  <2>5. ASSUME NEW i \in DOMAIN dict, dict[i][1] # key PROVE new[i] = dict[i]
    BY <2>1, <2>5
  <2> HIDE DEF new
  <2>6. \A e \in ToSet(dict) : e[1] = key \/ e \in ToSet(new)
    BY <2>4, <2>5 DEF ToSet
  <2> QED BY <2>3, <2>6 DEF new
<1>2. CASE ~\E i \in DOMAIN dict : dict[i][1] = key
  <2>1. new = Append(dict, <<key, value>>)
    BY <1>2 DEF Put
  <2>2. new \in Seq(A \X B) /\ DOMAIN dict \subseteq DOMAIN new
    BY <2>1
  <2>3. \A i \in DOMAIN dict : new[i] = dict[i]
    BY <2>1
  <2> HIDE DEF new
  <2>4. \A e \in ToSet(dict) : e \in ToSet(new)
    BY <2>2, <2>3 DEF ToSet
  <2> QED BY <2>2, <2>4 DEF new
<1> QED BY <1>1, <1>2

\* A dictionary updated with another (Config.update).
LEMMA UpdateType ==
    ASSUME NEW A, NEW B, NEW dict \in Seq(A \X B), NEW other \in Seq(A \X B)
    PROVE  Update(dict, other) \in Seq(A \X B)
<1>1. IsPairs(A \X B)
  BY DEF IsPairs
<1> DEFINE E == A \X B
<1> HIDE DEF E
<1>2. Update(dict, other) \in Seq(E)
  BY <1>1, UpdateIn DEF E
<1> QED BY <1>2 DEF E

\* The paths of the repositories that are configured.
LEMMA LoadType ==
    ASSUME NEW A, NEW B, NEW F, NEW path \in Seq(F), \A f \in F : f.repos \in Seq(A \X B)
    PROVE  LoadConfig(path).repos \in Seq(A \X B)
<1> DEFINE S == [repos : Seq(A \X B), compliance : BOOLEAN]
           D(g) == g = [s \in SUBSET DOMAIN path |-> IF s = {} THEN NoConfig ELSE
                           IF path[Min(s)].state = "valid"
                           THEN UpdateConfig(g[s \ {Min(s)}], path[Min(s)])
                           ELSE g[s \ {Min(s)}]]
           it == CHOOSE g : D(g)
<1>1. NoConfig \in S
  BY DEF NoConfig
<1>2. ASSUME NEW c \in S, NEW f \in F PROVE LoadStep(0, c, f) \in S
  <2>1. Update(c.repos, f.repos) \in Seq(A \X B)
    BY UpdateType
  <2>2. (IF f.compliance = "null" THEN c.compliance ELSE f.compliance = "yes") \in BOOLEAN
    BY Zenon
  <2> QED BY <2>1, <2>2 DEF LoadStep, UpdateConfig
<1>3. /\ \E g : Loading!RightSteps(g, 0, NoConfig, path)
      /\ \A g : Loading!RightSteps(g, 0, NoConfig, path) => g[DOMAIN path] \in S
  <2> HIDE DEF S
  <2> QED BY <1>1, <1>2, Induction, Loading!RightKeeps
<1>4. \A g : Loading!RightSteps(g, 0, NoConfig, path) <=> D(g)
  <2>1. \A s : Loading!Least(s) = Min(s)
    BY DEF Loading!Least, Min
  <2> QED BY <2>1 DEF Loading!RightSteps, LoadStep
<1>5. D(it) /\ it[DOMAIN path] \in S
  <2> HIDE DEF D
  <2> QED BY <1>3, <1>4
<1>6. LoadConfig(path) = it[DOMAIN path]
  BY DEF LoadConfig, FoldRight, MapThenFoldSet
<1> QED BY <1>5, <1>6

\* What a key is for.
LEMMA AtType ==
    ASSUME NEW A, NEW B, NEW dict \in Seq(A \X B), NEW key \in Keys(dict)
    PROVE  At(dict, key) \in B
<1>1. PICK i \in DOMAIN dict : dict[i][1] = key
  BY DEF Keys
<1>2. (CHOOSE j \in DOMAIN dict : dict[j][1] = key) \in DOMAIN dict
  BY <1>1
<1> QED BY <1>2 DEF At

(***************************************************************************)
(* The modules of the sources.                                             *)
(***************************************************************************)
LEMMA ParsedFrom ==
    ASSUME NEW req \in Requests
    PROVE  ParsedModules(req)
             \in Seq({ParseModule(m, CandidateDefs(req), req.hints) : m \in ToSet(req.modules)})
<1> DEFINE self == [tops |-> req.tops, defs |-> CandidateDefs(req), hints |-> req.hints]
           mods == req.modules
           M == {ParseModule(m, CandidateDefs(req), req.hints) : m \in ToSet(mods)}
           S == Seq(M)
<1>1. mods \in Seq(ToSet(mods))
  BY Inputs
<1>2. <<>> \in S
  OBVIOUS
<1>3. ASSUME NEW out \in S, NEW m \in ToSet(mods) PROVE ParseNext(self, out, m) \in S
  <2>1. ParseModule(m, self.defs, self.hints) \in M
    OBVIOUS
  <2> HIDE DEF M, self
  <2> QED BY <2>1 DEF ParseNext
<1>4. ParsedModules(req) = Parsing!Fold(self, <<>>, mods)
  BY ParsedModulesIs
<1> HIDE DEF S, self, mods
<1>5. Parsing!Fold(self, <<>>, mods) \in S
  BY <1>1, <1>2, <1>3, Induction, Parsing!FoldKeeps
<1> QED BY <1>4, <1>5 DEF S, mods

LEMMA ParsedType ==
    ASSUME NEW req \in Requests
    PROVE  ParsedModules(req) \in Seq(ToSet(ParsedModules(req)))
BY ParsedFrom, Listing

(***************************************************************************)
(* The cores that a parse adds.                                            *)
(***************************************************************************)
Names(s) == {s[i].name : i \in DOMAIN s}

\* A module of a name is there or is not.
LEMMA NamedIs ==
    ASSUME NEW M, NEW s \in Seq(M), NEW name
    PROVE  Named(s, name) = {} <=> name \notin Names(s)
BY DEF Named, Names, ToSet

\* A core added, of a name of its own.
LEMMA AppendNames ==
    ASSUME NEW M, NEW s \in Seq(M), Distinct(s), NEW m \in M, m.name \notin Names(s)
    PROVE  /\ Append(s, m) \in Seq(M) /\ Distinct(Append(s, m))
           /\ Names(Append(s, m)) = Names(s) \cup {m.name}
<1> DEFINE t == Append(s, m)
<1>1. /\ t \in Seq(M) /\ DOMAIN t = 1..Len(s) + 1 /\ DOMAIN s = 1..Len(s) /\ Len(s) \in Nat
      /\ t[Len(s) + 1] = m
  OBVIOUS
<1>2. \A i \in 1..Len(s) : t[i] = s[i]
  OBVIOUS
<1> HIDE DEF t
<1>3. Distinct(t)
  BY <1>1, <1>2 DEF Distinct, Names
<1>4. Names(t) = Names(s) \cup {m.name}
  BY <1>1, <1>2 DEF Names
<1> QED BY <1>1, <1>3, <1>4 DEF t

\* A core removed by its name.
LEMMA RemoveName ==
    ASSUME NEW M, NEW s \in Seq(M), Distinct(s), NEW name
    PROVE  /\ Without(s, name) \in Seq(M) /\ Distinct(Without(s, name))
           /\ Names(Without(s, name)) = Names(s) \ {name}
<1> DEFINE t == Without(s, name)
<1>1. DOMAIN s = 1..Len(s) /\ Len(s) \in Nat
  OBVIOUS
<1>2. CASE \E i \in 1..Len(s) : s[i].name = name
  <2>1. PICK i \in 1..Len(s) : s[i].name = name
    BY <1>2
  <2>2. {k \in 1..Len(s) : s[k].name = name} = {i}
    BY <1>1, <2>1 DEF Distinct
  <2>3. Min({i}) = i
    BY DEF Min
  <2>4. t = SubSeq(s, 1, i - 1) \o SubSeq(s, i + 1, Len(s))
    BY <1>2, <2>2, <2>3 DEF Without, RemoveFirstMatch, RemoveAt, SelectInSeq
  <2>5. /\ t \in Seq(M) /\ DOMAIN t = 1..Len(s) - 1
        /\ \A k \in 1..Len(s) - 1 : t[k] = IF k < i THEN s[k] ELSE s[k + 1]
    <3> DEFINE a == SubSeq(s, 1, i - 1)
               b == SubSeq(s, i + 1, Len(s))
    <3>1. a \in Seq(M) /\ Len(a) = i - 1 /\ \A k \in 1..i - 1 : a[k] = s[k]
      BY <1>1
    <3>2. /\ b \in Seq(M) /\ Len(b) = Len(s) - i
          /\ \A k \in 1..Len(s) - i : b[k] = s[k + i]
      <4>1. i + 1 \in Int /\ Len(s) \in Int /\ \A k \in i + 1..Len(s) : s[k] \in M
        BY <1>1
      <4>2. b \in Seq(M) /\ Len(b) = Len(s) - i
        <5>1. b \in Seq(M) /\ Len(b) = IF i + 1 <= Len(s) THEN Len(s) - (i + 1) + 1 ELSE 0
          BY <4>1, SubSeqProperties
        <5>2. \A n \in Nat : \A j \in 1..n : (IF j + 1 <= n THEN n - (j + 1) + 1 ELSE 0) = n - j
          OBVIOUS
        <5>3. (IF i + 1 <= Len(s) THEN Len(s) - (i + 1) + 1 ELSE 0) = Len(s) - i
          <6> DEFINE n == Len(s)
          <6>1. n \in Nat /\ i \in 1..n
            BY <1>1
          <6> HIDE DEF n
          <6>2. (IF i + 1 <= n THEN n - (i + 1) + 1 ELSE 0) = n - i
            BY <5>2, <6>1
          <6> QED BY <6>2 DEF n
        <5> HIDE DEF b
        <5> QED BY <5>1, <5>3
      <4>3. ASSUME NEW k \in 1..Len(s) - i PROVE b[k] = s[k + i]
        <5>1. b[k] = s[(i + 1) + k - 1]
          BY <1>1, <4>1, SubSeqProperties
        <5>2. (i + 1) + k - 1 = k + i
          BY <1>1
        <5> QED BY <5>1, <5>2
      <4> HIDE DEF b
      <4> QED BY <4>2, <4>3
    <3> HIDE DEF a, b, t
    <3>3. t = a \o b
      BY <2>4 DEF a, b
    <3>4. t \in Seq(M) /\ Len(t) = Len(s) - 1
      <4>1. Len(t) = Len(a) + Len(b) /\ t \in Seq(M)
        BY <3>1, <3>2, <3>3, ConcatProperties
      <4>2. i - 1 + (Len(s) - i) = Len(s) - 1
        BY <1>1
      <4> QED BY <3>1, <3>2, <4>1, <4>2
    <3>5. \A k \in 1..Len(s) - 1 : t[k] = IF k < i THEN a[k] ELSE b[k - i + 1]
      BY <1>1, <3>1, <3>2, <3>3
    <3> QED BY <1>1, <3>1, <3>2, <3>4, <3>5
  <2> HIDE DEF t
  <2>6. Distinct(t)
    <3> SUFFICES ASSUME NEW k \in 1..Len(s) - 1, NEW l \in 1..Len(s) - 1, t[k].name = t[l].name
                 PROVE  k = l
      BY <2>5 DEF Distinct
    <3> DEFINE u(x) == IF x < i THEN x ELSE x + 1
    <3>1. u(k) \in 1..Len(s) /\ u(l) \in 1..Len(s)
      BY <1>1
    <3>2. t[k] = s[u(k)] /\ t[l] = s[u(l)]
      BY <2>5
    <3>3. u(k) = u(l)
      <4> HIDE DEF u
      <4> QED BY <1>1, <3>1, <3>2 DEF Distinct
    <3> QED BY <1>1, <3>3
  <2>7. Names(t) = Names(s) \ {name}
    <3>1. ASSUME NEW k \in DOMAIN s, s[k].name # name
          PROVE  \E l \in DOMAIN t : t[l].name = s[k].name
      <4>1. CASE k < i
        BY <1>1, <2>5, <4>1
      <4>2. CASE k > i
        <5>1. k - 1 \in 1..Len(s) - 1 /\ t[k - 1] = s[k]
          BY <1>1, <2>5, <4>2
        <5> QED BY <2>5, <5>1
      <4> QED BY <1>1, <2>1, <3>1, <4>1, <4>2
    <3>2. ASSUME NEW l \in DOMAIN t
          PROVE  \E k \in DOMAIN s : k # i /\ t[l] = s[k]
      <4>1. CASE l < i
        BY <1>1, <2>5, <4>1
      <4>2. CASE ~(l < i)
        <5>1. l + 1 \in 1..Len(s) /\ t[l] = s[l + 1] /\ l + 1 # i
          BY <1>1, <2>5, <4>2
        <5> QED BY <1>1, <5>1
      <4> QED BY <4>1, <4>2
    <3>3. \A k \in DOMAIN s : k # i => s[k].name # name
      BY <1>1, <2>1 DEF Distinct
    <3> QED BY <3>1, <3>2, <3>3 DEF Names
  <2> QED BY <2>5, <2>6, <2>7 DEF t
<1>3. CASE ~\E i \in 1..Len(s) : s[i].name = name
  <2>1. t = s
    BY <1>3 DEF Without, RemoveFirstMatch
  <2>2. name \notin Names(s)
    BY <1>1, <1>3 DEF Names
  <2> QED BY <2>1, <2>2
<1> QED BY <1>2, <1>3

\* What holds of the repository in memory while cores are added: all that was there is there
\* or replaced, each name is there once, and nothing is replaced unless asked for.
Adds(strategy, M, C) ==
    {r \in [stored : SUBSET C, new : Seq(M), refused : BOOLEAN] :
        /\ Distinct(r.new) /\ Names(r.new) \cap r.stored = {}
        /\ C \subseteq r.stored \cup Names(r.new)
        /\ strategy # "overwrite" => r.stored = C}

\* Repo.add_resource keeps that, with each strategy.
LEMMA AddCoreAdds ==
    ASSUME NEW strategy \in Strategies, NEW M, NEW C, NEW r \in Adds(strategy, M, C), NEW mod \in M
    PROVE  AddCore(strategy, r, mod) \in Adds(strategy, M, C)
<1>1. /\ r \in [stored : SUBSET C, new : Seq(M), refused : BOOLEAN]
      /\ Distinct(r.new) /\ Names(r.new) \cap r.stored = {}
      /\ C \subseteq r.stored \cup Names(r.new)
      /\ strategy # "overwrite" => r.stored = C
  BY DEF Adds
<1>2. r.new \in Seq(M) /\ r.stored \in SUBSET C
  BY <1>1
<1>3. Named(r.new, mod.name) = {} <=> mod.name \notin Names(r.new)
  BY <1>2, NamedIs
<1>4. CASE mod.name \notin r.stored /\ Named(r.new, mod.name) = {}
  <2>1. AddCore(strategy, r, mod) = [r EXCEPT !.new = Append(r.new, mod)]
    BY <1>4 DEF AddCore
  <2>2. /\ Append(r.new, mod) \in Seq(M) /\ Distinct(Append(r.new, mod))
        /\ Names(Append(r.new, mod)) = Names(r.new) \cup {mod.name}
    BY <1>1, <1>2, <1>3, <1>4, AppendNames
  <2> QED BY <1>1, <1>4, <2>1, <2>2 DEF Adds
<1>5. CASE ~(mod.name \notin r.stored /\ Named(r.new, mod.name) = {})
  <2>1. CASE strategy = "raise"
    BY <1>1, <1>5, <2>1 DEF AddCore, Adds
  <2>2. CASE strategy = "skip"
    BY <1>1, <1>5, <2>2 DEF AddCore, Adds
  <2>3. CASE strategy \notin {"raise", "skip"}
    <3> DEFINE left == Without(r.new, mod.name)
    <3>1. /\ left \in Seq(M) /\ Distinct(left)
          /\ Names(left) = Names(r.new) \ {mod.name}
      BY <1>1, <1>2, RemoveName
    <3>2. AddCore(strategy, r, mod) = [r EXCEPT !.stored = r.stored \ {mod.name},
                                                !.new = Append(left, mod)]
      BY <1>5, <2>3 DEF AddCore, Strategies
    <3> HIDE DEF left
    <3>3. /\ Append(left, mod) \in Seq(M) /\ Distinct(Append(left, mod))
          /\ Names(Append(left, mod)) = Names(left) \cup {mod.name}
      BY <3>1, AppendNames
    <3>4. /\ C \subseteq (r.stored \ {mod.name}) \cup Names(Append(left, mod))
          /\ Names(Append(left, mod)) \cap (r.stored \ {mod.name}) = {}
      BY <1>1, <3>1, <3>3
    <3> QED BY <1>1, <3>2, <3>3, <3>4, <2>3 DEF Adds, Strategies
  <2> QED BY <2>1, <2>2, <2>3
<1> QED BY <1>4, <1>5

\* And so the cores of a parse, added one after the other.
LEMMA AddedType ==
    ASSUME NEW path, NEW M, NEW mods \in Seq(M), NEW defs,
           NEW strategy \in Strategies
    PROVE  AddResources(path, mods, defs, strategy) \in Adds(strategy, M, CoresAt(path))
<1> DEFINE S == Adds(strategy, M, CoresAt(path))
           base == [stored |-> CoresAt(path), new |-> <<>>,
                    refused |-> strategy = "raise" /\ defs \cap ToSet(DefsAt(path)) # {}]
<1>1. base \in S
  <2>1. (strategy = "raise" /\ defs \cap ToSet(DefsAt(path)) # {}) \in BOOLEAN
    BY Zenon
  <2>2. base.new = <<>> /\ base.stored = CoresAt(path) /\ base.refused \in BOOLEAN
    BY <2>1
  <2>3. <<>> \in Seq(M) /\ Distinct(<<>>) /\ Names(<<>>) = {}
    BY DEF Distinct, Names
  <2> QED BY <2>1, <2>3 DEF Adds
<1> HIDE DEF base
<1>2. \A r \in S, m \in M : AddCore(strategy, r, m) \in S
  BY AddCoreAdds
<1>3. AddResources(path, mods, defs, strategy) = Adding!Fold(strategy, base, mods)
  BY AddResourcesIs DEF base
<1> HIDE DEF S
<1>4. Adding!Fold(strategy, base, mods) \in S
  BY <1>1, <1>2, Induction, Adding!FoldKeeps
<1> QED BY <1>3, <1>4 DEF S

(***************************************************************************)
(* The inductive invariant.  Shapes is what the updates of functions and   *)
(* records need; Commands what a process is between two of its writes;     *)
(* Memory what a parse has in memory; Writing what it is writing.          *)
(***************************************************************************)
IsDisk(k) ==
    k = [p \in Paths |-> [cores |-> [c \in CoreNames |-> k[p].cores[c]],
                          defs |-> [d \in DOMAIN Definitions |-> k[p].defs[d]]]]
Keyed == RepoNames \cup {"builtin"}
IsProc(k) ==
    k = [cmd |-> k.cmd, name |-> k.name, path |-> k.path, repos |-> k.repos,
         strategy |-> k.strategy, asked |-> k.asked, stored |-> k.stored, new |-> k.new,
         defs |-> k.defs, existing |-> k.existing, known |-> k.known,
         compliance |-> k.compliance, at |-> k.at, before |-> k.before, broken |-> k.broken]
Shapes ==
    /\ IsDisk(disk)
    /\ given = [p \in Paths |-> [c \in CoreNames |-> given[p][c]]]
    /\ IsProc(proc)
    /\ local.repos \in Seq(Keyed \X Places) /\ home \in HomeFiles

Commands ==
    /\ proc.cmd \in {"idle", "init", "parse"}
    /\ proc.cmd = "idle" => proc = Idle
    /\ proc.cmd = "init" => /\ proc.path \in Paths /\ proc.name \in Keyed
                            /\ proc.repos \in Seq(Keyed \X Places)
                            /\ proc.new = <<>> /\ local.state = "empty"

\* Every core that is broken is still to be written, and the ones this command broke are
\* the one it is writing: what a kill at any moment leaves.
Memory ==
    /\ proc.path \in Paths
    /\ proc.new \in Seq(proc.asked) /\ Distinct(proc.new)
    /\ Names(proc.new) \cap proc.stored = {}
    /\ proc.strategy # "overwrite" => Names(proc.new) \cap proc.before = {}
    /\ BrokenAt(proc.path) \subseteq proc.stored \cup Names(proc.new)
    /\ BrokenAt(proc.path) \ proc.broken
          \subseteq IF proc.at.kind = "core" THEN {proc.at.name} ELSE {}

Writing ==
    /\ proc.at.kind = "none" => proc.at = Nothing
    /\ proc.at.kind # "none" => proc.cmd = "parse"
    /\ proc.at.kind = "core" => /\ proc.at.name \in CoreNames /\ Next1(proc.at.name)
                                /\ CoreFile(proc.at.name) = Broken
                                /\ proc.at.desc.name = proc.at.name
    /\ proc.at.kind = "def" => /\ proc.stored = {} /\ proc.new = <<>>
                               /\ proc.at.name \in DOMAIN Definitions
                               /\ disk[proc.path].defs[proc.at.name] = "empty"

IsFile(c, file) == /\ file.state \in {"none", "broken", "written"}
                   /\ file.desc.name = IF file.state = "written" THEN c ELSE ""
FilesOf(k) ==
    /\ \A p \in Paths, c \in CoreNames : IsFile(c, k[p].cores[c])
    /\ \A p \in Paths, d \in DOMAIN Definitions : k[p].defs[d] \in {"none", "empty", "written"}
Files ==
    /\ FilesOf(disk)
    /\ \A p \in Paths, c \in CoreNames : given[p][c].name \in {"", c}
    /\ local.state \in {"absent", "empty", "valid"}
    /\ proc.at.kind \in {"none", "core", "def"}

IInv == Shapes /\ Files /\ Commands /\ Writing /\ (proc.cmd = "parse" => Memory)

(***************************************************************************)
(* One file of a repository, changed.                                      *)
(***************************************************************************)
\* The two updates of the disk.
WithCore(k, path, c, file) == [k EXCEPT ![path].cores[c] = file]
WithDef(k, path, d, state) == [k EXCEPT ![path].defs[d] = state]

\* One core written: nothing else changes.
LEMMA SetCoreIs ==
    ASSUME NEW k, IsDisk(k), NEW path \in Paths, NEW c \in CoreNames, NEW file, NEW l,
           l = WithCore(k, path, c, file)
    PROVE  /\ IsDisk(l)
           /\ l[path].cores[c] = file
           /\ \A p \in Paths, e \in CoreNames :
                  p # path \/ e # c => l[p].cores[e] = k[p].cores[e]
           /\ \A p \in Paths : l[p].defs = k[p].defs
           /\ \A p \in Paths \ {path} : l[p] = k[p]
<1> DEFINE cores(p) == [e \in CoreNames |-> k[p].cores[e]]
           defs(p) == [d \in DOMAIN Definitions |-> k[p].defs[d]]
           one == [e \in CoreNames |-> IF e = c THEN file ELSE k[path].cores[e]]
<1>1. k = [p \in Paths |-> [cores |-> cores(p), defs |-> defs(p)]]
  BY DEF IsDisk
<1>2. \A p \in Paths : k[p] = [cores |-> cores(p), defs |-> defs(p)]
  <2> HIDE DEF cores, defs
  <2> QED BY <1>1
<1>3. \A p \in Paths : k[p].cores = cores(p) /\ k[p].defs = defs(p)
  <2> SUFFICES ASSUME NEW p \in Paths PROVE k[p].cores = cores(p) /\ k[p].defs = defs(p)
    OBVIOUS
  <2> DEFINE a == cores(p)
             b == defs(p)
  <2>1. k[p] = [cores |-> a, defs |-> b]
    BY <1>2
  <2> HIDE DEF a, b
  <2>2. k[p].cores = a /\ k[p].defs = b
    BY <2>1
  <2> QED BY <2>2 DEF a, b
<1>4. [k[path].cores EXCEPT ![c] = file] = one
  <2>1. k[path].cores = cores(path)
    BY <1>3
  <2>2. [cores(path) EXCEPT ![c] = file] = one
    OBVIOUS
  <2> HIDE DEF cores, one
  <2> QED BY <2>1, <2>2
<1>5. [k[path] EXCEPT !.cores[c] = file] = [cores |-> one, defs |-> defs(path)]
  <2> DEFINE a == cores(path)
             b == defs(path)
             r == k[path]
  <2>1. r = [cores |-> a, defs |-> b] /\ [r.cores EXCEPT ![c] = file] = one
    BY <1>2, <1>4
  <2> HIDE DEF a, b, r, one
  <2>2. [r EXCEPT !.cores[c] = file] = [cores |-> one, defs |-> b]
    BY <2>1
  <2> QED BY <2>2 DEF a, b, r
<1>6. l = [p \in Paths |-> IF p = path THEN [cores |-> one, defs |-> defs(path)]
                           ELSE [cores |-> cores(p), defs |-> defs(p)]]
  <2> HIDE DEF cores, defs, one
  <2> QED BY <1>1, <1>2, <1>5 DEF WithCore
<1>7. \A p \in Paths : l[p].cores = (IF p = path THEN one ELSE cores(p)) /\ l[p].defs = defs(p)
  <2> HIDE DEF cores, defs, one
  <2> QED BY <1>6
<1>8. /\ one[c] = file /\ \A e \in CoreNames : e # c => one[e] = k[path].cores[e]
      /\ one = [e \in CoreNames |-> one[e]]
      /\ \A p \in Paths : cores(p) = [e \in CoreNames |-> cores(p)[e]]
      /\ \A p \in Paths, e \in CoreNames : cores(p)[e] = k[p].cores[e]
      /\ \A p \in Paths : defs(p) = [d \in DOMAIN Definitions |-> defs(p)[d]]
  OBVIOUS
<1> HIDE DEF cores, defs, one
<1>9. IsDisk(l)
  <2>1. \A p \in Paths : l[p].cores = [e \in CoreNames |-> l[p].cores[e]]
    BY <1>7, <1>8
  <2>2. \A p \in Paths : l[p].defs = [d \in DOMAIN Definitions |-> l[p].defs[d]]
    BY <1>7, <1>8
  <2>3. l = [p \in Paths |-> [cores |-> l[p].cores, defs |-> l[p].defs]]
    BY <1>6, <1>7
  <2> QED BY <2>1, <2>2, <2>3 DEF IsDisk
<1>10. \A p \in Paths \ {path} : l[p] = k[p]
  BY <1>2, <1>6
<1> QED BY <1>3, <1>7, <1>8, <1>9, <1>10

\* One definition written: nothing else changes.
LEMMA SetDefIs ==
    ASSUME NEW k, IsDisk(k), NEW path \in Paths, NEW d \in DOMAIN Definitions, NEW state, NEW l,
           l = WithDef(k, path, d, state)
    PROVE  /\ IsDisk(l)
           /\ l[path].defs[d] = state
           /\ \A p \in Paths, e \in DOMAIN Definitions :
                  p # path \/ e # d => l[p].defs[e] = k[p].defs[e]
           /\ \A p \in Paths : l[p].cores = k[p].cores
           /\ \A p \in Paths \ {path} : l[p] = k[p]
<1> DEFINE cores(p) == [e \in CoreNames |-> k[p].cores[e]]
           defs(p) == [e \in DOMAIN Definitions |-> k[p].defs[e]]
           one == [e \in DOMAIN Definitions |-> IF e = d THEN state ELSE k[path].defs[e]]
<1>1. k = [p \in Paths |-> [cores |-> cores(p), defs |-> defs(p)]]
  BY DEF IsDisk
<1>2. \A p \in Paths : k[p] = [cores |-> cores(p), defs |-> defs(p)]
  <2> HIDE DEF cores, defs
  <2> QED BY <1>1
<1>3. \A p \in Paths : k[p].cores = cores(p) /\ k[p].defs = defs(p)
  <2> SUFFICES ASSUME NEW p \in Paths PROVE k[p].cores = cores(p) /\ k[p].defs = defs(p)
    OBVIOUS
  <2> DEFINE a == cores(p)
             b == defs(p)
  <2>1. k[p] = [cores |-> a, defs |-> b]
    BY <1>2
  <2> HIDE DEF a, b
  <2>2. k[p].cores = a /\ k[p].defs = b
    BY <2>1
  <2> QED BY <2>2 DEF a, b
<1>4. [k[path].defs EXCEPT ![d] = state] = one
  <2>1. k[path].defs = defs(path)
    BY <1>3
  <2>2. [defs(path) EXCEPT ![d] = state] = one
    OBVIOUS
  <2> HIDE DEF defs, one
  <2> QED BY <2>1, <2>2
<1>5. [k[path] EXCEPT !.defs[d] = state] = [cores |-> cores(path), defs |-> one]
  <2> DEFINE a == cores(path)
             b == defs(path)
             r == k[path]
  <2>1. r = [cores |-> a, defs |-> b] /\ [r.defs EXCEPT ![d] = state] = one
    BY <1>2, <1>4
  <2> HIDE DEF a, b, r, one
  <2>2. [r EXCEPT !.defs[d] = state] = [cores |-> a, defs |-> one]
    BY <2>1
  <2> QED BY <2>2 DEF a, b, r
<1>6. l = [p \in Paths |-> IF p = path THEN [cores |-> cores(path), defs |-> one]
                           ELSE [cores |-> cores(p), defs |-> defs(p)]]
  <2> HIDE DEF cores, defs, one
  <2> QED BY <1>1, <1>2, <1>5 DEF WithDef
<1>7. \A p \in Paths : l[p].defs = (IF p = path THEN one ELSE defs(p)) /\ l[p].cores = cores(p)
  <2> HIDE DEF cores, defs, one
  <2> QED BY <1>6
<1>8. /\ one[d] = state /\ \A e \in DOMAIN Definitions : e # d => one[e] = k[path].defs[e]
      /\ one = [e \in DOMAIN Definitions |-> one[e]]
      /\ \A p \in Paths : defs(p) = [e \in DOMAIN Definitions |-> defs(p)[e]]
      /\ \A p \in Paths, e \in DOMAIN Definitions : defs(p)[e] = k[p].defs[e]
      /\ \A p \in Paths : cores(p) = [e \in CoreNames |-> cores(p)[e]]
  OBVIOUS
<1> HIDE DEF cores, defs, one
<1>9. IsDisk(l)
  <2>1. \A p \in Paths : l[p].cores = [e \in CoreNames |-> l[p].cores[e]]
    BY <1>7, <1>8
  <2>2. \A p \in Paths : l[p].defs = [e \in DOMAIN Definitions |-> l[p].defs[e]]
    BY <1>7, <1>8
  <2>3. l = [p \in Paths |-> [cores |-> l[p].cores, defs |-> l[p].defs]]
    BY <1>6, <1>7
  <2> QED BY <2>1, <2>2, <2>3 DEF IsDisk
<1>10. \A p \in Paths \ {path} : l[p] = k[p]
  BY <1>2, <1>6
<1> QED BY <1>3, <1>7, <1>8, <1>9, <1>10

(***************************************************************************)
(* Type correctness.                                                       *)
(***************************************************************************)
LEMMA IdleIs ==
    /\ IsProc(Idle) /\ Idle.cmd = "idle" /\ Idle.new = <<>> /\ Idle.at = Nothing
    /\ Nothing.kind = "none"
BY DEF IsProc, Idle, Nothing

LEMMA IInvTypes == IInv => TypeOK
<1> SUFFICES ASSUME IInv PROVE TypeOK
  OBVIOUS
<1> USE DEF IInv
<1>1. /\ \A i, j \in DOMAIN proc.new : proc.new[i].name = proc.new[j].name => i = j
      /\ {m.name : m \in ToSet(proc.new)} \cap proc.stored = {}
  <2>1. CASE proc.cmd = "parse"
    <3>1. Distinct(proc.new) /\ Names(proc.new) \cap proc.stored = {}
      BY <2>1 DEF Memory
    <3>2. {m.name : m \in ToSet(proc.new)} = Names(proc.new)
      BY DEF Names, ToSet
    <3> QED BY <3>1, <3>2 DEF Distinct
  <2>2. CASE proc.cmd # "parse"
    <3>1. proc.new = <<>>
      <4> HIDE DEF IInv
      <4>1. Commands
        BY DEF IInv
      <4> QED BY <2>2, <4>1, IdleIs DEF Commands
    <3> QED BY <3>1 DEF ToSet
  <2> QED BY <2>1, <2>2
<1>2. /\ proc.at.kind = "core" => CoreFile(proc.at.name) = Broken
      /\ proc.at.kind = "def" => disk[proc.path].defs[proc.at.name] = "empty"
      /\ proc.cmd = "init" => local.state = "empty"
  BY DEF Writing, Commands
<1>3. /\ \A p \in Paths, c \in CoreNames :
            /\ disk[p].cores[c].state \in {"none", "broken", "written"}
            /\ disk[p].cores[c].desc.name = IF disk[p].cores[c].state = "written" THEN c ELSE ""
            /\ given[p][c].name \in {"", c}
      /\ \A p \in Paths, d \in DOMAIN Definitions :
            disk[p].defs[d] \in {"none", "empty", "written"}
  BY DEF Files, FilesOf, IsFile
<1>4. local.state \in {"absent", "empty", "valid"} /\ proc.at.kind \in {"none", "core", "def"}
  BY DEF Files
<1> HIDE DEF IInv
<1> QED BY <1>1, <1>2, <1>3, <1>4 DEF TypeOK

LEMMA InitIInv == Init => IInv
<1> SUFFICES ASSUME Init PROVE IInv
  OBVIOUS
<1> USE DEF Init
<1>1. IsDisk(disk) /\ \A p \in Paths : /\ \A c \in CoreNames : disk[p].cores[c] = NoFile
                                       /\ \A d \in DOMAIN Definitions : disk[p].defs[d] = "none"
  <2> DEFINE cores == [c \in CoreNames |-> NoFile]
             defs == [d \in DOMAIN Definitions |-> "none"]
  <2>1. /\ \A c \in CoreNames : cores[c] = NoFile
        /\ \A d \in DOMAIN Definitions : defs[d] = "none"
        /\ cores = [c \in CoreNames |-> cores[c]] /\ defs = [d \in DOMAIN Definitions |-> defs[d]]
    OBVIOUS
  <2> HIDE DEF cores, defs
  <2>2. disk = [p \in Paths |-> [cores |-> cores, defs |-> defs]]
    BY DEF cores, defs
  <2>3. \A p \in Paths : disk[p].cores = cores /\ disk[p].defs = defs
    BY <2>2
  <2> QED BY <2>1, <2>2, <2>3 DEF IsDisk
<1>2. given = [p \in Paths |-> [c \in CoreNames |-> given[p][c]]]
      /\ \A p \in Paths, c \in CoreNames : given[p][c] = NoModule
  OBVIOUS
<1>3. Idle.cmd = "idle" /\ Idle.at = Nothing /\ Nothing.kind = "none"
  BY DEF Idle, Nothing
<1>4. local.state = "absent" /\ local.repos = <<>>
  BY DEF ConfigFile
<1>5. Shapes
  <2>1. IsProc(proc)
    BY IdleIs
  <2>2. \A S : <<>> \in Seq(S)
    OBVIOUS
  <2>3. home \in HomeFiles
    OBVIOUS
  <2> HIDE DEF Init
  <2> QED BY <1>1, <1>2, <1>4, <2>1, <2>2, <2>3 DEF Shapes
<1>6. Files
  BY <1>1, <1>2, <1>3, <1>4 DEF Files, FilesOf, IsFile, NoFile, File, NoDesc, NoModule, Module
<1> QED BY <1>3, <1>5, <1>6 DEF IInv, Commands, Writing

\* A command that has ended.
LEMMA Quiet ==
    ASSUME IInv, proc' = Idle,
           IsDisk(disk)', local'.repos \in Seq(Keyed \X Places), home' = home, given' = given,
           Files'
    PROVE  IInv'
<1>1. /\ proc'.cmd = "idle" /\ proc'.at = Nothing /\ Nothing.kind = "none"
      /\ IsProc(proc)'
  BY IdleIs
<1>2. Shapes'
  BY <1>1 DEF IInv, Shapes
<1>3. Commands' /\ Writing'
  BY <1>1 DEF Commands, Writing
<1> QED BY <1>1, <1>2, <1>3 DEF IInv

(***************************************************************************)
(* What a change of one file leaves of the files and of the broken cores.  *)
(***************************************************************************)
BrokenIn(k, path) == {c \in CoreNames : k[path].cores[c] = Broken}

\* The states of a file.
LEMMA States ==
    /\ Broken.state = "broken" /\ NoFile.state = "none" /\ \A desc : File("written", desc) # Broken
    /\ \A c : IsFile(c, Broken) /\ IsFile(c, NoFile)
    /\ \A c, desc : desc.name = c => IsFile(c, File("written", desc))
BY DEF Broken, NoFile, File, IsFile, NoDesc

LEMMA CoreChanges ==
    ASSUME NEW k, IsDisk(k), FilesOf(k), NEW path \in Paths, NEW c \in CoreNames, NEW file,
           IsFile(c, file), NEW l, l = WithCore(k, path, c, file)
    PROVE  /\ IsDisk(l) /\ FilesOf(l)
           /\ l[path].cores[c] = file
           /\ BrokenIn(l, path) \subseteq BrokenIn(k, path) \cup {c}
           /\ file # Broken => BrokenIn(l, path) = BrokenIn(k, path) \ {c}
           /\ \A p \in Paths : l[p].defs = k[p].defs
           /\ \A p \in Paths \ {path} : l[p] = k[p]
<1>1. /\ IsDisk(l)
      /\ l[path].cores[c] = file
      /\ \A p \in Paths, e \in CoreNames : p # path \/ e # c => l[p].cores[e] = k[p].cores[e]
      /\ \A p \in Paths : l[p].defs = k[p].defs
      /\ \A p \in Paths \ {path} : l[p] = k[p]
  BY SetCoreIs
<1>2. FilesOf(l)
  BY <1>1 DEF FilesOf
<1>3. /\ BrokenIn(l, path) \subseteq BrokenIn(k, path) \cup {c}
      /\ file # Broken => BrokenIn(l, path) = BrokenIn(k, path) \ {c}
  BY <1>1 DEF BrokenIn
<1> QED BY <1>1, <1>2, <1>3

LEMMA DefChanges ==
    ASSUME NEW k, IsDisk(k), FilesOf(k), NEW path \in Paths, NEW d \in DOMAIN Definitions,
           NEW state \in {"empty", "written"}, NEW l, l = WithDef(k, path, d, state)
    PROVE  /\ IsDisk(l) /\ FilesOf(l)
           /\ l[path].defs[d] = state
           /\ \A p \in Paths : l[p].cores = k[p].cores
           /\ \A p \in Paths \ {path} : l[p] = k[p]
<1>1. /\ IsDisk(l)
      /\ l[path].defs[d] = state
      /\ \A p \in Paths, e \in DOMAIN Definitions : p # path \/ e # d => l[p].defs[e] = k[p].defs[e]
      /\ \A p \in Paths : l[p].cores = k[p].cores
      /\ \A p \in Paths \ {path} : l[p] = k[p]
  BY SetDefIs
<1>2. FilesOf(l)
  <2>1. \A p \in Paths, e \in CoreNames : IsFile(e, l[p].cores[e])
    BY <1>1 DEF FilesOf
  <2>2. \A p \in Paths, e \in DOMAIN Definitions : l[p].defs[e] \in {"none", "empty", "written"}
    BY <1>1 DEF FilesOf
  <2> QED BY <2>1, <2>2 DEF FilesOf
<1> QED BY <1>1, <1>2

(***************************************************************************)
(* What a parse of a repository starts from.                               *)
(***************************************************************************)
LEMMA ConfiguredRepos == ASSUME IInv PROVE CurrentConfig.repos \in Seq(Keyed \X Places)
<1> DEFINE F == {local, home, BuiltinConfig}
           path == <<local, home, BuiltinConfig>>
<1>1. path \in Seq(F)
  OBVIOUS
<1>2. \A f \in F : f.repos \in Seq(Keyed \X Places)
  <2>1. local.repos \in Seq(Keyed \X Places)
    BY DEF IInv, Shapes
  <2>2. home.repos \in Seq(Keyed \X Places)
    <3>1. home.repos \in Seq(RepoNames \X Places)
      BY Inputs DEF IInv, Shapes
    <3>2. RepoNames \X Places \subseteq Keyed \X Places
      BY DEF Keyed
    <3>3. \A S, T : S \subseteq T => Seq(S) \subseteq Seq(T)
      OBVIOUS
    <3> QED BY <3>1, <3>2, <3>3
  <2>3. BuiltinConfig.repos \in Seq(Keyed \X Places)
    <3>1. BuiltinConfig.repos = << <<"builtin", BuiltinPath>> >>
      BY DEF BuiltinConfig, ConfigFile
    <3>2. <<"builtin", BuiltinPath>> \in Keyed \X Places
      BY DEF Keyed, Places
    <3>3. \A S : \A x \in S : <<x>> \in Seq(S)
      OBVIOUS
    <3> QED BY <3>1, <3>2, <3>3
  <2> QED BY <2>1, <2>2, <2>3
<1> HIDE DEF F, path
<1>3. LoadConfig(path).repos \in Seq(Keyed \X Places)
  BY <1>1, <1>2, LoadType
<1> QED BY <1>3 DEF CurrentConfig, path

LEMMA ConfiguredPath ==
    ASSUME IInv, NEW name \in Keys(CurrentConfig.repos), At(CurrentConfig.repos, name) # BuiltinPath
    PROVE  At(CurrentConfig.repos, name) \in Paths
<1>1. At(CurrentConfig.repos, name) \in Places
  BY ConfiguredRepos, AtType
<1> QED BY <1>1 DEF Places

\* The first step of a parse: it names a directory of a user, and has in memory what is there.
LEMMA StartParseStep ==
    ASSUME IInv, NEW name \in RepoNames, NEW req \in Requests, NEW strategy \in Strategies,
           StartParse(name, req, strategy)
    PROVE  IInv'
<1> DEFINE path == At(CurrentConfig.repos, name)
           mods == ParsedModules(req)
           repo == AddResources(path, mods, req.defs, strategy)
           M == ToSet(mods)
<1>1. path \in Paths
  BY ConfiguredPath DEF StartParse, StartWith
<1>2. repo \in Adds(strategy, M, CoresAt(path))
  <2> HIDE DEF path, mods, M
  <2>1. mods \in Seq(M)
    BY ParsedType DEF mods, M
  <2> QED BY <2>1, AddedType
<1>3. /\ repo.new \in Seq(M) /\ Distinct(repo.new) /\ Names(repo.new) \cap repo.stored = {}
      /\ CoresAt(path) \subseteq repo.stored \cup Names(repo.new)
      /\ strategy # "overwrite" => repo.stored = CoresAt(path)
  <2> HIDE DEF repo, path, M
  <2> QED BY <1>2 DEF Adds
<1>4. /\ UNCHANGED <<local, home, disk, given>>
      /\ proc' = [Idle EXCEPT
               !.cmd = "parse", !.path = path, !.strategy = strategy,
               !.asked = M, !.stored = repo.stored, !.new = repo.new,
               !.defs = ToSet(DefsAt(path)) \cup req.defs, !.existing = req.defs,
               !.known = ToSet(KnownDefs), !.compliance = CurrentConfig.compliance,
               !.before = CoresAt(path), !.broken = BrokenAt(path)]
  BY DEF StartParse, StartWith
<1> HIDE DEF path, mods, repo, M
<1>5. /\ IsProc(proc)' /\ proc'.cmd = "parse" /\ proc'.path = path /\ proc'.strategy = strategy
      /\ proc'.asked = M /\ proc'.stored = repo.stored /\ proc'.new = repo.new
      /\ proc'.before = CoresAt(path) /\ proc'.broken = BrokenAt(path) /\ proc'.at = Nothing
  BY <1>4 DEF Idle, IsProc
<1>6. Shapes' /\ Files' /\ Commands' /\ Writing'
  <2>1. Nothing.kind = "none"
    BY IdleIs
  <2>2. Shapes'
    BY <1>4, <1>5 DEF IInv, Shapes
  <2>3. Files'
    BY <1>4, <1>5, <2>1 DEF IInv, Files
  <2>4. Commands' /\ Writing'
    BY <1>5, <2>1 DEF Commands, Writing
  <2> QED BY <2>2, <2>3, <2>4
<1>7. Memory'
  <2>1. BrokenAt(path) \subseteq CoresAt(path)
    BY States DEF BrokenAt, CoresAt
  <2>2. BrokenAt(proc.path)' = BrokenAt(path)
    BY <1>4, <1>5 DEF BrokenAt
  <2>3. BrokenAt(proc.path)' \subseteq repo.stored \cup Names(repo.new)
    BY <1>3, <2>1, <2>2
  <2>4. BrokenAt(proc.path)' \ proc'.broken = {}
    BY <1>5, <2>2
  <2>5. strategy # "overwrite" => Names(repo.new) \cap CoresAt(path) = {}
    BY <1>3
  <2> QED BY <1>1, <1>3, <1>5, <2>3, <2>4, <2>5 DEF Memory
<1> QED BY <1>6, <1>7 DEF IInv

(***************************************************************************)
(* A parse: its cores.                                                     *)
(***************************************************************************)
LEMMA RunningParse ==
    ASSUME IInv, proc.cmd = "parse"
    PROVE  /\ Memory /\ Shapes /\ Files /\ proc.path \in Paths
           /\ IsDisk(disk) /\ FilesOf(disk) /\ BrokenAt(proc.path) = BrokenIn(disk, proc.path)
           /\ proc.new \in Seq(proc.asked) /\ Distinct(proc.new)
           /\ Names(proc.new) \cap proc.stored = {}
<1>1. Memory /\ Shapes /\ Files
  BY DEF IInv
<1>2. IsDisk(disk) /\ FilesOf(disk)
  BY <1>1 DEF Shapes, Files
<1>3. BrokenAt(proc.path) = BrokenIn(disk, proc.path)
  BY DEF BrokenAt, BrokenIn
<1> QED BY <1>1, <1>2, <1>3 DEF Memory

\* The core that is written has the name of its directory.
LEMMA TopIs ==
    ASSUME IInv, proc.cmd = "parse", NEW c \in CoreNames, Next1(c), Top(c) # NoModule
    PROVE  Top(c).name = c
<1>1. IsFile(c, CoreFile(c))
  BY RunningParse DEF FilesOf, CoreFile
<1>2. CASE c \in proc.stored
  <2>1. CoreFile(c).state = "written" /\ Top(c) = Parse(CoreFile(c).desc)
    BY <1>2 DEF Top
  <2>2. CoreFile(c).desc.name = c
    BY <1>1, <2>1 DEF IsFile
  <2>3. \A desc : Parse(desc).name = desc.name
    BY DEF Parse, Module
  <2> QED BY <2>1, <2>2, <2>3
<1>3. CASE c \notin proc.stored
  BY <1>3 DEF Top, Next1
<1> QED BY <1>2, <1>3

\* A core that is truncated is the one being written.
LEMMA OpenCoreStep ==
    ASSUME IInv, NEW c \in CoreNames, OpenCore(c)
    PROVE  IInv'
<1> DEFINE at == [kind |-> "core", name |-> c, desc |-> Represent(Top(c), ExistingOf(c))]
<1>1. /\ proc.cmd = "parse" /\ proc.at = Nothing /\ Next1(c) /\ Top(c) # NoModule
      /\ disk' = WithCore(disk, proc.path, c, Broken)
      /\ proc' = [proc EXCEPT !.at = at]
      /\ UNCHANGED <<local, home, given>>
  BY DEF OpenCore, Running, SetCore, WithCore
<1>2. at.kind = "core" /\ at.name = c /\ at.desc.name = c
  <2>1. at.kind = "core" /\ at.name = c /\ at.desc = Represent(Top(c), ExistingOf(c))
    OBVIOUS
  <2>2. Top(c).name = c
    BY <1>1, TopIs
  <2>3. \A m, x : Represent(m, x).name = m.name
    BY DEF Represent
  <2> HIDE DEF at
  <2> QED BY <2>1, <2>2, <2>3
<1> HIDE DEF at
<1>3. /\ IsDisk(disk') /\ FilesOf(disk') /\ disk'[proc.path].cores[c] = Broken
      /\ BrokenIn(disk', proc.path) \subseteq BrokenIn(disk, proc.path) \cup {c}
  <2>1. IsFile(c, Broken)
    BY States
  <2> QED BY <1>1, <2>1, RunningParse, CoreChanges
<1>4. /\ IsProc(proc)' /\ proc'.at = at
      /\ proc'.cmd = proc.cmd /\ proc'.path = proc.path /\ proc'.strategy = proc.strategy
      /\ proc'.asked = proc.asked /\ proc'.stored = proc.stored /\ proc'.new = proc.new
      /\ proc'.before = proc.before /\ proc'.broken = proc.broken
  <2>1. IsProc(proc)
    BY DEF IInv, Shapes
  <2> QED BY <1>1, <2>1 DEF IsProc
<1>5. Shapes' /\ Files'
  <2>1. Shapes'
    BY <1>1, <1>3, <1>4 DEF IInv, Shapes
  <2>2. Files'
    BY <1>1, <1>2, <1>3, <1>4 DEF IInv, Files
  <2> QED BY <2>1, <2>2
<1>6. Commands' /\ Writing'
  <2>1. Next1(c)' /\ CoreFile(c)' = Broken
    BY <1>1, <1>3, <1>4 DEF Next1, CoreFile
  <2>2. Commands'
    BY <1>1, <1>4 DEF Commands
  <2>3. Writing'
    BY <1>1, <1>2, <1>3, <1>4, <2>1 DEF Writing, Next1, CoreFile
  <2> QED BY <2>2, <2>3
<1>7. Memory'
  <2>1. Memory
    BY <1>1, RunningParse
  <2>2. BrokenAt(proc.path)' = BrokenIn(disk', proc.path)
    BY <1>4 DEF BrokenAt, BrokenIn
  <2>3. c \in proc.stored \cup Names(proc.new)
    <3>1. CASE proc.stored # {}
      BY <1>1, <3>1 DEF Next1
    <3>2. CASE proc.stored = {}
      <4>1. proc.new # <<>> /\ c = Head(proc.new).name /\ proc.new \in Seq(proc.asked)
        BY <1>1, <3>2, RunningParse DEF Next1
      <4>2. 1 \in DOMAIN proc.new /\ Head(proc.new) = proc.new[1]
        BY <4>1
      <4> QED BY <4>1, <4>2 DEF Names
    <3> QED BY <3>1, <3>2
  <2>4. BrokenAt(proc.path)' \subseteq proc.stored \cup Names(proc.new)
    BY <1>1, <1>3, <2>1, <2>2, <2>3, RunningParse DEF Memory
  <2>5. BrokenAt(proc.path) \ proc.broken = {}
    <3>1. proc.at.kind # "core"
      BY <1>1, IdleIs
    <3> QED BY <2>1, <3>1 DEF Memory
  <2>6. BrokenAt(proc.path)' \ proc.broken \subseteq {c}
    BY <1>1, <1>3, <2>2, <2>5, RunningParse
  <2> QED BY <1>2, <1>4, <2>1, <2>4, <2>6 DEF Memory
<1> QED BY <1>5, <1>6, <1>7 DEF IInv

\* A core that ends the parse.
LEMMA FailCoreStep ==
    ASSUME IInv, NEW c \in CoreNames, FailCore(c)
    PROVE  /\ IInv'
           /\ BrokenIn(disk', proc.path) \subseteq BrokenIn(disk, proc.path) \cup {c}
           /\ \A p \in Paths \ {proc.path} : disk'[p] = disk[p]
<1> DEFINE file == IF CoreFile(c) = NoFile THEN Broken ELSE CoreFile(c)
<1>1. /\ proc.cmd = "parse" /\ proc' = Idle /\ UNCHANGED <<local, home, given>>
      /\ disk' = WithCore(disk, proc.path, c, file)
  BY DEF FailCore, Running, SetCore, WithCore
<1>2. IsFile(c, file)
  <2>1. IsFile(c, CoreFile(c))
    BY <1>1, RunningParse DEF FilesOf, CoreFile
  <2> QED BY <2>1, States
<1> HIDE DEF file
<1>3. /\ IsDisk(disk') /\ FilesOf(disk')
      /\ BrokenIn(disk', proc.path) \subseteq BrokenIn(disk, proc.path) \cup {c}
      /\ \A p \in Paths \ {proc.path} : disk'[p] = disk[p]
  BY <1>1, <1>2, RunningParse, CoreChanges
<1>4. IsDisk(disk)' /\ local'.repos \in Seq(Keyed \X Places)
  BY <1>1, <1>3 DEF IInv, Shapes
<1>5. Files'
  BY <1>1, <1>3, IdleIs DEF IInv, Files
<1>6. IInv'
  BY <1>1, <1>4, <1>5, Quiet
<1> QED BY <1>3, <1>6

\* The cores left to write, but for the first.
LEMMA TailNames ==
    ASSUME NEW M, NEW s \in Seq(M), s # <<>>, Distinct(s)
    PROVE  /\ Tail(s) \in Seq(M) /\ Distinct(Tail(s)) /\ Head(s) \in M
           /\ Head(s).name \in Names(s) /\ Names(Tail(s)) = Names(s) \ {Head(s).name}
<1> DEFINE t == Tail(s)
<1>1. /\ t \in Seq(M) /\ DOMAIN t = 1..Len(s) - 1 /\ DOMAIN s = 1..Len(s)
      /\ Len(s) \in Nat \ {0} /\ s[1] = Head(s) /\ Head(s) \in M
  OBVIOUS
<1>2. \A i \in 1..Len(s) - 1 : t[i] = s[i + 1]
  OBVIOUS
<1> HIDE DEF t
<1>3. Distinct(t)
  <2> SUFFICES ASSUME NEW i \in 1..Len(s) - 1, NEW j \in 1..Len(s) - 1, t[i].name = t[j].name
               PROVE  i = j
    BY <1>1 DEF Distinct
  <2>1. i + 1 \in DOMAIN s /\ j + 1 \in DOMAIN s /\ s[i + 1].name = s[j + 1].name
    BY <1>1, <1>2
  <2>2. i + 1 = j + 1
    BY <2>1 DEF Distinct
  <2> QED BY <2>2
<1>4. Names(t) = Names(s) \ {Head(s).name}
  <2>1. ASSUME NEW i \in 1..Len(s) - 1
        PROVE  i + 1 \in DOMAIN s /\ t[i] = s[i + 1] /\ s[i + 1].name # s[1].name
    <3>1. i + 1 \in DOMAIN s /\ 1 \in DOMAIN s /\ i + 1 # 1
      BY <1>1
    <3> QED BY <1>2, <3>1 DEF Distinct
  <2>2. ASSUME NEW i \in DOMAIN s, s[i].name # s[1].name
        PROVE  i - 1 \in 1..Len(s) - 1 /\ t[i - 1] = s[i]
    <3>1. i - 1 \in 1..Len(s) - 1 /\ (i - 1) + 1 = i
      BY <1>1, <2>2
    <3> QED BY <1>2, <3>1
  <2>3. ASSUME NEW x \in Names(t) PROVE x \in Names(s) \ {Head(s).name}
    <3>1. PICK i \in 1..Len(s) - 1 : x = t[i].name
      BY <1>1 DEF Names
    <3> QED BY <1>1, <2>1, <3>1 DEF Names
  <2>4. ASSUME NEW x \in Names(s) \ {Head(s).name} PROVE x \in Names(t)
    <3>1. PICK i \in DOMAIN s : x = s[i].name
      BY DEF Names
    <3>2. i - 1 \in DOMAIN t /\ t[i - 1] = s[i]
      BY <1>1, <2>2, <3>1
    <3> QED BY <3>1, <3>2 DEF Names
  <2> QED BY <2>3, <2>4
<1>5. Head(s).name \in Names(s)
  BY <1>1 DEF Names
<1> QED BY <1>1, <1>3, <1>4, <1>5 DEF t

\* A core that is written is broken no more.
LEMMA WriteCoreStep ==
    ASSUME IInv, WriteCore
    PROVE  /\ IInv' /\ proc.cmd = "parse"
           /\ BrokenIn(disk', proc.path) \subseteq BrokenIn(disk, proc.path)
           /\ \A p \in Paths \ {proc.path} : disk'[p] = disk[p]
<1> DEFINE c == proc.at.name
           file == File("written", proc.at.desc)
<1>1. /\ disk' = WithCore(disk, proc.path, c, file)
      /\ given' = IF c \in proc.stored THEN given
                  ELSE [given EXCEPT ![proc.path][c] = Head(proc.new)]
      /\ proc' = [proc EXCEPT !.at = Nothing, !.stored = @ \ {c},
                              !.new = IF c \in proc.stored THEN @ ELSE Tail(@)]
      /\ UNCHANGED <<local, home>>
      /\ proc.at.kind = "core"
  BY DEF WriteCore, SetCore, WithCore
<1>2. /\ proc.cmd = "parse" /\ c \in CoreNames /\ Next1(c) /\ proc.at.desc.name = c
  BY <1>1 DEF IInv, Writing
<1>3. IsFile(c, file) /\ file # Broken
  BY <1>2, States
<1> HIDE DEF c, file
<1>4. /\ IsDisk(disk') /\ FilesOf(disk')
      /\ BrokenIn(disk', proc.path) = BrokenIn(disk, proc.path) \ {c}
      /\ \A p \in Paths \ {proc.path} : disk'[p] = disk[p]
  BY <1>1, <1>2, <1>3, RunningParse, CoreChanges
<1>5. /\ IsProc(proc)' /\ proc'.at = Nothing
      /\ proc'.cmd = proc.cmd /\ proc'.path = proc.path /\ proc'.strategy = proc.strategy
      /\ proc'.asked = proc.asked /\ proc'.stored = proc.stored \ {c}
      /\ proc'.new = (IF c \in proc.stored THEN proc.new ELSE Tail(proc.new))
      /\ proc'.before = proc.before /\ proc'.broken = proc.broken
  <2>1. IsProc(proc)
    BY DEF IInv, Shapes
  <2> QED BY <1>1, <2>1 DEF IsProc
<1>6. c \notin proc.stored => proc.stored = {} /\ proc.new # <<>> /\ c = Head(proc.new).name
  BY <1>2 DEF Next1
<1>7. /\ given' = [p \in Paths |-> [e \in CoreNames |-> given'[p][e]]]
      /\ \A p \in Paths, e \in CoreNames : given'[p][e].name \in {"", e}
  <2>1. /\ given = [p \in Paths |-> [e \in CoreNames |-> given[p][e]]]
        /\ \A p \in Paths, e \in CoreNames : given[p][e].name \in {"", e}
    BY DEF IInv, Shapes, Files
  <2>2. CASE c \in proc.stored
    BY <1>1, <2>1, <2>2
  <2>3. CASE c \notin proc.stored
    <3>1. given' = [given EXCEPT ![proc.path][c] = Head(proc.new)]
      BY <1>1, <2>3
    <3>2. Head(proc.new).name = c
      BY <1>6, <2>3
    <3> DEFINE head == Head(proc.new)
               path == proc.path
               one(p) == [e \in CoreNames |-> IF p = path /\ e = c THEN head ELSE given[p][e]]
    <3>3. \A p \in Paths : given[p] = [e \in CoreNames |-> given[p][e]]
      BY <2>1
    <3>4. path \in Paths
      BY <1>2, RunningParse
    <3> HIDE DEF head, path
    <3>5. [given[path] EXCEPT ![c] = head] = one(path)
      BY <3>3, <3>4
    <3>6. \A p \in Paths : p # path => given[p] = one(p)
      BY <3>3
    <3>7. given' = [p \in Paths |-> IF p = path THEN [given[path] EXCEPT ![c] = head] ELSE given[p]]
      <4>1. given' = [given EXCEPT ![path] = [given[path] EXCEPT ![c] = head]]
        BY <3>1 DEF head, path
      <4>2. DOMAIN given = Paths
        BY <2>1
      <4> QED BY <2>1, <4>1, <4>2
    <3>8. \A p \in Paths, e \in CoreNames : one(p)[e] = IF p = path /\ e = c THEN head ELSE given[p][e]
      OBVIOUS
    <3>9. \A p \in Paths : one(p) = [e \in CoreNames |-> one(p)[e]]
      OBVIOUS
    <3> HIDE DEF one
    <3>10. \A p \in Paths : given'[p] = one(p)
      BY <3>4, <3>5, <3>6, <3>7
    <3>11. \A p \in Paths : given'[p] = [e \in CoreNames |-> given'[p][e]]
      BY <3>9, <3>10
    <3>12. given' = [p \in Paths |-> given'[p]]
      BY <3>7
    <3>13. \A p \in Paths, e \in CoreNames : given'[p][e].name \in {"", e}
      <4>1. head.name = c
        BY <3>2 DEF head
      <4> SUFFICES ASSUME NEW p \in Paths, NEW e \in CoreNames
                   PROVE  given'[p][e].name \in {"", e}
        OBVIOUS
      <4>2. given'[p][e] = IF p = path /\ e = c THEN head ELSE given[p][e]
        BY <3>8, <3>10
      <4>3. given[p][e].name \in {"", e}
        BY <2>1
      <4>4. CASE p = path /\ e = c
        BY <4>1, <4>2, <4>4
      <4>5. CASE ~(p = path /\ e = c)
        BY <4>2, <4>3, <4>5
      <4> QED BY <4>4, <4>5
    <3> QED BY <3>11, <3>12, <3>13
  <2> QED BY <2>2, <2>3
<1>8. Nothing.kind = "none"
  BY IdleIs
<1>9. Shapes' /\ Files' /\ Commands' /\ Writing'
  <2>1. Shapes'
    BY <1>1, <1>4, <1>5, <1>7 DEF IInv, Shapes
  <2>2. Files'
    BY <1>1, <1>4, <1>5, <1>7, <1>8 DEF IInv, Files
  <2>3. Commands' /\ Writing'
    BY <1>2, <1>5, <1>8 DEF Commands, Writing
  <2> QED BY <2>1, <2>2, <2>3
<1>10. Memory'
  <2>1. Memory
    BY <1>2, RunningParse
  <2>2. BrokenAt(proc.path)' = BrokenIn(disk', proc.path)
    BY <1>5 DEF BrokenAt, BrokenIn
  <2>3. /\ proc'.new \in Seq(proc.asked) /\ Distinct(proc'.new)
        /\ Names(proc'.new) = Names(proc.new) \ {c}
    <3>1. CASE c \in proc.stored
      <4>1. c \notin Names(proc.new)
        BY <2>1, <3>1 DEF Memory
      <4> QED BY <1>5, <2>1, <3>1, <4>1 DEF Memory
    <3>2. CASE c \notin proc.stored
      <4>1. /\ Tail(proc.new) \in Seq(proc.asked) /\ Distinct(Tail(proc.new))
            /\ Names(Tail(proc.new)) = Names(proc.new) \ {Head(proc.new).name}
        BY <1>6, <2>1, <3>2, TailNames DEF Memory
      <4> QED BY <1>5, <1>6, <3>2, <4>1
    <3> QED BY <3>1, <3>2
  <2>4. /\ Names(proc'.new) \cap proc'.stored = {}
        /\ proc'.strategy # "overwrite" => Names(proc'.new) \cap proc'.before = {}
    BY <1>5, <2>1, <2>3 DEF Memory
  <2>5. BrokenAt(proc.path)' \subseteq proc'.stored \cup Names(proc'.new)
    BY <1>2, <1>4, <1>5, <2>1, <2>2, <2>3, RunningParse DEF Memory
  <2>6. BrokenAt(proc.path) \ proc.broken \subseteq {c}
    BY <1>1, <2>1 DEF Memory, c
  <2>7. BrokenAt(proc.path)' \ proc'.broken = {}
    BY <1>2, <1>4, <1>5, <2>2, <2>6, RunningParse
  <2> QED BY <1>5, <2>1, <2>3, <2>4, <2>5, <2>7 DEF Memory
<1> QED BY <1>2, <1>4, <1>9, <1>10 DEF IInv

(***************************************************************************)
(* A parse: its definitions and its end; an init; a kill.                  *)
(***************************************************************************)
LEMMA OpenDefStep ==
    ASSUME IInv, NEW d \in DOMAIN Definitions, OpenDef(d)
    PROVE  IInv'
<1> DEFINE at == [kind |-> "def", name |-> d, desc |-> NoDesc]
<1>1. /\ proc.cmd = "parse" /\ proc.at = Nothing /\ proc.stored = {} /\ proc.new = <<>>
      /\ disk' = WithDef(disk, proc.path, d, "empty")
      /\ proc' = [proc EXCEPT !.at = at]
      /\ UNCHANGED <<local, home, given>>
  BY DEF OpenDef, Running, WithDef
<1>2. at.kind = "def" /\ at.name = d
  OBVIOUS
<1> HIDE DEF at
<1>3. /\ IsDisk(disk') /\ FilesOf(disk') /\ disk'[proc.path].defs[d] = "empty"
      /\ \A p \in Paths : disk'[p].cores = disk[p].cores
  BY <1>1, RunningParse, DefChanges
<1>4. /\ IsProc(proc)' /\ proc'.at = at
      /\ proc'.cmd = proc.cmd /\ proc'.path = proc.path /\ proc'.strategy = proc.strategy
      /\ proc'.asked = proc.asked /\ proc'.stored = proc.stored /\ proc'.new = proc.new
      /\ proc'.before = proc.before /\ proc'.broken = proc.broken
  <2>1. IsProc(proc)
    BY DEF IInv, Shapes
  <2> QED BY <1>1, <2>1 DEF IsProc
<1>5. Shapes' /\ Files' /\ Commands' /\ Writing'
  <2>1. Shapes'
    BY <1>1, <1>3, <1>4 DEF IInv, Shapes
  <2>2. Files'
    BY <1>1, <1>2, <1>3, <1>4 DEF IInv, Files
  <2>3. Commands' /\ Writing'
    BY <1>1, <1>2, <1>3, <1>4 DEF Commands, Writing
  <2> QED BY <2>1, <2>2, <2>3
<1>6. Memory'
  <2>1. Memory
    BY <1>1, RunningParse
  <2>2. BrokenAt(proc.path)' = BrokenAt(proc.path)
    BY <1>1, <1>3, <1>4, RunningParse DEF BrokenAt
  <2>3. proc.at.kind # "core"
    BY <1>1, IdleIs
  <2> QED BY <1>2, <1>4, <2>1, <2>2, <2>3 DEF Memory
<1> QED BY <1>5, <1>6 DEF IInv

LEMMA WriteDefStep ==
    ASSUME IInv, WriteDef
    PROVE  /\ IInv' /\ proc.cmd = "parse"
           /\ BrokenIn(disk', proc.path) = BrokenIn(disk, proc.path)
           /\ \A p \in Paths \ {proc.path} : disk'[p] = disk[p]
<1> DEFINE d == proc.at.name
<1>1. /\ disk' = WithDef(disk, proc.path, d, "written")
      /\ proc' = [proc EXCEPT !.at = Nothing, !.defs = @ \ {d}]
      /\ UNCHANGED <<local, home, given>>
      /\ proc.at.kind = "def"
  BY DEF WriteDef, WithDef
<1>2. proc.cmd = "parse" /\ d \in DOMAIN Definitions
  BY <1>1 DEF IInv, Writing
<1> HIDE DEF d
<1>3. /\ IsDisk(disk') /\ FilesOf(disk')
      /\ \A p \in Paths : disk'[p].cores = disk[p].cores
      /\ \A p \in Paths \ {proc.path} : disk'[p] = disk[p]
  BY <1>1, <1>2, RunningParse, DefChanges
<1>4. /\ IsProc(proc)' /\ proc'.at = Nothing
      /\ proc'.cmd = proc.cmd /\ proc'.path = proc.path /\ proc'.strategy = proc.strategy
      /\ proc'.asked = proc.asked /\ proc'.stored = proc.stored /\ proc'.new = proc.new
      /\ proc'.before = proc.before /\ proc'.broken = proc.broken
  <2>1. IsProc(proc)
    BY DEF IInv, Shapes
  <2> QED BY <1>1, <2>1 DEF IsProc
<1>5. Shapes' /\ Files' /\ Commands' /\ Writing'
  <2>1. Shapes'
    BY <1>1, <1>3, <1>4 DEF IInv, Shapes
  <2>2. Files'
    BY <1>1, <1>3, <1>4, IdleIs DEF IInv, Files
  <2>3. Commands' /\ Writing'
    BY <1>2, <1>4, IdleIs DEF Commands, Writing
  <2> QED BY <2>1, <2>2, <2>3
<1>6. BrokenIn(disk', proc.path) = BrokenIn(disk, proc.path)
  BY <1>2, <1>3, RunningParse DEF BrokenIn
<1>7. Memory'
  <2>1. Memory
    BY <1>2, RunningParse
  <2>2. BrokenAt(proc.path)' = BrokenAt(proc.path)
    BY <1>4, <1>6 DEF BrokenAt, BrokenIn
  <2>3. proc.at.kind # "core"
    BY <1>1
  <2> QED BY <1>4, <2>1, <2>2, <2>3, IdleIs DEF Memory
<1> QED BY <1>2, <1>3, <1>5, <1>6, <1>7 DEF IInv

\* A command that ends and changes nothing.
LEMMA Ending ==
    ASSUME IInv, proc' = Idle, UNCHANGED <<local, home, disk, given>>
    PROVE  IInv'
<1>1. IsDisk(disk)' /\ local'.repos \in Seq(Keyed \X Places)
  BY DEF IInv, Shapes
<1>2. Files'
  BY IdleIs DEF IInv, Files
<1> QED BY <1>1, <1>2, Quiet

LEMMA StartInitStep ==
    ASSUME IInv, NEW name \in RepoNames, NEW path \in Paths, StartInit(name, path)
    PROVE  IInv'
<1>1. /\ local' = ConfigFile("empty", <<>>, "unset")
      /\ proc' = [Idle EXCEPT !.cmd = "init", !.name = name, !.path = path, !.repos = local.repos]
      /\ UNCHANGED <<home, disk, given>>
  BY DEF StartInit
<1>2. /\ IsProc(proc)' /\ proc'.cmd = "init" /\ proc'.name = name /\ proc'.path = path
      /\ proc'.repos = local.repos /\ proc'.new = <<>> /\ proc'.at = Nothing
  BY <1>1 DEF Idle, IsProc
<1>3. local'.state = "empty" /\ local'.repos = <<>>
  BY <1>1 DEF ConfigFile
<1>4. Shapes'
  <2>1. \A S : <<>> \in Seq(S)
    OBVIOUS
  <2> QED BY <1>1, <1>2, <1>3, <2>1 DEF IInv, Shapes
<1>5. Files'
  BY <1>1, <1>2, <1>3, IdleIs DEF IInv, Files
<1>6. Commands' /\ Writing'
  <2>1. name \in Keyed /\ local.repos \in Seq(Keyed \X Places)
    BY DEF Keyed, IInv, Shapes
  <2>2. Commands'
    BY <1>2, <1>3, <2>1 DEF Commands
  <2>3. Writing'
    BY <1>2, IdleIs DEF Writing
  <2> QED BY <2>2, <2>3
<1> QED BY <1>2, <1>4, <1>5, <1>6 DEF IInv

LEMMA WriteInitStep ==
    ASSUME IInv, WriteInit
    PROVE  IInv' /\ \A e \in ToSet(proc.repos) : e[1] = proc.name \/ e \in ToSet(local'.repos)
<1>1. /\ proc.cmd = "init" /\ proc' = Idle /\ UNCHANGED <<home, disk, given>>
      /\ local' = ConfigFile("valid", Put(proc.repos, proc.name, proc.path), "unset")
  BY DEF WriteInit, Running
<1>2. local'.state = "valid" /\ local'.repos = Put(proc.repos, proc.name, proc.path)
  BY <1>1 DEF ConfigFile
<1>3. /\ proc.path \in Places /\ proc.name \in Keyed
      /\ proc.repos \in Seq(Keyed \X Places)
  BY <1>1 DEF IInv, Commands, Places
<1>4. /\ local'.repos \in Seq(Keyed \X Places)
      /\ \A e \in ToSet(proc.repos) : e[1] = proc.name \/ e \in ToSet(local'.repos)
  <2> DEFINE dict == proc.repos
             key == proc.name
             path == proc.path
             new == Put(dict, key, path)
  <2>1. new \in Seq(Keyed \X Places) /\ \A e \in ToSet(dict) : e[1] = key \/ e \in ToSet(new)
    <3>1. dict \in Seq(Keyed \X Places) /\ key \in Keyed /\ path \in Places
      BY <1>3
    <3> HIDE DEF dict, key, path
    <3> QED BY <3>1, PutType
  <2>2. local'.repos = new
    BY <1>2
  <2> HIDE DEF new
  <2> QED BY <2>1, <2>2
<1>5. IsDisk(disk)'
  BY <1>1 DEF IInv, Shapes
<1>6. Files'
  BY <1>1, <1>2, IdleIs DEF IInv, Files
<1> QED BY <1>1, <1>4, <1>5, <1>6, Quiet

\* Every step keeps the invariant.
LEMMA Step == IInv /\ [Next]_vars => IInv'
<1> SUFFICES ASSUME IInv, [Next]_vars PROVE IInv'
  OBVIOUS
<1>1. ASSUME NEW n \in RepoNames, NEW r \in Requests, NEW s \in Strategies, StartParse(n, r, s)
      PROVE  IInv'
  BY <1>1, StartParseStep
<1>2. ASSUME NEW c \in CoreNames, OpenCore(c) PROVE IInv'
  BY <1>2, OpenCoreStep
<1>3. ASSUME NEW c \in CoreNames, FailCore(c) PROVE IInv'
  BY <1>3, FailCoreStep
<1>4. CASE WriteCore
  BY <1>4, WriteCoreStep
<1>5. ASSUME NEW d \in DOMAIN Definitions, OpenDef(d) PROVE IInv'
  BY <1>5, OpenDefStep
<1>6. CASE WriteDef
  BY <1>6, WriteDefStep
<1>7. CASE EndParse
  BY <1>7, Ending DEF EndParse
<1>8. ASSUME NEW n \in RepoNames, NEW p \in Paths, StartInit(n, p) PROVE IInv'
  BY <1>8, StartInitStep
<1>9. CASE WriteInit
  BY <1>9, WriteInitStep
<1>10. CASE Kill
  BY <1>10, Ending DEF Kill
<1>11. CASE UNCHANGED vars
  BY <1>11 DEF vars, IInv, Shapes, Files, Commands, Memory, Writing, Next1, CoreFile, BrokenAt
<1> QED BY <1>1, <1>2, <1>3, <1>4, <1>5, <1>6, <1>7, <1>8, <1>9, <1>10, <1>11 DEF Next

LEMMA Invariance == Spec => []IInv
<1> QED BY InitIInv, Step, PTL DEF Spec

\* A file is open exactly while it is being written and has a description exactly when it
\* has been, under the name of its core; a parse has each core in memory once, and an init
\* that runs has emptied the configuration file (CoreHandler.save, parse_repo, init_repo).
THEOREM TypeCorrect == Spec => []TypeOK
<1> QED BY Invariance, IInvTypes, PTL

(***************************************************************************)
(* What commands change.                                                   *)
(***************************************************************************)
LEMMA Singles ==
    ASSUME NEW S, NEW c, S \subseteq {c}
    PROVE  Cardinality(S) <= 1
<1>1. S = {} \/ S = {c}
  OBVIOUS
<1> QED BY <1>1, FS_EmptySet, FS_Singleton

\* The cores that are broken before a step of a parse that is in no write.
LEMMA BrokenBefore ==
    ASSUME IInv, proc.cmd = "parse"
    PROVE  /\ proc.at = Nothing => BrokenIn(disk, proc.path) \subseteq proc.broken
           /\ \E c : BrokenIn(disk, proc.path) \ proc.broken \subseteq {c}
           /\ proc.stored = {} /\ proc.new = <<>> => BrokenIn(disk, proc.path) = {}
<1>1. /\ Memory /\ BrokenAt(proc.path) = BrokenIn(disk, proc.path)
  BY RunningParse
<1>2. proc.at = Nothing => proc.at.kind # "core"
  BY IdleIs
<1>3. proc.stored = {} /\ proc.new = <<>> => BrokenIn(disk, proc.path) = {}
  BY <1>1 DEF Memory, Names
<1> QED BY <1>1, <1>2, <1>3 DEF Memory

\* A parse that has a core to write is not at its end.
LEMMA NextIsLeft == ASSUME IInv, NEW c, Next1(c) PROVE Left
BY DEF Next1, Left

\* A step of a parse that breaks the core c at most.
LEMMA FilesStayFor ==
    ASSUME IInv, proc.cmd = "parse", NEW c,
           BrokenIn(disk', proc.path) \ proc.broken \subseteq {c},
           \A p \in Paths \ {proc.path} : disk'[p] = disk[p],
           proc' = Idle /\ ~Left => BrokenIn(disk', proc.path) = {}
    PROVE  FilesStay
<1>1. {e \in CoreNames : disk'[proc.path].cores[e] = Broken} = BrokenIn(disk', proc.path)
  BY DEF BrokenIn
<1>2. Cardinality(BrokenIn(disk', proc.path) \ proc.broken) <= 1
  BY Singles
<1> QED BY <1>1, <1>2 DEF FilesStay

\* A step of a parse that leaves the disk alone.
LEMMA FilesStayIdle ==
    ASSUME IInv, disk' = disk
    PROVE  FilesStay
<1>1. CASE proc.cmd = "parse"
  <2>1. PICK c : BrokenIn(disk, proc.path) \ proc.broken \subseteq {c}
    BY <1>1, BrokenBefore
  <2>2. ~Left => BrokenIn(disk', proc.path) = {}
    BY <1>1, BrokenBefore DEF Left
  <2> QED BY <1>1, <2>1, <2>2, FilesStayFor
<1>2. CASE proc.cmd # "parse"
  BY <1>2 DEF FilesStay
<1> QED BY <1>1, <1>2

\* The only step that changes what a core is.
LEMMA WriteCoreKeeps ==
    ASSUME IInv, WriteCore
    PROVE  CoresStay /\ FilesStay /\ NamesStay
<1> DEFINE c == proc.at.name
<1>1. /\ given' = IF c \in proc.stored THEN given
                  ELSE [given EXCEPT ![proc.path][c] = Head(proc.new)]
      /\ proc' = [proc EXCEPT !.at = Nothing, !.stored = @ \ {c},
                              !.new = IF c \in proc.stored THEN @ ELSE Tail(@)]
      /\ local' = local /\ proc.at.kind = "core"
  BY DEF WriteCore
<1>2. /\ proc.cmd = "parse" /\ c \in CoreNames /\ Next1(c)
  BY <1>1 DEF IInv, Writing
<1>3. c \notin proc.stored =>
         /\ Head(proc.new) \in proc.asked /\ Head(proc.new).name = c
         /\ c \in proc.before => proc.strategy = "overwrite"
  <2> SUFFICES ASSUME c \notin proc.stored
               PROVE  /\ Head(proc.new) \in proc.asked /\ Head(proc.new).name = c
                      /\ c \in proc.before => proc.strategy = "overwrite"
    OBVIOUS
  <2>1. proc.new # <<>> /\ Head(proc.new).name = c
    BY <1>2 DEF Next1
  <2>2. Memory
    BY <1>2, RunningParse
  <2>3. Head(proc.new) \in proc.asked /\ c \in Names(proc.new)
    BY <2>1, <2>2, TailNames DEF Memory
  <2> QED BY <2>1, <2>2, <2>3 DEF Memory
<1> HIDE DEF c
<1>4. CoresStay
  <2> SUFFICES ASSUME NEW p \in Paths, NEW e \in CoreNames, given'[p][e] # given[p][e]
               PROVE  /\ p = proc.path /\ given'[p][e] \in proc.asked
                      /\ e \in proc.before => proc.strategy = "overwrite"
    BY DEF CoresStay
  <2>1. given = [q \in Paths |-> [f \in CoreNames |-> given[q][f]]]
    BY DEF IInv, Shapes
  <2>2. c \notin proc.stored /\ given' = [given EXCEPT ![proc.path][c] = Head(proc.new)]
    BY <1>1
  <2> DEFINE head == Head(proc.new)
             path == proc.path
  <2>3. p = path /\ e = c /\ given'[p][e] = head
    <3>1. given' = [given EXCEPT ![path][c] = head]
      BY <2>2
    <3> HIDE DEF head, path
    <3>2. DOMAIN given = Paths /\ DOMAIN given[p] = CoreNames
      BY <2>1
    <3>3. p = path
      BY <3>1, <3>2
    <3>4. given'[p] = [given[p] EXCEPT ![c] = head]
      BY <3>1, <3>2, <3>3
    <3> QED BY <3>2, <3>3, <3>4
  <2> QED BY <1>3, <2>2, <2>3
<1>5. FilesStay
  <2>1. PICK e : BrokenIn(disk, proc.path) \ proc.broken \subseteq {e}
    BY <1>2, BrokenBefore
  <2>2. /\ BrokenIn(disk', proc.path) \subseteq BrokenIn(disk, proc.path)
        /\ \A p \in Paths \ {proc.path} : disk'[p] = disk[p]
    BY WriteCoreStep
  <2>3. Left
    BY <1>2, NextIsLeft
  <2> QED BY <1>2, <2>1, <2>2, <2>3, FilesStayFor
<1> QED BY <1>1, <1>4, <1>5 DEF NamesStay

\* Every step changes only what it may.
LEMMA Keeps == IInv /\ [Next]_vars => CoresStay /\ FilesStay /\ NamesStay
<1> SUFFICES ASSUME IInv, [Next]_vars PROVE CoresStay /\ FilesStay /\ NamesStay
  OBVIOUS
<1>1. given' = given => CoresStay
  BY DEF CoresStay
<1>2. local' = local \/ local'.state # "valid" => NamesStay
  BY DEF NamesStay
<1>3. ASSUME NEW n \in RepoNames, NEW r \in Requests, NEW s \in Strategies, StartParse(n, r, s)
      PROVE  CoresStay /\ FilesStay /\ NamesStay
  BY <1>1, <1>2, <1>3, FilesStayIdle DEF StartParse, StartWith
<1>4. ASSUME NEW c \in CoreNames, OpenCore(c)
      PROVE  CoresStay /\ FilesStay /\ NamesStay
  <2>1. /\ proc.cmd = "parse" /\ proc.at = Nothing /\ Next1(c)
        /\ disk' = WithCore(disk, proc.path, c, Broken)
        /\ UNCHANGED <<local, given>>
    BY <1>4 DEF OpenCore, Running, SetCore, WithCore
  <2>2. /\ BrokenIn(disk', proc.path) \subseteq BrokenIn(disk, proc.path) \cup {c}
        /\ \A p \in Paths \ {proc.path} : disk'[p] = disk[p]
    BY <2>1, States, RunningParse, CoreChanges
  <2>3. BrokenIn(disk', proc.path) \ proc.broken \subseteq {c} /\ Left
    BY <2>1, <2>2, BrokenBefore, NextIsLeft
  <2>4. FilesStay
    BY <2>1, <2>2, <2>3, FilesStayFor
  <2> QED BY <1>1, <1>2, <2>1, <2>4
<1>5. ASSUME NEW c \in CoreNames, FailCore(c)
      PROVE  CoresStay /\ FilesStay /\ NamesStay
  <2>1. /\ proc.cmd = "parse" /\ proc.at = Nothing /\ Next1(c)
        /\ UNCHANGED <<local, given>>
    BY <1>5 DEF FailCore, Running
  <2>2. /\ BrokenIn(disk', proc.path) \subseteq BrokenIn(disk, proc.path) \cup {c}
        /\ \A p \in Paths \ {proc.path} : disk'[p] = disk[p]
    BY <1>5, FailCoreStep
  <2>3. BrokenIn(disk', proc.path) \ proc.broken \subseteq {c} /\ Left
    BY <2>1, <2>2, BrokenBefore, NextIsLeft
  <2>4. FilesStay
    BY <2>1, <2>2, <2>3, FilesStayFor
  <2> QED BY <1>1, <1>2, <2>1, <2>4
<1>6. CASE WriteCore
  BY <1>6, WriteCoreKeeps
<1>7. ASSUME NEW d \in DOMAIN Definitions, OpenDef(d)
      PROVE  CoresStay /\ FilesStay /\ NamesStay
  <2>1. /\ proc.cmd = "parse" /\ proc.stored = {} /\ proc.new = <<>>
        /\ disk' = WithDef(disk, proc.path, d, "empty")
        /\ UNCHANGED <<local, given>>
    BY <1>7 DEF OpenDef, Running, WithDef
  <2>2. /\ \A p \in Paths : disk'[p].cores = disk[p].cores
        /\ \A p \in Paths \ {proc.path} : disk'[p] = disk[p]
    BY <2>1, RunningParse, DefChanges
  <2>3. BrokenIn(disk', proc.path) = {}
    BY <2>1, <2>2, RunningParse, BrokenBefore DEF BrokenIn
  <2>4. \A c : BrokenIn(disk', proc.path) \ proc.broken \subseteq {c}
    BY <2>3
  <2>5. FilesStay
    BY <2>1, <2>2, <2>3, <2>4, FilesStayFor
  <2> QED BY <1>1, <1>2, <2>1, <2>5
<1>8. CASE WriteDef
  <2>1. /\ proc.cmd = "parse" /\ UNCHANGED <<local, given>>
        /\ proc.stored = {} /\ proc.new = <<>>
    BY <1>8, WriteDefStep DEF WriteDef, IInv, Writing
  <2>2. /\ BrokenIn(disk', proc.path) = BrokenIn(disk, proc.path)
        /\ \A p \in Paths \ {proc.path} : disk'[p] = disk[p]
    BY <1>8, WriteDefStep
  <2>3. BrokenIn(disk', proc.path) = {}
    BY <2>1, <2>2, BrokenBefore
  <2>4. \A c : BrokenIn(disk', proc.path) \ proc.broken \subseteq {c}
    BY <2>3
  <2>5. FilesStay
    BY <2>1, <2>2, <2>3, <2>4, FilesStayFor
  <2> QED BY <1>1, <1>2, <2>1, <2>5
<1>9. CASE EndParse
  BY <1>1, <1>2, <1>9, FilesStayIdle DEF EndParse
<1>10. ASSUME NEW n \in RepoNames, NEW p \in Paths, StartInit(n, p)
       PROVE  CoresStay /\ FilesStay /\ NamesStay
  <2>1. local'.state # "valid" /\ UNCHANGED <<disk, given>>
    BY <1>10 DEF StartInit, ConfigFile
  <2> QED BY <1>1, <1>2, <2>1, FilesStayIdle
<1>11. CASE WriteInit
  <2>1. UNCHANGED <<disk, given>>
    BY <1>11 DEF WriteInit
  <2>2. NamesStay
    BY <1>11, WriteInitStep DEF NamesStay
  <2> QED BY <1>1, <2>1, <2>2, FilesStayIdle
<1>12. CASE Kill
  BY <1>1, <1>2, <1>12, FilesStayIdle DEF Kill
<1>13. CASE UNCHANGED vars
  BY <1>1, <1>2, <1>13, FilesStayIdle DEF vars
<1> QED BY <1>3, <1>4, <1>5, <1>6, <1>7, <1>8, <1>9, <1>10, <1>11, <1>12, <1>13 DEF Next

(***************************************************************************)
(* What inference makes of the sources.                                    *)
(***************************************************************************)
LEMMA SetInOrder ==
    ASSUME NEW S, IsFiniteSet(S)
    PROVE  SetToSeq(S) \in Seq(S)
<1> DEFINE n == Cardinality(S)
<1>1. n \in Nat /\ ExistsBijection(1..n, S)
  BY FS_CardinalityType
<1> HIDE DEF n
<1>2. \E f \in [1..n -> S] : IsInjective(f)
  BY <1>1 DEF ExistsBijection, Bijection, Injection
<1>3. SetToSeq(S) = CHOOSE f \in [1..n -> S] : IsInjective(f)
  BY DEF SetToSeq, n
<1>4. SetToSeq(S) \in [1..n -> S]
  BY <1>2, <1>3
<1> QED BY <1>1, <1>4, SeqDef

\* A parse tries definitions only.
LEMMA DefsType ==
    ASSUME IInv, NEW req
    PROVE  CandidateDefs(req) \in Seq(DOMAIN Definitions)
<1> DEFINE D == DOMAIN Definitions
           R == CurrentConfig.repos
           S == Seq(D)
           good == {d \in ToSet(KnownDefs) : req.only = {} \/ d \in req.only}
<1>1. R \in Seq(Keyed \X Places)
  BY ConfiguredRepos
<1>2. \A path : DefsAt(path) \in S
  <2> SUFFICES ASSUME NEW path PROVE DefsAt(path) \in S
    OBVIOUS
  <2> DEFINE written == {d \in D : disk[path].defs[d] = "written"}
  <2>1. CASE path = BuiltinPath
    BY <2>1, Interfaces DEF DefsAt
  <2>2. CASE path # BuiltinPath
    <3>1. IsFiniteSet(written) /\ written \subseteq D
      BY Interfaces, FS_Subset
    <3>2. DefsAt(path) = SetToSeq(written)
      BY <2>2 DEF DefsAt
    <3> HIDE DEF written, D
    <3>3. SetToSeq(written) \in Seq(written)
      BY <3>1, SetInOrder
    <3> QED BY <3>1, <3>2, <3>3, Wider
  <2> QED BY <2>1, <2>2
<1>3. ASSUME NEW defs \in S, NEW r \in Keyed \X Places PROVE KnownStep(0, defs, r) \in S
  <2> HIDE DEF D
  <2> QED BY <1>2 DEF KnownStep
<1>4. <<>> \in S
  OBVIOUS
<1> HIDE DEF S, R
<1>5. Knowing!Fold(0, <<>>, R) \in S
  BY <1>1, <1>3, <1>4, Induction, Knowing!FoldKeeps
<1>6. KnownDefs \in S
  BY <1>5, KnownDefsIs DEF R
<1>7. CandidateDefs(req) = Among(KnownDefs, good)
  BY DEF CandidateDefs
<1> HIDE DEF D, good
<1>8. Among(KnownDefs, good) \in Seq(D \cap good)
  BY <1>6, AmongType DEF S
<1>9. CandidateDefs(req) \in Seq(D)
  BY <1>7, <1>8, Wider
<1> QED BY <1>9 DEF D

\* Whatever a parse has been asked for is a module of a source, with sound interfaces.
AskedSound == \A m \in proc.asked : \E source \in Sources : SoundlyInferred(source, m)

LEMMA StartParseSound ==
    ASSUME HintsApart, IInv, NEW name \in RepoNames, NEW req \in Requests, NEW strategy \in Strategies,
           StartParse(name, req, strategy)
    PROVE  AskedSound'
<1> DEFINE mods == ParsedModules(req)
           defs == CandidateDefs(req)
           M == {ParseModule(m, defs, req.hints) : m \in ToSet(req.modules)}
<1>1. proc'.asked = ToSet(mods) /\ NoModule \notin ToSet(mods)
  BY DEF StartParse, StartWith, Idle
<1>2. ToSet(mods) \subseteq M
  <2>1. mods \in Seq(M)
    BY ParsedFrom
  <2> HIDE DEF mods, M
  <2> QED BY <2>1, Members
<1> HIDE DEF mods
<1>3. ASSUME NEW x \in ToSet(mods) PROVE \E source \in Sources : SoundlyInferred(source, x)
  <2>1. PICK m \in ToSet(req.modules) : x = ParseModule(m, defs, req.hints)
    BY <1>2
  <2>2. IsModule(m) /\ m \in Sources
    BY Modules DEF Sources
  <2>3. Apart(m, req.hints)
    BY DEF HintsApart, Apart
  <2>4. defs \in Seq(DOMAIN Definitions)
    BY DefsType
  <2>5. SoundlyInferred(m, x)
    BY <1>1, <2>1, <2>2, <2>3, <2>4, ParsedSound
  <2> QED BY <2>2, <2>5
<1> QED BY <1>1, <1>3 DEF AskedSound

LEMMA AskedStep ==
    ASSUME HintsApart, IInv, AskedSound, [Next]_vars
    PROVE  AskedSound'
<1>1. Idle.asked = {}
  BY DEF Idle
<1>2. proc'.asked = proc.asked \/ proc'.asked = {} => AskedSound'
  BY DEF AskedSound
<1>3. ASSUME NEW n \in RepoNames, NEW r \in Requests, NEW s \in Strategies, StartParse(n, r, s)
      PROVE  AskedSound'
  BY <1>3, StartParseSound
<1>4. ASSUME NEW c \in CoreNames, OpenCore(c) \/ FailCore(c) PROVE AskedSound'
  BY <1>1, <1>2, <1>4 DEF OpenCore, FailCore, IInv, Shapes, IsProc
<1>5. CASE WriteCore
  BY <1>2, <1>5 DEF WriteCore, IInv, Shapes, IsProc
<1>6. ASSUME NEW d \in DOMAIN Definitions, OpenDef(d) PROVE AskedSound'
  BY <1>2, <1>6 DEF OpenDef, IInv, Shapes, IsProc
<1>7. CASE WriteDef
  BY <1>2, <1>7 DEF WriteDef, IInv, Shapes, IsProc
<1>8. CASE EndParse
  BY <1>1, <1>2, <1>8 DEF EndParse
<1>9. ASSUME NEW n \in RepoNames, NEW p \in Paths, StartInit(n, p) PROVE AskedSound'
  <2>1. proc'.asked = {}
    BY <1>9 DEF StartInit, Idle
  <2> QED BY <1>2, <2>1
<1>10. CASE WriteInit
  BY <1>1, <1>2, <1>10 DEF WriteInit
<1>11. CASE Kill
  BY <1>1, <1>2, <1>11 DEF Kill
<1>12. CASE UNCHANGED vars
  BY <1>2, <1>12 DEF vars
<1> QED BY <1>3, <1>4, <1>5, <1>6, <1>7, <1>8, <1>9, <1>10, <1>11, <1>12 DEF Next

\* Where no hints put a port into a group twice, the modules that a parse stores are those of
\* its sources with interfaces added that are complete, of the right directions, of names of
\* their own, and of parts of ports that no other interface has
\* (infer_interfaces_from_module, map_interfaces_to_module).
THEOREM InferenceSound == ASSUME HintsApart PROVE Spec => []InferredSound
<1>1. Init => AskedSound
  <2>1. Idle.asked = {}
    BY DEF Idle
  <2> QED BY <2>1 DEF Init, AskedSound
<1>2. IInv /\ AskedSound /\ [Next]_vars => AskedSound'
  BY AskedStep
<1>3. IInv /\ AskedSound => InferredSound
  <2> SUFFICES ASSUME IInv, AskedSound, NEW m \in ToSet(proc.new)
               PROVE  \E source \in Sources : SoundlyInferred(source, m)
    BY DEF InferredSound
  <2>1. CASE proc.cmd = "parse"
    <3>1. m \in proc.asked
      BY <2>1, RunningParse, Members
    <3> QED BY <3>1 DEF AskedSound
  <2>2. CASE proc.cmd # "parse"
    <3>1. proc.new = <<>>
      BY <2>2, IdleIs DEF IInv, Commands
    <3> QED BY <3>1 DEF ToSet
  <2> QED BY <2>1, <2>2
<1> QED BY <1>1, <1>2, <1>3, Invariance, PTL DEF Spec
=============================================================================
