----------------------------- MODULE Inference ------------------------------
(***************************************************************************)
(* Interface inference (model/inference): the ports of a module are put    *)
(* into groups that might be interfaces, each group is matched with every  *)
(* definition, the matches are scored and the best ones that share no      *)
(* ports are taken, then mapped to interfaces of the module.               *)
(*                                                                         *)
(* Groups are dictionaries, for their order decides which port a signal    *)
(* takes and which of two equal scores comes first.  Regular expressions   *)
(* are sets of token sequences that a name in lower case may begin with.   *)
(* Scores are integers, in parts `Unit' of a point.                        *)
(***************************************************************************)
EXTENDS Cores

CONSTANTS Tokens,    \* token -> [chars, first, last, lower]: its length, the kinds of its
                     \* first and last character and the token in lower case
          Unit,      \* parts of a point that scores are counted in
          Penalty    \* Penalty[n + 1]: Unit * (exp(n / 7.5) - 1), rounded

Chars(name) == FoldLeft(LAMBDA n, t : n + Tokens[t].chars, 0, name)
Lower(name) == [i \in DOMAIN name |-> Tokens[name[i]].lower]

\* The defaults of InterfaceInferenceOptions.
MinGroupSize == 2
MinSignalCount == 2
PrefixLengthScore == 2
RequiredMatch == 15
OptionalMatch == 10
RequiredMissing == -100
OptionalMissing == -2

(***************************************************************************)
(* Groups of ports.                                                        *)
(***************************************************************************)
\* _drop_io_prefix: the prefix becomes a suffix; the search for a free number stops at the
\* last name that was taken, so that the name it returns may be another port's.
IoPrefix == [in |-> "i", out |-> "o", inout |-> "io"]
Numbered(name, n) == name \o <<"_", ToString(n)>>
Tried(name, n) ==
    name \o [i \in 1..(2 * n) |-> IF i % 2 = 1 THEN "_" ELSE ToString(i \div 2 + 1)]
DropIoPrefix(port, names) ==
    LET moved == SubSeq(port.name, 3, Len(port.name)) \o <<"_", IoPrefix[port.dir]>>
        free == {n \in 0..Cardinality(names) : Numbered(Tried(moved, n), n + 1) \notin names}
    IN  IF ~IsPrefix(<<IoPrefix[port.dir], "_">>, port.name) \/ Len(port.name) < 3
        THEN port.name
        ELSE IF moved \in names THEN Tried(moved, Min(free)) ELSE moved

\* The ports inference looks at by the names it gives them: of two ports with one name
\* the later one stays.
PortDict(mod) ==
    LET free == NonIntfPorts(mod)
        names == {p.name : p \in ToSet(mod.ports)}
    IN  FoldLeft(LAMBDA d, p : Put(d, DropIoPrefix(p, names), Sel(p.name, <<>>)), <<>>,
                 Among(free, {p \in ToSet(free) : ~IsStruct(p.type)}))

\* _process_bit_struct: the leaves of a struct by their paths.
StructMembers(sel, type) ==
    [i \in DOMAIN type.fields |->
        <<type.fields[i].path, [sel EXCEPT !.ops = Append(@, Field(type.fields[i].path))]>>]

\* _generate_struct_groups: a group for a struct, and one for each element of an array of
\* structs, which takes the hint for the array with its index.
Indexed(name, i) == name \o <<"[", ToString(i), "]">>
ElementGroups(port) ==
    LET lower == port.type.dims[1][2]
    IN  [i \in 1..(port.type.dims[1][1] - lower + 1) |->
            <<Indexed(port.name, lower + i - 1),
              StructMembers(Sel(port.name, <<Slice(lower + i - 1, lower + i - 1)>>), port.type)>>]
GroupsOf(port) ==
    CASE port.type.kind = "structs" /\ Len(port.type.dims) = 1 -> ElementGroups(port)
      [] IsStruct(port.type) -> <<<<port.name, StructMembers(Sel(port.name, <<>>), port.type)>>>>
      [] OTHER -> <<>>
StructGroups(mod) == FoldLeft(LAMBDA g, p : g \o GroupsOf(p), <<>>, NonIntfPorts(mod))

ElementHints(mod, hints) ==
    LET arrays == {p \in ToSet(NonIntfPorts(mod)) :
                      p.type.kind = "structs" /\ Len(p.type.dims) = 1 /\ p.name \in DOMAIN hints}
        bounds(p) == p.type.dims[1][2]..p.type.dims[1][1]
        named == UNION {{<<p.name, i>> : i \in bounds(p)} : p \in arrays}
    IN  [n \in {Indexed(e[1], e[2]) : e \in named} |->
            LET e == CHOOSE e \in named : Indexed(e[1], e[2]) = n IN Indexed(hints[e[1]], e[2])]

\* _is_valid_prefix: the first n tokens of a name, before a separator or a word in camel case.
ValidPrefix(name, n) ==
    LET next == Tokens[name[n + 1]].first
        last == Tokens[name[n]].last
    IN  \/ next = "_"
        \/ n > 0 /\ last = "lower" /\ next \in {"upper", "digit"}
        \/ n > 0 /\ last \in {"lower", "digit", "_"} /\ next = "upper"

\* _generate_prefix_groups: the ports that share a prefix, by the rest of their names.
\* Prefixes come in the order of the first port that has them, the shorter ones first.
NewPrefixes(found, name) ==
    LET starts == [n \in 1..Len(name) |-> SubSeq(name, 1, n - 1)]
    IN  Among(starts, {p \in ToSet(starts) : ValidPrefix(name, Len(p)) /\ p \notin ToSet(found)})
SplitPrefixes(ports) == FoldLeft(LAMBDA found, e : found \o NewPrefixes(found, e[1]), <<>>, ports)

SkipSeparators(name) == SubSeq(name, 1 + Cardinality({n \in DOMAIN name :
                                             \A m \in 1..n : name[m] = "_"}), Len(name))
PrefixGroup(prefix, ports) ==
    FoldLeft(LAMBDA g, e : IF IsPrefix(prefix, e[1])
                           THEN Put(g, SkipSeparators(SubSeq(e[1], Len(prefix) + 1, Len(e[1]))), e[2])
                           ELSE g, <<>>, ports)
PrefixGroups(ports) ==
    LET prefixes == SplitPrefixes(ports)
        all == [i \in DOMAIN prefixes |-> <<prefixes[i], PrefixGroup(prefixes[i], ports)>>]
    IN  Among(all, {g \in ToSet(all) : Len(g[2]) >= MinGroupSize})

\* _generate_candidate_groups: groups that hints rename to one name are merged, and all the
\* ports are a group without a name.
GroupName(mod, hints, prefix) ==
    LET renamed == ElementHints(mod, hints) @@ hints
    IN  IF prefix \in DOMAIN renamed THEN renamed[prefix] ELSE prefix
AddGroup(self, groups, g) ==
    LET name == GroupName(self.mod, self.hints, g[1])
    IN  Put(groups, name, IF name \in Keys(groups) THEN Update(At(groups, name), g[2]) ELSE g[2])
CandidateGroups(mod, hints) ==
    LET self == [mod |-> mod, hints |-> hints]
        ports == PortDict(mod)
    IN  Put(FoldLeft(LAMBDA groups, g : AddGroup(self, groups, g),
                     <<>>, StructGroups(mod) \o PrefixGroups(ports)), <<>>, ports)

(***************************************************************************)
(* Candidates: what the ports of a group make of a definition.             *)
(***************************************************************************)
\* _match_intf_signals_to_ports: signals with longer names choose first, each one the first
\* port its expression matches, and a later signal takes the port from an earlier one.
ByLength(signals) == Falling(signals, [s \in ToSet(signals) |-> s.chars])
Matches(sig, key) == \E p \in sig.regexp : IsPrefix(p, Lower(key))
MatchSignal(ports, out, sig) ==
    LET fits == {i \in DOMAIN ports : Matches(sig, ports[i][1])}
    IN  IF fits = {} THEN out ELSE Put(out, ports[Min(fits)][1], sig)
MatchSignals(ports, def) ==
    FoldLeft(LAMBDA out, sig : MatchSignal(ports, out, sig), <<>>, ByLength(Definitions[def]))

\* _deduce_intf_mode_from_ports: the mode most ports have the direction for; none if a port
\* has the direction of neither mode, or on a draw.
PortDir(mod, ports, key) == Find(mod.ports, At(ports, key).port).dir
DeduceMode(mod, matched, ports) ==
    LET Dir(e) == PortDir(mod, ports, e[1])
        all == ToSet(matched)
        decided == {e \in all : e[2].dir # Flip(e[2].dir)}
        manager == Cardinality({e \in decided : Dir(e) = e[2].dir})
        subordinate == Cardinality({e \in decided : Dir(e) = Flip(e[2].dir)})
    IN  CASE \E e \in all : Dir(e) \notin {e[2].dir, Flip(e[2].dir)} -> "none"
          [] manager > subordinate -> "manager"
          [] subordinate > manager -> "subordinate"
          [] OTHER -> "none"

\* _score_matched_intf_signals
Score(matched, ports, def) ==
    LET all == ToSet(Definitions[def])
        met == {e[2] : e \in ToSet(matched)}
        Count(set, required) == Cardinality({s \in set : s.required = required})
        points == Count(met, TRUE) * RequiredMatch + Count(met, FALSE) * OptionalMatch
                  + Count(all \ met, TRUE) * RequiredMissing
                  + Count(all \ met, FALSE) * OptionalMissing
    IN  points * (Unit \div Cardinality(all)) - Penalty[Len(ports) - Len(matched) + 1]

Candidate(mod, prefix, ports, def) ==
    LET matched == MatchSignals(ports, def)
    IN  [prefix |-> prefix, def |-> def, matched |-> matched,
         mode |-> IF Len(matched) < MinSignalCount THEN "none"
                                                   ELSE DeduceMode(mod, matched, ports),
         score |-> Chars(prefix) * PrefixLengthScore * Unit + Score(matched, ports, def)]
Offer(self, out, g) ==
    out \o [j \in DOMAIN self.defs |-> Candidate(self.mod, g[1], g[2], self.defs[j])]
Candidates(mod, groups, defs) ==
    LET self == [mod |-> mod, defs |-> defs]
        all == FoldLeft(LAMBDA out, g : Offer(self, out, g), <<>>, groups)
    IN  Among(all, {c \in ToSet(all) : c.mode # "none"})

\* The candidates by falling scores, equal ones in the order they were found in.
Ranked(cands) == Falling(cands, [c \in ToSet(cands) |-> c.score])

(***************************************************************************)
(* infer_interfaces_from_module: a candidate is taken if its score is      *)
(* above 0, or it is the only one, and no port of its GROUP is used yet;   *)
(* then all of them are.  A port is used by the text of its selector, so   *)
(* that an array and its elements are different ports.                     *)
(***************************************************************************)
DefName(def) == <<def>>
Uses(names, n) == IF n \in DOMAIN names THEN names[n] ELSE 0
Counted(names, n) ==
    [x \in DOMAIN names \cup {n} |-> IF x = n THEN Uses(names, n) + 1 ELSE names[x]]
Group(cand, ports) ==
    [def |-> cand.def, mode |-> cand.mode,
     signals |-> [s \in {e[2].name : e \in ToSet(cand.matched)} |->
                    At(ports, (CHOOSE e \in ToSet(cand.matched) : e[2].name = s)[1])]]

\* Mutant of Take: the ports of an interface stay free.
TakeUnmarked(self, state, cand) ==
    LET ports == At(self.groups, cand.prefix)
        base == IF cand.prefix # <<>> THEN cand.prefix ELSE DefName(cand.def)
        times == Uses(state.names, base)
        name == IF times > 0 THEN Numbered(base, times) ELSE base
    IN  [used |-> {},
         names |-> Counted(state.names, name),
         out |-> Put(state.out, name, Group(cand, ports))]

Take(self, state, cand) ==
    LET ports == At(self.groups, cand.prefix)
        sels == {e[2] : e \in ToSet(ports)}
        def == DefName(cand.def)
        hinted == IF def \in DOMAIN self.hints THEN self.hints[def] ELSE def
        base == IF cand.prefix # <<>> THEN cand.prefix ELSE hinted
        times == Uses(state.names, base)
        name == IF times > 0 THEN Numbered(base, times) ELSE base
    IN  IF sels \cap state.used # {}
        THEN state
        ELSE [used |-> state.used \cup sels,
              names |-> Counted(state.names, name),
              out |-> Put(state.out, name, Group(cand, ports))]

Infer(mod, defs, hints) ==
    LET self == [groups |-> CandidateGroups(mod, hints), hints |-> hints]
        cands == Candidates(mod, self.groups, defs)
        taken == Among(Ranked(cands), {c \in ToSet(cands) : c.score > 0 \/ Len(cands) = 1})
        start == [used |-> {}, out |-> <<>>, names |-> [n \in {i.name : i \in ToSet(mod.intfs)} |->
                      Cardinality({k \in DOMAIN mod.intfs : mod.intfs[k].name = n})]]
    IN  FoldLeft(LAMBDA st, c : Take(self, st, c), start, taken).out

(***************************************************************************)
(* map_interfaces_to_module: the groups become interfaces of the module; a *)
(* group whose name the module has is passed over.  A required signal that *)
(* is missing, or a port of the wrong direction, is an error that no       *)
(* interface of the module survives.                                       *)
(***************************************************************************)
Fits(mod, group) ==
    \A sig \in ToSet(Definitions[group.def]) :
        IF sig.name \in DOMAIN group.signals
        THEN Referenced(group.signals[sig.name], mod.ports, SignalDir(sig, group.mode))
        ELSE ~sig.required

BuildInterface(mod, name, group) ==
    IF Named(mod.intfs, name) # {} THEN mod
    ELSE [mod EXCEPT !.intfs = Append(@, [name |-> name, def |-> group.def, mode |-> group.mode,
              signals |-> group.signals, clock |-> "", reset |-> "", size |-> 0])]

Mappable(mod, mapping) ==
    \A i \in DOMAIN mapping : Named(mod.intfs, mapping[i][1]) # {} \/ Fits(mod, mapping[i][2])
MapInterfaces(mod, mapping) ==
    FoldLeft(LAMBDA m, e : BuildInterface(m, e[1], e[2]), mod, mapping)
=============================================================================
