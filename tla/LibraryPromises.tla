-------------------------- MODULE LibraryPromises ---------------------------
(***************************************************************************)
(* What repositories promise: cores are kept as they were parsed, commands *)
(* touch what they were asked to, and inferred interfaces share nothing.   *)
(***************************************************************************)
EXTENDS Library

(***************************************************************************)
(* What a core is once it has been written and read, said of the module    *)
(* and not of the file.  A file keeps no default of a struct or of a port  *)
(* that realises a signal of an interface, no clock, reset and size of an  *)
(* interface, the name only of an array of structs, a number with a width  *)
(* as text.                                                                *)
(***************************************************************************)
KeptField(f) == [f EXCEPT !.dims = IF @ = <<>> \/ @[1][1] = @[1][2] THEN <<>> ELSE <<@[1]>>]
KeptType(type) ==
    CASE type.kind = "structs" -> Bit
      [] IsStruct(type) -> [type EXCEPT !.name = TypeName(type),
                                        !.fields = [i \in DOMAIN @ |-> KeptField(@[i])]]
      [] OTHER -> type
KeptPort(mod, port) ==
    [port EXCEPT !.type = KeptType(@),
                 !.default = IF IsStruct(port.type) \/ port.name \in UsedPorts(mod) THEN Unsaid ELSE @]
KeptIntf(intf) == [intf EXCEPT !.clock = Unsaid, !.reset = Unsaid, !.size = 0]
KeptParam(par) == [par EXCEPT !.value = IF @ = "sized" THEN "text" ELSE @]
Kept(mod) ==
    [mod EXCEPT !.ports = {KeptPort(mod, p) : p \in ToSet(@)},
                !.intfs = [i \in DOMAIN @ |-> KeptIntf(@[i])],
                !.params = [i \in DOMAIN @ |-> KeptParam(@[i])]]

\* A core is lost, however well it was written, if a clock or a reset is a port of an
\* interface too, or an interface has a part of a port that is not, or no longer, such a part
\* of a struct.
OnlyInterface(mod, name) == name \in UsedPorts(mod) /\ ~IsStruct(Find(mod.ports, name).type)
PartStays(mod, sel) ==
    LET type == Find(mod.ports, sel.port).type
    IN  IsStruct(type) /\ FoldLeft(Select, KeptType(type), sel.ops) # BadType
Lost(mod) ==
    \/ \E c \in ToSet(mod.clocks) \cup ToSet(mod.resets) : OnlyInterface(mod, c.port)
    \/ \E i \in ToSet(mod.intfs) : \E s \in DOMAIN i.signals :
          NeedsPath(i.signals[s]) /\ ~PartStays(mod, i.signals[s])
Complete(intf) == \A s \in ToSet(Definitions[intf.def]) : s.required => s.name \in DOMAIN intf.signals
Survives(mod, known, compliance) ==
    /\ ~Lost(mod)
    /\ \A i \in ToSet(mod.intfs) : i.def \in known /\ (compliance => Complete(i))

(***************************************************************************)
(* Types.                                                                  *)
(***************************************************************************)
\* A file is open exactly while it is being written, and has a description when it is
\* written; cores are in memory under their own names, each one once (Core, CoreHandler.save).
TypeOK ==
    /\ \A p \in Paths, c \in CoreNames :
          LET file == disk[p].cores[c]
          IN  /\ file.state \in {"none", "broken", "written"}
              /\ file.desc.name = IF file.state = "written" THEN c ELSE ""
              /\ given[p][c].name \in {"", c}
    /\ \A p \in Paths, d \in DOMAIN Definitions : disk[p].defs[d] \in {"none", "empty", "written"}
    /\ local.state \in {"absent", "empty", "valid"}
    /\ proc.at.kind \in {"none", "core", "def"}
    /\ proc.at.kind = "core" => CoreFile(proc.at.name) = Broken
    /\ proc.at.kind = "def" => disk[proc.path].defs[proc.at.name] = "empty"
    /\ proc.cmd = "init" => local.state = "empty"
    /\ \A i, j \in DOMAIN proc.new : proc.new[i].name = proc.new[j].name => i = j
    /\ {m.name : m \in ToSet(proc.new)} \cap proc.stored = {}

(***************************************************************************)
(* Files.                                                                  *)
(***************************************************************************)
\* A core that was written, and written again by any number of later commands, reads as the
\* module that was parsed but for what files do not keep, in every later process whose
\* repositories have the definitions of its interfaces; and it cannot be read for no other
\* reason (Core.top, IpCoreDescriptionBackend, IPCoreDescriptionFrontend).
CoreIsRead ==
    \A p \in Paths, c \in CoreNames :
        LET desc == disk[p].cores[c].desc
            mod == given[p][c]
            known == ToSet(KnownDefs)
            compliance == CurrentConfig.compliance
            reads == Readable(desc, known, compliance)
        IN  disk[p].cores[c].state = "written" =>
              /\ reads <=> Survives(mod, known, compliance)
              /\ reads => [Parse(desc) EXCEPT !.ports = ToSet(@)] = Kept(mod)

(***************************************************************************)
(* Commands.                                                               *)
(***************************************************************************)
\* The running parse has something left to write.
Left == proc.stored # {} \/ proc.new # <<>> \/ proc.defs # {}

\* What a core is changes by a parse that was asked for it, and of a core that was there
\* before only when told to overwrite.
CoresStay ==
    \A p \in Paths, c \in CoreNames :
        given'[p][c] # given[p][c] =>
            /\ p = proc.path /\ given'[p][c] \in proc.asked
            /\ c \in proc.before => proc.strategy = "overwrite"

\* A parse leaves other repositories alone and at most one more core broken, and comes to
\* its end only when no core is.
FilesStay ==
    proc.cmd = "parse" =>
        LET broken == {c \in CoreNames : disk'[proc.path].cores[c] = Broken}
        IN  /\ \A p \in Paths \ {proc.path} : disk'[p] = disk[p]
            /\ Cardinality(broken \ proc.broken) <= 1
            /\ proc' = Idle /\ ~Left => broken = {}

\* It stops before, unless it is killed, only at a core that is broken, at one that does not
\* survive being written, or at a vector that no file can say.
StopsForAReason ==
    proc.cmd = "parse" /\ Left /\ proc' = Idle /\ kills' = kills =>
        \/ \E c \in proc.stored :
              \/ disk'[proc.path].cores[c] = Broken
              \/ ~Survives(given[proc.path][c], proc.known, proc.compliance)
        \/ \E p \in ToSet(Head(proc.new).ports) : Len(p.type.dims) > 1

\* An init that completes its file names its repository there and loses none of the names that were.
NamesStay ==
    local'.state = "valid" /\ local # local' =>
        \A e \in ToSet(proc.repos) : e[1] = proc.name \/ e \in ToSet(local'.repos)

\* Whatever a command comes across, and wherever it is killed, it changes no core and no
\* repository that it was not asked for, and the configuration that an init completes has every
\* name it had.  Of one that is killed while it writes nothing is said (parse_repo, Repo.save,
\* init_repo).
RepositoryKeeps == [][CoresStay /\ FilesStay /\ StopsForAReason /\ NamesStay]_vars

(***************************************************************************)
(* Inference.                                                              *)
(***************************************************************************)
\* Selectors of the same part of a port, or of a part and what it is part of.
Overlap(s, t) == s.port = t.port /\ (IsPrefix(s.ops, t.ops) \/ IsPrefix(t.ops, s.ops))
WholeArray(mod, s, t) ==
    s.ops # t.ops /\ Find(mod.ports, s.port).type.kind = "structs"

\* Of the modules a parse stores, the interfaces of the source are as they were; those that
\* inference added have names of their own, all required signals, and ports of their
\* directions that no interface of the source has; and no part of a port is in two places of
\* them but for an array of structs, which can be one signal while its elements are others
\* (infer_interfaces_from_module, map_interfaces_to_module).
Sources == UNION {ToSet(r.modules) : r \in Requests}
Inferred(source, mod) == SubSeq(mod.intfs, Len(source.intfs) + 1, Len(mod.intfs))
PlacesOf(intfs) ==
    UNION {{<<i.name, s, i.signals[s]>> : s \in DOMAIN i.signals} : i \in ToSet(intfs)}
SoundlyInferred(source, mod) ==
    LET inferred == Inferred(source, mod)
        places == PlacesOf(inferred)
    IN  /\ source.name = mod.name /\ source.ports = mod.ports
        /\ IsPrefix(source.intfs, mod.intfs)
        /\ \A i, j \in DOMAIN mod.intfs : mod.intfs[i].name = mod.intfs[j].name => i = j
        /\ \A a, b \in places : a # b /\ Overlap(a[3], b[3]) => WholeArray(mod, a[3], b[3])
        /\ \A a \in places : a[3].port \notin UsedPorts(source)
        /\ \A i \in ToSet(inferred) :
              /\ Complete(i)
              /\ \A s \in DOMAIN i.signals :
                    Find(mod.ports, i.signals[s].port).dir = SignalDir(SignalOf(i.def, s), i.mode)
InferredSound ==
    \A mod \in ToSet(proc.new) : \E source \in Sources : SoundlyInferred(source, mod)

\* Hints that give one name to two prefixes of one port put it into a group twice, where it
\* may become two signals.
HintsApart ==
    \A r \in Requests : \A m \in ToSet(r.modules) :
        LET ports == PortDict(m)
        IN  \A e \in ToSet(ports), a, b \in ToSet(SplitPrefixes(ports)) :
              /\ IsPrefix(a, e[1]) /\ IsPrefix(b, e[1])
              /\ GroupName(m, r.hints, a) = GroupName(m, r.hints, b)
              => a = b
=============================================================================
