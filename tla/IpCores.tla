------------------------------ MODULE IpCores -------------------------------
(***************************************************************************)
(* The YAML files of IP cores: what the backend writes of a module         *)
(* (backend/yaml/backend.py) and what the frontend reads back              *)
(* (frontend/yaml/ip_core.py), with the checks of the schema               *)
(* (backend/yaml/common/ip_core_schema.py).                                *)
(*                                                                         *)
(* A signal of a description is [name, bound, slice, default, path, type]; *)
(* <<>>, Unsaid and NoPort stand for what it does not say.  The ports of a *)
(* description are sets: their order is not kept.                          *)
(***************************************************************************)
EXTENDS Cores, FiniteSetsExt

Unsaid == ""      \* a name or a value
Dirs == {"in", "out", "inout"}
Signal(name, bound, slice, default, type) ==
    [name |-> name, bound |-> bound, slice |-> slice, default |-> default,
     path |-> NoPort, type |-> type]
Null == Signal(<<>>, <<>>, <<>>, Unsaid, Unsaid)   \* an independent signal of an interface
PathSignal(sel) == [Null EXCEPT !.path = sel]

NoDesc == [name |-> "", signals |-> [d \in Dirs |-> {}], parameters |-> <<>>, interfaces |-> <<>>,
           clocks |-> <<>>, resets |-> <<>>, types |-> <<>>, existing |-> {}]

(***************************************************************************)
(* IpCoreDescriptionBackend.                                               *)
(***************************************************************************)
\* A struct without a name is named for its identity.
TypeName(type) == IF type.name = Unsaid THEN "tw_anon_type" ELSE type.name

\* _represent_signal: a struct by the name of its type, without its default; of an array of
\* structs nothing but the name.
RepresentSignal(port, slice, default) ==
    IF IsStruct(port.type) THEN Signal(port.name, <<>>, <<>>, Unsaid, TypeName(port.type))
    ELSE Signal(port.name, IF port.type.kind = "bits" THEN port.type.dims[1] ELSE <<>>,
                slice, default, Unsaid)

\* What it raises ValueError for: vectors of several dimensions, slices of bits and structs.
Writable(port, slice) ==
    CASE port.type.kind = "bits" -> Len(port.type.dims) = 1
      [] port.type.kind = "structs" -> TRUE
      [] OTHER -> slice = <<>>

\* Mutant of NeededPorts: the ports of structs that interfaces use are left out.
NeededLeftOut(mod) == ToSet(NonIntfPorts(mod))

\* represent: structs, and the ports that realise no signal of an interface.
NeededPorts(mod) ==
    {p \in ToSet(mod.ports) : IsStruct(p.type)} \cup ToSet(NonIntfPorts(mod))
RepresentPorts(mod) ==
    [d \in Dirs |-> {RepresentSignal(p, <<>>, p.default) : p \in {q \in NeededPorts(mod) : q.dir = d}}]

\* _represent_intf: a signal that is a part of a port is written as a slice if one slice is
\* all it takes, else as the path of a selector.  No clock, reset or size is written.
NeedsPath(sel) == Len(sel.ops) > 1 \/ (Len(sel.ops) = 1 /\ sel.ops[1].kind # "slice")
SliceOf(sel) == IF sel.ops = <<>> THEN <<>> ELSE <<sel.ops[1].upper, sel.ops[1].lower>>
RepresentIntfSignal(mod, sel) ==
    CASE sel = NoPort -> Null
      [] NeedsPath(sel) -> PathSignal(sel)
      [] OTHER -> RepresentSignal(Find(mod.ports, sel.port), SliceOf(sel), Unsaid)
RepresentIntf(mod, intf) ==
    LET In(d) == {s \in DOMAIN intf.signals : SignalDir(SignalOf(intf.def, s), intf.mode) = d}
    IN  [name |-> intf.name, type |-> intf.def, mode |-> intf.mode,
         signals |-> [d \in Dirs |-> [s \in In(d) |-> RepresentIntfSignal(mod, intf.signals[s])]],
         clock |-> Unsaid, reset |-> Unsaid, size |-> 0]

\* _represent_params: the value as text, which numbers survive and sized numbers do not.
RepresentParam(par) == [par EXCEPT !.value = IF @ = "sized" THEN "text" ELSE @]

\* _represent_nontrivial_types: of structs with one name the last one stays; a field keeps its
\* first dimension only.
RepresentField(f) == [f EXCEPT !.dims = IF @ = <<>> THEN <<<<0, 0>>>> ELSE <<Head(@)>>]
RepresentTypes(mod) ==
    LET structs == {i \in DOMAIN mod.ports : IsStruct(mod.ports[i].type)}
        Latest(name) == Max({i \in structs : TypeName(mod.ports[i].type) = name})
        Fields(i) == mod.ports[i].type.fields
    IN  [name \in {TypeName(mod.ports[i].type) : i \in structs} |->
            [k \in DOMAIN Fields(Latest(name)) |-> RepresentField(Fields(Latest(name))[k])]]

Represent(mod, existing) ==
    [name |-> mod.name, signals |-> RepresentPorts(mod),
     parameters |-> [i \in DOMAIN mod.params |-> RepresentParam(mod.params[i])],
     interfaces |-> [i \in DOMAIN mod.intfs |-> RepresentIntf(mod, mod.intfs[i])],
     clocks |-> mod.clocks, resets |-> mod.resets,
     types |-> RepresentTypes(mod), existing |-> existing]

Representable(mod) ==
    /\ \A p \in NeededPorts(mod) : Writable(p, <<>>)
    /\ \A i \in ToSet(mod.intfs) : \A s \in DOMAIN i.signals :
          LET sel == i.signals[s]
          IN  sel # NoPort /\ ~NeedsPath(sel) => Writable(Find(mod.ports, sel.port), SliceOf(sel))

(***************************************************************************)
(* IPCoreDescription.load and IPCoreDescriptionFrontend.parse.  Errors are *)
(* conditions of their own (Loadable, Parsable); `known' are the interface *)
(* definitions of the repositories that are loaded.                        *)
(***************************************************************************)
Signals(intf) == UNION {DOMAIN intf.signals[d] : d \in Dirs}

\* IPCoreInterface: the definition has to be there; force_interface_compliance asks for
\* every required signal, and for no unknown ones.
Compliant(intf) ==
    /\ \A s \in ToSet(Definitions[intf.type]) : s.required => s.name \in Signals(intf)
    /\ Signals(intf) \subseteq {s.name : s \in ToSet(Definitions[intf.type])}
Loadable(desc, known, compliance) ==
    /\ \A i \in ToSet(desc.interfaces) : i.type \in known /\ (compliance => Compliant(i))
    /\ \A d \in Dirs : \A s \in desc.signals[d] :
          (s.name # <<>> \/ s.path # NoPort) /\ (s.bound = <<>> \/ s.type = Unsaid)

\* _parse_type: a range of one bit is a bit.
ParseField(f) == [f EXCEPT !.dims = IF f.dims[1][1] = f.dims[1][2] THEN <<>> ELSE @]
ParseType(desc, name) ==
    Type("struct", name, <<>>, [i \in DOMAIN desc.types[name] |-> ParseField(desc.types[name][i])])

\* _parse_signal: the port a signal names, made unless the module has it.
SignalType(desc, sig) ==
    CASE sig.type # Unsaid -> ParseType(desc, sig.type)
      [] sig.bound # <<>> -> Vector(<<sig.bound>>)
      [] OTHER -> Bit
NamesPort(sig) == sig.path = NoPort /\ sig # Null
PortMade(desc, sig, dir) ==
    [name |-> sig.name, dir |-> dir, type |-> SignalType(desc, sig), default |-> sig.default]
PortOf(sig) ==
    CASE sig = Null -> NoPort
      [] sig.path # NoPort -> sig.path
      [] OTHER -> Sel(sig.name, IF sig.slice = <<>> THEN <<>>
                                ELSE <<Slice(sig.slice[1], sig.slice[2])>>)
GoodSignal(desc, sig, dir) ==
    /\ sig.type = Unsaid \/ sig.type \in DOMAIN desc.types
    /\ sig.default = Unsaid \/ dir = "in"

AddAll(ports, desc, sigs, dir) ==
    LET new == {s.name : s \in {t \in sigs : NamesPort(t) /\ Named(ports, t.name) = {}}}
        First(name) == CHOOSE s \in sigs : NamesPort(s) /\ s.name = name
    IN  ports \o SetToSeq({PortMade(desc, First(n), dir) : n \in new})
AddPorts(ports, desc, signals) ==
    AddAll(AddAll(AddAll(ports, desc, signals["in"], "in"), desc, signals["out"], "out"),
           desc, signals["inout"], "inout")
Realising(intf) == [d \in Dirs |-> {intf.signals[d][s] : s \in DOMAIN intf.signals[d]}]

\* _parse_intfs, after the ports and the clocks and resets; a port that only an interface
\* names is made here.
PortsOf(desc) == AddPorts(<<>>, desc, desc.signals)
AllPorts(desc) ==
    FoldLeft(LAMBDA ports, i : AddPorts(ports, desc, Realising(i)), PortsOf(desc), desc.interfaces)
ParseIntf(intf) ==
    [name |-> intf.name, def |-> intf.type, mode |-> intf.mode,
     signals |-> [s \in Signals(intf) |->
                    PortOf(intf.signals[CHOOSE d \in Dirs : s \in DOMAIN intf.signals[d]][s])],
     clock |-> intf.clock, reset |-> intf.reset, size |-> intf.size]
Parse(desc) ==
    Module(desc.name, AllPorts(desc), [i \in DOMAIN desc.interfaces |-> ParseIntf(desc.interfaces[i])],
           desc.parameters, desc.clocks, desc.resets)

\* A path needs its port when its signal is read.  Only structs and their arrays have paths,
\* and of these a port that an interface makes is none.
GoodIntf(desc, intf) ==
    /\ Signals(intf) \subseteq {s.name : s \in ToSet(Definitions[intf.type])}
    /\ \A d \in Dirs : \A s \in DOMAIN intf.signals[d] :
          LET sig == intf.signals[d][s]
          IN  /\ GoodSignal(desc, sig, d)
              /\ sig.path # NoPort =>
                    Referenced(sig.path, PortsOf(desc), SignalDir(SignalOf(intf.type, s), intf.mode))
    /\ intf.clock = Unsaid \/ Named(desc.clocks, intf.clock) # {}
    /\ intf.reset = Unsaid \/ Named(desc.resets, intf.reset) # {}

\* _parse_clocks_resets, before the ports that only interfaces name.
GoodClocks(desc) ==
    /\ \A c \in ToSet(desc.clocks) \cup ToSet(desc.resets) : Named(PortsOf(desc), c.port) # {}
    /\ \A r \in ToSet(desc.resets) : r.sync = Unsaid \/ Named(desc.clocks, r.sync) # {}

Parsable(desc) ==
    /\ \A d \in Dirs : \A s \in desc.signals[d] :
          s.path = NoPort /\ s.slice = <<>> /\ GoodSignal(desc, s, d)
    /\ GoodClocks(desc)
    /\ \A i \in ToSet(desc.interfaces) : GoodIntf(desc, i)

Readable(desc, known, compliance) == Loadable(desc, known, compliance) /\ Parsable(desc)
=============================================================================
