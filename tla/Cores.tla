------------------------------- MODULE Cores --------------------------------
(***************************************************************************)
(* IP cores as `topwrap repo' keeps them: modules with ports of logic      *)
(* types, interfaces, clocks and resets (model/module.py, interface.py,    *)
(* hdl_types.py) and selectors of parts of ports (inference/port.py).      *)
(*                                                                         *)
(* The name of a port is a sequence of tokens, the words and separators    *)
(* that inference splits names at; other names are strings.  A type is a   *)
(* bit, a vector of bits, a struct or an array of structs: `dims' are its  *)
(* <<upper, lower>> bounds, `fields' the leaves of a struct, [path, dims], *)
(* and a path through nested structs is one field.                         *)
(***************************************************************************)
EXTENDS Integers, Sequences, FiniteSets, SequencesExt, TLC

CONSTANT Definitions   \* interface definitions: name -> sequence of signals
                       \* [name, chars, dir (at a manager), required, regexp]

\* A dictionary, which has an order, as a sequence of <<key, value>>.
Put(dict, key, value) ==
    IF \E i \in DOMAIN dict : dict[i][1] = key
    THEN [i \in DOMAIN dict |-> IF dict[i][1] = key THEN <<key, value>> ELSE dict[i]]
    ELSE Append(dict, <<key, value>>)
Update(dict, other) == FoldLeft(LAMBDA d, e : Put(d, e[1], e[2]), dict, other)
Keys(dict) == {dict[i][1] : i \in DOMAIN dict}
At(dict, key) == dict[CHOOSE i \in DOMAIN dict : dict[i][1] = key][2]

\* The items of a sequence that are in a set; the items by falling keys, as `sorted' leaves
\* equal ones in their order.
Among(seq, good) == FoldLeft(LAMBDA out, e : IF e \in good THEN Append(out, e) ELSE out, <<>>, seq)
InsertBy(key, out, e) ==
    Among(out, {x \in ToSet(out) : key[x] >= key[e]}) \o <<e>>
        \o Among(out, {x \in ToSet(out) : key[x] < key[e]})
Falling(seq, key) == FoldLeft(LAMBDA out, e : InsertBy(key, out, e), <<>>, seq)

Type(kind, name, dims, fields) ==
    [kind |-> kind, name |-> name, dims |-> dims, fields |-> fields]
Bit == Type("bit", "", <<>>, <<>>)
IsStruct(type) == type.kind = "struct"
IsArray(type) == type.kind \in {"bits", "structs"}

\* A selector: a port and operations on it, fields and slices.
Sel(port, ops) == [port |-> port, ops |-> ops]
Field(path) == [kind |-> "field", path |-> path, upper |-> 0, lower |-> 0]
Slice(u, l) == [kind |-> "slice", path |-> <<>>, upper |-> u, lower |-> l]
NoPort == Sel(<<>>, <<>>)      \* an independent signal

Flip(dir) == CASE dir = "in" -> "out" [] dir = "out" -> "in" [] OTHER -> "inout"

\* InterfaceSignal.modes: an interface of no mode has the directions of a manager.
SignalDir(sig, mode) == IF mode = "subordinate" THEN Flip(sig.dir) ELSE sig.dir
SignalOf(def, name) == CHOOSE s \in ToSet(Definitions[def]) : s.name = name

\* QuerableView.find_by_name
Named(seq, name) == {x \in ToSet(seq) : x.name = name}
Find(seq, name) == CHOOSE x \in Named(seq, name) : TRUE

Module(name, ports, intfs, params, clocks, resets) ==
    [name |-> name, ports |-> ports, intfs |-> intfs, params |-> params,
     clocks |-> clocks, resets |-> resets]

\* The ports that realise signals of interfaces, and Module.non_intf_ports.
UsedPorts(mod) ==
    UNION {{i.signals[s].port : s \in DOMAIN i.signals} : i \in ToSet(mod.intfs)}
NonIntfPorts(mod) == Among(mod.ports, {p \in ToSet(mod.ports) : p.name \notin UsedPorts(mod)})

(***************************************************************************)
(* PortSelector.make_referenced_port: the selector as the port of a signal *)
(* of an interface of that mode, or a ValueError.  `cur' is the type the   *)
(* operations so far lead to.                                              *)
(***************************************************************************)
BadType == Type("bad", "", <<>>, <<>>)
Vector(dims) == IF dims = <<>> THEN Bit ELSE Type("bits", "", dims, <<>>)
Item(type) ==
    IF type.kind = "structs" THEN [type EXCEPT !.kind = "struct", !.dims = <<>>]
                             ELSE Vector(Tail(type.dims))
FieldType(type, path) ==
    LET leaves == {f \in ToSet(type.fields) : f.path = path}
    IN  IF leaves = {} THEN BadType ELSE Vector((CHOOSE f \in leaves : TRUE).dims)
Select(type, op) ==
    IF op.kind = "field" THEN IF IsStruct(type) THEN FieldType(type, op.path) ELSE BadType
                         ELSE IF IsArray(type) THEN Item(type) ELSE BadType

Referenced(sel, ports, dir) ==
    /\ Named(ports, sel.port) # {}
    /\ Find(ports, sel.port).dir = dir
    /\ FoldLeft(Select, Find(ports, sel.port).type, sel.ops) # BadType
=============================================================================
