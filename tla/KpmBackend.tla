----------------------------- MODULE KpmBackend -----------------------------
(***************************************************************************)
(* How a design becomes a dataflow of the Pipeline Manager                 *)
(* (backend/kpm/dataflow.py with the metanodes of backend/kpm/common.py).  *)
(*                                                                         *)
(* A dataflow is a function from the ids of graphs to graphs.  A graph has *)
(* its nodes in the order of their creation and connections from an output *)
(* to an input; an interface of a graph is the position of its node and    *)
(* its name.  The graph of a module is named after the module.  Positions  *)
(* of nodes on the page are left out, and parameters stand in `props' with *)
(* the other properties.  Texts that list parameters of interfaces are     *)
(* functions there, from an interface to its parameters.                   *)
(***************************************************************************)
EXTENDS Designs

CONSTANTS Specified        \* the modules the specification has nodes for

Entry == "(entry)"

\* A metanode: its kind, the name of the instance, properties, interfaces with directions.
Metanode(kind, inst, props, ifs) ==
    [kind |-> kind, inst |-> inst, mod |-> kind, sub |-> {}, props |-> props, ifs |-> ifs,
     ext |-> <<>>, clk |-> <<>>, rst |-> <<>>]
IsMetanode(n) == n.kind \in {"io", "const", "inter", "id", "inv", "clk", "rst"}

\* The node of an instance, of the graph in `sub' or of the module of the specification.
IpNode(inst, mod, sub, ifs, clk, rst) ==
    [Metanode("ip", inst, <<>>, ifs) EXCEPT !.mod = mod, !.sub = sub, !.clk = clk, !.rst = rst]

\* An external, and the name each of its interfaces is exposed by.
IoNode(name, ext) ==
    [Metanode("io", name, <<>>, [i \in {"in", "out", "inout"} |-> i]) EXCEPT !.ext = ext]
ConstNode(v) == Metanode("const", "Constant", "value" :> v, "constant" :> "out")
InverterNode == Metanode("inv", "Inverter", <<>>, [i \in {"in", "out"} |-> i])
IdentifierNode(id) == Metanode("id", "Identifier", "Name" :> id, <<>>)
ClockDomainNode(d) == Metanode("clk", "Clock domain", "Domain" :> d.name, "clock" :> "in")
\* A mutant: the polarity of every domain is the same.
ResetDomainNodeLow(d) ==
    Metanode("rst", "Reset domain",
             ("Domain" :> d.name) @@ ("Polarity" :> "active low") @@ ("Synchronous to" :> d.sync),
             "reset" :> "in")

ResetDomainNode(d) ==
    Metanode("rst", "Reset domain",
             ("Domain" :> d.name) @@ ("Polarity" :> d.pol) @@ ("Synchronous to" :> d.sync),
             "reset" :> "in")

\* The dynamic interfaces of an interconnect.
Managers == <<"manager[0]", "manager[1]">>
Subordinates == <<"subordinate[0]", "subordinate[1]">>

\* The parameters of an interconnect itself, written without the braces around them.
Configuration(type) == IF type = Axi THEN "atop: false" ELSE "addr_width: 32, data_width: 32"

InterconnectNode(intr) ==
    LET mans == {Managers[k] : k \in DOMAIN intr.mans}
        subs == {Subordinates[k] : k \in DOMAIN intr.subs}
        sub(s) == intr.subs[CHOOSE k \in DOMAIN intr.subs : Subordinates[k] = s]
    IN  Metanode("inter", intr.name,
                 ("Type" :> intr.type) @@ ("Interconnect configuration" :> Configuration(intr.type)) @@
                 ("Managers configuration" :> [m \in IF intr.type = Axi THEN mans ELSE {} |-> "id_width"]) @@
                 ("Subordinates configuration" :> [s \in subs |-> sub(s).param]),
                 [i \in {"clk", "rst"} \cup mans |-> "in"] @@ [i \in subs |-> "out"])

(***************************************************************************)
(* A graph under construction: `refs' maps endpoints to interfaces, and    *)
(* `consts' values to the nodes made for them.                             *)
(***************************************************************************)
NewGraph == [nodes |-> <<>>, conns |-> <<>>, refs |-> <<>>, consts |-> <<>>]

Put(b, node) == [b EXCEPT !.nodes = Append(@, node)]
Last1(b) == Len(b.nodes)
DirOf(g, i) == g.nodes[i[1]].ifs[i[2]]

\* _connect: from the output to the input, and once.
Arrow(b, i1, i2) == IF DirOf(b, i1) = "in" THEN <<i2, i1>> ELSE <<i1, i2>>
Once(b, conn) == IF conn \in ToSet(b.conns) THEN b ELSE [b EXCEPT !.conns = Append(@, conn)]
Connect(b, i1, i2) == Once(b, Arrow(b, i1, i2))

\* Whether an instance is shown as a graph; depth is always infinite.
UseSubgraph(mods, m) == mods[m].design # <<>> \/ m \notin Specified

AddComponent(b, mods, c) ==
    LET shown == Shown(mods[c.mod].ios)
        node == IpNode(c.name, c.mod, IF UseSubgraph(mods, c.mod) THEN {c.mod} ELSE {},
                       [i \in {io.name : io \in ToSet(shown)} |-> Find(shown, i).dir], c.clk, c.rst)
        n == Last1(b) + 1
    IN  [Put(b, node) EXCEPT !.refs =
            [e \in {At(c.name, io.name) : io \in ToSet(shown)} |-> <<n, e[2]>>] @@ @]

\* An input is exposed by "in" and drives the design from "out".
AddExternal(b, io) ==
    [Put(b, IoNode(io.name, io.dir :> io.name)) EXCEPT !.refs =
        (Ext(io.name) :> <<Last1(b) + 1, Flip(io.dir)>>) @@ @]

\* The externals that have no node yet: ports that realise signals of interfaces.
WithExternal(b, des, e) ==
    IF IsExternal(e) /\ e \notin DOMAIN b.refs THEN AddExternal(b, Find(des.ios, e[2])) ELSE b

AddConstant(b, v) ==
    IF v \in DOMAIN b.consts THEN b
    ELSE [Put(b, ConstNode(v)) EXCEPT !.consts = (v :> Last1(b) + 1) @@ @]

\* Through an inverter of its own, which is the last node.
Inverted(b, ends) ==
    Once(Once(b, <<ends[1], <<Last1(b), "in">>>>), <<<<Last1(b), "out">>, ends[2]>>)
InterfaceOf(b, e) == IF IsConst(e) THEN <<b.consts[e[2]], "constant">> ELSE b.refs[e]
ConnectEnds(b, src, tgt, inv) ==
    IF inv THEN Inverted(Put(b, InverterNode), Arrow(b, InterfaceOf(b, src), InterfaceOf(b, tgt)))
    ELSE Connect(b, InterfaceOf(b, src), InterfaceOf(b, tgt))

\* A slice is connected as the port it is part of.
AddConnection(b, des, conn) ==
    LET src == Unsliced(conn.src)
        b1 == IF IsConst(src) THEN AddConstant(b, src[2]) ELSE WithExternal(b, des, src)
    IN  ConnectEnds(WithExternal(b1, des, Unsliced(conn.tgt)), src, Unsliced(conn.tgt), conn.inv)

AddInterconnect(b, intr) ==
    LET n == Last1(b) + 1
        b1 == Connect(Connect(Put(b, InterconnectNode(intr)), <<n, "clk">>, b.refs[intr.clock]),
                      <<n, "rst">>, b.refs[intr.reset])
        Mans(x, k) == Connect(x, <<n, Managers[k]>>, b.refs[intr.mans[k]])
        Subs(x, k) == Connect(x, <<n, Subordinates[k]>>, b.refs[intr.subs[k].at])
        b2 == FoldLeft(Mans, b1, [k \in DOMAIN intr.mans |-> k])
    IN  FoldLeft(Subs, b2, [k \in DOMAIN intr.subs |-> k])

AddClockDomain(b, d) ==
    Connect(Put(b, ClockDomainNode(d)), b.refs[d.clock], <<Last1(b) + 1, "clock">>)

\* A mutant: the node made before.
AddResetDomainEarly(b, d) ==
    Connect(Put(b, ResetDomainNode(d)), b.refs[d.reset], <<Last1(b), "reset">>)

AddResetDomain(b, d) ==
    Connect(Put(b, ResetDomainNode(d)), b.refs[d.reset], <<Last1(b) + 1, "reset">>)

GraphIn(b) == [nodes |-> b.nodes, conns |-> b.conns]

\* _represent_design
GraphOf(des, mods) ==
    LET b1 == FoldLeft(LAMBDA b, c : AddComponent(b, mods, c), Put(NewGraph, IdentifierNode(des.id)),
                       des.comps)
        b2 == FoldLeft(AddExternal, b1, Shown(des.ios))
        b3 == FoldLeft(LAMBDA b, c : AddConnection(b, des, c), b2, des.conns)
        b4 == FoldLeft(AddInterconnect, b3, des.inters)
        b5 == FoldLeft(AddClockDomain, b4, des.cdoms)
    IN  GraphIn(FoldLeft(AddResetDomain, b5, des.rdoms))

\* A module without a design that has to be a graph gets an empty one.
DesignOf(mods, m) ==
    IF mods[m].design # <<>> THEN mods[m].design[1] ELSE NewDesign(m, mods[m].ios)

\* represent_design: one graph for each module shown as a graph, however often it is used.
Represent(des, mods) ==
    (Entry :> GraphOf(des, mods)) @@
    [m \in {x \in Below(des, mods) : UseSubgraph(mods, x)} |-> GraphOf(DesignOf(mods, m), mods)]
=============================================================================
