---------------------------- MODULE FormsPromises ----------------------------
(***************************************************************************)
(* What the ways between the forms of a design promise: each says which    *)
(* part of the design another form keeps, and names what it loses.         *)
(***************************************************************************)
EXTENDS Forms

(***************************************************************************)
(* Types.                                                                  *)
(***************************************************************************)
IsEndpoint(e) == Len(e) = 3 /\ e[3] \in {Whole, "hi", "lo"} \cup UNION {AllSignals(b) : b \in DOMAIN Buses}

IsDesign(des) ==
    /\ \A c \in ToSet(des.conns) : IsEndpoint(c.src) /\ IsEndpoint(c.tgt) /\ c.inv \in BOOLEAN
    /\ \A io \in ToSet(des.ios) : io.dir \in {"in", "out", "inout"}

\* Connections of graphs go from an interface that there is to another, and the calls of
\* _parse that have not returned are of different graphs (frontend/kpm/dataflow.py:262).
TypeOK ==
    /\ edits \in 0..MaxEdits
    /\ \A g \in DOMAIN flow : \A c \in ToSet(flow[g].conns) : \A k \in {1, 2} :
           c[k][1] \in DOMAIN flow[g].nodes /\ c[k][2] \in DOMAIN flow[g].nodes[c[k][1]].ifs
    /\ \A k, l \in DOMAIN stack : stack[k].gid = stack[l].gid => k = l
    /\ \A k \in DOMAIN stack : IsDesign(stack[k].des)
    /\ parsed # <<>> => stack = <<>> /\ (parsed[1].ok => IsDesign(parsed[1].des))
    /\ loaded # <<>> => yaml # <<>> /\ IsDesign(loaded[1].des)
    /\ sv # <<>> => DOMAIN sv[1].nets.maps \subseteq
           UNION {{<<c.name, io.name>> : io \in ToSet(sv[1].mods[c.mod].ios)} : c \in ToSet(sv[1].des.comps)}

(***************************************************************************)
(* The page.                                                               *)
(***************************************************************************)
WholeWiring(des) ==
    {Ends(Conn(Unsliced(c.src), Unsliced(c.tgt), c.inv)) : c \in ToSet(des.conns)}

IsOwn(w) == \A e \in w.ends : e[1] # Foreign
OwnWiring(des) == {w \in WholeWiring(des) : IsOwn(w)}

\* A component, with the domains that are foreign to its design taken as the ones it had.
Assignable(c, old) ==
    LET own(given, had) == [x \in DOMAIN given |-> IF given[x] = Foreign /\ x \in DOMAIN had THEN had[x]
                                                  ELSE given[x]]
    IN  IF ~Has(old, c.name) THEN c
        ELSE [c EXCEPT !.clk = own(@, Find(old, c.name).clk), !.rst = own(@, Find(old, c.name).rst)]

\* A graph that leaves something in the tables the calls of _parse share.
Leaves(g) ==
    \E n \in ToSet(flow[g].nodes) : n.kind \in {"inv", "clk", "rst"} \/ n.clk # <<>> \/ n.rst # <<>>

IsUnspoilt(des) ==
    /\ \A w \in Wiring(des) : IsOwn(w)
    /\ \A d \in ToSet(des.cdoms) : d.clock[1] # Foreign
    /\ \A d \in ToSet(des.rdoms) : d.reset[1] # Foreign

\* An external joined to an instance of a loaded module, without an inverter between them.
Reaches(des, io) ==
    \E c \in ToSet(des.conns) : Ext(io.name) \in {c.src, c.tgt} /\ ~c.inv /\
        \E e \in {c.src, c.tgt} : Has(des.comps, e[1]) /\ Find(des.comps, e[1]).mod \in DOMAIN Known

\* What a parsed design owns is what the chosen one has.
SameDesign(des, old) ==
    /\ des.id = old.id
    /\ [k \in DOMAIN des.comps |-> Assignable(des.comps[k], old.comps)] = old.comps
    /\ OwnWiring(des) = WholeWiring(old)
    /\ {<<io.name, io.dir>> : io \in ToSet(des.ios)} = {<<io.name, io.dir>> : io \in ToSet(Shown(old.ios))}
    /\ \A io \in ToSet(des.ios) : io.type \in {Find(old.ios, io.name).type} \cup (IF Reaches(old, io) THEN {} ELSE {Bit})
    /\ des.inters = old.inters
    /\ SelectSeq(des.cdoms, LAMBDA d : d.clock[1] # Foreign) = old.cdoms
    /\ SelectSeq(des.rdoms, LAMBDA d : d.reset[1] # Foreign) = old.rdoms

UnusedExternal(g) ==
    \E n \in DOMAIN flow[g].nodes :
        /\ flow[g].nodes[n].kind = "io"
        /\ \A c \in ToSet(flow[g].conns) : n \notin {c[1][1], c[2][1]}

\* A design for which the backend leaves a text empty, or writes a statement: an interconnect,
\* or a domain of resets that are synchronous to no clock.
IsUncheckable(des) == des.inters # <<>> \/ \E d \in ToSet(des.rdoms) : d.sync = ""

\* The designs of the graphs shown.
DesignsShown == {IF g = Entry THEN chosen.des ELSE DesignOf(chosen.mods, g) : g \in DOMAIN flow}

\* A design that is shown and parsed without an edit but of texts is the same design, down the
\* hierarchy: its parts, connections, domains and externals, though not slices of ports.  Beside that
\* it may have what a graph below it leaves in the shared tables, parts Foreign to it.  Just as it is
\* shown, one with an interconnect or an asynchronous reset domain anywhere in it makes the checks
\* raise, for its empty texts, and no other does; and where they do not raise they find no error,
\* but an external that nothing is connected to
\* (backend/kpm/dataflow.py:173, :426, :481, frontend/kpm/dataflow.py:262,
\* kpm_dataflow_validator.py:142, :465, hdl_parsers_utils.py:100).
ShownIsKept ==
    /\ (notes # <<>> /\ edits = 0) =>
        /\ flow = Represent(chosen.des, chosen.mods) =>
               (notes[1].raised <=> \E des \in DesignsShown : IsUncheckable(des))
        /\ ~notes[1].raised =>
               notes[1].errors = IF \E g \in DOMAIN flow : UnusedExternal(g) THEN {"exposure"} ELSE {}
    /\ (Parsed /\ edits = 0) =>
        /\ SameDesign(parsed[1].des, chosen.des)
        /\ \A g \in DOMAIN cache : SameDesign(cache[g].design[1], DesignOf(chosen.mods, g))
        /\ (\A g \in DOMAIN cache : ~Leaves(g)) => IsUnspoilt(parsed[1].des)

(***************************************************************************)
(* Edited dataflows.  What an interface of a graph stands for:             *)
(***************************************************************************)
NodeAt(g, i) == flow[g].nodes[i[1]]
Plain(g, i) == NodeAt(g, i).kind \in {"ip", "io", "const"}
Inverter(g, i) == NodeAt(g, i).kind = "inv"

StandsFor(g, i) ==
    LET n == NodeAt(g, i)
    IN  CASE n.kind = "ip" -> At(n.inst, i[2])
          [] n.kind = "const" -> Value(n.props["value"])
          [] OTHER -> Ext(n.ext[CHOOSE x \in DOMAIN n.ext : TRUE])

Joined(g, i, j, inv) == Ends(Conn(StandsFor(g, i), StandsFor(g, j), inv))

PlainWiring(g) ==
    {Joined(g, c[1], c[2], FALSE) : c \in {x \in ToSet(flow[g].conns) : Plain(g, x[1]) /\ Plain(g, x[2])}}

\* What an inverter may be said to join: each of its drivers and what it drives.
Through(g, n) ==
    LET conns == ToSet(flow[g].conns)
    IN  {Joined(g, c[1], d[2], TRUE) : c \in {x \in conns : x[2][1] = n}, d \in {x \in conns : x[1][1] = n}}

NodesOfKind(g, kind) == {n \in DOMAIN flow[g].nodes : flow[g].nodes[n].kind = kind}

Driver(g, i) == {c[1] : c \in {x \in ToSet(flow[g].conns) : x[2] = i}}
DrivenFrom(g, i, at) == \E d \in Driver(g, i) : Plain(g, d) /\ StandsFor(g, d) = at

DomainsOfGraph(g, des) ==
    /\ \A n \in NodesOfKind(g, "clk") : \E d \in ToSet(des.cdoms) :
           d.name = flow[g].nodes[n].props["Domain"] /\ DrivenFrom(g, <<n, "clock">>, d.clock)
    /\ \A n \in NodesOfKind(g, "rst") : \E d \in ToSet(des.rdoms) :
           d.name = flow[g].nodes[n].props["Domain"] /\ DrivenFrom(g, <<n, "reset">>, d.reset)

\* The ends an interface is connected to, and what they stand for; one of another interconnect or of
\* a metanode stands for nothing.
Opposite(g, i) == {IF c[1] = i THEN c[2] ELSE c[1] : c \in {x \in ToSet(flow[g].conns) : i \in {x[1], x[2]}}}
Others(g, i) == {StandsFor(g, j) : j \in {x \in Opposite(g, i) : Plain(g, x)}}

\* Each interface of an interconnect that is connected has one of the ends it is connected to, but
\* where one of them is of another interconnect it may be left out.
InterconnectOf(g, n, intr) ==
    LET pins(names) == {<<n, i>> : i \in ToSet(names) \cap DOMAIN flow[g].nodes[n].ifs}
        ends(names) == UNION {Others(g, i) : i \in pins(names)}
        sure(names) == {i \in pins(names) : Opposite(g, i) # {} /\ \A x \in Opposite(g, i) : Plain(g, x)}
        subs == {s.at : s \in ToSet(intr.subs)}
    IN  /\ intr.clock \in Others(g, <<n, "clk">>) /\ intr.reset \in Others(g, <<n, "rst">>)
        /\ ToSet(intr.mans) \subseteq ends(Managers) /\ subs \subseteq ends(Subordinates)
        /\ \A i \in sure(Managers) : Others(g, i) \cap ToSet(intr.mans) # {}
        /\ \A i \in sure(Subordinates) : Others(g, i) \cap subs # {}

AsConnected(g, des) ==
    LET inverters == NodesOfKind(g, "inv")
    IN  /\ PlainWiring(g) \subseteq OwnWiring(des)
        /\ OwnWiring(des) \subseteq PlainWiring(g) \cup UNION {Through(g, n) : n \in inverters}
        /\ \A n \in inverters : Through(g, n) \cap OwnWiring(des) # {}
        /\ DomainsOfGraph(g, des)
        /\ Len(des.inters) = Cardinality(NodesOfKind(g, "inter"))
        /\ \A n \in NodesOfKind(g, "inter") : \E i \in ToSet(des.inters) :
               flow[g].nodes[n].inst = i.name /\ InterconnectOf(g, n, i)
        /\ \A c \in ToSet(des.conns) : c.src[1] # Foreign /\ c.tgt[1] # Foreign =>
               IsThere(des, Mods, c.src) /\ IsThere(des, Mods, c.tgt)

\* What is connected in the page is connected in the design parsed, and nothing else is, whatever
\* has been edited: each inverter joins two ends, of several only the last, and each domain is
\* driven by what its node is connected to.  Nor is a node left out: a metanode of an older version,
\* which the checks know and the frontend does not, is refused (frontend/kpm/dataflow.py:342, :385,
\* :440, kpm_common.py:126).
ParsedAsConnected ==
    Parsed =>
        /\ AsConnected(Entry, parsed[1].des) /\ \A g \in DOMAIN cache : AsConnected(g, cache[g].design[1])
        /\ \A g \in DOMAIN flow : \A n \in ToSet(flow[g].nodes) : ~IsMeta(n) \/ IsConstant(n)

(***************************************************************************)
(* Refusals.                                                               *)
(***************************************************************************)
SomePort(g, i) == NodeAt(g, i).kind \in {"ip", "io"} /\ "port" \in Kind(g, i)
Pins(g, n) == {<<n, i>> : i \in DOMAIN flow[g].nodes[n].ifs}
DomainNames(g, kind) == {flow[g].nodes[n].props["Domain"] : n \in NodesOfKind(g, kind)}

\* What the nodes of graph g show an external of it as, whatever it is connected to inside.
Outside(g, n) ==
    LET names == {flow[g].nodes[n].ext[i] : i \in DOMAIN flow[g].nodes[n].ext}
    IN  {u \in AllIfs : g \in NodeOf(u).sub /\ u[3] \in names}

\* An external between a port and an interface, or one of an interconnect and of nothing that says
\* of which type it is, or connected at the wrong interface.
KindOf(u) == Kind(u[1], <<u[2], u[3]>>)
Mixed(g, n) ==
    LET net == UNION {NetOf(<<g, i[1], i[2]>>) : i \in Pins(g, n)}
        all == net \cup Outside(g, n)
        instances == {x \in net : NodeOf(x).kind = "ip"}
    IN  \/ \E x, y \in all : KindOf(x) \cap KindOf(y) = {}
        \/ (\E x \in all : KindOf(x) = {"intf"}) /\ ~\E x \in instances : KindOf(x) = {"intf"}

Astray(g, n) ==
    \E c \in ToSet(flow[g].conns) : \E k \in {1, 2} :
        c[k][1] = n /\ c[k][2] \notin {Flip(x) : x \in DOMAIN flow[g].nodes[n].ext}

Undriven(g, i) == ~\E d \in Driver(g, i) : SomePort(g, d)

HalfInverter(g, n) ==
    \E i \in Pins(g, n) :
        Opposite(g, i) = {} \/ \E x \in Opposite(g, i) : ~SomePort(g, x)

\* An instance with a clock or reset of a domain that graph h has no node for.
Stranded(g, h) ==
    \E n \in ToSet(flow[g].nodes) :
        \/ \E c \in DOMAIN n.clk : n.clk[c] \notin DomainNames(h, "clk")
        \/ \E r \in DOMAIN n.rst : n.rst[r] \notin DomainNames(h, "rst")

RefusedBecause(why, g) ==
    \/ why # "node" /\ \E n \in NodesOfKind(g, "io") : Mixed(g, n) \/ Astray(g, n)
    \/ why = "node" /\ \E n \in DOMAIN flow[g].nodes :
            External(flow[g].nodes[n]) \/ flow[g].nodes[n].kind = SubgraphPort \/
            (flow[g].nodes[n].kind = "io" /\ flow[g].nodes[n].ext = <<>>)
    \/ why = "inverter" /\ \E n \in NodesOfKind(g, "inv") : HalfInverter(g, n)
    \/ why = "clock" /\ \E n \in NodesOfKind(g, "clk") : Undriven(g, <<n, "clock">>)
    \/ why = "reset" /\ \E n \in NodesOfKind(g, "rst") : Undriven(g, <<n, "reset">>)
    \/ why = "interconnect" /\ \E n \in NodesOfKind(g, "inter") :
            Undriven(g, <<n, "clk">>) \/ Undriven(g, <<n, "rst">>)
    \/ why = "assignment" /\ \E h \in DOMAIN flow : Stranded(g, h)

\* A dataflow that passes the checks is refused only for what is wrong with it: a node that
\* exposes nothing, half an inverter, a domain nothing drives, or a clock of a domain that one of
\* the graphs has not got, which need not be the graph of the instance.
RefusedForAReason ==
    (parsed # <<>> /\ ~parsed[1].ok) => \E g \in DOMAIN flow : RefusedBecause(parsed[1].why, g)

(***************************************************************************)
(* The file.  An inout of the design is named after the port it joins.     *)
(***************************************************************************)
Renamed(des, e) ==
    IF IsExternal(e) /\ Find(des.ios, e[2]).dir = "inout" THEN Ext(InoutAt(des, Find(des.ios, e[2]))[1][2])
    ELSE Unsliced(e)

Kept(des, c) == Ends(Conn(Renamed(des, c.src), Renamed(des, c.tgt), c.inv))

\* The last connection of an entry of the file, and no constant that is written as a name.
Survives(des, k) ==
    LET c == des.conns[k]
    IN  /\ IsConst(c.src) => c.src[2] \in Decimal
        /\ \A l \in DOMAIN des.conns : Unsliced(Lhs(des.conns[l])) = Unsliced(Lhs(c)) => l <= k

Lowered(des, mods) ==
    {Ends(c) : c \in UNION {ToSet(ClockConns(des, mods, x)) \cup ToSet(ResetConns(des, mods, x)) :
                                x \in ToSet(des.comps)}}

EndsOf(inter) == ToSet(inter.mans) \cup {s.at : s \in ToSet(inter.subs)}
OfInstances(inter) == \E e \in EndsOf(inter) : ~IsExternal(e)

\* An external interface of a connection, or of an interconnect that has an instance as well.
InUse(des, io) ==
    \/ \E c \in ToSet(des.conns) : Ext(io.name) \in {c.src, c.tgt}
    \/ \E i \in ToSet(des.inters) : OfInstances(i) /\ Ext(io.name) \in EndsOf(i)

\* The interconnects of instances, without externals if the design has another name when read.
Resolved(read, des) ==
    LET named(e) == ~IsExternal(e) \/ read.id = des.id
        inters == SelectSeq(des.inters, OfInstances)
    IN  [k \in DOMAIN inters |->
            [inters[k] EXCEPT !.mans = SelectSeq(@, named), !.subs = SelectSeq(@, LAMBDA s : named(s.at))]]

\* A design read from a file against the one saved.
KeptBy(read, des, mods) ==
    LET had == {Kept(des, c) : c \in ToSet(des.conns)}
        survived == {Kept(des, des.conns[k]) : k \in {x \in DOMAIN des.conns : Survives(des, x)}}
    IN  /\ survived \subseteq Wiring(read)
        /\ Wiring(read) \subseteq had \cup Lowered(read, mods)
        /\ Lowered(read, mods) \subseteq Wiring(read)
        /\ {io.name : io \in ToSet(read.ios)} =
               {Renamed(des, Ext(io.name))[2] : io \in {x \in ToSet(Shown(des.ios)) : IsInterface(x) => InUse(des, x)}}
        /\ {<<c.name, c.clk, c.rst>> : c \in ToSet(read.comps)} = {<<c.name, c.clk, c.rst>> : c \in ToSet(des.comps)}
        /\ read.inters = Resolved(read, des)

OutOfStepBelow(des, mods) ==
    \E d \in {des} \cup {mods[c.mod].design[1] : c \in Hiers(des, mods)} :
        \E c \in ToSet(d.comps) : OutOfStep(d, mods, c)

\* A design that is saved and read again, at the top and in its hierarchies, has the connections
\* it had without their slices, but of several at one entry of the file only the last and no
\* constant written as a name; the connections of its domains; its interconnects and externals, but
\* not an interface that nothing uses, an interconnect of externals alone, or its externals in a
\* hierarchy whose design is not called like its instance.  It cannot be read again only if an
\* instance has been given a clock that its reset is out of step with
\* (backend/yaml/backend.py:459, frontend/yaml/design.py:201).
SavedIsRead ==
    /\ loaded # <<>> /\ ~loaded[1].ok => OutOfStepBelow(Current.des, Current.mods)
    /\ loaded # <<>> /\ loaded[1].ok =>
        /\ KeptBy(loaded[1].des, Current.des, loaded[1].mods)
        /\ \A c \in Hiers(Current.des, Current.mods) :
               KeptBy(loaded[1].mods[c.name].design[1], Current.mods[c.mod].design[1], loaded[1].mods)

(***************************************************************************)
(* The nets.  Edges join two points straight or inverted.  A class has the *)
(* points that are joined, each with the parity of inversions.             *)
(***************************************************************************)
Edge(p, q, inv) == <<p, q, inv>>
Xor(p, q) == p # q
Inverts(expr) == expr.nots % 2 = 1

\* Two points that are whole are joined part by part.
InParts(edges, parts) ==
    UNION {IF e[1][3] = Whole /\ e[2][3] = Whole
           THEN {Edge(<<e[1][1], e[1][2], part>>, <<e[2][1], e[2][2], part>>, e[3]) : part \in parts}
           ELSE {e} : e \in edges}

Merge(e, classes) ==
    LET of(p) == CHOOSE class \in classes : \E x \in class : x[1] = p
        at(p) == CHOOSE x \in of(p) : x[1] = p
        inv == Xor(e[3], Xor(at(e[1])[2], at(e[2])[2]))
    IN  IF of(e[1]) = of(e[2]) THEN classes
        ELSE (classes \ {of(e[1]), of(e[2])}) \cup
             {of(e[1]) \cup {<<x[1], Xor(x[2], inv)>> : x \in of(e[2])}}

Classes(edges) ==
    FoldSet(Merge, {{<<p, FALSE>>} : p \in UNION {{e[1], e[2]} : e \in edges}}, edges)

\* The pairs of points that are joined, and whether they are inverted to each other.
Joint(edges, points) ==
    UNION {{<<x[1], y[1], Xor(x[2], y[2])>> : x \in {z \in class : z[1] \in points},
                                               y \in {z \in class : z[1] \in points}} :
           class \in Classes(edges)}

\* The ports that realise the signals of interfaces, outside and inside of modules.
RealEdges(des, mods) ==
    UNION {UNION {{Edge(<<inst, io.name, sig>>, At(inst, io.sigs[sig]), FALSE) :
                      sig \in {x \in DOMAIN io.sigs : io.sigs[x] # NoPort}} :
                  io \in ToSet(Interfaces(IosOf(des, mods, inst)))} :
           inst \in {Top} \cup {c.name : c \in ToSet(des.comps)}}

DesignEdges(des, mods) ==
    RealEdges(des, mods) \cup {Edge(c.src, c.tgt, c.inv) : c \in ToSet(des.conns)}

\* Values that fill in for a missing connection are no edges.
IsFilled(des, mods, p, expr) == expr.at \in {Tie, Value(IoAt(des, mods, p).default)}

SvEdges(des, mods, nets) ==
    RealEdges(des, mods) \cup
    {Edge(At(p[1], p[2]), nets.maps[p].at, Inverts(nets.maps[p])) :
        p \in {x \in DOMAIN nets.maps : ~IsFilled(des, mods, x, nets.maps[x])}} \cup
    {Edge(l, nets.assigns[l].at, Inverts(nets.assigns[l])) : l \in DOMAIN nets.assigns}

Owners(des) == {Top} \cup {c.name : c \in ToSet(des.comps)}

\* An input that realises a signal of an interface and has a default value, which takes the place of
\* its connection to an interface that is not made of ports (backend/sv/design.py:546).
FilledOver(des, mods) ==
    UNION {UNION {{<<e[1], IoAt(des, mods, e).sigs[sig]>> : sig \in DOMAIN IoAt(des, mods, e).sigs} :
                      e \in {x \in {c.src, c.tgt} : ~IsExternal(x) /\
                                  \E y \in {c.src, c.tgt} \ {x} : Independent(IoAt(des, mods, y))}} :
           c \in {x \in ToSet(des.conns) : IsIntfConn(des, mods, x)}}

Slices(des) == UNION {{c.src[3], c.tgt[3]} : c \in ToSet(des.conns)}

Points(des, mods) ==
    UNION {UNION {{<<inst, io.name, part>> :
                      part \in IF IsInterface(io) THEN {sig \in DOMAIN io.sigs : io.sigs[sig] = NoPort}
                               ELSE IF io.default # "" /\ <<inst, io.name>> \in FilledOver(des, mods) THEN {}
                               ELSE {Whole} \cup Slices(des)} :
                  io \in ToSet(IosOf(des, mods, inst))} : inst \in Owners(des)} \cup
    {e \in UNION {{c.src, c.tgt} : c \in ToSet(des.conns)} : IsConst(e)}

\* No input and no interface has two drivers, though its slices may have one each.
SingleDriven(des, mods) ==
    LET sinks(c) == IF IsIntfConn(des, mods, c) THEN {c.src, c.tgt}
                    ELSE IF ~IsConst(c.src) /\ IsSink(des, mods, c.src) THEN {c.src} ELSE {c.tgt}
    IN  \A k, l \in DOMAIN des.conns :
            \A e \in sinks(des.conns[k]), f \in sinks(des.conns[l]) :
                (k # l /\ Unsliced(e) = Unsliced(f)) => Whole \notin {e[3], f[3]} /\ e[3] # f[3]

Alone(points) == {<<p, p, FALSE>> : p \in points}

\* The SystemVerilog of a design joins its ports, the ports that realise signals of its interfaces
\* and its constants, straight or inverted, as the connections of the design do: whether they
\* stand in port maps, in assign statements, or go over nets and interfaces made for them
\* (backend/sv/design.py:112, :147, :312, :465, backend/generator.py:158).
SvJoins ==
    (sv # <<>> /\ SingleDriven(sv[1].des, sv[1].mods)) =>
        LET des == sv[1].des
            points == Points(des, sv[1].mods)
            parts == {Whole} \cup Slices(des) \cup UNION {AllSignals(b) : b \in DOMAIN Buses}
        IN  Joint(InParts(SvEdges(des, sv[1].mods, sv[1].nets), parts), points) \ Alone(points) =
            Joint(InParts(DesignEdges(des, sv[1].mods), parts), points) \ Alone(points)
=============================================================================
