---------------------------- MODULE KpmFrontend ----------------------------
(***************************************************************************)
(* How a dataflow of the Pipeline Manager becomes a design                 *)
(* (frontend/kpm/dataflow.py).                                             *)
(*                                                                         *)
(* _parse works on one graph and calls itself for the graph of a node of   *)
(* it: `stack' has a frame for each call that has not returned, with the   *)
(* design it builds.  What the calls share is `data'                       *)
(* (_KpmDataflowInstanceData) and, longer than one dataflow, `cache'       *)
(* (_subgraph_cache).  An interface is the id of its graph, the position   *)
(* of its node and its name; interfaces of different graphs have           *)
(* different ids, as in the dataflows the backend makes.                   *)
(***************************************************************************)
EXTENDS KpmBackend

VARIABLES flow,        \* the dataflow
          stack,       \* the calls of _parse, the innermost last
          data,        \* _KpmDataflowInstanceData
          cache,       \* the modules parsed from graphs
          parsed       \* the sequence of the design parsed, or of the exception

parseVars == <<stack, data, cache, parsed>>

Foreign == "(foreign)"     \* an instance or an external of another design

NoData == [refmap |-> <<>>, inverters |-> <<>>, toInv |-> <<>>, fromInv |-> <<>>,
           clocks |-> <<>>, toClk |-> <<>>, resets |-> <<>>, toRst |-> <<>>,
           pending |-> <<>>, skip |-> {}]

Frame(g) == [gid |-> g, at |-> 1, inters |-> <<>>, phase |-> "nodes",
             des |-> NewDesign(g, <<>>)]

IdleParser == stack = <<>> /\ data = NoData /\ cache = <<>> /\ parsed = <<>>

(***************************************************************************)
(* The modules and interfaces of the dataflow.                             *)
(***************************************************************************)
Mods == cache @@ Known
frame == Last(stack)
graph == flow[frame.gid]
Key(g, i) == <<g, i[1], i[2]>>
NodeOf(u) == flow[u[1]].nodes[u[2]]
Ifs(g, n) == {<<g, n, i>> : i \in DOMAIN flow[g].nodes[n].ifs}
AllIfs == UNION {UNION {Ifs(g, n) : n \in DOMAIN flow[g].nodes} : g \in DOMAIN flow}

\* intfconnmap: what is connected to an interface, in the order of the connections.
Connected(u) ==
    LET g == u[1]
        touching == SelectSeq(flow[g].conns, LAMBDA c : u \in {Key(g, c[1]), Key(g, c[2])})
    IN  [k \in DOMAIN touching |->
            IF Key(g, touching[k][1]) = u THEN Key(g, touching[k][2]) ELSE Key(g, touching[k][1])]

(***************************************************************************)
(* _infer_io_type: the interfaces of the net of an interface, through      *)
(* externals, interconnects and graphs but not through inverters and       *)
(* constants, and the types of those that belong to loaded modules.  The   *)
(* code takes the first it meets, here it is any of them.                  *)
(***************************************************************************)
IsPin(u) == u[3] \in {"clk", "rst"}
Exposures(g, name) ==
    {u \in AllIfs : u[1] = g /\ u[3] \in DOMAIN NodeOf(u).ext /\ NodeOf(u).ext[u[3]] = name}

Beyond(u) ==
    LET node == NodeOf(u)
        From(us) == UNION {ToSet(Connected(x)) : x \in us}
    IN  CASE node.kind = "io" -> From(Ifs(u[1], u[2]))
          [] node.kind = "inter" -> From({x \in Ifs(u[1], u[2]) : IsPin(x) = IsPin(u)})
          [] node.kind = "ip" /\ node.sub # {} ->
                 From({u}) \cup UNION {Exposures(g, u[3]) : g \in node.sub}
          [] OTHER -> {}

NetOf(u) ==
    FoldLeft(LAMBDA us, k : us \cup UNION {Beyond(x) : x \in us}, {u},
             [k \in 1..Cardinality(AllIfs) |-> k])

TypesOf(u) ==
    LET loaded == {x \in NetOf(u) : NodeOf(x).kind = "ip" /\ NodeOf(x).sub = {} /\
                                  NodeOf(x).mod \in DOMAIN Known}
        types == UNION {{io.type : io \in ToSet(Having(Shown(Known[NodeOf(x).mod].ios), x[3]))} :
                           x \in loaded}
    IN  IF types = {} THEN {Bit} ELSE types

(***************************************************************************)
(* References: what an interface stands for.  A reference keeps the graph  *)
(* whose design its instance is part of.                                   *)
(***************************************************************************)
Ref(g, at, kind) == [gid |-> g, at |-> at, kind |-> kind]
RefOf(d, u) == IF u \in DOMAIN d.refmap THEN d.refmap[u] ELSE Ref("", Value(""), "none")

Local(g, ref) ==
    IF ref.kind = "const" \/ ref.gid = g THEN ref.at ELSE At(Foreign, ref.at[2])

\* A mutant: constants are forgotten.
ConnectableVariables(s, t, inv) == s.kind = t.kind /\ s.kind \in {"port", "intf"} /\ (s.kind = "intf" => ~inv)

\* _create_connection raises unless
Connectable(s, t, inv) ==
    \/ s.kind \in {"const", "port"} /\ t.kind = "port" /\ (s.kind = "const" => ~inv)
    \/ s.kind = "intf" /\ t.kind = "intf" /\ ~inv

\* A mutant: inverters are lost.
MakeConnStraight(g, s, t, inv) == Conn(Local(g, s), Local(g, t), FALSE)

MakeConn(g, s, t, inv) == Conn(Local(g, s), Local(g, t), inv)

(***************************************************************************)
(* The control of the calls: an exception ends all of them.                *)
(***************************************************************************)
Refuse(why) ==
    /\ parsed' = <<[ok |-> FALSE, why |-> why]>>
    /\ stack' = <<>>
    /\ UNCHANGED <<data, cache>>

Continue(f, d) ==
    /\ stack' = Append(Front(stack), f)
    /\ data' = d
    /\ UNCHANGED <<cache, parsed>>

InPhase(p) == stack # <<>> /\ frame.phase = p /\ parsed = <<>>

StartParse ==
    /\ stack = <<>> /\ parsed = <<>>
    /\ stack' = <<Frame(Entry)>>
    /\ data' = NoData
    /\ UNCHANGED <<cache, parsed>>

node == graph.nodes[frame.at]
here == <<frame.gid, frame.at>>
AtNode == InPhase("nodes") /\ frame.at <= Len(graph.nodes)

(***************************************************************************)
(* _add_external: an io of the design for each name exposed, and what an   *)
(* interface stands for then.                                              *)
(***************************************************************************)
NewIo(u, type) ==
    LET name == NodeOf(u).ext[u[3]]
        dir == NodeOf(u).ifs[u[3]]
    IN  IF type \in DOMAIN Buses
        THEN Interface(name, dir, type, [s \in AllSignals(type) |-> NoPort])
        ELSE Port(name, dir, type)

\* The interface that an External I/O node gives its external to.
Inner(u) ==
    LET first == Head(SelectSeq(<<"in", "out", "inout">>, LAMBDA i : i \in DOMAIN NodeOf(u).ext))
    IN  <<u[1], u[2], Flip(first)>>

AddIo(acc, u, type) ==
    LET io == NewIo(u, type)
        ref == Ref(u[1], Ext(io.name), IF IsInterface(io) THEN "intf" ELSE "port")
        old == RefOf(acc.data, u)
        named == [acc.des EXCEPT !.ios = Append(@, io)]
        is_io == NodeOf(u).kind = "io"
        joins == ~is_io /\ old.kind # "none"
    IN  [data |-> [acc.data EXCEPT !.refmap = ((IF is_io THEN Inner(u) ELSE u) :> ref) @@ @],
         des |-> IF joins THEN [named EXCEPT !.conns = Append(@, MakeConn(u[1], old, ref, FALSE))]
                 ELSE named,
         ok |-> acc.ok /\ (joins => Connectable(old, ref, FALSE))]

(***************************************************************************)
(* The loop over the nodes in _parse.                                      *)
(***************************************************************************)
\* A node that stands for a graph not parsed yet.
Descend ==
    /\ AtNode /\ node.kind = "ip" /\ node.sub # {} /\ node.sub \cap DOMAIN cache = {}
    /\ stack' = Append(stack, Frame(CHOOSE g \in node.sub : TRUE))
    /\ UNCHANGED <<data, cache, parsed>>

ModOf(n) == IF n.sub # {} THEN CHOOSE g \in n.sub : TRUE ELSE n.mod

\* _create_mod_instance
Instance ==
    LET mod == Mods[ModOf(node)]
        known == {i \in DOMAIN node.ifs : Has(Shown(mod.ios), i)}
        ref(i) == Ref(frame.gid, At(node.inst, i),
                      IF IsInterface(Find(Shown(mod.ios), i)) THEN "intf" ELSE "port")
        pos == Len(frame.des.comps) + 1
        clocks == {<<frame.gid, pos, "clk", c>> : c \in {x \in DOMAIN node.clk : Has(mod.clocks, x)}}
        resets == {<<frame.gid, pos, "rst", r>> : r \in {x \in DOMAIN node.rst : Has(mod.resets, x)}}
    IN  [data |-> [data EXCEPT
             !.refmap = [u \in {<<here[1], here[2], i>> : i \in known} |-> ref(u[3])] @@ @,
             !.pending = [k \in clocks |-> node.clk[k[4]]] @@ [k \in resets |-> node.rst[k[4]]] @@ @],
         des |-> [frame.des EXCEPT !.comps = Append(@, Comp(node.inst, ModOf(node), <<>>, <<>>))],
         ok |-> TRUE]

\* What a metanode leaves in the tables.
Register(d) ==
    CASE node.kind = "const" ->
            [d EXCEPT !.refmap = (<<here[1], here[2], "constant">> :>
                                    Ref(frame.gid, Value(node.props["value"]), "const")) @@ @]
      [] node.kind = "inv" -> [d EXCEPT !.inverters = Append(@, here)]
      [] node.kind = "clk" -> [d EXCEPT !.clocks = Append(@, here)]
      [] node.kind = "rst" -> [d EXCEPT !.resets = Append(@, here)]
      [] OTHER -> d

Named(des) == IF node.kind = "id" THEN [des EXCEPT !.id = node.props["Name"]] ELSE des

Visited ==
    IF IsMetanode(node) THEN [data |-> Register(data), des |-> Named(frame.des), ok |-> TRUE]
    ELSE Instance

UnknownModule == ~IsMetanode(node) /\ node.sub = {} /\ node.mod \notin DOMAIN Known
NothingExposed == node.kind = "io" /\ DOMAIN node.ext = {}

Visit ==
    /\ AtNode /\ ~UnknownModule /\ ~NothingExposed
    /\ node.sub \subseteq DOMAIN cache
    /\ \E type \in [DOMAIN node.ext -> UNION {TypesOf(<<here[1], here[2], i>>) : i \in DOMAIN node.ext}] :
        /\ \A i \in DOMAIN type : type[i] \in TypesOf(<<here[1], here[2], i>>)
        /\ LET after == FoldLeft(LAMBDA acc, i : AddIo(acc, <<here[1], here[2], i>>, type[i]),
                                 Visited, SetToSeq(DOMAIN node.ext))
               inters == IF node.kind = "inter" THEN Append(frame.inters, frame.at) ELSE frame.inters
           IN  IF after.ok
               THEN Continue([frame EXCEPT !.at = @ + 1, !.des = after.des, !.inters = inters],
                             after.data)
               ELSE Refuse("connection")

VisitFails == AtNode /\ (UnknownModule \/ NothingExposed) /\ Refuse("node")

(***************************************************************************)
(* After the nodes, in this order.                                         *)
(***************************************************************************)
NodesDone ==
    /\ InPhase("nodes") /\ frame.at > Len(graph.nodes)
    /\ Continue([frame EXCEPT !.phase = "inters"], data)

\* _create_interconnect: what each interface is connected to, or else exposed as.
Other(u) == IF Connected(u) # <<>> THEN Head(Connected(u)) ELSE u

\* Managers and subordinates are keyed by what they are: one that is met again keeps its place, and
\* gets the parameters of the last interface of the interconnect it is met at.
Keyed(seq) == FoldLeft(LAMBDA s, x : IF x \in ToSet(s) THEN s ELSE Append(s, x), <<>>, seq)

Interconnect(n) ==
    LET other(i) == Other(<<frame.gid, n, i>>)
        at(u) == RefOf(data, u)
        inter == graph.nodes[n]
        met(names) == SelectSeq(names, LAMBDA i : i \in DOMAIN inter.ifs /\ at(other(i)).kind # "none")
        keys(names) == LET is == met(names) IN Keyed([k \in DOMAIN is |-> other(is[k])])
        mans == keys(Managers)
        subs == keys(Subordinates)
        given == inter.props["Subordinates configuration"]
        last(u) == Last(SelectSeq(met(Subordinates), LAMBDA i : other(i) = u))
        param(u) == IF last(u) \in DOMAIN given THEN given[last(u)] ELSE "default"
        local(u) == Local(frame.gid, at(u))
    IN  [des |-> Inter(inter.inst, inter.props["Type"], local(other("clk")), local(other("rst")),
                       [k \in DOMAIN mans |-> local(mans[k])],
                       [k \in DOMAIN subs |-> [at |-> local(subs[k]), param |-> param(subs[k])]]),
         ok |-> /\ at(other("clk")).kind = "port" /\ at(other("rst")).kind = "port"
                /\ \A u \in ToSet(mans) \cup ToSet(subs) : at(u).kind = "intf"]

Interconnects ==
    /\ InPhase("inters")
    /\ LET made == [k \in DOMAIN frame.inters |-> Interconnect(frame.inters[k])]
       IN  IF \A k \in DOMAIN made : made[k].ok
           THEN Continue([frame EXCEPT !.phase = "conns",
                                       !.des.inters = [k \in DOMAIN made |-> made[k].des]],
                         [data EXCEPT !.skip = @ \cup UNION {Ifs(frame.gid, frame.inters[k]) :
                                                                k \in DOMAIN frame.inters}])
           ELSE Refuse("interconnect")

\* _process_connections: one connection, kept for later if an end is an inverter or a domain.
NodeId(u) == <<u[1], u[2]>>

Process(acc, c) ==
    LET from == Key(frame.gid, c[1])
        to == Key(frame.gid, c[2])
        d == acc.data
        fromInv == NodeId(from) \in ToSet(d.inverters)
        toInv == NodeId(to) \in ToSet(d.inverters)
        toClk == NodeId(to) \in ToSet(d.clocks)
        toRst == NodeId(to) \in ToSet(d.resets)
        kept == [d EXCEPT
            !.fromInv = IF fromInv THEN (NodeId(from) :> to) @@ @ ELSE @,
            !.toInv = IF toInv THEN (NodeId(to) :> from) @@ @ ELSE @,
            !.toClk = IF toClk THEN (NodeId(to) :> from) @@ @ ELSE @,
            !.toRst = IF toRst THEN (NodeId(to) :> from) @@ @ ELSE @]
        s == RefOf(d, from)
        t == RefOf(d, to)
    IN  IF fromInv \/ toInv \/ toClk \/ toRst THEN [acc EXCEPT !.data = kept]
        ELSE IF {from, to} \cap d.skip # {} THEN acc
        ELSE IF ~Connectable(s, t, FALSE) THEN [acc EXCEPT !.ok = FALSE]
        ELSE [acc EXCEPT !.des.conns = Append(@, MakeConn(frame.gid, s, t, FALSE))]

Connections ==
    /\ InPhase("conns")
    /\ LET after == FoldLeft(Process, [data |-> data, des |-> frame.des, ok |-> TRUE], graph.conns)
       IN  IF after.ok THEN Continue([frame EXCEPT !.phase = "invs", !.des = after.des], after.data)
           ELSE Refuse("connection")

\* _create_inverter_conns: for every inverter seen so far, in whatever graph.
InverterFails(n) ==
    \/ n \notin DOMAIN data.toInv \/ n \notin DOMAIN data.fromInv
    \/ ~Connectable(RefOf(data, data.toInv[n]), RefOf(data, data.fromInv[n]), TRUE)

Inverters ==
    /\ InPhase("invs")
    /\ IF \E n \in ToSet(data.inverters) : InverterFails(n) THEN Refuse("inverter")
       ELSE Continue([frame EXCEPT !.phase = "clocks", !.des.conns = @ \o
                         [k \in DOMAIN data.inverters |->
                             LET n == data.inverters[k]
                             IN  MakeConn(frame.gid, RefOf(data, data.toInv[n]),
                                          RefOf(data, data.fromInv[n]), TRUE)]], data)

\* _create_clock_domains, _create_reset_domains: for every domain node seen so far.
Props(n) == flow[n[1]].nodes[n[2]].props
DrivenBy(n, table) == IF n \in DOMAIN table THEN RefOf(data, table[n]) ELSE Ref("", Value(""), "none")

ClockDomains ==
    /\ InPhase("clocks")
    /\ IF \E n \in ToSet(data.clocks) : DrivenBy(n, data.toClk).kind # "port" THEN Refuse("clock")
       ELSE Continue([frame EXCEPT !.phase = "resets", !.des.cdoms =
                         [k \in DOMAIN data.clocks |->
                             ClockDomain(Props(data.clocks[k])["Domain"],
                                         Local(frame.gid, DrivenBy(data.clocks[k], data.toClk)))]], data)

SyncOf(n) == IF Props(n)["Synchronous to"] = "none" THEN "" ELSE Props(n)["Synchronous to"]

ResetDomains ==
    /\ InPhase("resets")
    /\ IF \E n \in ToSet(data.resets) :
             DrivenBy(n, data.toRst).kind # "port" \/ (SyncOf(n) # "" /\ ~Has(frame.des.cdoms, SyncOf(n)))
       THEN Refuse("reset")
       ELSE Continue([frame EXCEPT !.phase = "assign", !.des.rdoms =
                         [k \in DOMAIN data.resets |->
                             LET n == data.resets[k]
                             IN  ResetDomain(Props(n)["Domain"], Local(frame.gid, DrivenBy(n, data.toRst)),
                                             Props(n)["Polarity"], SyncOf(n))]], data)

(***************************************************************************)
(* _realize_clock_reset_assignments: every assignment seen so far, those   *)
(* of other graphs too, is looked up in the domains of this design.  An    *)
(* instance of a design that is finished gets a domain foreign to it; one  *)
(* of a design that is not is assigned again when it is.                   *)
(***************************************************************************)
DomainsOf(des, sort) == IF sort = "clk" THEN des.cdoms ELSE des.rdoms

Assigned(comps, g, given) ==
    [pos \in DOMAIN comps |->
        LET of(sort) == {k \in DOMAIN given : k[1] = g /\ k[2] = pos /\ k[3] = sort}
        IN  [comps[pos] EXCEPT
                !.clk = [c \in {k[4] : k \in of("clk")} |-> given[<<g, pos, "clk", c>>]],
                !.rst = [r \in {k[4] : k \in of("rst")} |-> given[<<g, pos, "rst", r>>]]]]

Return(des) ==
    LET module == Module(des.ios, <<>>, <<>>, <<des>>)
        spoilt == [g \in DOMAIN cache |->
                      IF \E k \in DOMAIN data.pending : k[1] = g
                      THEN [cache[g] EXCEPT !.design[1].comps = Assigned(@, g, [k \in DOMAIN data.pending |-> Foreign])]
                      ELSE cache[g]]
    IN  /\ stack' = Front(stack)
        /\ IF Len(stack) = 1
           THEN parsed' = <<[ok |-> TRUE, des |-> des]>> /\ cache' = spoilt
           ELSE cache' = (frame.gid :> module) @@ spoilt /\ UNCHANGED parsed
        /\ UNCHANGED data

Assignments ==
    /\ InPhase("assign")
    /\ IF \E k \in DOMAIN data.pending : ~Has(DomainsOf(frame.des, k[3]), data.pending[k])
       THEN Refuse("assignment")
       ELSE Return([frame.des EXCEPT !.comps = Assigned(@, frame.gid, data.pending)])

ParseNext ==
    \/ StartParse \/ Descend \/ Visit \/ VisitFails \/ NodesDone \/ Interconnects \/ Connections
    \/ Inverters \/ ClockDomains \/ ResetDomains \/ Assignments
=============================================================================
