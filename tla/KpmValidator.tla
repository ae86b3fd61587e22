---------------------------- MODULE KpmValidator ----------------------------
(***************************************************************************)
(* The checks of a dataflow before it is run                               *)
(* (kpm_dataflow_validator.py with the helpers of kpm_common.py).          *)
(*                                                                         *)
(* The checks know the metanodes of older dataflows: externals for each    *)
(* direction with one interface and a name that may be empty, and ports of *)
(* subgraphs with two interfaces.  What is not one of these or a constant  *)
(* is taken for an instance, External I/O, inverters and domains included. *)
(***************************************************************************)
EXTENDS KpmBackend, Parameters

CONSTANTS Integral      \* the constants that int(value, base=0) takes

OldExternals == {"External Input", "External Output", "External Inout"}
SubgraphPort == "Subgraph port"
External(n) == n.kind \in OldExternals
IsConstant(n) == n.kind = "const"
IsMeta(n) == External(n) \/ IsConstant(n) \/ n.kind = SubgraphPort
IsSubgraph(n) == n.sub # {}

\* Nodes and interfaces of all graphs.
NodesOf(fl) == UNION {{<<g, n>> : n \in DOMAIN fl[g].nodes} : g \in DOMAIN fl}
Node(fl, p) == fl[p[1]].nodes[p[2]]
IfsOf(fl, p) == {<<p[1], p[2], i>> : i \in DOMAIN Node(fl, p).ifs}
ConnsOf(fl) == UNION {{<<<<g, c[1][1], c[1][2]>>, <<g, c[2][1], c[2][2]>>>> : c \in ToSet(fl[g].conns)} :
                         g \in DOMAIN fl}
IsConnected(fl, u) == \E c \in ConnsOf(fl) : u \in {c[1], c[2]}
IsExposed(fl, u) == u[3] \in DOMAIN Node(fl, u).ext
Neighbours(fl, u) == {x \in UNION {{c[1], c[2]} : c \in ConnsOf(fl)} :
                         <<u, x>> \in ConnsOf(fl) \/ <<x, u>> \in ConnsOf(fl)}

(***************************************************************************)
(* Warnings.                                                               *)
(***************************************************************************)
DuplicateNames(fl) ==
    \E p, q \in NodesOf(fl) :
        /\ p # q /\ p[1] = q[1] /\ Node(fl, p).inst = Node(fl, q).inst
        /\ ~IsMeta(Node(fl, p)) /\ ~IsMeta(Node(fl, q))

\* Parameters of interfaces as a text without braces: none is no text, and others no Python.
Text(map) == IF DOMAIN map = {} THEN "" ELSE "0: {address: 0}"
Texts(n) ==
    [p \in DOMAIN n.props |->
        IF p \in {"Managers configuration", "Subordinates configuration"} THEN Text(n.props[p]) ELSE n.props[p]]

\* The domains an instance has for its clocks and resets are properties of its node too.
DomainTexts(n) == {n.clk[c] : c \in DOMAIN n.clk} \cup {n.rst[r] : r \in DOMAIN n.rst}

\* Every property of a node that is taken for an instance, but identifiers are known to have text.
ParameterList(fl) ==
    LET cores == {n \in {Node(fl, p) : p \in NodesOf(fl)} : ~IsMeta(n) /\ n.kind # "id"}
        all == UNION {{[name |-> p, value |-> Texts(n)[p]] : p \in DOMAIN n.props} \cup
                      {[name |-> "Domain for", value |-> d] : d \in DomainTexts(n)} : n \in cores}
    IN  FoldSet(LAMBDA param, s : Append(s, param), <<>>, all)

\* The check of parameters ends in an exception, and with it all that any check has found.
CheckRaises(fl) == Evaluate(ParameterList(fl)).raised

InvalidParameters(fl) ==
    \/ Evaluate(ParameterList(fl)).work # <<>>
    \/ \E p \in NodesOf(fl) : IsConstant(Node(fl, p)) /\ Node(fl, p).props["value"] \notin Integral

\* Interfaces of subgraph nodes count even if they are exposed inside.
Unconnected(fl) ==
    LET exposed(u) == IsExposed(fl, u) /\ ~IsSubgraph(Node(fl, u))
        ifs == UNION {IfsOf(fl, p) : p \in {x \in NodesOf(fl) : Node(fl, x).kind # SubgraphPort}}
    IN  {u \in ifs : ~exposed(u) /\ ~IsConnected(fl, u)}

(***************************************************************************)
(* Errors.                                                                 *)
(***************************************************************************)
AtExternal(fl, u) == External(Node(fl, u))

ExternalToExternal(fl) == \E c \in ConnsOf(fl) : AtExternal(fl, c[1]) /\ AtExternal(fl, c[2])

\* A connection after one to an external, in the order of the dataflow.
AfterExternal(fl, u) ==
    LET conns == SelectSeq(fl[u[1]].conns, LAMBDA c : <<u[2], u[3]>> \in {c[1], c[2]})
        ext(k) == \E i \in {1, 2} : External(fl[u[1]].nodes[conns[k][i][1]])
    IN  \E k \in DOMAIN conns : ext(k) /\ k < Len(conns)

MultipleExternals(fl) ==
    \E p \in NodesOf(fl) : ~IsMeta(Node(fl, p)) /\ \E u \in IfsOf(fl, p) : AfterExternal(fl, u)

ExternalName(n) == n.props["External Name"]

UnnamedMultiple(fl) ==
    \E p \in NodesOf(fl) :
        /\ External(Node(fl, p)) /\ ExternalName(Node(fl, p)) = ""
        /\ \E u \in IfsOf(fl, p) : Cardinality(Neighbours(fl, u)) > 1

DuplicateExternals(fl) ==
    \E p, q \in {x \in NodesOf(fl) : External(Node(fl, x))} :
        p # q /\ ExternalName(Node(fl, p)) # "" /\ ExternalName(Node(fl, p)) = ExternalName(Node(fl, q))

\* The first interface that is exposed must not be connected.
ExposedPortConnected(fl) ==
    \E p \in NodesOf(fl) :
        /\ Node(fl, p).kind = SubgraphPort
        /\ \E u \in IfsOf(fl, p) : IsExposed(fl, u) /\ IsConnected(fl, u)

\* An External I/O node connects one interface and exposes the opposite.
Exposure(fl, p) ==
    LET connected == {u \in IfsOf(fl, p) : IsConnected(fl, u)}
        exposed == {u \in IfsOf(fl, p) : IsExposed(fl, u)}
    IN  /\ Cardinality(connected) = 1 /\ Cardinality(exposed) = 1
        /\ \A u \in connected, x \in exposed : u[3] = Flip(x[3])

BadExposure(fl) == \E p \in NodesOf(fl) : Node(fl, p).kind = "io" /\ ~Exposure(fl, p)

(***************************************************************************)
(* validate_kpm_design: the checks that report something, if none raises.  *)
(***************************************************************************)
Errors(fl) ==
    {e \in {"external to external", "multiple externals", "unnamed external", "duplicate externals",
            "exposed port", "exposure"} :
        CASE e = "external to external" -> ExternalToExternal(fl)
          [] e = "multiple externals" -> MultipleExternals(fl)
          [] e = "unnamed external" -> UnnamedMultiple(fl)
          [] e = "duplicate externals" -> DuplicateExternals(fl)
          [] e = "exposed port" -> ExposedPortConnected(fl)
          [] OTHER -> BadExposure(fl)}

Warnings(fl) ==
    {w \in {"duplicate names", "parameters", "unconnected"} :
        CASE w = "duplicate names" -> DuplicateNames(fl)
          [] w = "parameters" -> InvalidParameters(fl)
          [] OTHER -> Unconnected(fl) # {}}
=============================================================================
