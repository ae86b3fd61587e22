------------------------------ MODULE Designs ------------------------------
(***************************************************************************)
(* The internal representation of designs (model/design.py,                *)
(* model/connections.py, model/module.py, model/interconnect.py): what     *)
(* frontends build and backends read.                                      *)
(*                                                                         *)
(* An io is a port, of some logic type, or an interface, whose type is a   *)
(* bus; a manager has direction "out".  `sigs' says which port of the      *)
(* module realises which signal of an interface, NoPort for an independent *)
(* signal.  An endpoint is an instance, an io and a slice of it, and Whole *)
(* is no slice; the instance is Top for the module around the design, and  *)
(* Const for a constant, whose io is the value.  Instances and domains are *)
(* named: what an object identity tells apart and a name does not is left  *)
(* to the modules that make names.                                         *)
(***************************************************************************)
EXTENDS Naturals, Sequences, FiniteSets, SequencesExt, TLC

CONSTANTS Buses,     \* the interface definitions: bus -> signal -> direction at a manager
          Known      \* the modules of repositories and files: name -> module

Top == "(top)"
Const == "(const)"
NoPort == "(independent)"
Whole == ""
Bit == "bit"         \* the type of an external that nothing is known of
AllSignals(bus) == DOMAIN Buses[bus]

\* PortDirection.reverse
Flip(dir) == CASE dir = "in" -> "out" [] dir = "out" -> "in" [] OTHER -> "inout"

Port(name, dir, type) ==
    [name |-> name, dir |-> dir, type |-> type, sigs |-> <<>>, default |-> ""]

Interface(name, mode, bus, sigs) == [Port(name, mode, bus) EXCEPT !.sigs = sigs]

IsInterface(io) == io.type \in DOMAIN Buses

\* Interface.has_independent_signals
Independent(io) == \E s \in DOMAIN io.sigs : io.sigs[s] = NoPort

\* QuerableView.find_by_name: the elements of that name, of which the first counts.
Having(seq, n) == SelectSeq(seq, LAMBDA x : x.name = n)
Has(seq, n) == Having(seq, n) # <<>>
Find(seq, n) == Head(Having(seq, n))

(***************************************************************************)
(* Modules, and the modules there are by their names: what instances refer *)
(* to.  `clocks' are [name, port] and `resets' [name, port, pol, sync],    *)
(* where sync is the name of a clock or "".                                *)
(***************************************************************************)
Module(ios, clocks, resets, design) ==
    [ios |-> ios, clocks |-> clocks, resets |-> resets, design |-> design]

\* Module.non_intf_ports
NonIntfPorts(ios) ==
    LET used == UNION {{io.sigs[s] : s \in DOMAIN io.sigs} : io \in ToSet(ios)}
    IN  SelectSeq(ios, LAMBDA io : ~IsInterface(io) /\ io.name \notin used)

Interfaces(ios) == SelectSeq(ios, IsInterface)

\* What a node, a page or a reference can name.
Shown(ios) == Interfaces(ios) \o NonIntfPorts(ios)

(***************************************************************************)
(* The parts of a design.  A component has a domain for each clock and     *)
(* reset of its module that has been assigned one.                         *)
(***************************************************************************)
Comp(name, mod, clk, rst) == [name |-> name, mod |-> mod, clk |-> clk, rst |-> rst]
Conn(src, tgt, inv) == [src |-> src, tgt |-> tgt, inv |-> inv]
\* The parameters of an interconnect and of its managers go with its type: a round-robin has none
\* for a manager.
RoundRobin == "Wishbone Round-Robin"
Axi == "AXI"
Inter(name, type, clock, reset, mans, subs) ==
    [name |-> name, type |-> type, clock |-> clock, reset |-> reset, mans |-> mans, subs |-> subs]
ClockDomain(name, clock) == [name |-> name, clock |-> clock]
ResetDomain(name, reset, pol, sync) == [name |-> name, reset |-> reset, pol |-> pol, sync |-> sync]

Ext(io) == <<Top, io, Whole>>
At(inst, io) == <<inst, io, Whole>>
Value(v) == <<Const, v, Whole>>
IsExternal(e) == e[1] = Top
IsConst(e) == e[1] = Const
Unsliced(e) == At(e[1], e[2])

\* The design of a module of that id, with nothing in it.
NewDesign(id, ios) == [id |-> id, ios |-> ios, comps |-> <<>>, conns |-> <<>>, inters |-> <<>>,
                       cdoms |-> <<>>, rdoms |-> <<>>]

(***************************************************************************)
(* Looking things up.  `mods' maps names to modules.                       *)
(***************************************************************************)
IosOf(des, mods, inst) == IF inst = Top THEN des.ios ELSE mods[Find(des.comps, inst).mod].ios

\* The io an endpoint refers to.
IoAt(des, mods, e) == Find(IosOf(des, mods, e[1]), e[2])

\* Whether an endpoint is there at all.
IsThere(des, mods, e) ==
    \/ IsConst(e)
    \/ IsExternal(e) /\ Has(des.ios, e[2])
    \/ Has(des.comps, e[1]) /\ Has(IosOf(des, mods, e[1]), e[2])

IsIntfConn(des, mods, conn) == ~IsConst(conn.src) /\ IsInterface(IoAt(des, mods, conn.src))

\* Module.hierarchy: the modules below a design, each once.
Below(des, mods) ==
    LET Next(ms) == ms \cup UNION {{c.mod : c \in ToSet(mods[m].design[1].comps)} :
                                      m \in {x \in ms : mods[x].design # <<>>}}
    IN  FoldLeft(LAMBDA ms, i : Next(ms), {c.mod : c \in ToSet(des.comps)},
                 [i \in 1..Cardinality(DOMAIN mods) |-> i])

(***************************************************************************)
(* Design.lower_domains, where no check fails: for each component the      *)
(* connections of its clocks, then those of its resets.                    *)
(***************************************************************************)
ClockConns(des, mods, c) ==
    [i \in DOMAIN mods[c.mod].clocks |->
        LET clock == mods[c.mod].clocks[i]
        IN  Conn(Find(des.cdoms, c.clk[clock.name]).clock, At(c.name, clock.port), FALSE)]

ResetConns(des, mods, c) ==
    [i \in DOMAIN mods[c.mod].resets |->
        LET reset == mods[c.mod].resets[i]
            dom == Find(des.rdoms, c.rst[reset.name])
        IN  Conn(dom.reset, At(c.name, reset.port), dom.pol # reset.pol)]

\* A reset that is synchronous needs a domain synchronous to the domain of its clock.
OutOfStep(des, mods, c) ==
    \E reset \in ToSet(mods[c.mod].resets) :
        /\ reset.sync # ""
        /\ Find(des.rdoms, c.rst[reset.name]).sync # c.clk[reset.sync]

LowerDomains(des, mods) ==
    FoldLeft(LAMBDA d, c : [d EXCEPT !.conns = @ \o ClockConns(d, mods, c) \o ResetConns(d, mods, c)],
             des, des.comps)

(***************************************************************************)
(* What two forms of a design have in common whatever the order of their   *)
(* parts and of the ends of connections.                                   *)
(***************************************************************************)
Ends(conn) == [ends |-> {conn.src, conn.tgt}, inv |-> conn.inv]
Wiring(des) == {Ends(conn) : conn \in ToSet(des.conns)}
=============================================================================
