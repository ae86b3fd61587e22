----------------------------- MODULE DesignYaml -----------------------------
(***************************************************************************)
(* The design description a design is saved as (backend/yaml/backend.py)   *)
(* and how it is read again (frontend/yaml/design.py): one record for the  *)
(* design and one for each hierarchy in it, by the name of the instance.   *)
(* Hierarchies in hierarchies are left out.                                *)
(*                                                                         *)
(* A dictionary of the file is a sequence without equal keys.  What a port *)
(* is connected to is [at, inv, ref]; in the file a constant that is not a *)
(* decimal number is a string, like the name of an external.               *)
(***************************************************************************)
EXTENDS Designs

CONSTANTS Decimal      \* the constants PortsField writes as numbers

TopDesign == "(entry)"

(***************************************************************************)
(* Saving.                                                                 *)
(***************************************************************************)
PortEntry(at, inv, ref) == [at |-> at, inv |-> inv, ref |-> ref]

\* A dictionary keeps the place of a key and takes the last value.
Upsert(seq, e) ==
    IF \E k \in DOMAIN seq : seq[k].at = e.at
    THEN [k \in DOMAIN seq |-> IF seq[k].at = e.at THEN e ELSE seq[k]]
    ELSE Append(seq, e)

\* The dictionary of instances, each with the dictionary of its ios.
Grouped(seq) ==
    LET insts == FoldLeft(LAMBDA s, e : IF e.at[1] \in ToSet(s) THEN s ELSE Append(s, e.at[1]), <<>>, seq)
    IN  FoldLeft(LAMBDA s, inst : s \o SelectSeq(seq, LAMBDA e : e.at[1] = inst), <<>>, insts)

\* The instance of a connection stands on the left.
Lhs(c) == IF IsExternal(c.tgt) THEN c.src ELSE c.tgt
Rhs(c) == IF IsExternal(c.tgt) THEN c.tgt ELSE c.src

\* The inout of an external of the same name is listed with the externals.
IsExposedInout(des, mods, c) ==
    /\ ~IsConst(c.src)
    /\ IoAt(des, mods, Lhs(c)).dir = "inout" /\ IoAt(des, mods, Rhs(c)).dir = "inout"
    /\ Lhs(c)[2] = Rhs(c)[2]

Written(c) ==
    IF IsConst(c.src) /\ c.src[2] \notin Decimal THEN Ext(c.src[2]) ELSE Unsliced(Rhs(c))

PortEntries(des, mods) ==
    Grouped(FoldLeft(
        LAMBDA seq, c : IF IsIntfConn(des, mods, c) \/ IsExposedInout(des, mods, c) THEN seq
                        ELSE Upsert(seq, PortEntry(Unsliced(Lhs(c)), c.inv, Written(c))),
        <<>>, des.conns))

IntfEntries(des, mods) ==
    Grouped(FoldLeft(
        LAMBDA seq, c : IF IsIntfConn(des, mods, c) THEN Upsert(seq, PortEntry(Lhs(c), FALSE, Rhs(c)))
                        ELSE seq,
        <<>>, des.conns))

\* An external at an interconnect is written as one of an instance with the name of the design.
OfInstance(des, e) == IF IsExternal(e) THEN At(des.id, e[2]) ELSE e

InterEntry(des, intr) ==
    [intr EXCEPT !.mans = [k \in DOMAIN @ |-> OfInstance(des, @[k])],
                 !.subs = [k \in DOMAIN @ |-> [@[k] EXCEPT !.at = OfInstance(des, @)]]]

\* What an inout external is connected to, as an instance and its port.
InoutAt(des, io) ==
    LET at == SelectSeq(des.conns, LAMBDA c : ~IsConst(c.src) /\ Ext(io.name) \in {c.src, c.tgt})
    IN  [k \in DOMAIN at |-> IF at[k].src = Ext(io.name) THEN at[k].tgt ELSE at[k].src]

Names(ios) == [k \in DOMAIN ios |-> ios[k].name]
Directed(ios, dir) == SelectSeq(ios, LAMBDA io : io.dir = dir)

\* Saving raises an exception unless
Representable(des) ==
    /\ \A c \in ToSet(des.conns) : ~IsExternal(Lhs(c)) /\ ~IsConst(Lhs(c))
    /\ \A io \in ToSet(Directed(NonIntfPorts(des.ios), "inout")) :
           Len(InoutAt(des, io)) = 1 /\ ~IsExternal(InoutAt(des, io)[1])

RepresentHier(des, mods) ==
    LET ports == NonIntfPorts(des.ios)
        inouts == Directed(ports, "inout")
    IN  [name |-> des.id,
         ips |-> SelectSeq(des.comps, LAMBDA c : mods[c.mod].design = <<>>),
         hiers |-> SelectSeq(des.comps, LAMBDA c : mods[c.mod].design # <<>>),
         ports |-> PortEntries(des, mods), intfs |-> IntfEntries(des, mods),
         inters |-> [k \in DOMAIN des.inters |-> InterEntry(des, des.inters[k])],
         inputs |-> Names(Directed(ports, "in")), outputs |-> Names(Directed(ports, "out")),
         inouts |-> [k \in DOMAIN inouts |-> InoutAt(des, inouts[k])[1]],
         subs |-> Names(Directed(Interfaces(des.ios), "in")),
         mans |-> Names(Directed(Interfaces(des.ios), "out")),
         cdoms |-> des.cdoms, rdoms |-> des.rdoms]

\* The designs of a saved file: this one and its hierarchies.
Hiers(des, mods) == {c \in ToSet(des.comps) : mods[c.mod].design # <<>>}

CanSave(des, mods) ==
    Representable(des) /\ \A c \in Hiers(des, mods) : Representable(mods[c.mod].design[1])

SaveYaml(des, mods) ==
    (TopDesign :> RepresentHier(des, mods)) @@
    [h \in {c.name : c \in Hiers(des, mods)} |->
        RepresentHier(mods[Find(des.comps, h).mod].design[1], mods)]

(***************************************************************************)
(* Reading.  `decls' are the externals declared and not made yet, in the   *)
(* order of their declaration.                                             *)
(***************************************************************************)
Decl(name, dir, port) == [name |-> name, dir |-> dir, port |-> port]

ParsePorts(desc) ==
    LET declared(names, dir, port) == [k \in DOMAIN names |-> Decl(names[k], dir, port)]
        all == declared(desc.inputs, "in", TRUE) \o declared(desc.outputs, "out", TRUE) \o
               declared(desc.subs, "in", FALSE) \o declared(desc.mans, "out", FALSE)
    IN  FoldLeft(LAMBDA s, d : IF Has(s, d.name) THEN s ELSE Append(s, d), <<>>, all)

\* _parse_external: nothing if the declaration does not fit what it is connected to.
ParseExternal(to, decl) ==
    CASE ~IsInterface(to) /\ decl.port -> <<Port(decl.name, decl.dir, to.type)>>
      [] IsInterface(to) /\ ~decl.port /\ to.dir = decl.dir ->
            <<Interface(decl.name, to.dir, to.type, [s \in DOMAIN to.sigs |-> NoPort])>>
      [] OTHER -> <<>>

\* The external of a name, made if it is declared and fits.
WithDeclared(acc, name, to) ==
    IF Has(acc.des.ios, name) \/ ~Has(acc.decls, name) THEN acc
    ELSE LET made == ParseExternal(to, Find(acc.decls, name))
         IN  IF made = <<>> THEN acc
             ELSE [des |-> [acc.des EXCEPT !.ios = @ \o made],
                   decls |-> SelectSeq(acc.decls, LAMBDA d : d.name # name)]

\* _parse_connection: an entry that is not understood is skipped with a warning.
JoinEntry(acc, mods, e, io) ==
    LET fits == IF IsConst(e.ref) THEN ~e.inv /\ ~IsInterface(io)
                ELSE /\ IsThere(acc.des, mods, e.ref)
                     /\ IsInterface(io) = IsInterface(IoAt(acc.des, mods, e.ref))
                     /\ IsInterface(io) => ~e.inv
    IN  IF fits THEN [acc EXCEPT !.des.conns = Append(@, Conn(e.ref, e.at, e.inv))] ELSE acc

ParseEntryOf(acc, mods, e) ==
    LET io == IoAt(acc.des, mods, e.at)
    IN  IF ~IsThere(acc.des, mods, e.at) THEN acc
        ELSE JoinEntry(IF IsExternal(e.ref) THEN WithDeclared(acc, e.ref[2], io) ELSE acc, mods, e, io)

\* _add_ports: the ports nothing is connected to.
AddPorts(acc) ==
    LET left == SelectSeq(acc.decls, LAMBDA d : d.port)
    IN  [acc EXCEPT !.des.ios = @ \o [k \in DOMAIN left |-> Port(left[k].name, left[k].dir, Bit)]]

\* A manager or subordinate is an instance's, or else an external if the name is the design's.
ResolveIntf(des, mods, e) ==
    IF Has(des.comps, e[1]) /\ Has(IosOf(des, mods, e[1]), e[2]) THEN e
    ELSE IF e[1] = des.id THEN Ext(e[2]) ELSE At("", "")

IsIntfThere(des, mods, e) == IsThere(des, mods, e) /\ IsInterface(IoAt(des, mods, e))
IsPortThere(des, mods, e) == IsThere(des, mods, e) /\ ~IsInterface(IoAt(des, mods, e))

Misfit(acc, e, like) ==
    /\ ~Has(acc.des.ios, e[2]) /\ Has(acc.decls, e[2])
    /\ ParseExternal(like, Find(acc.decls, e[2])) = <<>>

\* _add_interconnect_externals: those declared under the names of these ends, up to one that does not fit.
Expose(acc, ends, like) ==
    LET bad == SelectInSeq(ends, LAMBDA e : Misfit(acc, e, like))
    IN  [acc |-> FoldLeft(LAMBDA a, e : WithDeclared(a, e[2], like), acc,
                          IF bad = 0 THEN ends ELSE SubSeq(ends, 1, bad - 1)),
         fit |-> bad = 0]

KeepInterconnect(acc, mods, intr) ==
    LET resolved(e) == ResolveIntf(acc.des, mods, e)
        there(e) == IsIntfThere(acc.des, mods, resolved(e))
        mans == SelectSeq(intr.mans, there)
        subs == SelectSeq(intr.subs, LAMBDA s : there(s.at))
    IN  [acc EXCEPT !.des.inters = Append(@, [intr EXCEPT
            !.mans = [k \in DOMAIN mans |-> resolved(mans[k])],
            !.subs = [k \in DOMAIN subs |-> [subs[k] EXCEPT !.at = resolved(@)]]])]

ExposeSubs(mans, subs, like) == IF mans.fit THEN Expose(mans.acc, subs, like) ELSE mans
KeepIfFit(exposed, mods, intr) ==
    IF exposed.fit THEN KeepInterconnect(exposed.acc, mods, intr) ELSE exposed.acc

\* _parse_interconnect: the externals are like the interface of the first instance.
ParseInterconnect(acc, mods, intr) ==
    LET subs == [k \in DOMAIN intr.subs |-> intr.subs[k].at]
        inner == SelectSeq(intr.mans \o subs, LAMBDA e : IsIntfThere(acc.des, mods, e))
        like(mode) == [IoAt(acc.des, mods, inner[1]) EXCEPT !.dir = mode]
    IN  IF ~IsPortThere(acc.des, mods, intr.clock) \/ ~IsPortThere(acc.des, mods, intr.reset) \/ inner = <<>>
        THEN acc
        ELSE KeepIfFit(ExposeSubs(Expose(acc, intr.mans, like("in")), subs, like("out")), mods, intr)

\* A mutant: the external is made and not connected.
ParseInoutLoose(acc, mods, e) ==
    IF ~IsThere(acc.des, mods, e) \/ IsInterface(IoAt(acc.des, mods, e)) THEN acc
    ELSE [acc EXCEPT !.des.ios = Append(@, Port(e[2], "inout", IoAt(acc.des, mods, e).type))]

\* _parse_inout: the external has the name of the port.
ParseInout(acc, mods, e) ==
    IF ~IsThere(acc.des, mods, e) \/ IsInterface(IoAt(acc.des, mods, e)) THEN acc
    ELSE [acc EXCEPT !.des.ios = Append(@, Port(e[2], "inout", IoAt(acc.des, mods, e).type)),
                     !.des.conns = Append(@, Conn(e, Ext(e[2]), FALSE))]

\* Clocks and resets nobody mentions belong to the domain "default".
WithDefaults(names, given) ==
    [n \in names |-> IF n \in DOMAIN given THEN given[n] ELSE "default"]

ParseAssignments(des, mods, ips) ==
    [des EXCEPT !.comps = [k \in DOMAIN @ |->
        IF ~Has(ips, @[k].name) THEN @[k]
        ELSE LET mod == mods[@[k].mod]
                 ip == Find(ips, @[k].name)
             IN  [@[k] EXCEPT !.clk = WithDefaults(ToSet(Names(mod.clocks)), ip.clk),
                              !.rst = WithDefaults(ToSet(Names(mod.resets)), ip.rst)]]]

\* An exception is raised, and nothing read, unless
DomainsFit(des, mods, desc) ==
    /\ \A d \in ToSet(desc.cdoms) : IsThere(des, mods, d.clock) /\ ~IsInterface(IoAt(des, mods, d.clock))
    /\ \A d \in ToSet(desc.rdoms) :
           /\ IsThere(des, mods, d.reset) /\ ~IsInterface(IoAt(des, mods, d.reset))
           /\ d.sync = "" \/ Has(desc.cdoms, d.sync)
    /\ \A ip \in ToSet(desc.ips) :
           /\ \A c \in DOMAIN ip.clk : Has(mods[ip.mod].clocks, c)
           /\ \A r \in DOMAIN ip.rst : Has(mods[ip.mod].resets, r)
    /\ \A c \in ToSet(ParseAssignments(des, mods, desc.ips).comps) :
           /\ \A x \in DOMAIN c.clk : Has(desc.cdoms, c.clk[x])
           /\ \A x \in DOMAIN c.rst : Has(desc.rdoms, c.rst[x])

\* _parse_clocks_resets, which lowers the domains, or raises.
WithDomains(des, mods, desc) ==
    [ParseAssignments(des, mods, desc.ips) EXCEPT !.cdoms = desc.cdoms, !.rdoms = desc.rdoms]
LowerIfFit(des, mods, fits) ==
    LET ok == fits /\ \A c \in ToSet(des.comps) : ~OutOfStep(des, mods, c)
    IN  [ok |-> ok, des |-> IF ok THEN LowerDomains(des, mods) ELSE des]
ParseDomains(des, mods, desc) == LowerIfFit(WithDomains(des, mods, desc), mods, DomainsFit(des, mods, desc))

\* _parse_hier, where `name' is the name hinted at.
ParseHier(desc, mods, name) ==
    LET comps == desc.ips \o [k \in DOMAIN desc.hiers |->
                                 Comp(desc.hiers[k].name, desc.hiers[k].name, <<>>, <<>>)]
        start == [des |-> [NewDesign(name, <<>>) EXCEPT !.comps = comps], decls |-> ParsePorts(desc)]
        a1 == FoldLeft(LAMBDA a, e : ParseEntryOf(a, mods, e), start, desc.ports \o desc.intfs)
        a2 == FoldLeft(LAMBDA a, i : ParseInterconnect(a, mods, i), AddPorts(a1), desc.inters)
        a3 == FoldLeft(LAMBDA a, e : ParseInout(a, mods, e), a2, desc.inouts)
    IN  ParseDomains(a3.des, mods, desc)

\* parse_file: the hierarchies are modules named after their instances.
LoadTop(desc, mods, ok) ==
    LET top == ParseHier(desc, mods, desc.name)
    IN  [ok |-> top.ok /\ ok, des |-> top.des, mods |-> mods]
LoadWith(yaml, hiers) ==
    LoadTop(yaml[TopDesign],
            [h \in DOMAIN hiers |-> Module(hiers[h].des.ios, <<>>, <<>>, <<hiers[h].des>>)] @@ Known,
            \A h \in DOMAIN hiers : hiers[h].ok)
LoadYaml(yaml) ==
    LoadWith(yaml, [h \in DOMAIN yaml \ {TopDesign} |-> ParseHier(yaml[h], Known, h)])
=============================================================================
