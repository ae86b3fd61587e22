------------------------------- MODULE SvNets -------------------------------
(***************************************************************************)
(* The nets of the SystemVerilog a design is written as                    *)
(* (backend/sv/design.py), with the modules made for interconnects         *)
(* (backend/generator.py).  The text is left out: `maps' says which        *)
(* expression the connection of a port of an instance in its port map is,  *)
(* and `assigns' the right of each left side of an assign statement.       *)
(*                                                                         *)
(* What can stand in an expression is an endpoint: a port of this module,  *)
(* a port of an instance (u.p), a constant, or a net or an interface       *)
(* declared here (of the owner Net).  The slice of an endpoint of an       *)
(* interface is the name of a signal.                                      *)
(***************************************************************************)
EXTENDS Designs

CONSTANTS Tied       \* the signals <<bus, signal>> that have a default value

Net == "(net)"
Missing == "(missing)"
Tie == Value("(default)")
Expr(nots, at) == [nots |-> nots, at |-> at]
Nots(inv) == IF inv THEN 1 ELSE 0

NoNets == [maps |-> <<>>, assigns |-> <<>>, partials |-> <<>>, nets |-> {}, used |-> {}]

PortAt(e) == <<e[1], e[2]>>
Assign(b, lhs, rhs) == [b EXCEPT !.assigns = (lhs :> rhs) @@ @]
MapPort(b, port, expr) == [b EXCEPT !.maps = (port :> expr) @@ @]

\* A reference to a port, as opposed to a piece of text.
IsRef(des, mods, e) == e[1] \notin {Const, Net} /\ ~IsInterface(IoAt(des, mods, e))

(***************************************************************************)
(* Connections become partial connections of the port they drive.          *)
(***************************************************************************)
Partial(ref, src, inv) == [port |-> PortAt(ref), sel |-> ref[3], src |-> src, inv |-> inv]

StoreSel(b, ref, src, inv) ==
    [b EXCEPT !.partials = Append(@, Partial(ref, src, inv)),
              !.used = IF IsExternal(ref) THEN @ ELSE @ \cup {PortAt(ref)}]

\* An output of this module or an input of an instance.
IsSink(des, mods, e) == IoAt(des, mods, e).dir = (IF IsExternal(e) THEN "out" ELSE "in")

\* A mutant: only a target is inverted.
HandlePortStraight(b, des, mods, src, tgt, inv) ==
    IF IsSink(des, mods, src) THEN StoreSel(b, src, tgt, FALSE) ELSE StoreSel(b, tgt, src, inv)

HandlePort(b, des, mods, src, tgt, inv) ==
    IF IsSink(des, mods, src) THEN StoreSel(b, src, tgt, inv) ELSE StoreSel(b, tgt, src, inv)

\* What realises a signal at an interface.
Realised(io, sig) == IF sig \in DOMAIN io.sigs THEN io.sigs[sig] ELSE Missing
IsPort(realised) == realised \notin {Missing, NoPort}
DirAt(io, sig) == IF io.dir = "out" THEN Buses[io.type][sig] ELSE Flip(Buses[io.type][sig])

\* A missing driver of an input that has a default.
TieOff(b, io, e, sig, other) ==
    IF DirAt(io, sig) = "in" /\ other = Missing /\ <<io.type, sig>> \in Tied /\ IsPort(Realised(io, sig))
    THEN StoreSel(b, At(e[1], Realised(io, sig)), Tie, FALSE)
    ELSE b

\* The interface an independent end is connected to: an external of this module or a new one.
InterfaceUsed(des, mods, c) ==
    CASE IsExternal(c.src) /\ Independent(IoAt(des, mods, c.src)) -> <<Top, c.src[2]>>
      [] IsExternal(c.tgt) /\ Independent(IoAt(des, mods, c.tgt)) -> <<Top, c.tgt[2]>>
      [] OTHER -> <<Net, c.src[1] \o "__" \o c.src[2] \o "__" \o c.tgt[1] \o "__" \o c.tgt[2]>>

\* One signal of a connection of interfaces.
HandleSignal(b, des, mods, c, sig) ==
    LET sio == IoAt(des, mods, c.src)
        tio == IoAt(des, mods, c.tgt)
        ssig == Realised(sio, sig)
        tsig == Realised(tio, sig)
        tied == TieOff(TieOff(b, sio, c.src, sig, tsig), tio, c.tgt, sig, ssig)
        ref == IF IsPort(ssig) THEN At(c.src[1], ssig) ELSE At(c.tgt[1], tsig)
        at_src == <<Top, c.src[2], sig>>
        at_tgt == <<Top, c.tgt[2], sig>>
    IN  CASE ssig = NoPort /\ tsig = NoPort /\ IsExternal(c.src) /\ IsExternal(c.tgt) ->
                IF DirAt(tio, sig) = "in" THEN Assign(tied, at_src, Expr(0, at_tgt))
                ELSE Assign(tied, at_tgt, Expr(0, at_src))
          [] IsPort(ssig) /\ IsPort(tsig) ->
                HandlePort(tied, des, mods, At(c.src[1], ssig), At(c.tgt[1], tsig), FALSE)
          [] NoPort \in {ssig, tsig} /\ (IsPort(ssig) \/ IsPort(tsig)) ->
                LET intf == InterfaceUsed(des, mods, c)
                IN  [tied EXCEPT !.partials = Append(@, Partial(ref, <<intf[1], intf[2], sig>>, FALSE))]
          [] OTHER -> tied

HandleIntf(b, des, mods, c) ==
    LET intf == InterfaceUsed(des, mods, c)
        ends == SelectSeq(<<c.src, c.tgt>>,
                          LAMBDA e : ~IsExternal(e) /\ Independent(IoAt(des, mods, e)))
        b1 == FoldLeft(LAMBDA x, e : MapPort(x, PortAt(e), Expr(0, At(intf[1], intf[2]))), b, ends)
    IN  FoldLeft(LAMBDA x, sig : HandleSignal(x, des, mods, c, sig), b1,
                 SetToSeq(AllSignals(IoAt(des, mods, c.src).type)))

ParseConnection(b, des, mods, c) ==
    IF IsConst(c.src) THEN StoreSel(b, c.tgt, c.src, FALSE)
    ELSE IF IsIntfConn(des, mods, c) THEN HandleIntf(b, des, mods, c)
    ELSE HandlePort(b, des, mods, c.src, c.tgt, c.inv)

(***************************************************************************)
(* The partial connections of one port.                                    *)
(***************************************************************************)
\* _port_map_or_assign: the port is a reference or text that may be inverted already, so that
\* an expression can have several inversions.
PortMapOrAssign(b, des, mods, port, right, inv) ==
    IF IsRef(des, mods, port) /\ ~IsExternal(port) /\ port[3] = Whole /\ PortAt(port) \notin DOMAIN b.maps
    THEN MapPort(b, PortAt(port), Expr(Nots(inv), right))
    ELSE Assign(b, right, Expr(Nots(inv), port))

IsPlainOutput(des, mods, e) ==
    /\ IsRef(des, mods, e) /\ ~IsExternal(e)
    /\ e[3] = Whole /\ IoAt(des, mods, e).dir \in {"out", "inout"}

ConnectInternal(b, des, mods, port, tgt, inv) ==
    IF ~IsPlainOutput(des, mods, tgt)
    THEN PortMapOrAssign(b, des, mods, At(port[1], port[2]), tgt, inv)
    ELSE LET driver == IF PortAt(tgt) \in DOMAIN b.maps THEN b.maps[PortAt(tgt)] ELSE Expr(0, tgt)
         IN  MapPort(b, port, Expr(Nots(inv) + driver.nots, driver.at))

ConnectExternal(b, des, mods, port, tgt, inv) ==
    IF IsPlainOutput(des, mods, tgt) /\ PortAt(tgt) \in DOMAIN b.maps
    THEN Assign(b, Ext(port[2]), Expr(Nots(inv) + b.maps[PortAt(tgt)].nots, b.maps[PortAt(tgt)].at))
    ELSE PortMapOrAssign(b, des, mods, tgt, Ext(port[2]), inv)

IsDirect(des, mods, port, sels) ==
    /\ Len(sels) = 1 /\ sels[1].sel = Whole
    /\ sels[1].inv =>
          /\ IoAt(des, mods, port).dir = "in"
          /\ IsExternal(sels[1].src) \/ IoAt(des, mods, sels[1].src).dir = "out"

\* _wire_for_partial_port
WithWire(b, port, inverted) ==
    LET wire == IF port[1] = Top THEN "inv__" \o port[2] ELSE port[1] \o "__" \o port[2]
    IN  IF port[1] = Top /\ ~inverted THEN [b |-> b, wire |-> port]
        ELSE [b |-> LET b1 == [b EXCEPT !.nets = @ \cup {wire}]
                    IN  IF port[1] = Top THEN Assign(b1, Ext(port[2]), Expr(0, At(Net, wire)))
                        ELSE MapPort(b1, port, Expr(0, At(Net, wire))),
              wire |-> <<Net, wire>>]

ConnectSlice(b, des, mods, port, wire, sel) ==
    LET slice == <<wire[1], wire[2], sel.sel>>
    IN  IF IsSink(des, mods, port) THEN PortMapOrAssign(b, des, mods, sel.src, slice, sel.inv)
        ELSE Assign(b, sel.src, Expr(Nots(sel.inv), slice))

\* _dedupe_partial_selects
Deduped(b, port) ==
    FoldLeft(LAMBDA s, x : IF x.port = port /\ x \notin ToSet(s) THEN Append(s, x) ELSE s, <<>>, b.partials)

ParseEntry(b, des, mods, port) ==
    LET sels == Deduped(b, port)
        wired == WithWire(b, port, \E k \in DOMAIN sels : sels[k].inv)
    IN  IF ~IsDirect(des, mods, port, sels)
        THEN FoldLeft(LAMBDA x, sel : ConnectSlice(x, des, mods, port, wired.wire, sel), wired.b, sels)
        ELSE IF port[1] = Top THEN ConnectExternal(b, des, mods, port, sels[1].src, sels[1].inv)
        ELSE ConnectInternal(b, des, mods, port, sels[1].src, sels[1].inv)

ParsePartials(b, des, mods) ==
    LET ports == FoldLeft(LAMBDA s, x : IF x.port \in ToSet(s) THEN s ELSE Append(s, x.port),
                          <<>>, b.partials)
    IN  FoldLeft(LAMBDA x, port : ParseEntry(x, des, mods, port), b, ports)

\* compact_passthrough_nets: an output of this module that only copies a net takes its place.
Copies(b, lhs) ==
    LET rhs == b.assigns[lhs]
    IN  /\ IsExternal(lhs) /\ lhs[3] = Whole
        /\ rhs.nots = 0 /\ rhs.at[1] = Net /\ rhs.at[2] \in b.nets /\ rhs.at[3] = Whole
        /\ \A other \in DOMAIN b.assigns \ {lhs} : b.assigns[other] # rhs
        /\ rhs.at \notin DOMAIN b.assigns
        /\ \E port \in DOMAIN b.maps : b.maps[port] = rhs

Compact(b, lhs) ==
    IF ~Copies(b, lhs) THEN b
    ELSE [b EXCEPT !.maps = [port \in DOMAIN @ |-> IF @[port] = b.assigns[lhs] THEN Expr(0, lhs) ELSE @[port]],
                   !.assigns = [l \in DOMAIN @ \ {lhs} |-> @[l]],
                   !.nets = @ \ {b.assigns[lhs].at[2]}]

CompactAll(b) == FoldSet(LAMBDA lhs, x : Compact(x, lhs), b, DOMAIN b.assigns)

\* Default values of the inputs that nothing has been stored for.
TieDefaults(b, des, mods) ==
    LET idle == {p \in UNION {{<<c.name, io.name>> : io \in {x \in ToSet(mods[c.mod].ios) :
                                   x.default # "" /\ x.dir = "in"}} : c \in ToSet(des.comps)} :
                   p \notin b.used}
    IN  [b EXCEPT !.maps = [p \in idle |-> Expr(0, Value(IoAt(des, mods, p).default))] @@ @]

\* SystemVerilogDesignBackend.serialize
Serialize(des, mods) ==
    LET b1 == FoldLeft(LAMBDA b, c : ParseConnection(b, des, mods, c), NoNets, des.conns)
    IN  TieDefaults(CompactAll(ParsePartials(b1, des, mods)), des, mods)

(***************************************************************************)
(* Generator.add_module_instance_to_design: an interconnect becomes an     *)
(* instance with an interface for each manager and subordinate.  The code  *)
(* names that after a module and tells equal names apart by identity: here *)
(* it has the name of the instance.                                        *)
(***************************************************************************)
Facing(des, mods, e, mode) ==
    LET io == IoAt(des, mods, e)
        owner == IF IsExternal(e) THEN des.id ELSE e[1]
        port(sig) == owner \o "_" \o io.name \o "__" \o sig
        new == Interface(owner \o "_" \o io.name, mode, io.type, [sig \in AllSignals(io.type) |-> port(sig)])
    IN  [ports |-> [k \in DOMAIN SetToSeq(AllSignals(io.type)) |->
                       LET sig == SetToSeq(AllSignals(io.type))[k]
                       IN  Port(port(sig), DirAt(new, sig), Bit)],
         intf |-> new, at |-> e]

Faces(des, mods, intr) ==
    [k \in DOMAIN intr.mans |-> Facing(des, mods, intr.mans[k], "in")] \o
    [k \in DOMAIN intr.subs |-> Facing(des, mods, intr.subs[k].at, "out")]

Generated(intr, faces) ==
    LET pins == <<Port("clk", "in", Bit), Port("rst", "in", Bit)>>
        ios == FoldLeft(LAMBDA s, f : s \o f.ports \o <<f.intf>>, pins, faces)
        mod == "interconnect_" \o intr.name
    IN  [mod |-> mod :> Module(ios, <<>>, <<>>, <<>>),
         comp |-> Comp(intr.name, mod, <<>>, <<>>),
         conns |-> <<Conn(intr.clock, At(intr.name, "clk"), FALSE),
                     Conn(intr.reset, At(intr.name, "rst"), FALSE)>> \o
                   [k \in DOMAIN faces |-> Conn(faces[k].at, At(intr.name, faces[k].intf.name), FALSE)]]

AddGenerated(acc, new) ==
    [des |-> [acc.des EXCEPT !.comps = Append(@, new.comp), !.conns = @ \o new.conns],
     mods |-> new.mod @@ acc.mods]

\* The design and the modules with an instance for each interconnect.
WithInterconnects(des, mods) ==
    FoldLeft(LAMBDA acc, intr : AddGenerated(acc, Generated(intr, Faces(des, mods, intr))),
             [des |-> des, mods |-> mods], des.inters)
=============================================================================
