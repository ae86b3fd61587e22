------------------------------ MODULE MCForms ------------------------------
(***************************************************************************)
(* Small designs for Forms: each is there for a feature of designs.        *)
(***************************************************************************)
EXTENDS FormsPromises

MCBuses == [axi |-> [v |-> "out", r |-> "in"]]
MCTied == {<<"axi", "r">>}
MCUses == [clk2x |-> {"width"}] @@ ("a*2" :> {"a"})
MCNumerals == {"1", "0x10"}
MCRaising == {"", "atop: false"}
MCDecimal == {"1"}
MCIntegral == {"1", "0x10"}
MCSpecified == {"cpu", "mem", "buf", "pad", "wo"}

Dependent(v, r) == [sig \in {"v", "r"} |-> IF sig = "v" THEN v ELSE r]
Reset(name, port, pol, sync) == [name |-> name, port |-> port, pol |-> pol, sync |-> sync]

\* A manager with dependent signals, a subordinate with independent ones, a buffer, a pad.
Cpu == Module(<<Port("clk", "in", Bit), Port("rst", "in", Bit), Port("mv", "out", Bit),
                [Port("mr", "in", Bit) EXCEPT !.default = "d0"], Port("irq", "in", "word"),
                Interface("m", "out", "axi", Dependent("mv", "mr"))>>,
              <<[name |-> "clk", port |-> "clk"]>>, <<Reset("rst", "rst", "active low", "clk")>>, <<>>)
Mem == Module(<<Port("clk", "in", Bit), Port("q", "out", "word"),
                Interface("s", "in", "axi", Dependent(NoPort, NoPort))>>,
              <<[name |-> "clk", port |-> "clk"]>>, <<>>, <<>>)
Buf == Module(<<[Port("i", "in", "word") EXCEPT !.default = "d1"], Port("o", "out", "word")>>, <<>>, <<>>, <<>>)
Pad == Module(<<Port("io", "inout", "word"), Port("c", "out", "word")>>, <<>>, <<>>, <<>>)
\* A subordinate that leaves a signal out.
Wo == Module(<<Port("sv", "in", Bit), Interface("s", "in", "axi", [v |-> "sv"])>>, <<>>, <<>>, <<>>)
MCKnown == [cpu |-> Cpu, mem |-> Mem, buf |-> Buf, pad |-> Pad, wo |-> Wo]

(***************************************************************************)
(* Hierarchies: a buffer, an inverted buffer, an exposed manager and a     *)
(* clock domain inside.                                                    *)
(***************************************************************************)
PortsIO == <<Port("i", "in", "word"), Port("o", "out", "word")>>
InnerConns == <<Conn(Ext("i"), At("u", "i"), FALSE), Conn(At("u", "o"), Ext("o"), FALSE)>>
SubDesign(inv) ==
    [NewDesign("sub", PortsIO) EXCEPT !.comps = <<Comp("u", "buf", <<>>, <<>>)>>,
                                      !.conns = [InnerConns EXCEPT ![2].inv = inv]]
Hier(des) == Module(des.ios, <<>>, <<>>, <<des>>)
With(des) == [des |-> des, mods |-> MCKnown]
Over(des, sub) == [des |-> des, mods |-> [sub |-> Hier(sub)] @@ MCKnown]

Clocked == <<ClockDomain("default", Ext("clk"))>>
ClkPort == Port("clk", "in", Bit)
RstPort == Port("rstn", "in", Bit)
Default == [clk |-> "default"]

\* A processor and its memory, clocked by domains, with a reset of the other polarity.
Lower(d) == [LowerDomains(d, MCKnown) EXCEPT !.id = d.id]
Direct ==
    Lower([NewDesign("top", <<ClkPort, RstPort, Port("clk2", "in", Bit)>>) EXCEPT
        !.comps = <<Comp("c", "cpu", Default, [rst |-> "default"]), Comp("d", "mem", Default, <<>>)>>,
        !.conns = <<Conn(At("c", "m"), At("d", "s"), FALSE)>>,
        !.cdoms = Append(Clocked, ClockDomain("other", Ext("clk2"))),
        !.rdoms = <<ResetDomain("default", Ext("rstn"), "active high", "default")>>])

\* The same through an interconnect, with an external subordinate.
Crossed ==
    Lower([NewDesign("top", <<ClkPort, RstPort, Interface("xs", "out", "axi", Dependent(NoPort, NoPort))>>) EXCEPT
        !.comps = <<Comp("c", "cpu", Default, [rst |-> "default"]), Comp("d", "mem", Default, <<>>)>>,
        !.inters = <<Inter("bus", RoundRobin, Ext("clk"), Ext("rstn"), <<At("c", "m")>>,
                           <<[at |-> At("d", "s"), param |-> "0"], [at |-> Ext("xs"), param |-> "1"]>>)>>,
        !.cdoms = Clocked,
        !.rdoms = <<ResetDomain("default", Ext("rstn"), "active low", "default")>>])

\* Two interconnects, of an external manager and of a processor.
BusOf(name, man, sub) ==
    Inter(name, RoundRobin, Ext("clk"), Ext("rstn"), <<man>>, <<[at |-> At(sub, "s"), param |-> "0"]>>)
Bridged ==
    Lower([NewDesign("top", <<ClkPort, RstPort, Interface("xm", "in", "axi", Dependent(NoPort, NoPort))>>) EXCEPT
        !.comps = <<Comp("c", "cpu", Default, [rst |-> "default"]), Comp("d", "wo", <<>>, <<>>),
                    Comp("e", "wo", <<>>, <<>>)>>,
        !.inters = <<BusOf("bus", Ext("xm"), "d"), BusOf("bus2", At("c", "m"), "e")>>,
        !.cdoms = Clocked,
        !.rdoms = <<ResetDomain("default", Ext("rstn"), "active low", "default")>>])

\* A domain of resets that are synchronous to no clock.
Asynchronous ==
    [NewDesign("top", <<RstPort>> \o PortsIO) EXCEPT
        !.comps = <<Comp("a", "buf", <<>>, <<>>)>>,
        !.conns = <<Conn(Ext("i"), At("a", "i"), FALSE), Conn(At("a", "o"), Ext("o"), TRUE)>>,
        !.rdoms = <<ResetDomain("default", Ext("rstn"), "active low", "")>>]

\* An output to two inputs and out of the design.
FanOut ==
    [NewDesign("top", PortsIO) EXCEPT
        !.comps = <<Comp("a", "buf", <<>>, <<>>), Comp("b", "buf", <<>>, <<>>), Comp("e", "buf", <<>>, <<>>)>>,
        !.conns = <<Conn(Ext("i"), At("a", "i"), TRUE), Conn(At("a", "o"), At("b", "i"), FALSE),
                    Conn(At("a", "o"), At("e", "i"), TRUE), Conn(At("a", "o"), Ext("o"), FALSE)>>]

\* An input from slices, an output of which a slice leaves, and constants.
Sliced ==
    [NewDesign("top", PortsIO) EXCEPT
        !.comps = <<Comp("a", "buf", <<>>, <<>>), Comp("b", "buf", <<>>, <<>>), Comp("e", "buf", <<>>, <<>>)>>,
        !.conns = <<Conn(At("a", "o"), <<"e", "i", "hi">>, FALSE), Conn(At("b", "o"), <<"e", "i", "lo">>, TRUE),
                    Conn(Value("1"), At("a", "i"), FALSE), Conn(Value("8'hFF"), At("b", "i"), FALSE),
                    Conn(<<"e", "o", "hi">>, <<Top, "o", "lo">>, FALSE)>>]

\* Interfaces of the design itself: one to an instance, and an inout.
Exposed(name) ==
    [NewDesign("top", <<Interface("xm", "out", "axi", Dependent(NoPort, NoPort)), ClkPort,
                        Port(name, "inout", "word")>>) EXCEPT
        !.comps = <<Comp("c", "cpu", Default, [rst |-> "default"]), Comp("p", "pad", <<>>, <<>>)>>,
        !.conns = <<Conn(At("c", "m"), Ext("xm"), FALSE), Conn(At("p", "io"), Ext(name), FALSE)>>,
        !.cdoms = Clocked,
        !.rdoms = <<ResetDomain("default", At("p", "c"), "active low", "default")>>]

\* Two instances of one hierarchy, one after the other.
Nested(inv) ==
    Over([NewDesign("top", PortsIO) EXCEPT
             !.comps = <<Comp("x", "sub", <<>>, <<>>), Comp("y", "sub", <<>>, <<>>)>>,
             !.conns = <<Conn(Ext("i"), At("x", "i"), FALSE), Conn(At("x", "o"), At("y", "i"), FALSE),
                         Conn(At("y", "o"), Ext("o"), FALSE)>>],
         SubDesign(inv))

\* A hierarchy with a clocked instance in it, and another beside it, before it or after it.
ClockedSub ==
    Lower([NewDesign("sub", <<ClkPort, Port("q", "out", "word")>>) EXCEPT
        !.comps = <<Comp("d", "mem", Default, <<>>)>>, !.conns = <<Conn(At("d", "q"), Ext("q"), FALSE)>>,
        !.cdoms = Clocked])
Beside(comps) ==
    Over([Lower([NewDesign("top", <<ClkPort>>) EXCEPT
              !.comps = <<Comp("f", "mem", Default, <<>>)>>, !.cdoms = Clocked]) EXCEPT
             !.comps = comps, !.conns = Append(@, Conn(Ext("clk"), At("x", "clk"), FALSE))],
         ClockedSub)
\* A hierarchy with an interconnect between a manager outside and a memory.
BusSub ==
    [NewDesign("sub", <<ClkPort, RstPort, Interface("xm", "in", "axi", Dependent(NoPort, NoPort))>>) EXCEPT
        !.comps = <<Comp("d", "wo", <<>>, <<>>)>>,
        !.inters = <<Inter("bus", Axi, Ext("clk"), Ext("rstn"), <<Ext("xm")>>, <<[at |-> At("d", "s"), param |-> "0"]>>)>>]
InnerBus ==
    Over([NewDesign("top", <<ClkPort, RstPort>>) EXCEPT
             !.comps = <<Comp("x", "sub", <<>>, <<>>), Comp("c", "cpu", Default, [rst |-> "default"])>>,
             !.cdoms = Clocked, !.rdoms = <<ResetDomain("default", Ext("rstn"), "active low", "default")>>,
             !.conns = <<Conn(At("c", "m"), At("x", "xm"), FALSE), Conn(Ext("clk"), At("x", "clk"), FALSE),
                         Conn(Ext("rstn"), At("x", "rstn"), FALSE)>>],
         BusSub)
ClockedFirst == Beside(<<Comp("f", "mem", Default, <<>>), Comp("x", "sub", <<>>, <<>>)>>)
ClockedLast == Beside(<<Comp("x", "sub", <<>>, <<>>), Comp("f", "mem", Default, <<>>)>>)

\* A signal that is missing, and externals joined to externals.
Missed ==
    Lower([NewDesign("top", <<ClkPort, RstPort>>) EXCEPT
        !.comps = <<Comp("c", "cpu", Default, [rst |-> "default"]), Comp("w", "wo", <<>>, <<>>)>>,
        !.conns = <<Conn(At("w", "s"), At("c", "m"), FALSE)>>,
        !.cdoms = Clocked,
        !.rdoms = <<ResetDomain("default", Ext("rstn"), "active low", "default")>>])
Passed ==
    [NewDesign("top", PortsIO \o <<Interface("xm", "out", "axi", Dependent(NoPort, NoPort)),
                                  Interface("xs", "in", "axi", Dependent(NoPort, NoPort))>>) EXCEPT
        !.comps = <<Comp("a", "buf", <<>>, <<>>), Comp("b", "buf", <<>>, <<>>)>>,
        !.conns = <<Conn(Ext("xs"), Ext("xm"), FALSE), Conn(Ext("i"), At("a", "i"), FALSE),
                    Conn(At("a", "o"), At("b", "i"), TRUE), Conn(At("a", "o"), Ext("o"), TRUE)>>]

\* An output that is inverted out of the design and into another instance.
InvertedOut ==
    [NewDesign("top", PortsIO) EXCEPT
        !.comps = <<Comp("a", "buf", <<>>, <<>>), Comp("b", "buf", <<>>, <<>>)>>,
        !.conns = <<Conn(At("a", "o"), Ext("o"), TRUE), Conn(At("a", "o"), At("b", "i"), TRUE),
                    Conn(Ext("i"), At("a", "i"), FALSE)>>]

\* A hierarchy whose input is a port outside, and can become an interface inside.
Turned ==
    Over([NewDesign("top", PortsIO) EXCEPT
             !.comps = <<Comp("a", "buf", <<>>, <<>>), Comp("x", "sub", <<>>, <<>>)>>,
             !.conns = <<Conn(Ext("i"), At("a", "i"), FALSE), Conn(At("a", "o"), At("x", "i"), FALSE),
                         Conn(At("x", "o"), Ext("o"), FALSE)>>],
         [NewDesign("sub", PortsIO) EXCEPT
             !.comps = <<Comp("u", "buf", <<>>, <<>>), Comp("w", "wo", <<>>, <<>>)>>, !.conns = InnerConns])

\* An external that nothing is connected to.
Unused ==
    [NewDesign("top", PortsIO) EXCEPT
        !.comps = <<Comp("a", "buf", <<>>, <<>>)>>, !.conns = <<Conn(Ext("i"), At("a", "i"), FALSE)>>]

\* Dataflows of older versions: an external of one interface, and a port of a graph, with names.
OldExternal(kind, name) ==
    Metanode(kind, kind, "External Name" :> name,
             "external" :> (IF kind = "External Input" THEN "out" ELSE "in"))
OldPort(name) ==
    [Metanode("Subgraph port", name, <<>>, [i \in {"in", "out"} |-> i]) EXCEPT !.ext = "in" :> name]
OldBuf(inst) == IpNode(inst, "buf", {}, [i |-> "in", o |-> "out"], <<>>, <<>>)
Opened(nodes, conns) == Entry :> [nodes |-> nodes, conns |-> conns]

OldInput == OldExternal("External Input", "x")
OldOutput(name) == OldExternal("External Output", name)

MCOldFlows ==
    {Opened(<<OldInput, OldBuf("a"), OldOutput("")>>,
            <<<<<<1, "external">>, <<2, "i">>>>, <<<<2, "o">>, <<3, "external">>>>>>),
     Opened(<<OldInput, OldBuf("a")>>, <<>>),
     Opened(<<OldInput, OldOutput("")>>, <<<<<<1, "external">>, <<2, "external">>>>>>),
     Opened(<<OldBuf("a"), OldOutput("x"), OldOutput("x")>>,
            <<<<<<1, "o">>, <<2, "external">>>>, <<<<1, "o">>, <<3, "external">>>>>>),
     Opened(<<OldExternal("External Input", ""), OldBuf("a"), OldBuf("b")>>,
            <<<<<<1, "external">>, <<2, "i">>>>, <<<<1, "external">>, <<3, "i">>>>>>),
     Opened(<<[OldBuf("a") EXCEPT !.mod = "sub", !.sub = {"sub"}]>>, <<>>) @@
         ("sub" :> [nodes |-> <<OldPort("i"), OldBuf("u")>>, conns |-> <<<<<<1, "out">>, <<2, "i">>>>>>])}

MCChosen ==
    {With(Unused), With(Missed), With(Passed), With(InvertedOut), With(Direct), With(Crossed), With(Bridged),
     With(Asynchronous), With(FanOut), With(Sliced), With(Exposed("io")), With(Exposed("xio")), InnerBus, Turned, Nested(FALSE), Nested(TRUE),
     ClockedFirst, ClockedLast}
=============================================================================
