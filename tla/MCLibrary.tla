----------------------------- MODULE MCLibrary ------------------------------
(***************************************************************************)
(* A small library: two directories, cores of three names, and sources     *)
(* with a module for each way a file loses something of it.                *)
(***************************************************************************)
EXTENDS LibraryPromises

Word(t) == [chars |-> 4, first |-> "lower", last |-> "lower", lower |-> t]
Letter(t, kind) == [chars |-> 1, first |-> kind, last |-> kind, lower |-> t]
MCTokens ==
    [t \in {"valid", "ready", "data", "clk"} |-> Word(t)] @@
    [t \in {"s", "m", "p", "x", "i", "o", "io", "bus"} |-> Letter(t, "lower")] @@
    [t \in {"0", "1", "2"} |-> Letter(t, "digit")] @@
    [t \in {"_"} |-> Letter(t, "_")] @@ [t \in {"[", "]", "."} |-> Letter(t, "other")] @@
    [t \in {"Valid"} |-> [Word("valid") EXCEPT !.first = "upper"]] @@
    [t \in {"Data"} |-> [Word("data") EXCEPT !.first = "upper"]] @@
    [t \in {"AXI", "SVB"} |-> [Word(t) EXCEPT !.chars = 3, !.first = "upper", !.last = "upper"]]
MCUnit == 60
MCPenalty == <<0, 9, 18, 30, 42, 57, 74, 93, 114, 139>>

DefSignal(name, chars, dir, required, tokens) ==
    [name |-> name, chars |-> chars, dir |-> dir, required |-> required,
     regexp |-> {<<t>> : t \in tokens}]
MCDefinitions ==
    [d \in {"AXI"} |-> <<DefSignal("VALID", 5, "out", TRUE, {"valid"}),
                         DefSignal("READY", 5, "in", FALSE, {"ready"}),
                         DefSignal("DATA", 4, "out", FALSE, {"data"})>>] @@
    [d \in {"SVB"} |-> <<DefSignal("REQ", 3, "out", TRUE, {"x"}),
                         DefSignal("GNT", 3, "in", TRUE, {"bus"})>>]

P(name, dir, type, default) == [name |-> name, dir |-> dir, type |-> type, default |-> default]
In(name) == P(name, "in", Bit, "")
Out(name) == P(name, "out", Bit, "")
N2(a, b) == <<a, "_", b>>
Vec(dims) == Type("bits", "", dims, <<>>)
Leaf(t, dims) == [path |-> <<t>>, dims |-> dims]
Stream == <<Leaf("valid", <<>>), Leaf("data", <<<<1, 0>>>>)>>
Intf(name, def, mode, signals, clock, size) ==
    [name |-> <<name>>, def |-> def, mode |-> mode, signals |-> signals,
     clock |-> clock, reset |-> "", size |-> size]
Plain(name, ports) == Module(name, ports, <<>>, <<>>, <<>>, <<>>)

\* Two streams of ports, by prefixes.
Fifo == Plain("A", <<In(N2("s", "valid")), Out(N2("s", "ready")), In(N2("s", "data")),
                     Out(<<"m", "Valid">>), In(N2("m", "ready")), P(<<"clk">>, "in", Bit, "0")>>)
\* A core of a YAML file: an interface with a clock and a size, a sized parameter, a default.
Core == Module("A", <<In(<<"clk">>), P(N2("s", "valid"), "in", Bit, "0"),
                      P(N2("s", "data"), "in", Vec(<<<<1, 0>>>>), ""), P(<<"x">>, "in", Bit, "1")>>,
               <<Intf("s", "AXI", "subordinate",
                      [s \in {"VALID"} |-> Sel(N2("s", "valid"), <<>>)] @@
                      [s \in {"DATA"} |-> Sel(N2("s", "data"), <<Slice(0, 0)>>)] @@
                      [s \in {"READY"} |-> NoPort], "c", 16)>>,
               <<[name |-> "W", value |-> "sized"], [name |-> "D", value |-> "number"]>>,
               <<[name |-> "c", port |-> <<"clk">>]>>,
               <<[name |-> "r", port |-> <<"x">>, sync |-> "c"]>>)
\* An interface of a definition that comes with the source, of a view without one signal.
Own == Module("B", <<In(<<"x">>)>>,
              <<Intf("x", "SVB", "subordinate", [s \in {"REQ"} |-> Sel(<<"x">>, <<>>)], "", 0)>>,
              <<>>, <<>>, <<>>)
\* Of two dimensions: no file can say it.
Wide == Plain("B", <<P(<<"x">>, "out", Vec(<<<<1, 0>>, <<1, 0>>>>), "")>>)
\* A stream in a struct, one in each element of an array, and the array as a signal.
Structs == Plain("B", <<P(<<"p">>, "out", Type("struct", "", <<>>, Stream), ""),
                        P(<<"s">>, "in", Type("struct", "t", <<>>, <<Leaf("valid", <<>>)>>), "")>>)
Arrays == Plain("C", <<P(N2("x", "valid"), "out", Type("structs", "t", <<<<1, 0>>>>, Stream), ""),
                       Out(N2("x", "data"))>>)
\* The clock of the core is a signal of its interface.
Clocked == Module("C", <<In(<<"x">>)>>,
                  <<Intf("x", "SVB", "subordinate", [s \in {"REQ"} |-> Sel(<<"x">>, <<>>)], "", 0)>>,
                  <<>>, <<[name |-> "c", port |-> <<"x">>]>>, <<>>)
\* The interface has a bit of an array in a struct, of which a file keeps one dimension.
Deep == Module("C", <<P(<<"p">>, "in", Type("struct", "t", <<>>, <<Leaf("data", <<<<1, 0>>, <<1, 0>>>>)>>), "")>>,
               <<Intf("x", "SVB", "subordinate",
                      [s \in {"REQ"} |-> Sel(<<"p">>, <<Field(<<"data">>), Slice(1, 1), Slice(0, 0)>>)], "", 0)>>,
               <<>>, <<>>, <<>>)
\* Prefixes that become suffixes, with a name that is taken; a stream inside the prefix of
\* another, and a prefix that a hint joins to it.
Prefixed == Plain("C", <<In(<<"i", "_", "s", "_", "valid">>), Out(<<"o", "_", "s", "_", "ready">>),
                         In(<<"s", "_", "valid", "_", "i">>), Out(N2("p", "valid")),
                         Out(<<"p", "_", "data", "_", "valid">>), In(<<"p", "_", "data", "_", "ready">>),
                         Out(N2("m", "data")), Out(N2("m", "x"))>>)
\* One candidate only, which lacks a required signal: it cannot be mapped.
Odd == Plain("A", <<In(<<"ready">>), Out(<<"data">>)>>)

Request(modules, defs, tops, only, hints) ==
    [modules |-> modules, defs |-> defs, tops |-> tops, only |-> only, hints |-> hints]
MCRequests ==
    {Request(<<Fifo, Structs>>, {}, {"A"}, {}, <<>>),
     Request(<<Core>>, {}, {}, {}, <<>>),
     Request(<<Own>>, {"SVB"}, {}, {}, <<>>),
     Request(<<Wide>>, {}, {}, {}, <<>>), Request(<<Odd>>, {}, {}, {}, <<>>),
     Request(<<Structs, Clocked>>, {}, {}, {"AXI"}, <<>>), Request(<<Deep>>, {"SVB"}, {}, {}, <<>>),
     Request(<<Arrays>>, {}, {}, {}, (N2("x", "valid") :> <<"bus">>)),
     Request(<<Prefixed>>, {}, {}, {}, (<<"p">> :> <<"bus">>) @@ (<<"m">> :> <<"bus">>))}
MCBuiltin == <<"AXI">>
MCHomeFiles == {ConfigFile("absent", <<>>, "unset"),
                ConfigFile("valid", <<<<"r", "P">>>>, "yes")}

ASSUME SourcesApart == HintsApart

\* What the file of Deep keeps is what makes the interface's part no part any more.
ASSUME DeepIsLost ==
    /\ FoldLeft(Select, Deep.ports[1].type, Deep.intfs[1].signals["REQ"].ops) # BadType
    /\ Lost(Deep) /\ Representable(Deep)
=============================================================================
