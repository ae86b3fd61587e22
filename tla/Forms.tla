------------------------------- MODULE Forms -------------------------------
(***************************************************************************)
(* The forms of one design and the ways between them: shown as a dataflow, *)
(* edited in the page, validated and parsed (`topwrap gui'), saved as a    *)
(* description and read again, and written as SystemVerilog (`topwrap      *)
(* build' of a description, or a run from the page).                       *)
(***************************************************************************)
EXTENDS KpmFrontend, KpmValidator, DesignYaml, SvNets

CONSTANTS Chosen,     \* the designs to begin with, with their modules
          OldFlows,   \* dataflows of older versions
          MaxEdits    \* a bound on the edits in the page

VARIABLES chosen,     \* the design
          edits,      \* how many edits the graphs have had, but for texts of properties
          notes,      \* what the validator says or that it raised, as a sequence of none or one
          yaml,       \* the file saved
          loaded,     \* what has been read from it
          sv          \* the design written as SystemVerilog, and its nets

vars == <<parseVars, flow, chosen, edits, notes, yaml, loaded, sv>>
formVars == <<chosen, edits, notes, yaml, loaded, sv>>

Init ==
    /\ chosen \in Chosen
    /\ flow = <<>> /\ edits = 0 /\ notes = <<>>
    /\ yaml = <<>> /\ loaded = <<>> /\ sv = <<>>
    /\ IdleParser

Shown1 == flow # <<>>

Show ==
    /\ ~Shown1 /\ yaml = <<>> /\ sv = <<>>
    /\ flow' = Represent(chosen.des, chosen.mods)
    /\ UNCHANGED <<parseVars, formVars>>

\* A dataflow made by an older version is imported.
Open ==
    /\ ~Shown1 /\ yaml = <<>> /\ sv = <<>>
    /\ flow' \in OldFlows
    /\ edits' = MaxEdits
    /\ UNCHANGED <<parseVars, chosen, notes, yaml, loaded, sv>>

(***************************************************************************)
(* Edits in the page.  An output is connected to an input of the same kind *)
(* that has no connection yet, or to any at a node that takes more.        *)
(***************************************************************************)
Editing == Shown1 /\ notes = <<>> /\ edits < MaxEdits

Edited(g, graph2) ==
    /\ flow' = [flow EXCEPT ![g] = graph2]
    /\ edits' = edits + 1
    /\ UNCHANGED <<parseVars, chosen, notes, yaml, loaded, sv>>

\* What the page knows of the type of an interface.
Kind(g, i) ==
    LET n == flow[g].nodes[i[1]]
        ios == IF n.kind = "ip" THEN Having(chosen.mods[n.mod].ios, i[2]) ELSE <<>>
    IN  CASE n.kind = "io" -> {"port", "intf"}
          [] n.kind = "inter" -> {IF i[2] \in {"clk", "rst"} THEN "port" ELSE "intf"}
          [] n.kind = "ip" -> {IF IsInterface(ios[1]) THEN "intf" ELSE "port"}
          [] OTHER -> {"port"}

Interfaces1(g) == UNION {{<<n, i>> : i \in DOMAIN flow[g].nodes[n].ifs} : n \in DOMAIN flow[g].nodes}
Free(g, i) == flow[g].nodes[i[1]].kind = "io" \/ ~\E c \in ToSet(flow[g].conns) : c[2] = i

ConnectIn(g) ==
    \E o, i \in Interfaces1(g) :
        /\ o[1] # i[1]
        /\ DirOf(flow[g], o) = "out" /\ DirOf(flow[g], i) = "in"
        /\ Kind(g, o) \cap Kind(g, i) # {}
        /\ Free(g, i)
        /\ <<o, i>> \notin ToSet(flow[g].conns)
        /\ Edited(g, [flow[g] EXCEPT !.conns = Append(@, <<o, i>>)])

DisconnectIn(g) ==
    \E k \in DOMAIN flow[g].conns : Edited(g, [flow[g] EXCEPT !.conns = RemoveAt(@, k)])

AddNodeIn(g) ==
    \E n \in {InverterNode, ClockDomainNode([name |-> "new"]), ConstNode("1")} :
        Edited(g, [flow[g] EXCEPT !.nodes = Append(@, n)])

\* The name of an external is cleared.
UnexposeIn(g) ==
    \E n \in DOMAIN flow[g].nodes :
        /\ flow[g].nodes[n].kind = "io"
        /\ Edited(g, [flow[g] EXCEPT !.nodes[n].ext = <<>>])

\* A domain is given for a clock of an instance.
AssignIn(g) ==
    \E n \in DOMAIN flow[g].nodes : \E c \in DOMAIN flow[g].nodes[n].clk : \E d \in {"default", "other"} :
        /\ flow[g].nodes[n].clk[c] # d
        /\ Edited(g, [flow[g] EXCEPT !.nodes[n].clk[c] = d])

Edit ==
    /\ Editing
    /\ \E g \in DOMAIN flow :
          ConnectIn(g) \/ DisconnectIn(g) \/ AddNodeIn(g) \/ UnexposeIn(g) \/ AssignIn(g)

\* A text that the checks would raise at is written in another way, that means the same.
Rewritten(p) ==
    CASE p = "Interconnect configuration" -> "atop: false,"
      [] p = "Synchronous to" -> "none"
      [] OTHER -> Managers[1] :> "default"

Configure ==
    /\ Shown1 /\ notes = <<>>
    /\ \E g \in DOMAIN flow : \E n \in DOMAIN flow[g].nodes :
          /\ flow[g].nodes[n].kind \in {"inter", "rst"}
          /\ \E p \in DOMAIN flow[g].nodes[n].props :
                /\ Raises(Texts(flow[g].nodes[n])[p])
                /\ flow' = [flow EXCEPT ![g].nodes[n].props[p] = Rewritten(p)]
    /\ UNCHANGED <<parseVars, formVars>>

(***************************************************************************)
(* dataflow_run: the checks, and the frontend unless one of them fails.    *)
(* An exception in a check ends the run as well.                           *)
(***************************************************************************)
Validate ==
    /\ Shown1 /\ notes = <<>>
    /\ LET raised == CheckRaises(flow)
       IN  notes' = <<[raised |-> raised, errors |-> IF raised THEN {} ELSE Errors(flow),
                       warnings |-> IF raised THEN {} ELSE Warnings(flow)]>>
    /\ UNCHANGED <<parseVars, flow, chosen, edits, yaml, loaded, sv>>

Valid == notes # <<>> /\ ~notes[1].raised /\ notes[1].errors = {}

Parse == Valid /\ ParseNext /\ UNCHANGED <<flow, formVars>>

(***************************************************************************)
(* What is saved and written: the design that was chosen, the one parsed   *)
(* or the one read.  A design with parts of another is not followed.       *)
(***************************************************************************)
IsWhole(des, mods) ==
    /\ \A c \in ToSet(des.conns) : IsThere(des, mods, c.src) /\ IsThere(des, mods, c.tgt)
    /\ \A i \in ToSet(des.inters) : \A e \in {i.clock, i.reset} \cup ToSet(i.mans) \cup {s.at : s \in ToSet(i.subs)} :
           IsThere(des, mods, e)
    /\ \A d \in ToSet(des.cdoms) : IsThere(des, mods, d.clock)
    /\ \A d \in ToSet(des.rdoms) : IsThere(des, mods, d.reset)
    /\ \A c \in ToSet(des.comps) : Foreign \notin {c.clk[x] : x \in DOMAIN c.clk} \cup {c.rst[x] : x \in DOMAIN c.rst}

Parsed == parsed # <<>> /\ parsed[1].ok
Current == IF Parsed THEN [des |-> parsed[1].des, mods |-> Mods] ELSE chosen
CanUse(x) == IsWhole(x.des, x.mods) /\ \A c \in Hiers(x.des, x.mods) : IsWhole(x.mods[c.mod].design[1], x.mods)
Ready == ~Shown1 \/ Parsed

Save ==
    /\ Ready /\ yaml = <<>> /\ sv = <<>>
    /\ CanUse(Current) /\ CanSave(Current.des, Current.mods)
    /\ yaml' = SaveYaml(Current.des, Current.mods)
    /\ UNCHANGED <<parseVars, flow, chosen, edits, notes, loaded, sv>>

Load ==
    /\ yaml # <<>> /\ loaded = <<>>
    /\ loaded' = <<LoadYaml(yaml)>>
    /\ UNCHANGED <<parseVars, flow, chosen, edits, notes, yaml, sv>>

Generate(full) ==
    sv' = <<[des |-> full.des, mods |-> full.mods, nets |-> Serialize(full.des, full.mods)]>>

\* Each design of a hierarchy is written as a module of its own: this is the one at the top.  The
\* generator for AXI makes other ports and is not followed.
Emit ==
    /\ Ready /\ sv = <<>> /\ (yaml # <<>> => loaded # <<>> /\ loaded[1].ok)
    /\ LET from == IF loaded # <<>> THEN loaded[1] ELSE Current
       IN  /\ CanUse(from) /\ \A i \in ToSet(from.des.inters) : i.type # Axi
           /\ Generate(WithInterconnects(from.des, from.mods))
    /\ UNCHANGED <<parseVars, flow, chosen, edits, notes, yaml, loaded>>

Next == Show \/ Open \/ Edit \/ Configure \/ Validate \/ Parse \/ Save \/ Load \/ Emit

Spec == Init /\ [][Next]_vars
=============================================================================
