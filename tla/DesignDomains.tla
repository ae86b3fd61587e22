--------------------------- MODULE DesignDomains ---------------------------
(***************************************************************************)
(* Clock and reset domains of a design: how the frontend assigns the clock *)
(* and reset inputs of the instances to domains                            *)
(* (frontend/yaml/design.py, _parse_clocks_resets), and how they become    *)
(* connections and are checked (model/design.py, lower_domains and         *)
(* check_intf_cdc).                                                        *)
(*                                                                         *)
(* Instances are taken in order; an exception ends the work with the       *)
(* connections made so far.  A domain is abstracted to its name, which     *)
(* also stands for the port that drives it.                                *)
(***************************************************************************)
EXTENDS Naturals, Sequences

CONSTANTS Comps,      \* the instances, in the order of the design
          Clocks,     \* names of clock inputs
          Resets,     \* names of reset inputs
          Names,      \* names of domains
          Default,    \* the one that is implied
          Mentioned,  \* names that are given for inputs (a bound)
          Modules,    \* what may be instantiated
          ResetDoms,  \* what a reset domain may be
          Links,      \* sets of interface connections
          None

Insts == {Comps[i] : i \in 1..Len(Comps)}

\* `clocks' are the clock inputs, `resets' the reset inputs in order, each
\* active low or high and synchronous to a clock or asynchronous (None);
\* `bus' is the clock of the module's interface, if it is known.
ModuleType(m) ==
    /\ m.clocks \subseteq Clocks
    /\ m.resets \in Seq([name : Resets, low : BOOLEAN, sync : m.clocks \cup {None}])
    /\ \A i, j \in 1..Len(m.resets) : m.resets[i].name = m.resets[j].name => i = j
    /\ m.bus \in m.clocks \cup {None}

ASSUME Shapes ==
    /\ Comps \in Seq(Insts)
    /\ Default \in Names /\ Mentioned \subseteq Names /\ None \notin Names /\ None \notin Clocks
    /\ \A m \in Modules : ModuleType(m)
    /\ ResetDoms \subseteq [low : BOOLEAN, sync : Names \cup {None}]
    /\ None \notin ResetDoms
    /\ \A L \in Links : L \subseteq Insts \X Insts

VARIABLES
    mods,    \* the module of each instance
    asked,   \* the domains the description gives, by instance and input
    askedR,  \* and the reset domains
    cdoms,   \* the clock domains of the design
    rdoms,   \* its reset domains, by name; None: there is none
    links,   \* its interface connections
    pc,      \* what is done next
    at,      \* with which instance
    rst,     \* and which of its resets
    clocks,  \* ModuleInstance.clocks
    resets,  \* ModuleInstance.resets
    conns    \* the connections made

inputs == <<mods, asked, askedR, cdoms, rdoms, links>>
vars == <<inputs, pc, at, rst, clocks, resets, conns>>

Comp == Comps[at]
ResetNames(c) == {mods[c].resets[i].name : i \in 1..Len(mods[c].resets)}

Init ==
    /\ mods \in [Insts -> Modules]
    /\ asked \in [Insts -> [Clocks -> Mentioned \cup {None}]]
    /\ askedR \in [Insts -> [Resets -> Mentioned \cup {None}]]
    /\ cdoms \in SUBSET Names
    /\ rdoms \in [Names -> ResetDoms \cup {None}]
    \* a reset domain is read after the clock domain it names
    /\ \A d \in Names : rdoms[d] # None => rdoms[d].sync \in cdoms \cup {None}
    /\ links \in Links
    /\ pc = IF Comps = <<>> THEN "ok" ELSE "assign"
    /\ at = 1 /\ rst = 1
    /\ clocks = [c \in Insts |-> [k \in Clocks |-> None]]
    /\ resets = [c \in Insts |-> [r \in Resets |-> None]]
    /\ conns = {}

Fail == pc' = "failed" /\ UNCHANGED <<inputs, at, rst, clocks, resets, conns>>
-----------------------------------------------------------------------------
(***************************************************************************)
(* _parse_clock_reset_assignments                                          *)
(***************************************************************************)
\* The domain given for an input of the module, or the default.
Given(names, given, known) ==
    [k \in names |-> IF k \notin known THEN None
                     ELSE IF given[k] = None THEN Default ELSE given[k]]

\* Mutant: the domains are not looked up.
BadInputs(c) ==
    \/ \E k \in Clocks \ mods[c].clocks : asked[c][k] # None
    \/ \E r \in Resets \ ResetNames(c) : askedR[c][r] # None

\* An input or a domain is named that does not exist.
BadNames(c) ==
    \/ \E k \in Clocks \ mods[c].clocks : asked[c][k] # None
    \/ \E r \in Resets \ ResetNames(c) : askedR[c][r] # None
    \/ \E k \in mods[c].clocks : Given(Clocks, asked[c], mods[c].clocks)[k] \notin cdoms
    \/ \E r \in ResetNames(c) : rdoms[Given(Resets, askedR[c], ResetNames(c))[r]] = None

Assign ==
    /\ pc = "assign"
    /\ ~BadNames(Comp)
    /\ clocks' = [clocks EXCEPT ![Comp] = Given(Clocks, asked[Comp], mods[Comp].clocks)]
    /\ resets' = [resets EXCEPT ![Comp] = Given(Resets, askedR[Comp], ResetNames(Comp))]
    /\ IF at < Len(Comps) THEN at' = at + 1 /\ pc' = pc
                          ELSE at' = 1 /\ pc' = "clocks"
    /\ UNCHANGED <<inputs, rst, conns>>

AssignFails == pc = "assign" /\ BadNames(Comp) /\ Fail
-----------------------------------------------------------------------------
(***************************************************************************)
(* lower_domains                                                           *)
(***************************************************************************)
ClockConn(c, k, d) == [from |-> d, to |-> <<c, k>>, invert |-> FALSE]

LowerClocks ==
    /\ pc = "clocks"
    /\ conns' = conns \cup {ClockConn(Comp, k, clocks[Comp][k]) : k \in mods[Comp].clocks}
    /\ pc' = "resets" /\ rst' = 1
    /\ UNCHANGED <<inputs, at, clocks, resets>>

Reset == mods[Comp].resets[rst]

\* Mutant: whether the domain is synchronous is all that matters.
MismatchAnyClock(c, r) ==
    r.sync # None /\ rdoms[resets[c][r.name]].sync = None

\* A synchronous reset in an asynchronous domain, or in one that is
\* synchronous to another clock domain than the clock of the reset.
Mismatch(c, r) ==
    r.sync # None /\ rdoms[resets[c][r.name]].sync # clocks[c][r.sync]

\* Mutant: inverted where the polarities agree.
ResetConnWrong(c, r, d) ==
    [from |-> d, to |-> <<c, r.name>>, invert |-> rdoms[d].low = r.low]

\* Inverted where the polarities differ.
ResetConn(c, r, d) ==
    [from |-> d, to |-> <<c, r.name>>, invert |-> rdoms[d].low # r.low]

LowerReset ==
    /\ pc = "resets" /\ rst <= Len(mods[Comp].resets)
    /\ ~Mismatch(Comp, Reset)
    /\ conns' = conns \cup {ResetConn(Comp, Reset, resets[Comp][Reset.name])}
    /\ rst' = rst + 1
    /\ UNCHANGED <<inputs, pc, at, clocks, resets>>

ResetFails ==
    /\ pc = "resets" /\ rst <= Len(mods[Comp].resets)
    /\ Mismatch(Comp, Reset)
    /\ Fail

\* Mutant: an interface without a known clock crosses into every domain.
CrossesUnknown(l) ==
    LET dom(c) == IF mods[c].bus = None THEN None ELSE clocks[c][mods[c].bus] IN
    dom(l[1]) # dom(l[2])

\* Mutant: the clocks are compared by their names.
CrossesByName(l) ==
    /\ mods[l[1]].bus # None /\ mods[l[2]].bus # None
    /\ mods[l[1]].bus # mods[l[2]].bus

\* check_intf_cdc, for one connection.
Crosses(l) ==
    /\ mods[l[1]].bus # None /\ mods[l[2]].bus # None
    /\ clocks[l[1]][mods[l[1]].bus] # clocks[l[2]][mods[l[2]].bus]

\* The check of all connections comes after the resets of each instance.
CheckCdc ==
    /\ pc = "resets" /\ rst > Len(mods[Comp].resets)
    /\ \A l \in links : ~Crosses(l)
    /\ IF at < Len(Comps) THEN at' = at + 1 /\ pc' = "clocks"
                          ELSE at' = 1 /\ pc' = "ok"
    /\ UNCHANGED <<inputs, rst, clocks, resets, conns>>

CdcFails ==
    /\ pc = "resets" /\ rst > Len(mods[Comp].resets)
    /\ \E l \in links : Crosses(l)
    /\ Fail

Next == \/ Assign \/ AssignFails \/ LowerClocks \/ LowerReset \/ ResetFails
        \/ CheckCdc \/ CdcFails

Spec == Init /\ [][Next]_vars
-----------------------------------------------------------------------------
\* One invariant for the types of the variables.
TypeOK ==
    /\ mods \in [Insts -> Modules] /\ cdoms \subseteq Names
    /\ rdoms \in [Names -> ResetDoms \cup {None}]
    /\ asked \in [Insts -> [Clocks -> Mentioned \cup {None}]]
    /\ askedR \in [Insts -> [Resets -> Mentioned \cup {None}]]
    /\ links \in Links
    /\ pc \in {"assign", "clocks", "resets", "ok", "failed"}
    /\ at \in 1..(Len(Comps) + 1) /\ rst \in Nat \ {0}
    /\ clocks \in [Insts -> [Clocks -> Names \cup {None}]]
    /\ resets \in [Insts -> [Resets -> Names \cup {None}]]
    /\ pc \in {"clocks", "resets", "ok"} =>
          \A c \in Insts : /\ \A k \in mods[c].clocks : clocks[c][k] \in cdoms
                           /\ \A r \in ResetNames(c) : resets[c][r] \in Names

\* What the description means: the domain of an input.
DomainOf(c, k) == IF asked[c][k] = None THEN Default ELSE asked[c][k]
ResetDomainOf(c, r) == IF askedR[c][r] = None THEN Default ELSE askedR[c][r]

(***************************************************************************)
(* "If a domain is not assigned explicitly, the clock/reset signal is      *)
(* implicitly assigned to the corresponding `default' domain", "Topwrap    *)
(* will automatically invert connections between resets of different       *)
(* polarities": a design that is accepted has for each clock and reset     *)
(* input of each instance the connection from its domain, inverted where   *)
(* they differ, and no other.                                              *)
(***************************************************************************)
Lowered ==
    pc = "ok" =>
        conns =
          (UNION {{[from |-> DomainOf(c, k), to |-> <<c, k>>, invert |-> FALSE] :
                      k \in mods[c].clocks} : c \in Insts})
          \cup
          (UNION {{[from |-> ResetDomainOf(c, mods[c].resets[i].name),
                    to |-> <<c, mods[c].resets[i].name>>,
                    invert |-> rdoms[ResetDomainOf(c, mods[c].resets[i].name)].low
                                  # mods[c].resets[i].low] :
                      i \in 1..Len(mods[c].resets)} : c \in Insts})

\* What can be wrong with a description.
NameWrong(c) ==
    \/ \E k \in Clocks : asked[c][k] # None /\ k \notin mods[c].clocks
    \/ \E r \in Resets : askedR[c][r] # None /\ r \notin ResetNames(c)
    \/ \E k \in mods[c].clocks : DomainOf(c, k) \notin cdoms
    \/ \E r \in ResetNames(c) : rdoms[ResetDomainOf(c, r)] = None

ResetWrong(c, r) ==
    r.sync # None /\ rdoms[ResetDomainOf(c, r.name)].sync # DomainOf(c, r.sync)

LinkWrong(l) ==
    /\ mods[l[1]].bus # None /\ mods[l[2]].bus # None
    /\ DomainOf(l[1], mods[l[1]].bus) # DomainOf(l[2], mods[l[2]].bus)

(***************************************************************************)
(* In a design that is accepted, a reset that is synchronous to a clock is *)
(* in a reset domain synchronous to the domain of that clock.              *)
(***************************************************************************)
ResetsInStep ==
    pc = "ok" => \A c \in Insts : \A i \in 1..Len(mods[c].resets) :
        ~ResetWrong(c, mods[c].resets[i])

(***************************************************************************)
(* A design that is accepted has no connection between interfaces with     *)
(* known clocks of different domains.                                      *)
(***************************************************************************)
NoCrossing == pc = "ok" => \A l \in links : ~LinkWrong(l)

(***************************************************************************)
(* A design is refused only for a name that does not exist, a synchronous  *)
(* reset in a domain that does not fit, or a connection that crosses.      *)
(***************************************************************************)
RefusedForAReason ==
    pc = "failed" =>
        \/ \E c \in Insts : NameWrong(c)
        \/ \E c \in Insts : \E i \in 1..Len(mods[c].resets) :
              ResetWrong(c, mods[c].resets[i])
        \/ \E l \in links : LinkWrong(l)

(***************************************************************************)
(* "For resets that don't have the same synchronicity, an error is raised" *)
(* (description_files.md): in a design that is accepted, an asynchronous   *)
(* reset is not in a synchronous reset domain either.                      *)
(***************************************************************************)
SameSynchronicity ==
    pc = "ok" => \A c \in Insts : \A i \in 1..Len(mods[c].resets) :
        LET r == mods[c].resets[i] IN
        (r.sync = None) <=> (rdoms[ResetDomainOf(c, r.name)].sync = None)
=============================================================================
