--------------------------- MODULE BuildPipeline ---------------------------
(***************************************************************************)
(* The build pipeline (plugin/pipeline.py): `prepare' reads the sources    *)
(* into a BuildContext, `process' transforms and validates the modules of  *)
(* the context and generates outputs, `build' writes them, `run' does all  *)
(* three.  Plugins are called at fixed points on the way.                  *)
(*                                                                         *)
(* A call goes through phases, each a loop over plugins or stages with a   *)
(* step for each of them.  Transformations and validations have an inner   *)
(* loop over the modules loaded, which sees a module that is appended      *)
(* while the loop runs.  Each step may raise an exception, which ends the  *)
(* call and leaves everything as it is by then; the owner of the pipeline  *)
(* may call again.                                                         *)
(*                                                                         *)
(* A module is abstracted to whether it has a design, and what was done    *)
(* with it in the current call of `process'.                               *)
(***************************************************************************)
EXTENDS Naturals, Sequences, FiniteSets, SequencesExt

CONSTANTS Plugins,      \* priorities of the plugins, as they are installed
          Inputs,       \* input stages that read the configuration of a design
          Transforms,   \* transformations, as given to the pipeline:
          Validations,  \* and validations; [priority, design_only]
          Outputs,      \* output stages
          Stored,       \* those that keep what they generate in the context
          Configured,   \* design sources with a section `config'
          Plain,        \* design sources without one
          None,
          MaxCalls,     \* calls the owner makes (a bound)
          MaxMods       \* modules in a context (a bound)

Steps == [priority : Nat, design_only : BOOLEAN]
Sources == Configured \cup Plain \cup {None}

ASSUME Parts == /\ Plugins \in Seq(Nat) /\ Transforms \in Seq(Steps)
                /\ Validations \in Seq(Steps)
                /\ Inputs \in Nat
                /\ IsFiniteSet(Outputs) /\ Stored \subseteq Outputs
                /\ None \notin Configured \cup Plain
                /\ MaxCalls \in Nat /\ MaxMods \in Nat

VARIABLES
    op,       \* the call that runs, or "none"
    p,        \* its phase
    n,        \* the step of the phase
    k,        \* the module the step is at
    source,   \* the design source of the last `prepare'
    ctx,      \* self._ctx
    settings, \* the source whose `config' the global configuration has
    disk,     \* what was written last, by output stage
    calls     \* how many calls were made

vars == <<op, p, n, k, source, ctx, settings, disk, calls>>
-----------------------------------------------------------------------------
(***************************************************************************)
(* The order of steps: sorted by decreasing priority, and equals in the    *)
(* order they were given (`sorted' is stable, with `reverse' too).         *)
(***************************************************************************)
Before(s, i, j) == s[i] > s[j] \/ (s[i] = s[j] /\ i < j)

\* Mutant: sorted by increasing priority.
SortedUp(s) ==
    [r \in 1..Len(s) |-> CHOOSE i \in 1..Len(s) :
        r = Cardinality({j \in 1..Len(s) : s[j] < s[i] \/ (s[j] = s[i] /\ j <= i)})]

\* The indices of s in the order their steps run.
Sorted(s) ==
    [r \in 1..Len(s) |-> CHOOSE i \in 1..Len(s) :
        r = 1 + Cardinality({j \in 1..Len(s) : Before(s, j, i)})]

Priorities(s) == [i \in 1..Len(s) |-> s[i].priority]

Hooks == {"pre_ir_generation", "post_ir_generation", "pre_transform",
          "post_transform", "pre_validate", "post_validate",
          "pre_output_generation", "post_output_generation",
          "pre_output_writing", "post_output_writing"}

\* Mutant: the outputs are generated before the validations.
PhasesEarlyOutput ==
    <<"pre_parse", "repos", "pre_ir_generation", "inputs", "post_ir_generation",
      "pre_transform", "transform", "post_transform",
      "pre_output_generation", "generate", "post_output_generation",
      "pre_validate", "validate", "post_validate",
      "mkdir", "pre_output_writing", "write", "post_output_writing">>

\* The phases of `run'; each of the other calls is a stretch of them.
Phases ==
    <<"pre_parse", "repos", "pre_ir_generation", "inputs", "post_ir_generation",
      "pre_transform", "transform", "post_transform",
      "pre_validate", "validate", "post_validate",
      "pre_output_generation", "generate", "post_output_generation",
      "mkdir", "pre_output_writing", "write", "post_output_writing">>

FirstPhase == [prepare |-> 1, process |-> 6, build |-> 15, run |-> 1]
LastPhase  == [prepare |-> 5, process |-> 14, build |-> 18, run |-> 18]

\* Who has a step in a phase, in order.
Items(ph) ==
    CASE ph \in Hooks -> Sorted(Plugins)
      [] ph \in {"pre_parse", "inputs"} -> [i \in 1..Inputs |-> i]
      [] ph = "transform" -> Sorted(Priorities(Transforms))
      [] ph = "validate" -> Sorted(Priorities(Validations))
      [] ph \in {"generate", "write"} -> SetToSeq(Outputs)
      [] OTHER -> <<1>>

Phase == Phases[p]
At(ph) == op # "none" /\ Phase = ph /\ n <= Len(Items(ph))

\* The plugin or stage of the step.
Who == Items(Phase)[n]

\* Whether phase ph is over.
Past(ph) == \A r \in p..Len(Phases) : Phases[r] # ph
-----------------------------------------------------------------------------
\* `ran' and `seen': the transformations and validations it went through
\* in this call of process; `since' and `from': those under way when the
\* module came, in the order of their sequences, 0 before them.
Module(design, s, f) ==
    [design |-> design, ran |-> <<>>, seen |-> <<>>, since |-> s, from |-> f]

Fresh(m) == Module(m.design, 0, 0)

\* The next step.
Goes == n' = n + 1 /\ k' = 1 /\ UNCHANGED <<op, p>>

\* An exception ends the call.
Raise == op' = "none" /\ p' = 1 /\ n' = 1 /\ k' = 1

\* Mutant: a call goes one phase too far.
EndsLate ==
    /\ op # "none" /\ n > Len(Items(Phase))
    /\ n' = 1 /\ k' = 1
    /\ IF p <= LastPhase[op] /\ p < Len(Phases)
       THEN p' = p + 1 /\ op' = op
       ELSE p' = 1 /\ op' = "none"
    /\ UNCHANGED <<source, ctx, settings, disk, calls>>

\* The loop of a phase ends, and with the last phase the call.
EndPhase ==
    /\ op # "none" /\ n > Len(Items(Phase))
    /\ n' = 1 /\ k' = 1
    /\ IF p < LastPhase[op]
       THEN p' = p + 1 /\ op' = op
       ELSE p' = 1 /\ op' = "none"
    /\ UNCHANGED <<source, ctx, settings, disk, calls>>

\* The first step of a phase that sees a module that comes now.
Missed(ph) == CASE Past(ph) -> Len(Items(ph)) + 1
                [] Phase = ph -> n
                [] OTHER -> 0

Joins(design) ==
    Module(design, Missed("transform"), Missed("validate"))

\* Plugins and transformations are given the context: they may add to it.
MayAdd == \/ ctx' = ctx
          \/ /\ Len(ctx.mods) < MaxMods
             /\ \E d \in BOOLEAN : ctx' = [ctx EXCEPT !.mods = Append(@, Joins(d))]

Init == /\ op = "none" /\ p = 1 /\ n = 1 /\ k = 1
        /\ source = None
        /\ ctx = None
        /\ settings = None
        /\ disk = [o \in Outputs |-> None]
        /\ calls = 0

\* The owner makes a call; process and build need a context.
Call(o) ==
    /\ op = "none" /\ calls < MaxCalls
    /\ o \in {"process", "build"} => ctx # None
    /\ op' = o /\ p' = FirstPhase[o] /\ n' = 1 /\ k' = 1
    /\ calls' = calls + 1
    /\ IF o \in {"prepare", "run"} THEN source' \in Sources ELSE source' = source
    /\ ctx' = IF o = "process"
              THEN [ctx EXCEPT !.mods = [i \in 1..Len(@) |-> Fresh(@[i])]]
              ELSE ctx
    /\ UNCHANGED <<settings, disk>>

\* pre_parse_input: the `config' of the design goes to the global one.
PreParse ==
    /\ At("pre_parse")
    /\ \/ /\ settings' = IF source \in Configured THEN source ELSE settings
          /\ Goes
       \/ Raise /\ UNCHANGED settings
    /\ UNCHANGED <<source, ctx, disk, calls>>

\* Mutant: the outputs of the last context are kept.
ContextKeepsOutputs ==
    [gen |-> calls, repos |-> settings, mods |-> <<>>, top |-> 0,
     outputs |-> IF ctx = None THEN [o \in {} |-> None] ELSE ctx.outputs]

\* The new context; `gen' tells it from the ones before.
Context == [gen |-> calls, repos |-> settings, mods |-> <<>>, top |-> 0,
            outputs |-> [o \in {} |-> None]]

\* The repositories are loaded and the context is replaced.
LoadRepos ==
    /\ At("repos")
    /\ \/ ctx' = Context /\ Goes
       \/ ctx' = ctx /\ Raise
    /\ UNCHANGED <<source, settings, disk, calls>>

\* PluginManager.trigger, for one plugin.
Hook ==
    /\ Phase \in Hooks /\ At(Phase)
    /\ MayAdd
    /\ Goes \/ Raise
    /\ UNCHANGED <<source, settings, disk, calls>>

\* process_input: the modules of the sources, then the design.  One that
\* raises may have added the modules it had read by then.
ProcessInput ==
    /\ At("inputs")
    /\ \E mods \in {<<>>, <<Joins(FALSE)>>} :
       LET add(ds) == [ctx EXCEPT !.mods = @ \o mods \o [i \in 1..Len(ds) |-> Joins(ds[i])],
                                  !.top = IF ds = <<>> THEN @ ELSE Len(ctx.mods \o mods) + 1] IN
       /\ Len(ctx.mods \o mods) < MaxMods
       /\ \/ /\ ctx' = add(IF source = None THEN <<>> ELSE <<TRUE>>)
             /\ Goes
          \/ /\ ctx' = add(<<>>)
             /\ Raise
          \/ /\ source # None     \* what was to be the design has none
             /\ ctx' = add(<<FALSE>>)
             /\ Raise
    /\ UNCHANGED <<source, settings, disk, calls>>

\* The inner loop: the next module, or the next step after the last one.
Loop == /\ k <= Len(ctx.mods)
        /\ k' = k + 1 /\ UNCHANGED <<op, p, n>>

EndLoop(ph) == /\ At(ph) /\ k > Len(ctx.mods)
               /\ Goes
               /\ UNCHANGED <<source, ctx, settings, disk, calls>>

\* Mutant: the steps for designs run for the other modules only.
SkipsDesigns(s) == s.design_only /\ ctx.mods[k].design

\* Steps for designs pass over the other modules.
Skips(s) == s.design_only /\ ~ctx.mods[k].design

Skip == /\ \/ At("transform") /\ k <= Len(ctx.mods) /\ Skips(Transforms[Who])
           \/ At("validate") /\ k <= Len(ctx.mods) /\ Skips(Validations[Who])
        /\ Loop
        /\ UNCHANGED <<source, ctx, settings, disk, calls>>

\* apply_transformation: changes the module in place, and may do so in part
\* before it raises.
Transform ==
    /\ At("transform") /\ k <= Len(ctx.mods)
    /\ ~Skips(Transforms[Who])
    /\ LET done == [ctx EXCEPT !.mods[k].ran = Append(@, Who)] IN
       \/ ctx' = done /\ Loop
       \/ /\ Len(ctx.mods) < MaxMods
          /\ \E d \in BOOLEAN : ctx' = [done EXCEPT !.mods = Append(@, Joins(d))]
          /\ Loop
       \/ ctx' = done /\ Raise
    /\ UNCHANGED <<source, settings, disk, calls>>

\* validate: changes nothing, or raises.
Validate ==
    /\ At("validate") /\ k <= Len(ctx.mods)
    /\ ~Skips(Validations[Who])
    /\ \/ ctx' = [ctx EXCEPT !.mods[k].seen = Append(@, Who)] /\ Loop
       \/ ctx' = ctx /\ Raise
    /\ UNCHANGED <<source, settings, disk, calls>>

\* What a stage makes of the context, and in which call.
Made == [gen |-> ctx.gen, call |-> calls,
         of |-> IF ctx.top = 0 THEN None ELSE ctx.mods[ctx.top]]

\* Mutant: a second output replaces the first one.
GenerateAgain ==
    /\ At("generate")
    /\ \/ Who \in Stored
          /\ ctx' = [ctx EXCEPT !.outputs = [o \in DOMAIN @ \cup {Who} |->
                                               IF o = Who THEN Made ELSE @[o]]]
          /\ Goes
       \/ Who \notin Stored /\ Goes /\ UNCHANGED ctx
    /\ UNCHANGED <<source, settings, disk, calls>>

\* generate_output: it asserts that its output is not there yet.
Generate ==
    /\ At("generate")
    /\ \/ /\ Who \in Stored \ DOMAIN ctx.outputs
          /\ ctx' = [ctx EXCEPT !.outputs = [o \in DOMAIN @ \cup {Who} |->
                                               IF o = Who THEN Made ELSE @[o]]]
          /\ Goes
       \/ Who \notin Stored /\ Goes /\ UNCHANGED ctx
       \/ Who \in Stored /\ Raise /\ UNCHANGED ctx
    /\ UNCHANGED <<source, settings, disk, calls>>

MakeDirs ==
    /\ At("mkdir")
    /\ Goes \/ Raise
    /\ UNCHANGED <<source, ctx, settings, disk, calls>>

\* write_output_to: the stored output, or one made from the top module.
Write ==
    /\ At("write")
    /\ LET o == Who IN
       \/ /\ o \in Stored /\ o \in DOMAIN ctx.outputs
          /\ disk' = [disk EXCEPT ![o] = ctx.outputs[o]]
          /\ Goes
       \/ /\ o \notin Stored /\ ctx.top # 0
          /\ disk' = [disk EXCEPT ![o] = Made]
          /\ Goes
       \/ Raise /\ UNCHANGED disk
    /\ UNCHANGED <<source, ctx, settings, calls>>

Next == \/ \E o \in {"prepare", "process", "build", "run"} : Call(o)
        \/ EndPhase \/ PreParse \/ LoadRepos \/ Hook \/ ProcessInput
        \/ EndLoop("transform") \/ EndLoop("validate") \/ Skip
        \/ Transform \/ Validate \/ Generate \/ MakeDirs \/ Write

Spec == Init /\ [][Next]_vars
-----------------------------------------------------------------------------
Mods == [design : BOOLEAN,
         ran : Seq(1..Len(Transforms)), seen : Seq(1..Len(Validations)),
         since : 0..Len(Transforms) + 1, from : 0..Len(Validations) + 1]

Gens == 1..MaxCalls

\* One invariant for the types of the variables.
TypeOK ==
    /\ op \in {"none"} \cup DOMAIN FirstPhase
    /\ op # "none" => p \in FirstPhase[op]..LastPhase[op] /\ n \in 1..Len(Items(Phase)) + 1
    /\ k \in 1..(MaxMods + 1) /\ calls \in 0..MaxCalls
    /\ source \in Sources /\ settings \in Configured \cup {None}
    /\ ctx # None => /\ ctx.gen \in Gens /\ ctx.repos \in Configured \cup {None}
                     /\ ctx.mods \in Seq(Mods) /\ Len(ctx.mods) <= MaxMods
                     /\ ctx.top \in 0..Len(ctx.mods)
                     /\ DOMAIN ctx.outputs \subseteq Stored
    /\ \A o \in Outputs : disk[o] # None => disk[o].gen \in Gens

\* Steps `run' is what the steps of s do to a module with a design or
\* without one that comes at step `since': each step from then on that
\* applies, once, in the order of priorities.
Served(run, s, design, since) ==
    /\ ToSet(run) = {i \in 1..Len(s) :
                        /\ s[i].design_only => design
                        /\ 1 + Cardinality({j \in 1..Len(s) :
                                Before(Priorities(s), j, i)}) >= since}
    /\ \A a, b \in 1..Len(run) : a < b => Before(Priorities(s), run[a], run[b])

Transformed(m) == Served(m.ran, Transforms, m.design, m.since)
Validated(m) == Served(m.seen, Validations, m.design, m.from)

(***************************************************************************)
(* Once the transformations of a call of process are through, each module  *)
(* has had all that apply to it from the moment it was loaded, once and in *)
(* order of decreasing priority, whether it was there from the start or a  *)
(* plugin or a transformation appended it while the loop ran; and the same *)
(* for the validations.                                                    *)
(***************************************************************************)
ServedFromBirth ==
    op \in {"process", "run"} /\ ctx # None =>
        \A i \in 1..Len(ctx.mods) :
            /\ Past("transform") => Transformed(ctx.mods[i])
            /\ Past("validate") => Validated(ctx.mods[i])

(***************************************************************************)
(* However the calls of prepare, process and build follow each other, and  *)
(* whichever of them failed, an output that a stage keeps in the context   *)
(* was made of a top module that all transformations had changed and all   *)
(* validations had passed.                                                 *)
(***************************************************************************)
StoredIsProcessed ==
    \A o \in Stored : disk[o] # None /\ disk[o].of # None =>
        Transformed(disk[o].of) /\ Validated(disk[o].of)

(***************************************************************************)
(* `run' stops at the first exception: all that it writes, the outputs     *)
(* made of the top module at the end too, is of a module that was          *)
(* transformed and validated.  (A `build' of one's own has no such check.) *)
(***************************************************************************)
RunWritesProcessed ==
    op = "run" => \A o \in Outputs :
        disk[o] # None /\ disk[o].gen = calls /\ disk[o].of # None =>
            Transformed(disk[o].of) /\ Validated(disk[o].of)

(***************************************************************************)
(* What is written was made of the context the pipeline has: an output of  *)
(* an earlier context is never written again after a new `prepare'.        *)
(***************************************************************************)
WritesOwnContext ==
    [][\A o \in Outputs : disk'[o] # disk[o] => disk'[o].gen = ctx.gen]_vars

(***************************************************************************)
(* An output kept in a context stays: a second `process' of the same       *)
(* context does not replace it (the stages assert that it is not there).   *)
(***************************************************************************)
OutputsStay ==
    [][ctx # None /\ ctx' # None /\ ctx'.gen = ctx.gen =>
         \A o \in DOMAIN ctx.outputs :
             o \in DOMAIN ctx'.outputs /\ ctx'.outputs[o] = ctx.outputs[o]]_vars

(***************************************************************************)
(* "Hooks are invoked in order of decreasing priority" (BasePlugin), and   *)
(* equals in the order they are installed.                                 *)
(***************************************************************************)
HooksByPriority ==
    [][op # "none" /\ op' = op /\ p' = p /\ n' = n + 1 /\ Phase \in Hooks
         /\ n' <= Len(Items(Phase)) => Before(Plugins, Who, Who')]_vars
=============================================================================
