-------------------------- MODULE MCBuildPipeline --------------------------
(***************************************************************************)
(* A pipeline with two plugins, two transformations and two validations,   *)
(* of which one each is for designs only, an output stage that keeps what  *)
(* it generates and one that writes from the top module.                   *)
(***************************************************************************)
EXTENDS BuildPipeline

ThePlugins == <<1, 10>>
TheSteps == <<[priority |-> 1, design_only |-> FALSE],
              [priority |-> 2, design_only |-> TRUE]>>
TwoEqual == <<[priority |-> 1, design_only |-> TRUE],
              [priority |-> 1, design_only |-> FALSE]>>
=============================================================================
