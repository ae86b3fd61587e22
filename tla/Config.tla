------------------------------- MODULE Config -------------------------------
(***************************************************************************)
(* The configuration (config.py): the files of the search path, merged by  *)
(* ConfigManager.load, the nearest one last.                               *)
(*                                                                         *)
(* A file is [state, repos, compliance].  The fields of Config have        *)
(* defaults, so that a file which does not state force_interface_compliance*)
(* ("unset") overrides the files below it with FALSE; only "null" keeps    *)
(* what they say.                                                          *)
(***************************************************************************)
EXTENDS Cores

ConfigFile(state, repos, compliance) ==
    [state |-> state, repos |-> repos, compliance |-> compliance]
NoConfig == [repos |-> <<>>, compliance |-> FALSE]      \* Config()

\* Config.update
UpdateConfig(config, file) ==
    [repos |-> Update(config.repos, file.repos),
     compliance |-> IF file.compliance = "null" THEN config.compliance
                                                 ELSE file.compliance = "yes"]

\* ConfigManager.load: a file that is no valid configuration is passed over.
LoadConfig(searchPath) ==
    FoldRight(LAMBDA file, config : IF file.state = "valid" THEN UpdateConfig(config, file)
                                                            ELSE config,
              searchPath, NoConfig)
=============================================================================
