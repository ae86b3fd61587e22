------------------------------ MODULE Library -------------------------------
(***************************************************************************)
(* User repositories over many runs of topwrap: `topwrap repo init' and    *)
(* `topwrap repo parse' (cli/repo.py), the repositories on disk (repo/)    *)
(* and the configuration that names them.                                  *)
(*                                                                         *)
(* One command runs at a time and can be killed between any two of its     *)
(* writes.  Every file is truncated when it is opened and written          *)
(* afterwards.  `given' is what each core was when it was parsed: no part  *)
(* of the program.                                                         *)
(***************************************************************************)
EXTENDS Inference, IpCores, Config

CONSTANTS RepoNames,     \* names for repositories
          Paths,         \* directories for repositories
          CoreNames,     \* the cores of all sources
          Requests,      \* what `repo parse' is run on: [modules, defs, tops, only, hints],
                         \* the modules and interface definitions of its sources and its options
          HomeFiles,     \* configuration files of the user
          Builtin,       \* the builtin repository: a sequence of definitions
          MaxCommands,   \* bound: commands that are run
          MaxKills       \* bound: commands that are killed

BuiltinPath == "(builtin)"
Places == Paths \cup {BuiltinPath}

\* Sources have modules one after the other; a configuration file gives each repository it
\* names a directory, and no directory of a user is the builtin repository.
ASSUME Inputs == /\ BuiltinPath \notin Paths
                 /\ \A r \in Requests : r.modules \in Seq(ToSet(r.modules))
                 /\ \A f \in HomeFiles : f.repos \in Seq(RepoNames \X Places)

\* Modules have ports of different names.
Shaped(m) ==
    /\ m = Module(m.name, m.ports, m.intfs, m.params, m.clocks, m.resets)
    /\ m.ports \in Seq(ToSet(m.ports)) /\ m.intfs \in Seq(ToSet(m.intfs))
    /\ \A i, j \in DOMAIN m.ports : m.ports[i].name = m.ports[j].name => i = j

\* What inference needs: interfaces of different names, and vectors with bounds.
IsModule(m) ==
    /\ Shaped(m)
    /\ \A i, j \in DOMAIN m.intfs : m.intfs[i].name = m.intfs[j].name => i = j
    /\ \A p \in ToSet(m.ports) :
          /\ p.name \in Seq(ToSet(p.name)) /\ p.type.dims \in Seq(Int \X Int)
          /\ p.type.fields \in Seq(ToSet(p.type.fields))

\* What files need: the ports, signals, clocks and resets that are named are there, signals
\* have the directions of their ports, inputs only have defaults, one slice is one of bits,
\* and structs of one name are one type.
IsField(f) == f = [path |-> f.path, dims |-> f.dims] /\ f.dims \in Seq(Int \X Int)
IsType(type) ==
    /\ type = Type(type.kind, type.name, type.dims, type.fields)
    /\ \/ type = Bit
       \/ type.kind = "bits" /\ type = Vector(type.dims) /\ type.dims \in Seq(Int \X Int) \ {<<>>}
       \/ IsStruct(type) /\ type.dims = <<>> /\ \A i \in DOMAIN type.fields : IsField(type.fields[i])
       \/ type.kind = "structs"
IsPort(p) ==
    /\ p = [name |-> p.name, dir |-> p.dir, type |-> p.type, default |-> p.default]
    /\ p.name # <<>> /\ p.dir \in Dirs /\ IsType(p.type)
    /\ p.default = Unsaid \/ p.dir = "in"
IsPart(ports, sel, dir) ==
    /\ sel = Sel(sel.port, sel.ops) /\ Named(ports, sel.port) # {}
    /\ Find(ports, sel.port).dir = dir
    /\ \/ sel.ops = <<>> \/ NeedsPath(sel)
       \/ /\ sel.ops = <<Slice(sel.ops[1].upper, sel.ops[1].lower)>>
          /\ Find(ports, sel.port).type.kind = "bits"
IsInterface(ports, i) ==
    /\ i = [name |-> i.name, def |-> i.def, mode |-> i.mode, signals |-> i.signals,
            clock |-> i.clock, reset |-> i.reset, size |-> i.size]
    /\ i.def \in DOMAIN Definitions
    /\ i.signals = [s \in DOMAIN i.signals |-> i.signals[s]]
    /\ DOMAIN i.signals \subseteq {s.name : s \in ToSet(Definitions[i.def])}
    /\ \A s \in DOMAIN i.signals :
          \/ i.signals[s] = NoPort
          \/ IsPart(ports, i.signals[s], SignalDir(SignalOf(i.def, s), i.mode))
IsCore(m) ==
    /\ Shaped(m) /\ m.name # Unsaid
    /\ \A p \in ToSet(m.ports) : IsPort(p)
    /\ \A p, q \in ToSet(m.ports) :
          IsStruct(p.type) /\ IsStruct(q.type) /\ TypeName(p.type) = TypeName(q.type)
          => p.type.fields = q.type.fields
    /\ \A i \in ToSet(m.intfs) : IsInterface(m.ports, i)
    /\ \A k \in DOMAIN m.params : m.params[k] = [name |-> m.params[k].name, value |-> m.params[k].value]
    /\ \A c \in ToSet(m.clocks) \cup ToSet(m.resets) : Named(m.ports, c.port) # {}
    /\ \A r \in ToSet(m.resets) : r.sync = Unsaid \/ Named(m.clocks, r.sync) # {}
ASSUME Modules == \A r \in Requests : \A m \in ToSet(r.modules) : IsModule(m) /\ IsCore(m)
ASSUME Interfaces == /\ IsFiniteSet(DOMAIN Definitions) /\ Builtin \in Seq(DOMAIN Definitions)
                     /\ \A d \in DOMAIN Definitions :
                           /\ Definitions[d] \in Seq(ToSet(Definitions[d]))
                           /\ \A s \in ToSet(Definitions[d]) : s.dir \in Dirs

VARIABLES local,      \* the configuration file `topwrap.yaml' of the working directory
          home,       \* the user's configuration file
          disk,       \* the repositories: path -> [cores, defs]
          given,      \* path -> core -> the module it was parsed from
          proc,       \* the running command
          commands, kills

vars == <<local, home, disk, given, proc, commands, kills>>

NoModule == Module("", <<>>, <<>>, <<>>, <<>>, <<>>)
File(state, desc) == [state |-> state, desc |-> desc]
NoFile == File("none", NoDesc)
Broken == File("broken", NoDesc)     \* a directory without module.yaml, or an empty one

Nothing == [kind |-> "none", name |-> "", desc |-> NoDesc]
Idle == [cmd |-> "idle", name |-> "", path |-> "", repos |-> <<>>, strategy |-> "",
         asked |-> {}, stored |-> {}, new |-> <<>>, defs |-> {}, existing |-> {},
         known |-> {}, compliance |-> FALSE, at |-> Nothing, before |-> {}, broken |-> {}]

(***************************************************************************)
(* What a command reads when it starts.                                    *)
(***************************************************************************)
BuiltinConfig == ConfigFile("valid", <<<<"builtin", BuiltinPath>>>>, "no")
CurrentConfig == LoadConfig(<<local, home, BuiltinConfig>>)

\* Repo.load of the definitions of a repository: a file that cannot be read is left out.
DefsAt(path) ==
    IF path = BuiltinPath THEN Builtin
    ELSE SetToSeq({d \in DOMAIN Definitions : disk[path].defs[d] = "written"})
\* load_interfaces_from_repos, Config.loaded_repos
KnownDefs == FoldLeft(LAMBDA defs, r : defs \o DefsAt(r[2]), <<>>, CurrentConfig.repos)

CoresAt(path) == {c \in CoreNames : disk[path].cores[c] # NoFile}
BrokenAt(path) == {c \in CoreNames : disk[path].cores[c] = Broken}

(***************************************************************************)
(* ModuleFileHandler.parse: the wanted modules of the sources, with the    *)
(* interfaces that are inferred of them, whatever `--inference' says.      *)
(***************************************************************************)
Wanted(tops, mod) == tops = {} \/ mod.name \in tops
CandidateDefs(req) ==
    Among(KnownDefs, {d \in ToSet(KnownDefs) : req.only = {} \/ d \in req.only})
WithMapping(mod, mapping) ==
    IF Mappable(mod, mapping) THEN MapInterfaces(mod, mapping) ELSE NoModule
ParseModule(mod, defs, hints) == WithMapping(mod, Infer(mod, defs, hints))
ParseNext(self, out, mod) ==
    IF Wanted(self.tops, mod) THEN Append(out, ParseModule(mod, self.defs, self.hints)) ELSE out
ParsedModules(req) ==
    LET self == [tops |-> req.tops, defs |-> CandidateDefs(req), hints |-> req.hints]
    IN  FoldLeft(LAMBDA out, mod : ParseNext(self, out, mod), <<>>, req.modules)

\* dict.pop, in a sequence.
Without(mods, name) == RemoveFirstMatch(mods, LAMBDA m : m.name = name)

\* Mutant of AddCore: a core to skip is overwritten.
AddCoreAnyway(strategy, repo, mod) ==
    IF mod.name \notin repo.stored /\ Named(repo.new, mod.name) = {}
    THEN [repo EXCEPT !.new = Append(@, mod)]
    ELSE IF strategy = "raise" THEN [repo EXCEPT !.refused = TRUE]
    ELSE [repo EXCEPT !.stored = @ \ {mod.name}, !.new = Append(Without(@, mod.name), mod)]

\* Mutant of AddCore: the core overwritten is not removed.
AddCoreTwice(strategy, repo, mod) ==
    IF mod.name \notin repo.stored THEN [repo EXCEPT !.new = Append(@, mod)]
    ELSE CASE strategy = "raise" -> [repo EXCEPT !.refused = TRUE]
           [] strategy = "skip" -> repo
           [] OTHER -> [repo EXCEPT !.new = Append(@, mod)]

(***************************************************************************)
(* Repo.add_resource for one core; `refused' is ResourceExistsException.   *)
(***************************************************************************)
AddCore(strategy, repo, mod) ==
    IF mod.name \notin repo.stored /\ Named(repo.new, mod.name) = {}
    THEN [repo EXCEPT !.new = Append(@, mod)]
    ELSE CASE strategy = "raise" -> [repo EXCEPT !.refused = TRUE]
           [] strategy = "skip" -> repo
           [] OTHER -> [repo EXCEPT !.stored = @ \ {mod.name},
                                    !.new = Append(Without(@, mod.name), mod)]

AddResources(path, mods, defs, strategy) ==
    LET loaded == ToSet(DefsAt(path))
        repo == [stored |-> CoresAt(path), new |-> <<>>,
                 refused |-> strategy = "raise" /\ defs \cap loaded # {}]
    IN  FoldLeft(LAMBDA r, m : AddCore(strategy, r, m), repo, mods)

Strategies == {"raise", "skip", "overwrite"}
Running(cmd) == proc.cmd = cmd /\ proc.at = Nothing
CanStart == proc = Idle /\ commands < MaxCommands

\* parse_repo up to Repo.save.  A parse that fails before that changes nothing: no such
\* repository, an interface that cannot be mapped, a resource that exists.
StartWith(mods, name, req, strategy) ==
    LET path == At(CurrentConfig.repos, name)
        repo == AddResources(path, mods, req.defs, strategy)
    IN  /\ CanStart
        /\ name \in Keys(CurrentConfig.repos) /\ path # BuiltinPath
        /\ NoModule \notin ToSet(mods)
        /\ ~repo.refused
        /\ proc' = [Idle EXCEPT
               !.cmd = "parse", !.path = path, !.strategy = strategy,
               !.asked = ToSet(mods), !.stored = repo.stored, !.new = repo.new,
               !.defs = ToSet(DefsAt(path)) \cup req.defs, !.existing = req.defs,
               !.known = ToSet(KnownDefs), !.compliance = CurrentConfig.compliance,
               !.before = CoresAt(path), !.broken = BrokenAt(path)]
        /\ commands' = commands + 1
        /\ UNCHANGED <<local, home, disk, given, kills>>
StartParse(name, req, strategy) == StartWith(ParsedModules(req), name, req, strategy)

(***************************************************************************)
(* Repo.save: every core of the repository, those of before in the order   *)
(* of the directory, then every interface definition.  A core of before is *)
(* read when it is saved (Core.top), and its existing interfaces only      *)
(* after the backend took them, as none.                                   *)
(***************************************************************************)
Next1(c) == IF proc.stored # {} THEN c \in proc.stored ELSE proc.new # <<>> /\ c = Head(proc.new).name
CoreFile(c) == disk[proc.path].cores[c]

Top(c) ==
    IF c \notin proc.stored THEN Head(proc.new)
    ELSE IF CoreFile(c).state = "written" /\ Readable(CoreFile(c).desc, proc.known, proc.compliance)
         THEN Parse(CoreFile(c).desc) ELSE NoModule
ExistingOf(c) == IF c \in proc.stored THEN {} ELSE proc.existing

SetCore(c, file) == disk' = [disk EXCEPT ![proc.path].cores[c] = file]

\* CoreHandler.save: the description is made before the file is opened.
OpenCore(c) ==
    LET top == Top(c)
    IN  /\ Running("parse") /\ Next1(c)
        /\ top # NoModule /\ Representable(top)
        /\ SetCore(c, Broken)
        /\ proc' = [proc EXCEPT !.at = [kind |-> "core", name |-> c,
                                        desc |-> Represent(top, ExistingOf(c))]]
        /\ UNCHANGED <<local, home, given, commands, kills>>

\* A core that cannot be read, or not be written, ends the command; its directory stays.
FailCore(c) ==
    LET top == Top(c)
    IN  /\ Running("parse") /\ Next1(c)
        /\ top = NoModule \/ ~Representable(top)
        /\ SetCore(c, IF CoreFile(c) = NoFile THEN Broken ELSE CoreFile(c))
        /\ proc' = Idle
        /\ UNCHANGED <<local, home, given, commands, kills>>

WriteCore ==
    LET c == proc.at.name
    IN  /\ proc.at.kind = "core"
        /\ SetCore(c, File("written", proc.at.desc))
        /\ given' = IF c \in proc.stored THEN given
                    ELSE [given EXCEPT ![proc.path][c] = Head(proc.new)]
        /\ proc' = [proc EXCEPT !.at = Nothing, !.stored = @ \ {c},
                                !.new = IF c \in proc.stored THEN @ ELSE Tail(@)]
        /\ UNCHANGED <<local, home, commands, kills>>

\* InterfaceDescriptionHandler.save
OpenDef(d) ==
    /\ Running("parse") /\ proc.stored = {} /\ proc.new = <<>> /\ d \in proc.defs
    /\ disk' = [disk EXCEPT ![proc.path].defs[d] = "empty"]
    /\ proc' = [proc EXCEPT !.at = [kind |-> "def", name |-> d, desc |-> NoDesc]]
    /\ UNCHANGED <<local, home, given, commands, kills>>

WriteDef ==
    /\ proc.at.kind = "def"
    /\ disk' = [disk EXCEPT ![proc.path].defs[proc.at.name] = "written"]
    /\ proc' = [proc EXCEPT !.at = Nothing, !.defs = @ \ {proc.at.name}]
    /\ UNCHANGED <<local, home, given, commands, kills>>

EndParse ==
    /\ Running("parse") /\ proc.stored = {} /\ proc.new = <<>> /\ proc.defs = {}
    /\ proc' = Idle
    /\ UNCHANGED <<local, home, disk, given, commands, kills>>

(***************************************************************************)
(* init_repo: an empty repository leaves nothing in its directory, so all  *)
(* it does is to name it in the local configuration file.  If that file is *)
(* empty the command fails (there is nothing to update), and so does one   *)
(* for a directory that has contents.                                      *)
(***************************************************************************)
EmptyDirectory(path) ==
    CoresAt(path) = {} /\ \A d \in DOMAIN Definitions : disk[path].defs[d] = "none"

StartInit(name, path) ==
    /\ CanStart /\ EmptyDirectory(path) /\ local.state # "empty"
    /\ local' = ConfigFile("empty", <<>>, "unset")
    /\ proc' = [Idle EXCEPT !.cmd = "init", !.name = name, !.path = path, !.repos = local.repos]
    /\ commands' = commands + 1
    /\ UNCHANGED <<home, disk, given, kills>>

WriteInit ==
    /\ Running("init")
    /\ local' = ConfigFile("valid", Put(proc.repos, proc.name, proc.path), "unset")
    /\ proc' = Idle
    /\ UNCHANGED <<home, disk, given, commands, kills>>

Kill ==
    /\ proc # Idle /\ kills < MaxKills
    /\ proc' = Idle
    /\ kills' = kills + 1
    /\ UNCHANGED <<local, home, disk, given, commands>>

Init ==
    /\ local = ConfigFile("absent", <<>>, "unset")
    /\ home \in HomeFiles
    /\ disk = [p \in Paths |-> [cores |-> [c \in CoreNames |-> NoFile],
                                defs |-> [d \in DOMAIN Definitions |-> "none"]]]
    /\ given = [p \in Paths |-> [c \in CoreNames |-> NoModule]]
    /\ proc = Idle
    /\ commands = 0 /\ kills = 0

Next ==
    \/ \E n \in RepoNames, r \in Requests, s \in Strategies : StartParse(n, r, s)
    \/ \E c \in CoreNames : OpenCore(c) \/ FailCore(c)
    \/ WriteCore
    \/ \E d \in DOMAIN Definitions : OpenDef(d)
    \/ WriteDef
    \/ EndParse
    \/ \E n \in RepoNames, p \in Paths : StartInit(n, p)
    \/ WriteInit
    \/ Kill

Spec == Init /\ [][Next]_vars
=============================================================================
