# A verification project for topwrap

Topwrap combines HDL modules into designs: it reads descriptions (YAML,
SystemVerilog, IP-XACT, dataflows of the Pipeline Manager), builds an internal
representation, transforms and validates it, and writes SystemVerilog, IP-XACT,
FuseSoC files or descriptions again.  This directory holds TLA+ modules of the
parts where order, failure and concurrency matter and of the ways between the
forms of designs and cores, TLC configurations that check them on small
instances, and proofs checked by TLAPS for all instances.

## 1. The system: parts, state, interactions

Paths are below `src/topwrap/`.

| Part | State it keeps | Operations | Hard behaviour | What makes it correct |
|---|---|---|---|---|
| Git cache (`repo/files.py`, `clean_cache` in `cli/main.py`) | a directory of clones, shared by all processes | `clone`, `path`, clean-cache | processes race without locks; kills; git fails; `rmtree` is not atomic | what is under a key is a whole clone, stays there, and nothing is left over |
| KPM client (`kpm_topwrap_client.py`) | specification, design, `initial_load`, file of the latest dataflow | handlers of graph events, connect, import, export, run, save | coroutines interleave at every await; the page reloads and edits meanwhile | the file follows the page; a reload loses nothing; exposed interfaces fit the connections |
| gui command (`cli/main.py`) | events, error queue, child processes, client task | start, wait, clean up | three threads and a process; failures in each; interrupt | errors end it, no process is left, order of starting |
| Build pipeline (`plugin/`) | the `BuildContext`, stages sorted by priority | `prepare`, `process`, `build`, `run`, hooks | exceptions anywhere; calls in any order; lists that grow while iterated | what is written was processed, and is of the present design |
| Clock/reset domains (`frontend/yaml/design.py`, `model/design.py`) | domains of the design, assignment per instance, connections | assign, lower, check crossings | failures half-way; defaults; polarity and synchronicity | each input is driven by its domain; nothing crosses |
| Configuration (`config.py`, `cli/__init__.py`) | the global `Config`, files of the search path, loaded repositories (cached) | load, update, override | the cache against direct changes of the list; a file that overrides others with defaults | what is configured stays configured |
| User repositories (`repo/`, `cli/repo.py`) | directories of cores and interface definitions | init, load, add with a strategy, save | failures and kills half-way; every parse reads and writes everything again | what is saved is what is loaded, for ever |
| Validator of dataflows (`kpm_dataflow_validator.py`) | none | a list of checks on a graph | nested graphs, metanodes of older versions | what passes is parsed, or refused for a reason |
| KPM frontend and backend (`frontend/kpm/`, `backend/kpm/`) | tables shared by recursive calls, cache of subgraphs | design to dataflow and back | hierarchy; arbitrary edits in between | the same design; what is connected is connected |
| YAML frontend and backend (`frontend/yaml/`, `backend/yaml/`) | dictionaries keyed by instance and port | save and load designs and cores | entries that replace each other; names that are resolved again | the same design, the same core |
| SystemVerilog backend (`backend/sv/`) | port maps, assignments, partial connections | connections to nets | slices, inverters, interfaces made of ports or not | the nets join what the design joins |
| SystemVerilog frontend, IP-XACT | - | translations of third-party trees | - | - |
| Model (`model/`) | modules, designs, connections, ids | add, find, overlap | partial selections | connections mean the same everywhere |
| Inference (`model/inference/`) | candidate interfaces | group, match, name | collisions of names | no port in two interfaces |
| Interconnects, FuseSoC, logger, serialization | none to speak of | rendering | - | - |

Interactions.  `repo parse` reads the configuration, loads the definitions of
every repository in it, parses sources, infers interfaces of the modules and
writes one repository; `gui` shows a design through the KPM backend, checks
what comes back with the validator and parses it with the KPM frontend before
it is saved as YAML or written as SystemVerilog.  The commands of `cli/main.py` create a `BuildPipeline` each and
call it once; `gui` starts two threads, of which the client calls pipelines on
each import, export and run.  `prepare` loads repositories through the
configuration, which loads `git:` resources through the git cache.  The
pipeline's input stage calls a frontend, which lowers the domains of a design.

Every part, with the reason where it is not modelled, is in `PROJECT.json`
under "components"; what can go wrong, at its line, under "hazards".

## 2. The modules and the code

### GitCache, CloneCache, MCGitCache, GitCacheProofs

`GitCache` is `GitRepoFile.clone` and `.path`, one action per system call that
others can see: `Lookup` (the first test for `.git`), `MakeRoot`, `MakeTmp`
(mkdtemp), `GitInit`, `GitFetch`, `GitCheckout`, `GitFail`, `Recheck` (the
second test), `Publish` (rename), `DropTmp` (rmtree of the temporary
directory), `Serve`.  A process may be killed between any two of them (`Kill`)
and starts again (`Again`).  The cleaner is `shutil.rmtree`: it lists a
directory once, removes the parts it listed through the open directory, which
may have been renamed meanwhile, and then the directory by name.  A directory
is the set of the parts it has: `.git` and the working files.  The contents of
a branch over time are not modelled, nor what two different remotes hold.

`CloneCache` is what the cache promises: a key is absent, whole or (after a
cleaner) damaged; a request is answered by a path or an error, at one step.
`GitCache` implements it by the mapping `Store`/`Answer` at its end.

### KpmClient, MCKpmClient, KpmClientProofs

The coroutines of `RPCMethods` on one event loop: an action `Client` takes one
message and runs one handler from the start, or from the await it was at, to
its next await or its end.  Each disjunct of `Resume` is one of those pieces of
`_kpm_handle_graph_change`, `_expose_nodes`, `frontend_on_connect` or
`dataflow_import`.  The page, its server and the connection are not topwrap's:
`Load`, `EditProperty`, `EditConnections`, `AddNodes`, `AskImport` and `Page`
model them from the messages the client exchanges with them, as two FIFO
channels.  Assumed of them: messages arrive in order; the page sends an event
for every change it makes, those asked for by the client too
(`notifyWhenChanged`, `backend/kpm/specification.py`); a request meant for a
page that is gone is answered by the present page or with an error.  A dataflow
is the design it shows, the set of edits, and per External I/O node the
connected and the exposed interfaces; `clock` numbers what the page has shown,
so that "older" has a meaning.

Not in this module: `custom_save_design_changes`, `dataflow_export`,
`dataflow_run` and the downloads.  The file is written in one step.

### KpmGui, KpmGuiProofs

The main thread's position in `gui`, the position of the threads of
`KPM.run_server` and `KPM.run_client`, the server process, the two events and
the number of exceptions in the queue.  `Interrupt` is ctrl-C in one of the
three waiting loops.  Both kinds of child processes are there: `Popen`, whose
`wait` raises after its timeout and leads to a kill, and multiprocessing, whose
`join` returns.  The process may become ready or die at any time, also after it
was told to.  When the main thread has ended, daemon threads stop.  (Before the
interpreter exits it also joins a child of multiprocessing; such a child that
never ends is, in the model, one that is still alive at the end.)

### BuildPipeline, MCBuildPipeline, BuildPipelineProofs

`run` goes through 18 `Phases`, and `prepare`, `process` and `build` through a
stretch of them (`FirstPhase`, `LastPhase`).  A phase is a loop with one step
for each plugin (hooks), input, transformation, validation or output, in the
order the code sorts them (`Items`), or a single step.  `p` is the phase, `n`
the step in it and `k` the module of the inner loop; `EndPhase` ends the loop of
a phase, and the call after its last one.  Each step may raise, which ends the
call with everything as it is; the owner may then make any other call.  Transformations and validations have the inner loop over
`loaded_modules`, and hooks and transformations may append to that list.
A module is whether it has a design, and which steps it went through, so that
"each step that applies, once, in order" can be said.  `settings` is the part
of the global configuration that a design's `config` section changes.
What a concrete stage does to a design is abstract; what a stage keeps for
itself is not modelled.

### DesignDomains, MCDesignDomains, DesignDomainsProofs

`Assign`/`AssignFails` are one round of `_parse_clocks_resets` with
`_parse_clock_reset_assignments`; `LowerClocks`, `LowerReset`/`ResetFails` and
`CheckCdc`/`CdcFails` are the body of the loop of `Design.lower_domains`.
A domain stands for the port that drives it.  `_resolve_ref` (whether that port
exists) and the rest of the design are left out.

### Forms and the modules of designs

`Designs` is the internal representation (`model/`): components, connections
between endpoints (an instance, an io of it and a slice), externals,
interconnects, domains, and `Design.lower_domains`.  On top of it, one module
per form of a design:

- `KpmBackend`: the dataflow of a design (`backend/kpm/dataflow.py`), one
  operator per `_represent_*`/`_add_*`, metanodes for externals, constants,
  inverters, interconnects and domains, a graph for each hierarchy.
- `KpmFrontend`: `_parse` (`frontend/kpm/dataflow.py`) as a machine, for it calls
  itself in the middle of a loop.  `stack` has a frame for each call, `data` is
  what the calls share and `cache` is `_subgraph_cache`.  Actions: `StartParse`,
  `Descend` (the recursive call), `Visit`/`VisitFails` (one node), `NodesDone`,
  `Interconnects`, `Connections`, `Inverters`, `ClockDomains`, `ResetDomains`,
  `Assignments`.  An exception ends it with a reason (`parsed`).
- `KpmValidator` with `Parameters`: every check of `kpm_dataflow_validator.py`,
  with the metanodes of older dataflows that it still knows, and the queue of
  `evaluate_parameter_list`, which every property of an instance, interconnect
  or domain goes through as a text.  A text that names something unknown or is
  no Python fails and ends in a warning; one of `Raising` (no text, or a
  statement) raises, and with it go the run and all that the checks had found.
- `DesignYaml`: `DesignDescriptionBackend` and `DesignDescriptionFrontend`, with
  the dictionaries in which a later entry replaces an earlier one.
- `SvNets`: `_SystemVerilogDesignData`, that is port maps, assignments, partial
  connections and nets, with `backend/generator.py` for interconnects.

`Forms` composes them: `Show`, `Open` (a dataflow of an older version), `Edit`
(what a user can do to the graphs in the page), `Configure` (a text the checks
would raise at is written in another way), `Validate`, `Parse`, `Save`, `Load`, `Emit`.
`FormsPromises` says what each way keeps, and names what it loses; it uses a
reading of dataflows and nets of its own (`StandsFor`, `Joint`) and not the
operators of the translations.  Abstracted: positions, widths, the text, which
slice it is (`hi`, `lo`), hierarchies in hierarchies for YAML.  A design parsed
with parts of another one (see section 5) is not followed further.

### Library and the modules of cores

`Cores` is a module as `repo` keeps it, with types, interfaces and selectors;
`Inference` is `model/inference/`, the groups, candidates, scores and the choice
among them, on names made of tokens; `IpCores` is the description of a core as
it is written (`Represent`, `Representable`) and read (`Parse`, `Readable`);
`Config` is the precedence of configuration files.  `Library` composes them as
`repo init` (`StartInit`, `WriteInit`) and `repo parse`: `StartParse` is all of
`parse_repo` up to `Repo.save`, which touches nothing on disk; then for each
core `OpenCore` (read the old one, make the description, truncate) or `FailCore`
and `WriteCore`, for each definition `OpenDef` and `WriteDef`, then `EndParse`.
`Kill` may come between any two of them.  `given` remembers what each core was
when it was parsed from a source.  One command runs at a time: nothing in the
code locks a repository, and two at once are not modelled.  Also abstracted:
regular expressions (sets of beginnings of token sequences), the order of
groups (the first port that has a prefix), scores (integers, in parts of a
point), struct types of one name (taken as one type), extensions and versions.

## 3. What the runs check

All bounds are constants in the configurations.

| Run | Instance | Shows |
|---|---|---|
| `gitcache` | 2 processes, 1 cleaner, 1 key, 2 temporary names, 1 file besides `.git`; symmetry on processes and names | 507,011 states. `PublishedComplete`, `ServedComplete`: only whole clones are found and served until a cleaner begins. `NoLitter`: a temporary directory left behind is that of a killed process or one that ended in an OSError. `PublishedStays`: a process that clones never harms a clone of another. `ImplementsCloneCache`: the refinement |
| `gitcache_race` | the same without a cleaner | violated: the loser of the rename gets an OSError, not the clone |
| `kpm_session` | 6 coroutines, 2 edits, 2 pages, 3 designs, 1 import; in sessions of `d3` the edits are of the connections of 2 named External I/O nodes, on 1 page | 208,174 states. `SavesInOrder`: no save goes back to an older dataflow. `QuietIsSaved`: at rest the file is what the page shows. `SpecFitsGraph`: imports. `CalmRefreshKeepsEdits`: a reload at rest keeps the edits. `ExposedOpposite`: at rest the exposed interface is the opposite of the connected one. `Settles` |
| `kpm_unnamed` | nodes without names | violated: a notification is awaited between the computation and the change |
| `kpm_refresh` | 3 pages, 2 edits | violated: edits that were in the file are lost by two reloads in a row |
| `pipeline` | 2 plugins, 1 input, 2 transformations, 2 validations, 2 outputs, 3 calls, 3 modules | 1,504,543 states. `ServedFromBirth`: each module gets what applies from the moment it was loaded. `StoredIsProcessed`, `RunWritesProcessed`, `WritesOwnContext`, `OutputsStay`, `HooksByPriority` |
| `gui` | both values of both options | 717 states. `NoServerLeft`, `ServerFirst`, `ErrorsEnd`, `ServerGoneEnds` |
| `gui_wait` | own server | violated: the wait for the client goes on when the client is *not* ready and never ends when it is |
| `domains` | 2 instances of 3 modules (1 to 2 clocks, 1 to 2 resets, synchronous and not, interface with a clock or without), 2 domain names | 209,736 states: every description. `Lowered`: exactly the right connections, inverted where polarities differ. `ResetsInStep`, `NoCrossing`, `RefusedForAReason` |
| `domains_async` | the same | violated: an asynchronous reset in a synchronous reset domain is accepted |
| `forms` | 18 designs with interfaces, interconnects, slices, inverters, hierarchies and domains, 6 old dataflows, 2 edits beside those of texts | 90,335 states (with 3 edits each design was checked once by itself as well, 1,190,513 states in all). `ShownIsKept`: shown and parsed without an edit but of texts, a design is the same; as shown, the checks raise exactly if it has an interconnect or an asynchronous reset domain. `ParsedAsConnected`: after any edits, what is connected in the page is connected in the design, and nothing else. `RefusedForAReason`: a dataflow that passes the checks is refused only for a named fault. `SavedIsRead`: what a file keeps. `SvJoins`: the nets join what the design joins |
| `library` | 3 commands, 1 kill, 2 repositories, 3 cores, 9 sets of sources, 3 strategies, 2 configurations of the user | 36,971 states. `CoreIsRead`: after any number of commands a core reads as what was parsed, but for what files do not keep. `RepositoryKeeps`: no command changes or loses a core it was not asked for. `InferredSound`: what inference adds |

Why the bounds are enough.  Races for a key, a rename or a file need two
actors, and a third meets the same states of the cache; two temporary names let
both processes be at work, and a kill makes one of them litter.  Two edits and
two pages give the client four overlapping handlers; a reload twice in a row is
the run `kpm_refresh`.  With six coroutines the limit is not what stops a
handler from starting, but bursts of edits longer than two are not explored.
Two equal priorities and one that differs cover the sort; three calls cover
prepare, process, process and prepare, failed process, build.  Two instances
are what an interface connection has, and a second reset reaches the order of
checks.  In `forms` each design is there for one feature (the comments of
`MCForms` name it), two edits connect a node that was added or move a
connection, and every graph of a hierarchy can be edited.  In `library` three
commands are an init or a configured repository, a first parse and one that
writes everything again; each source is there for one feature of cores.

Deadlock.  The git cache is checked for deadlock.  The other models end: the
user's edits, the owner's calls and the steps of the command are finite, so
`CHECK_DEADLOCK FALSE` is given there.

Fairness.  `KpmClient`: weak fairness of `Page` and `Client`, since an event
loop takes the messages that have arrived and the page answers requests; the
user owes nothing.  `KpmGui`: weak fairness of the main thread, of the thread
that reads the log, and of the steps of the client that need no other party;
none for the server process (it may boot, run or resist for ever) nor for the
end of a connection.  The safety properties use neither.

## 4. What is proved

With TLAPS, for every value of the constants that the assumptions allow: any
number of processes, keys, names and files; of coroutines, nodes, designs,
edits and loads of the page; of plugins, stages, calls and modules; of
instances and domains; of repositories, sources and commands.  Each module first has the run's properties that it
proves, then the argument.

**GitCacheProofs.**  Assumptions: keys and temporary names differ, `.git` is
none of the other files, and the markers are no names.  `TInv` strengthens
`TypeOK` with what the actors know: a directory a cleaner has open exists
(`OpenExists`), and a process holds a temporary directory exactly between
mkdtemp and the end of clone() (`HoldsTmp`).  `Quiet`, with
`TInv`, is inductive until a cleaner begins: no two processes hold the same
directory (`Private`), each key is absent or whole, each temporary directory
holds what its owner's program counter says, and a process that has been given
a clone has a whole one.  `PublishedComplete` alone is not
inductive: that a rename publishes a whole clone needs to know what the
temporary directory holds before.  From them: `TypeCorrect`,
`CacheHoldsWholeClones`, `ClonesServedWhole`, `CloneCleansUp`
(`NoLitter` is inductive with `TInv`), `ClonesStay` (an action
property) and `CacheRefinement` (initial states and each step, one lemma per
kind of step).

**DesignDomainsProofs.**  Assumptions: the shape of modules (`ModuleType`), of
domains and of connections.  `IInv` adds to the types how far the work is:
every instance before the present one has the domains the description means
(`Assignments`), every reset before the present one fits (`Checks`), and no
connection crosses once the design is accepted (`Looked`).  `ResetsInStep` and
`NoCrossing` speak of accepted designs only and are not inductive without them.
From `IInv`: `TypeCorrect`, `ResetsFit`, `NothingCrosses`, `NoIdleRefusal`.
`ExactlyLowered` (`Lowered`) is the conjunction of two more invariants:
`AllMade`, each input of an instance or interface that the loops have passed
has its connection, and `NoneElse`, each connection there is was asked for by
the domain its instance has been given.

**KpmGuiProofs.**  Assumption: the two options have Boolean values.  `IInv` is
`TypeOK` with `OneEach` (an exception in the queue is of a thread that has
ended, so that two need both threads), `InOrder` (which positions of the main
thread come before which starts, and that it passes the wait for its own server
after the server's event only) and `Listed` (the process is on the list of
children after it was started, and from the end of the reaping on a process
that was listed in time is dead).  `ServerFirst` needs `InOrder`, since the
event is looked at two steps before the client starts; `NoServerLeft` needs
`Listed`, since it speaks of the end only.  From it: `TypeCorrect`,
`CleanupReaps`, `ServerComesFirst`.

**KpmClientProofs.**  Assumptions: `Sessions` (the sets of designs, named nodes
and wirings are what they are called, coroutines are numbered, and a session in
which connections are edited imports nothing), `NoDataflow` (`None` is no
dataflow) and `ExternalNodes` (`None` is no set of nodes either).  `Base` is `TypeOK` with the shape of what is in the
two channels, of the coroutines that are waiting, and `Single`: a coroutine
awaits one request, which is either still on its way to the page or answered.
`Clocks`: dataflows in the channel to the client are in the order the page
showed them, none is older than the file, and one as new as the page is what
the page shows.  `SavesInOrder` is a step from it.  `Saved` is what makes
`QuietIsSaved` inductive: the file holds what the page shows, *or* a message is
under way (`Promised`) that leads to a save: an event of a change, a request
whose answer will carry the dataflow, or that answer.  From them:
`TypeCorrect`, `FileNeverSetBack`, `LastChangeIsSaved`.

The second part of the module, on top of them and under the same assumptions,
is about imports and reloads.  `Fits`: wherever a dataflow of another design than the
client's is shown or about to be (`Chain`), something behind it in a channel
replaces it; no import is under way when a page connects (`Connects`); the
requests of an import do not fail (`Served`); and the file does not become one
of another design for good (`FileFits`).  All but `spec = design` holds until a
page is loaded in the middle of an import (`torn`), as the property says.
`Calm`: nothing has edits that were not made (`NoFuture`), what a first load
does is done when the page has connected (`FirstLoad`), and, while every load
was at rest, the edits of the file are in the page or on their way to it
(`Kept`).  From them: `ImportsFit`, `CalmRefreshIsSafe`.

The third part is about the External I/O nodes, and ends in
`NamedExposeOpposite`: if all nodes have names (`Named = NodeSet`), however
changes of connections and new nodes overlap with handlers that are still
walking over the nodes, each of at most one connection exposes in the end the
opposite of it.  Without that assumption it is false (run `kpm_unnamed`).  A
handler reads a connection, awaits an answer, and exposes what it decided
before; the answer may be one change too late, and other handlers may be in the
middle of their own walks.  The inductive invariant (`ExposeInv`, which TLC has
checked on the instance of `kpm_session`) says of a session whose connections
are edited:

- `Once`, `OneLoad`, `Unshown`: the page is loaded once and the design shown
  once, and before that there is nothing to expose.
- `Turns`: a handler that walks has a dataflow and nodes left to look at, and
  what it has asked the page to expose is what that dataflow calls for.
- `Mended`: of the coroutines that may expose what is no longer so, each is
  followed by one that looks at the node again, *by the order of their messages
  in the two channels*; coroutines that are started for the messages behind
  count too.
- `Covered`: each node exposes what it should, or somebody has still to look
  at it.

`Covered` is what is wanted, with `Mended` as the reason why it survives a late
`expose`: with one handler fewer, the next one in the channels takes its place.
Of every other session it says that nothing is ever connected or exposed
(`UnwiredInv`).

**BuildPipelineProofs.**  Assumptions: `Parts` (priorities are natural numbers,
the outputs a finite set, those kept some of them).  Lemmas about the sort come
first: `Sorted` is the inverse of a step's rank, so that it has every step
once, in order of decreasing priority and otherwise as given.  The invariants:

- `Base`: the position of a call is one of its phases, a context has its shape
  whenever the call has one (`Held`), and outputs kept in it were generated for
  it; a context of an earlier call has an earlier number (`Older`).
- `Course`: at each moment of a call, each module loaded went through exactly
  the steps that apply to it, from the one that was under way when it was
  loaded up to the one the loops are at (`Part`, up to `Limit`), in their
  order.  `ServedFromBirth` says this only when the loops are over, and modules
  that come in the middle of a loop are why it needs the limit per module.
- `Kept`, `Written`, `RunWritten`: what the context keeps, what of it is on the
  disk, and what the present `run` wrote, is of a processed module.

From them all properties of the run: `TypeCorrect`, `ModulesServed`,
`KeptIsProcessed`, `RunIsProcessed`, and `OwnContextWritten`, `KeptOutputsStay`
and `HooksInOrder` (action properties).  TLC has checked `Course` and what
follows it as invariants on the instance of the run.

**FoldProofs** and **LibraryProofs.**  The loops of `repo parse`, of inference
and of the configuration are folds, and what they build is said by induction.
The library's induction theorems take an operator as a parameter, which no
prover here can instantiate; `FoldProofs` takes the step of the fold as a
CONSTANT operator instead, and proves that a property which holds at the start
and which each step keeps holds of the result (`FoldKeeps`, `RightKeeps`).
Induction over the natural numbers is a hypothesis of its lemmas, as a fact
about sets, so that the module is small enough to be instantiated often;
`LibraryProofs` proves it once (`Induction`) and instantiates `FoldProofs` for
sixteen loops: `Config.update`, `ConfigManager.load`,
`ModuleFileHandler.parse`, `Repo.add_resource`, the definitions of the
repositories, filters and `sorted`, and nine of `model/inference/`.

Assumptions: `Inputs` (sources have their modules in a sequence, configuration
files give each repository a directory, and no directory of a user is the
builtin repository), `Modules` and `Interfaces` (finitely many definitions, each
a sequence of signals with directions).  `Modules` has two parts.  `IsModule` is
what inference needs: ports and interfaces of a module have different names, and
vectors have bounds.  `IsCore` is what files need: the ports, signals and clocks
that are named are there, signals have the directions of their ports, inputs
only have defaults, one slice is one of bits, and structs of one name are one
type.  The invariant (`IInv`, which TLC has checked on the
instance of the run) has `Files` and `Commands`, the types; `Writing`, that the
file that is open is the one being written, and is broken until it is; and
`Memory`, why a kill does no more harm than the properties allow: every broken
core is still to be written, of those broken now only the one being written was
not broken before, each core is in memory once, and a core of before is among
the new ones only when told to overwrite.  From it `TypeCorrect`, and three of
the four parts of `RepositoryKeeps` (lemma `Keeps`).

`InferenceSound` (`InferredSound`) adds to `IInv` that whatever the running
parse has been asked for is sound (`AskedSound`; a parse stores of that only).
That a parse asks for sound modules only is the argument about inference, and
has no time in it: every entry of a group is a part of a port that no interface
has (`Part`), and names within a group are of different parts; matching gives a
part to one signal; a candidate is taken only if nothing of its group has been taken
before, and under a name of its own; and
`map_interfaces_to_module` makes of each group taken one interface, complete
because it stops if a required signal is missing.  The theorem has one more
hypothesis, `HintsApart`: no two prefixes of one port get one name from the
hints (section 5).  The run's sources obey it.

**CoreProofs**, on top of it and under the same assumptions, without
`HintsApart`, is about what core files say.

- The round trip.  What `Represent` writes of a core can be read exactly where
  the core `Survives` (`ReadsIff`), and reads as `Kept` of it then.
  The argument goes port by port: those no interface has come from the
  description's signals, the others from the first signal of an interface that
  names them, by the fold over the interfaces.
- Another one.  What is read is a core again, and survives wherever the
  first did, with the same `Kept`: a second round trip loses nothing more
  than the first.  Most of this is idempotence of `Kept`, with one surprise: a
  part of a port stays a part only as far as what the file keeps of the type
  lets it, so that `Lost` speaks of the part *after* the first round trip
  (`PartStays`); a field of a struct keeps one dimension in a file, so that a bit
  of an array in a struct is lost with it.
- `CInv`, inductive with `IInv`: each file that was written, and the description
  about to be written, is `Represent` of *some* core that is alike (`Alike`: the
  same `Kept`, surviving under the same conditions) to the module
  it was parsed from.  `CoreIsRead` is not inductive, since the core in memory
  that is written next is the one that was read and not the one parsed, and
  since a file that cannot be read now may be read after another
  configuration.  From it `CoresAreRead` (`CoreIsRead`).
- `StopsForAReason`: a core that cannot be written has a port of several
  dimensions (`Unwritable`), and what was stored before can be written
  again whenever it can be read.  With it `CommandsKeep` (`RepositoryKeeps`).

**Only model-checked:**

- Liveness (`Settles`, `ErrorsEnd`, `ServerGoneEnds`), beyond this prover.
- `Forms`, with `Designs`, `KpmBackend`, `KpmFrontend`, `KpmValidator`,
  `DesignYaml` and `SvNets`: they compare designs with dataflows and files
  connection by connection, through hierarchies of any depth, which the modules
  follow by recursion.

## 5. Disagreements between code and documentation

Five, each with a run that finds it (`PROJECT.json`, "findings"): the OSError of
the second clone, the exposure of nodes without a name, the refresh that loses
edits, the wait of `gui` that is the wrong way round, and asynchronous resets
in synchronous domains.

What else the models show of the code.  No document says otherwise, so the
properties of `FormsPromises` and `LibraryPromises` state it as a loss or leave
it out by name:

- Dataflows: the calls of `_parse` for nested graphs share their tables
  (`frontend/kpm/dataflow.py:505`), so that inverters and domains of a subgraph
  are made again in its parent, and a clock assigned in the parent is looked up
  in the subgraph; of several connections at one side of an inverter, or one pin
  of an interconnect, one is kept, and two interfaces of one interconnect at the
  same interface are one manager or subordinate; an interface of an interconnect
  that is connected to another interconnect is left out; an external joined to instances only through
  an inverter becomes one bit wide; an external that nothing uses fails the
  checks on a dataflow that topwrap made itself.
- Checks: `evaluate_parameter_list` (`hdl_parsers_utils.py:100`) does not catch
  what `simple_eval` raises for an empty text or a statement.  The backend
  leaves "Managers configuration" of a round-robin and "Synchronous to" of an
  asynchronous domain empty (`backend/kpm/dataflow.py:426`, `:481`) and writes
  "atop: false" for AXI, so that no dataflow with one of these passes the checks
  as topwrap made it; written as `0: {}`, `none` and `atop: false,` the same
  dataflow is parsed.  The first part of `ShownIsKept` states it.
- Design files: of several connections at one port the last is written; slices,
  unused external interfaces and interconnects of externals alone are not; a
  constant that is no decimal number is read as the name of an external; an
  inout is renamed after the port it joins; the design of a hierarchy takes the
  name of its instance, and loses the externals of its interconnects then.  The
  page can make a design whose reset is out of step, which is saved and cannot
  be loaded.
- Nets: the default value of a port takes the place of its connection to an
  interface that is not made of ports (`backend/sv/design.py:546`).
- Core files: each later parse writes every core again, without clocks, resets
  and sizes of interfaces, defaults of their ports, widths of parameters, and
  the definitions the core came with.  A core cannot be read back if a clock is
  also a signal of an interface, or if an interface uses part of an array of
  structs.  From the first core that cannot be read, every later parse of the
  repository stops there unless told to overwrite it.  A vector of several
  dimensions stops the parse after its directory was made.
- Configuration: `repo init` writes a file that overrides
  `force_interface_compliance` of the user's with its default
  (`config.py:40`); killed while writing, it loses the names of all
  repositories and cannot be run again.
- Inference: an array of structs and its elements can be in two interfaces;
  the name given to a port whose prefix is dropped may be another port's
  (`inference.py:115`); hints that give one name to two prefixes of one port
  put it into one group twice, where it may become two signals of the interface
  (`HintsApart` leaves these out); a single candidate is taken whatever its score and, if
  it cannot be mapped, ends the parse; inference runs without `--inference`.
- Selections: `LogicSelect.overlaps` takes ranges that share one bit, and a bit
  and itself, as apart (`model/hdl_types.py:321`); by reading only.

## 6. Not modelled, and the plan

Not modelled: the SystemVerilog frontend (a walk over the tree of a third-party
parser), IP-XACT (a format of a third-party library), the text that is
generated and the logic of interconnects (no state to check), the ports that the
generator for AXI makes, the parameters of interconnects but those of
subordinates (they go with the type), FuseSoC, the
logger, HTTP and temporary files, the specification of nodes
(`*/kpm/specification.py`) and positions (data that no property tells apart),
memory maps, references to resources by scheme, two commands on one repository
at once, and `custom_save_design_changes`, export and run of the client.

Left, in this order:

1. Proofs about `Forms` for designs without hierarchies, the round trip of
   `CoreProofs` being the pattern.
2. Selections that overlap, as operators against sets of bits.
3. `KpmClient` extended by saving, exporting and running, composed with `Forms`.
