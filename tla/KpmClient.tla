----------------------------- MODULE KpmClient -----------------------------
(***************************************************************************)
(* The client behind `topwrap gui' (kpm_topwrap_client.py): RPCMethods     *)
(* answers the events and requests of a Pipeline Manager page, keeps the   *)
(* specification and the design of the session, and saves the dataflow of  *)
(* the page in a file after each change.                                   *)
(*                                                                         *)
(* The handlers are coroutines of one event loop.  A handler runs from one *)
(* `await client.request' to the next without interruption; at each await  *)
(* the messages that have arrived start or resume others.  The page, its   *)
(* server and the connection between them are not part of topwrap: they    *)
(* are modelled from the messages RPCMethods exchanges with them, as two   *)
(* first-in first-out channels.                                            *)
(*                                                                         *)
(* A dataflow is abstracted to the design it describes, the user's edits   *)
(* in it, and for each External I/O node which of its interfaces are       *)
(* connected and which are exposed.                                        *)
(***************************************************************************)
EXTENDS Naturals, Sequences, FiniteSets

CONSTANTS Slots,       \* coroutines that may be alive at once (a bound)
          MaxEdits,    \* edits the user makes (a bound)
          MaxPages,    \* times the page is loaded (a bound)
          Designs,     \* designs there are descriptions of
          Started,     \* designs topwrap may be started with; None: without
          Import,      \* the descriptions the user may import
          Wired,       \* those of sessions in which the user changes External I/O nodes,
                       \* and loads the page once and imports nothing (a bound)
          Nodes,       \* External I/O nodes, in the order of the dataflow
          Named,       \* those the user has given a name
          Wirings,     \* sets of interfaces of a node that get connected
          None

Ifaces == {"in", "out", "inout"}
NodeSet == {Nodes[i] : i \in 1..Len(Nodes)}

ASSUME Sessions == /\ Started \subseteq Designs \cup {None} /\ None \notin Designs
                   /\ Import \subseteq Designs /\ Wired \subseteq Designs \ Import
                   /\ Named \subseteq NodeSet
                   /\ Wirings \subseteq SUBSET Ifaces
                   /\ Slots = 1..Cardinality(Slots)
                   /\ MaxEdits \in Nat /\ MaxPages \in Nat \ {0}

ASSUME ExternalNodes == Nodes \in Seq(NodeSet) /\ \A S \in SUBSET NodeSet : S # None

VARIABLES
    page,    \* how often the page has been loaded
    graph,   \* the dataflow it shows
    edits,   \* how many edits the user has made
    clock,   \* how many dataflows pages have shown
    first,   \* self.initial_load
    spec,    \* self.specification, by the design it was made for
    design,  \* self.design
    save,    \* the contents of default_save_file
    task,    \* the coroutines
    up,      \* from the page to the client
    down,    \* from the client to the page
    torn,    \* the page was reloaded while an import was under way
    held,    \* the edits in the file when the page was last loaded
    calm     \* nothing was under way at any load of the page

vars == <<page, graph, edits, clock, first, spec, design, save, task,
          up, down, torn, held, calm>>

\* No connection and no exposed interface.
Bare == [n \in NodeSet |-> {}]

Dataflow(d, c) == [design |-> d, edits |-> {}, clock |-> c, ours |-> TRUE,
                   conn |-> Bare, shown |-> Bare]

\* The interface to expose is the one opposite the connected one.
Opposite(i) == CASE i = "in" -> "out" [] i = "out" -> "in" [] OTHER -> "inout"

Free == [at |-> "free"]

Idle(i) == task[i] = Free
Quiet == up = <<>> /\ down = <<>> /\ \A i \in Slots : Idle(i)

Init == /\ page = 0
        /\ graph = Dataflow(None, 0)
        /\ edits = 0 /\ clock = 0
        /\ first = TRUE
        /\ design \in Started /\ spec = design
        \* a previous session may have left its file
        /\ save \in {None, [Dataflow(None, 0) EXCEPT !.ours = FALSE]}
        /\ task = [i \in Slots |-> Free]
        /\ up = <<>> /\ down = <<>>
        /\ torn = FALSE /\ held = {} /\ calm = TRUE
-----------------------------------------------------------------------------
(***************************************************************************)
(* The page                                                                *)
(***************************************************************************)
Event(ev) == [type |-> "event", ev |-> ev]

\* Shows g from now on and says so in message m.
Show(g, m) ==
    /\ clock' = clock + 1
    /\ graph' = [g EXCEPT !.clock = clock + 1]
    /\ up' = Append(up, m)

Importing == \/ \E k \in 1..Len(up) : up[k].type = "event" /\ up[k].ev = "import"
             \/ \E i \in Slots : task[i].at = "import"
             \/ \E k \in 1..Len(down) : down[k].op = "imported"

\* The user loads the page, or loads it again: it shows an empty dataflow
\* until the client sends one.
Load ==
    /\ page < (IF design \in Wired THEN 1 ELSE MaxPages)
    /\ page' = page + 1
    /\ Show(Dataflow(None, 0), Event("connect"))
    /\ torn' = (torn \/ Importing)
    /\ held' = IF save = None THEN {} ELSE save.edits
    /\ calm' = (calm /\ Quiet)
    /\ UNCHANGED <<edits, first, spec, design, save, task, down>>

\* The user changes a property or moves a node.
EditProperty ==
    /\ page > 0 /\ edits < MaxEdits
    /\ edits' = edits + 1
    /\ Show([graph EXCEPT !.edits = @ \cup {edits'}], Event("change"))
    /\ UNCHANGED <<page, first, spec, design, save, task, down, torn, held, calm>>

\* The user changes the connections of External I/O nodes, of several at
\* once when a node they lead to is deleted.
EditConnections ==
    /\ page > 0 /\ edits < MaxEdits /\ design \in Wired
    /\ edits' = edits + 1
    /\ \E c \in [NodeSet -> Wirings] \ {graph.conn} :
          Show([graph EXCEPT !.edits = @ \cup {edits'}, !.conn = c],
               Event("connections"))
    /\ UNCHANGED <<page, first, spec, design, save, task, down, torn, held, calm>>

\* The user adds External I/O nodes, or undoes their deletion.
AddNodes ==
    /\ page > 0 /\ edits < MaxEdits /\ design \in Wired
    /\ edits' = edits + 1
    /\ \E S \in SUBSET NodeSet :
          /\ S # {}
          /\ Show([graph EXCEPT !.edits = @ \cup {edits'},
                                !.shown = [n \in NodeSet |-> IF n \in S THEN {} ELSE @[n]]],
                  [type |-> "event", ev |-> "nodes", added |-> S])
    /\ UNCHANGED <<page, first, spec, design, save, task, down, torn, held, calm>>

\* The user imports another description.
AskImport ==
    /\ page > 0 /\ design \notin Wired
    /\ \E d \in Import :
          LET m == [type |-> "event", ev |-> "import", design |-> d] IN
          /\ d # design /\ m \notin {up[k] : k \in 1..Len(up)}
          /\ up' = Append(up, m)
    /\ UNCHANGED <<page, graph, edits, clock, first, spec, design, save, task,
                   down, torn, held, calm>>

\* The page takes the next message.  A dataflow it is given is shown, and
\* every change it makes is an event of its own.  A request that was meant
\* for a page that is gone is answered by the present one, or with an error.
GraphEvent(g) == [type |-> "event", ev |-> "graph", df |-> g]

Answer(r, x) == [type |-> "answer", to |-> r.to, df |-> x]

Page ==
    /\ down # <<>> /\ page > 0
    /\ down' = Tail(down)
    /\ LET r == Head(down) IN
       \/ /\ r.op = "graph_get"
          /\ up' = Append(up, Answer(r, graph))
          /\ UNCHANGED <<graph, clock>>
       \/ /\ r.op \in {"specification_change", "notification_send"}
          /\ up' = Append(up, Answer(r, None))
          /\ UNCHANGED <<graph, clock>>
       \/ /\ r.op = "graph_change"
          /\ clock' = clock + 1
          /\ graph' = [r.df EXCEPT !.clock = clock']
          /\ up' = up \o <<GraphEvent(graph'), Answer(r, None)>>
       \/ /\ r.op = "imported"
          /\ clock' = clock + 1
          /\ graph' = [r.df EXCEPT !.clock = clock', !.edits = 1..edits]
          /\ up' = Append(up, GraphEvent(graph'))
       \/ /\ r.op = "interfaces_change" /\ r.design = graph.design
          /\ clock' = clock + 1
          /\ graph' = [graph EXCEPT !.clock = clock', !.shown[r.node] = r.shown]
          /\ up' = up \o <<Event("change"), Answer(r, None)>>
       \/ /\ r.op = "interfaces_change" /\ r.design # graph.design
          /\ up' = Append(up, Answer(r, None))
          /\ UNCHANGED <<graph, clock>>
       \/ /\ r.page < page /\ r.op # "imported"
          /\ up' = Append(up, [type |-> "error", to |-> r.to])
          /\ UNCHANGED <<graph, clock>>
    /\ UNCHANGED <<page, edits, first, spec, design, save, task, torn, held, calm>>
-----------------------------------------------------------------------------
(***************************************************************************)
(* The handlers.  `Goes(i, t, r)': coroutine i awaits the answer to r.     *)
(***************************************************************************)
Req(i, op) == [op |-> op, to |-> i, page |-> page]

Goes(i, t, r) == /\ task' = [task EXCEPT ![i] = t]
                 /\ down' = Append(down, r)

\* Mutant: the coroutine is kept after its last step.
EndsKept(i) == task' = [task EXCEPT ![i].at = "done"]

Ends(i) == task' = [task EXCEPT ![i] = Free]

\* save_file_to_json
Save(df) == save' = df

\* _kpm_handle_graph_change without the dataflow: ask the page for it.
\* `diff' is what the event says was changed, if it says so.
StartChange(i, diff) ==
    /\ Goes(i, [at |-> "get", diff |-> diff], Req(i, "graph_get"))
    /\ UNCHANGED <<first, spec, design, save>>

\* Mutant: only the events without a dataflow lead to a save.
GraphIgnored(df) == UNCHANGED <<first, spec, design, save, task, down>>

\* graph_on_change: the event brings the dataflow.
StartGraph(df) ==
    /\ Save(df)
    /\ UNCHANGED <<first, spec, design, task, down>>

\* Mutant: each connection is taken for the first one.
ConnectAsFirst(i) ==
    /\ UNCHANGED <<first, design, save>>
    /\ \/ /\ design # None /\ spec' = design
          /\ Goes(i, [at |-> "spec", design |-> design], Req(i, "specification_change"))
       \/ /\ design = None /\ UNCHANGED spec
          /\ Goes(i, [at |-> "first"], Req(i, "graph_get"))

\* frontend_on_connect
StartConnect(i) ==
    \/ /\ save # None /\ ~first
       /\ Goes(i, [at |-> "load"], [op |-> "graph_change", to |-> i, page |-> page,
                                   df |-> save])
       /\ UNCHANGED <<first, spec, design, save>>
    \/ /\ save = None \/ first
       /\ design # None
       /\ first' = FALSE
       /\ spec' = design
       /\ Goes(i, [at |-> "spec", design |-> design], Req(i, "specification_change"))
       /\ UNCHANGED <<design, save>>
    \/ /\ save = None \/ first
       /\ design = None
       /\ first' = FALSE
       /\ Goes(i, [at |-> "first"], Req(i, "graph_get"))
       /\ UNCHANGED <<spec, design, save>>

\* Mutant: the specification stays the one of the old design.
ImportOldSpec(i, d) ==
    /\ design' = d
    /\ Goes(i, [at |-> "import", design |-> d], Req(i, "specification_change"))
    /\ UNCHANGED <<first, save, spec>>

\* Mutant: the imported dataflow is saved before the page shows it.
ImportSaved(i, d) ==
    /\ design' = d /\ spec' = d
    /\ Save(Dataflow(d, 0))
    /\ Goes(i, [at |-> "import", design |-> d], Req(i, "specification_change"))
    /\ UNCHANGED first

\* dataflow_import: a description that does not build changes nothing.
StartImport(i, d) ==
    \/ /\ design' = d
       /\ spec' = d
       /\ Goes(i, [at |-> "import", design |-> d], Req(i, "specification_change"))
       /\ UNCHANGED <<first, save>>
    \/ UNCHANGED <<first, spec, design, save, task, down>>

\* _expose_nodes, from the point where the nodes at the positions `left' are
\* left to look at: a node with several connections, or one without a name of
\* its own, costs a notification first.  Then the dataflow is asked for once
\* more.
First(left) == CHOOSE j \in left : \A k \in left : j <= k

Change(i, df, n) ==
    [op |-> "interfaces_change", to |-> i, page |-> page, node |-> n,
     design |-> df.design, shown |-> {Opposite(c) : c \in df.conn[n]}]

\* Mutant: a node with several connections ends the walk.
ExposeStops(i, df, left) ==
    IF left = {} \/ Cardinality(df.conn[Nodes[First(left)]]) > 1
    THEN Goes(i, [at |-> "reget", old |-> df], Req(i, "graph_get"))
    ELSE Goes(i, [at |-> "expose", df |-> df, left |-> left], Change(i, df, Nodes[First(left)]))

Expose(i, df, left) ==
    IF left = {} THEN Goes(i, [at |-> "reget", old |-> df], Req(i, "graph_get"))
    ELSE LET n == Nodes[First(left)]
             k == Cardinality(df.conn[n])
             t(a) == [at |-> a, df |-> df, left |-> left] IN
         CASE k > 1 -> Goes(i, t("skip"), Req(i, "notification_send"))
           [] k = 1 /\ n \notin Named -> Goes(i, t("named"), Req(i, "notification_send"))
           [] OTHER -> Goes(i, t("expose"), Change(i, df, n))

\* Where the nodes are that _kpm_handle_connections_change and
\* _kpm_handle_nodes_change look at.
Touched(diff) == {j \in 1..Len(Nodes) : Nodes[j] \in diff}

\* Mutant: the dataflow taken before the interfaces changed is saved.
FinishWithOld(i, x) ==
    /\ Ends(i)
    /\ Save(IF task[i].at = "reget" THEN task[i].old ELSE x)

\* The last step of a handler that asked for the dataflow.
Finish(i, x) == Ends(i) /\ Save(x)

\* Coroutine i has got the answer x and runs to its next await.
Resume(i, x) ==
    \/ /\ task[i].at = "get"
       /\ IF task[i].diff = None
          THEN Finish(i, x) /\ UNCHANGED down
          ELSE Expose(i, x, Touched(task[i].diff)) /\ UNCHANGED save
       /\ UNCHANGED <<first, spec, design>>
    \/ /\ task[i].at \in {"reget", "first"}
       /\ Finish(i, x)
       /\ UNCHANGED <<first, spec, design, down>>
    \/ /\ task[i].at \in {"skip", "expose"}
       /\ Expose(i, task[i].df, task[i].left \ {First(task[i].left)})
       /\ UNCHANGED <<first, spec, design, save>>
    \/ /\ task[i].at = "named"
       /\ Goes(i, [at |-> "expose", df |-> task[i].df, left |-> task[i].left],
               Change(i, task[i].df, Nodes[First(task[i].left)]))
       /\ UNCHANGED <<first, spec, design, save>>
    \/ /\ task[i].at = "spec"
       /\ Goes(i, [at |-> "load"],
               [op |-> "graph_change", to |-> i, page |-> page,
                df |-> Dataflow(task[i].design, 0)])
       /\ UNCHANGED <<first, spec, design, save>>
    \/ /\ task[i].at = "load"
       /\ Ends(i)
       /\ UNCHANGED <<first, spec, design, save, down>>
    \/ /\ task[i].at = "import"
       /\ Ends(i)
       /\ down' = Append(down, [op |-> "imported", page |-> page,
                                df |-> Dataflow(task[i].design, 0)])
       /\ UNCHANGED <<first, spec, design, save>>

\* Mutant: the error of a request is dropped.
BreakHangs(i) == UNCHANGED <<task, first, spec, design, save, down>>

\* A request that fails ends the handler with an exception.
Break(i) == /\ Ends(i)
            /\ UNCHANGED <<first, spec, design, save, down>>

\* The client takes the next message.
Start(m) ==
    \/ /\ m.ev = "graph" /\ StartGraph(m.df)
    \/ /\ m.ev # "graph"
       /\ \E i \in Slots :
             /\ Idle(i) /\ \A j \in Slots : j < i => ~Idle(j)
             /\ \/ m.ev = "change" /\ StartChange(i, None)
                \/ m.ev = "connections" /\ StartChange(i, NodeSet)
                \/ m.ev = "nodes" /\ StartChange(i, m.added)
                \/ m.ev = "connect" /\ StartConnect(i)
                \/ m.ev = "import" /\ StartImport(i, m.design)

Client ==
    /\ up # <<>>
    /\ up' = Tail(up)
    /\ LET m == Head(up) IN
       \/ m.type = "event" /\ Start(m)
       \/ m.type = "answer" /\ Resume(m.to, m.df)
       \/ m.type = "error" /\ Break(m.to)
    /\ UNCHANGED <<page, graph, edits, clock, torn, held, calm>>

User == Load \/ EditProperty \/ EditConnections \/ AddNodes \/ AskImport

Next == User \/ Page \/ Client

Spec == Init /\ [][Next]_vars /\ WF_vars(Page) /\ WF_vars(Client)
-----------------------------------------------------------------------------
Dataflows == [design : Designs \cup {None}, edits : SUBSET (1..MaxEdits),
              clock : Nat, ours : BOOLEAN,
              conn : [NodeSet -> SUBSET Ifaces], shown : [NodeSet -> SUBSET Ifaces]]

ASSUME NoDataflow == None \notin Dataflows

TypeOK ==
    /\ page \in 0..MaxPages /\ edits \in 0..MaxEdits /\ clock \in Nat
    /\ graph \in Dataflows
    /\ first \in BOOLEAN /\ torn \in BOOLEAN /\ calm \in BOOLEAN /\ held \subseteq 1..MaxEdits
    /\ spec \in Designs \cup {None} /\ design \in Designs \cup {None}
    /\ save = None \/ save \in Dataflows
    /\ \A i \in Slots :
          task[i].at \in {"free", "get", "skip", "named", "expose", "reget",
                         "spec", "load", "first", "import"}
    /\ \A k \in 1..Len(up) : up[k].type \in {"event", "answer", "error"}
    /\ \A k \in 1..Len(down) : down[k].page \in 1..MaxPages

(***************************************************************************)
(* Handlers of different changes overlap, ask for the dataflow twice and   *)
(* save on their own: still the file never goes back to a dataflow that    *)
(* the page had left behind when the saved one was taken.                  *)
(***************************************************************************)
SavesInOrder ==
    [][save # None /\ save.ours /\ save' # save => save'.clock >= save.clock]_vars

(***************************************************************************)
(* When every handler has ended and nothing is under way, the file holds   *)
(* what the page shows: the last change of a burst is saved too, the       *)
(* changes made by handlers included.                                      *)
(***************************************************************************)
QuietIsSaved == Quiet /\ page > 0 => save = graph

(***************************************************************************)
(* "If in is connected, expose out (and vice versa), if inout is connected *)
(* expose inout" (_expose_nodes): once the handlers of all changes have    *)
(* ended, a node with one connection exposes the opposite interface and    *)
(* one without any exposes none, on a page that was not loaded again.      *)
(***************************************************************************)
ExposedOpposite ==
    Quiet /\ page = 1 => \A n \in NodeSet :
        Cardinality(graph.conn[n]) <= 1
            => graph.shown[n] = {Opposite(c) : c \in graph.conn[n]}

(***************************************************************************)
(* The changes that handlers make are events again.  They come to an end:  *)
(* the client settles after whatever the user has done.                    *)
(***************************************************************************)
Settles == []<>Quiet

(***************************************************************************)
(* An import replaces the specification before the page shows the imported *)
(* dataflow, and requests made meanwhile are answered.  When all is over   *)
(* the page shows a dataflow of the design the client holds the            *)
(* specification of, unless it was reloaded in the middle of an import.    *)
(***************************************************************************)
SpecFitsGraph == Quiet /\ ~torn /\ page > 0 => graph.design \in {None, spec}

(***************************************************************************)
(* "With each graph change, Topwrap will save the current dataflow to      *)
(* ensure it's not lost, e.g. during an accidental page refresh": the      *)
(* edits that were in the file when the page was loaded again are in what  *)
(* it shows once everything is over.                                       *)
(***************************************************************************)
RefreshKeepsEdits == Quiet => held \subseteq graph.edits

(***************************************************************************)
(* The part of it that holds: no edit of the file is lost if the page was  *)
(* never loaded again while something was under way.                       *)
(***************************************************************************)
CalmRefreshKeepsEdits == calm => RefreshKeepsEdits
=============================================================================
