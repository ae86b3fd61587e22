-------------------------- MODULE KpmClientProofs --------------------------
(***************************************************************************)
(* Proofs about KpmClient, for every number of coroutines, edits, loads of *)
(* the page and designs: the messages under way belong to the coroutines   *)
(* that await them, the file is never set back, and when everything is     *)
(* over it holds what the page shows; what the page shows after imports,   *)
(* and after it was loaded again; and what the External I/O nodes expose   *)
(* when the handlers have ended.                                           *)
(***************************************************************************)
EXTENDS KpmClient, SequenceTheorems, FiniteSetTheorems, WellFoundedInduction, TLAPS

-----------------------------------------------------------------------------
(***************************************************************************)
(* The messages under way and the coroutines that await them.              *)
(***************************************************************************)
ASeq(s) == s \in Seq({s[k] : k \in 1..Len(s)})

At == {"free", "get", "skip", "named", "expose", "reget", "spec", "load", "first", "import"}

\* What a coroutine in a state has asked for.
Ask(at) == CASE at \in {"get", "reget", "first"} -> "graph_get"
             [] at \in {"spec", "import"} -> "specification_change"
             [] at \in {"skip", "named"} -> "notification_send"
             [] at = "load" -> "graph_change"
             [] at = "expose" -> "interfaces_change"
             [] OTHER -> "nothing"

Fetches(at) == at \in {"get", "reget", "first"}
IsEvent(m, ev) == m.type = "event" /\ m.ev = ev
Reply(m) == m.type \in {"answer", "error"}
Request(r) == r.op # "imported"

UpOK(m) ==
    \/ /\ m.type = "event"
       /\ m.ev \in {"connect", "change", "connections", "nodes", "import", "graph"}
       /\ m.ev = "import" => m.design \in Designs
       /\ m.ev = "graph" => m.df \in Dataflows
    \/ /\ m.type = "answer" /\ m.to \in Slots /\ task[m.to].at # "free"
       /\ IF Fetches(task[m.to].at) THEN m.df \in Dataflows ELSE m.df = None
    \/ m.type = "error" /\ m.to \in Slots /\ task[m.to].at # "free"

DownOK(r) ==
    /\ r.page \in 1..MaxPages
    /\ r.op # "imported" => r.to \in Slots /\ task[r.to].at # "free" /\ r.op = Ask(task[r.to].at)
    /\ r.op \in {"graph_change", "imported"} => r.df \in Dataflows
    /\ r.op = "interfaces_change" => r.shown \subseteq Ifaces

Channels == /\ ASeq(up) /\ ASeq(down)
            /\ page = 0 => up = <<>> /\ down = <<>>
            /\ \A k \in 1..Len(up) : UpOK(up[k])
            /\ \A k \in 1..Len(down) : DownOK(down[k])

Tasks == /\ task = [i \in Slots |-> task[i]]
         /\ \A i \in Slots : /\ task[i].at \in At
                             /\ task[i].at \in {"spec", "import"} => task[i].design \in Designs

\* A coroutine awaits one thing at a time.
Single ==
    /\ \A j, k \in 1..Len(up) : Reply(up[j]) /\ Reply(up[k]) /\ up[j].to = up[k].to => j = k
    /\ \A j, k \in 1..Len(down) : Request(down[j]) /\ Request(down[k]) /\ down[j].to = down[k].to
                                     => j = k
    /\ \A j \in 1..Len(up), k \in 1..Len(down) :
          Reply(up[j]) /\ Request(down[k]) => up[j].to # down[k].to

Base == TypeOK /\ Channels /\ Tasks /\ Single
-----------------------------------------------------------------------------
(***************************************************************************)
(* The dataflows under way: the later in the channel, the later it was     *)
(* shown, and the last one shown is the one the page shows.                *)
(***************************************************************************)
HasDf(m) == IsEvent(m, "graph") \/ (m.type = "answer" /\ m.df # None)

Clocks ==
    /\ graph.clock = clock
    /\ save # None => save.clock <= clock
    /\ \A k \in 1..Len(up) : HasDf(up[k]) =>
          /\ up[k].df.clock <= clock
          /\ up[k].df.clock = clock => up[k].df = graph
          /\ save # None => save.clock <= up[k].df.clock
    /\ \A j, k \in 1..Len(up) : j < k /\ HasDf(up[j]) /\ HasDf(up[k])
                                   => up[j].df.clock <= up[k].df.clock

(***************************************************************************)
(* A message that leads to a save of what the page shows, now or later.    *)
(***************************************************************************)
Tells(m) ==
    \/ m.type = "event" /\ m.ev \in {"connect", "change", "connections", "nodes"}
    \/ IsEvent(m, "graph") /\ m.df = graph
    \/ m.type = "answer" /\ task[m.to].at \in {"skip", "named", "expose", "spec"}
    \/ m.type = "answer" /\ Fetches(task[m.to].at) /\ m.df = graph

Asks(r) == /\ r.page = page
           /\ \/ r.op \in {"graph_get", "notification_send", "interfaces_change", "graph_change"}
              \/ r.op = "specification_change" /\ task[r.to].at = "spec"

Promised == \/ \E k \in 1..Len(up) : Tells(up[k])
            \/ \E k \in 1..Len(down) : Asks(down[k])

Saved == page > 0 => save = graph \/ Promised
-----------------------------------------------------------------------------
(***************************************************************************)
(* How the channels change.                                                *)
(***************************************************************************)
Popped(s, t) == /\ ASeq(t) /\ Len(s) \in Nat /\ Len(t) \in Nat
                /\ Len(s) = Len(t) + 1
                /\ \A k \in 1..Len(t) : t[k] = s[k + 1]

Grown(s, t, n) == /\ ASeq(t) /\ Len(s) \in Nat /\ Len(t) \in Nat
                  /\ Len(t) = Len(s) + n
                  /\ \A k \in 1..Len(s) : t[k] = s[k]

LEMMA Typed == ASSUME NEW S, NEW s \in Seq(S) PROVE ASeq(s)
<1>1. s \in Seq(Range(s))
  BY SeqOfRange
<1>2. Range(s) = {s[k] : k \in 1..Len(s)}
  BY RangeEquality
<1> QED
  BY <1>1, <1>2 DEF ASeq

LEMMA Pushing == ASSUME NEW s, NEW e, ASeq(s)
                 PROVE  Grown(s, Append(s, e), 1) /\ Append(s, e)[Len(s) + 1] = e
<1> DEFINE S == {s[k] : k \in 1..Len(s)} \cup {e}
<1>1. s \in Seq(S)
  BY SeqMonotonic DEF ASeq
<1>2. e \in S
  OBVIOUS
<1> HIDE DEF S
<1>3. /\ Append(s, e) \in Seq(S) /\ Len(Append(s, e)) = Len(s) + 1
      /\ \A i \in 1..Len(s) : Append(s, e)[i] = s[i]
      /\ Append(s, e)[Len(s) + 1] = e
  BY <1>1, <1>2, AppendProperties
<1>4. Len(s) \in Nat /\ Len(Append(s, e)) \in Nat /\ ASeq(Append(s, e))
  BY <1>1, <1>3, LenProperties, Typed, Zenon
<1> QED
  BY <1>3, <1>4, Zenon DEF Grown

LEMMA PushingTwo == ASSUME NEW s, NEW e, NEW f, ASeq(s)
                    PROVE  /\ Grown(s, s \o <<e, f>>, 2)
                           /\ (s \o <<e, f>>)[Len(s) + 1] = e
                           /\ (s \o <<e, f>>)[Len(s) + 2] = f
<1> DEFINE S == {s[k] : k \in 1..Len(s)} \cup {e, f}
<1> DEFINE t == <<e, f>>
<1>1. s \in Seq(S)
  BY SeqMonotonic DEF ASeq
<1>2. t \in Seq(S) /\ Len(t) = 2 /\ t[1] = e /\ t[2] = f
  OBVIOUS
<1> HIDE DEF S, t
<1>3. /\ s \o t \in Seq(S) /\ Len(s \o t) = Len(s) + Len(t)
      /\ \A i \in 1..Len(s) + Len(t) : (s \o t)[i] = IF i <= Len(s) THEN s[i] ELSE t[i - Len(s)]
  BY <1>1, <1>2, ConcatProperties, Zenon
<1>4. Len(s) \in Nat /\ Len(s \o t) \in Nat /\ ASeq(s \o t)
  BY <1>1, <1>3, LenProperties, Typed, Zenon
<1> DEFINE u == s \o t
<1> HIDE DEF u
<1>5. /\ Len(u) \in Nat /\ Len(u) = Len(s) + 2 /\ ASeq(u)
      /\ \A i \in 1..Len(s) + 2 : u[i] = IF i <= Len(s) THEN s[i] ELSE t[i - Len(s)]
  BY <1>2, <1>3, <1>4, Zenon DEF u
<1>6. Grown(s, u, 2) /\ u[Len(s) + 1] = e /\ u[Len(s) + 2] = f
  BY <1>2, <1>4, <1>5 DEF Grown
<1> QED
  BY <1>6 DEF t, u

LEMMA Popping == ASSUME NEW s, ASeq(s), s # <<>>
                 PROVE  Popped(s, Tail(s)) /\ Head(s) = s[1]
<1> DEFINE S == {s[k] : k \in 1..Len(s)}
<1>1. s \in Seq(S)
  BY DEF ASeq
<1> HIDE DEF S
<1>2. Len(s) \in Nat /\ Len(s) # 0
  BY <1>1, EmptySeq
<1>3. Tail(s) \in Seq(S) /\ Len(Tail(s)) = Len(s) - 1 /\ \A i \in 1..Len(Tail(s)) : Tail(s)[i] = s[i + 1]
  BY <1>1, HeadTailProperties
<1>4. Len(Tail(s)) \in Nat /\ ASeq(Tail(s))
  BY <1>3, LenProperties, Typed
<1> QED
  BY <1>1, <1>2, <1>3, <1>4 DEF Popped

LEMMA EmptyChannel == ASeq(<<>>) /\ Len(<<>>) = 0
  BY EmptySeq, Typed
-----------------------------------------------------------------------------
(***************************************************************************)
(* The steps of the client, by what they take, send and save.  `Fresh' is  *)
(* the message a step sends.                                               *)
(***************************************************************************)
Fresh == down'[Len(down) + 1]

Others(i) == /\ task' = [j \in Slots |-> task'[j]]
             /\ \A j \in Slots : j # i => task'[j] = task[j]

Sent(i) == /\ Grown(down, down', 1) /\ Others(i)
           /\ Fresh.op = Ask(task'[i].at) /\ Fresh.to = i /\ Fresh.page = page

Freed(i) == Others(i) /\ task'[i] = Free

\* A coroutine starts with message m.
Starts(i, m) == m.type = "event" /\ task[i] = Free /\ Sent(i) /\ save' = save

StartsGet(i, m) == /\ Starts(i, m) /\ m.ev \in {"change", "connections", "nodes"}
                   /\ task'[i].at = "get"
                   /\ m.ev = "change" => task'[i].diff = None
                   /\ m.ev = "connections" => task'[i].diff = NodeSet
                   /\ m.ev = "nodes" => task'[i].diff = m.added
                   /\ UNCHANGED <<first, spec, design>>

StartsLoad(i, m) == /\ Starts(i, m) /\ m.ev = "connect" /\ save # None /\ ~first
                    /\ task'[i].at = "load" /\ Fresh.df = save
                    /\ UNCHANGED <<first, spec, design>>

StartsSpec(i, m) == /\ Starts(i, m) /\ m.ev = "connect" /\ (save = None \/ first)
                    /\ design # None /\ task'[i].at = "spec" /\ task'[i].design = design
                    /\ first' = FALSE /\ spec' = design /\ design' = design

StartsFirst(i, m) == /\ Starts(i, m) /\ m.ev = "connect" /\ (save = None \/ first)
                     /\ design = None /\ task'[i].at = "first" /\ first' = FALSE
                     /\ UNCHANGED <<spec, design>>

StartsImport(i, m) == /\ Starts(i, m) /\ m.ev = "import"
                      /\ task'[i].at = "import" /\ task'[i].design = m.design
                      /\ design' = m.design /\ spec' = m.design /\ first' = first

Begun(m) == \E i \in Slots : \/ StartsGet(i, m) \/ StartsLoad(i, m) \/ StartsSpec(i, m)
                                \/ StartsFirst(i, m) \/ StartsImport(i, m)

\* What coroutine i goes by when it has got answer m, and where it has still to look.
WalkDf(i, m) == IF task[i].at = "get" THEN m.df ELSE task[i].df
WalkLeft(i) == CASE task[i].at = "get" -> Touched(task[i].diff)
                 [] task[i].at = "named" -> task[i].left
                 [] OTHER -> task[i].left \ {First(task[i].left)}

\* The next turn of a walk by df over the nodes at `left'.
Turn(i, df, left) ==
    LET n == Nodes[First(left)] IN
    /\ task'[i].at # "reget" => task'[i].df = df /\ task'[i].left = left
    /\ task'[i].at = "skip" => Cardinality(df.conn[n]) > 1
    /\ task'[i].at = "named" => n \notin Named
    /\ task'[i].at = "expose" => /\ Fresh.node = n /\ Fresh.design = df.design
                                 /\ Fresh.shown = {Opposite(c) : c \in df.conn[n]}

\* Coroutine i goes on with answer m.
Walks(i, m) == /\ m.type = "answer" /\ Sent(i) /\ save' = save
               /\ task[i].at \in {"get", "skip", "expose", "named"}
               /\ task[i].at = "get" => task[i].diff # None
               /\ task'[i].at \in {"reget", "skip", "named", "expose"}
               /\ Fresh.op = "interfaces_change" => Fresh.shown \subseteq Ifaces
               /\ Turn(i, WalkDf(i, m), WalkLeft(i))
               /\ task[i].at # "named" => (task'[i].at = "reget" <=> WalkLeft(i) = {})

Stores(i, m) == /\ m.type = "answer" /\ Freed(i) /\ save' = m.df /\ down' = down
                /\ Fetches(task[i].at)
                /\ task[i].at = "get" => task[i].diff = None

Sends(i, m) == /\ m.type = "answer" /\ Sent(i) /\ save' = save
               /\ task[i].at = "spec" /\ task'[i].at = "load"
               /\ Fresh.df = Dataflow(task[i].design, 0)

Loaded(i, m) == /\ m.type = "answer" /\ Freed(i) /\ save' = save /\ down' = down
                /\ task[i].at = "load"

Imports(i, m) == /\ m.type = "answer" /\ Freed(i) /\ save' = save
                 /\ task[i].at = "import"
                 /\ Grown(down, down', 1)
                 /\ Fresh.op = "imported" /\ Fresh.page = page
                 /\ Fresh.df = Dataflow(task[i].design, 0)

Breaks(i, m) == m.type = "error" /\ Freed(i) /\ save' = save /\ down' = down

Resumed(i, m) == /\ Reply(m) /\ i \in Slots /\ m.to = i
                 /\ UNCHANGED <<first, spec, design>>
                 /\ \/ Walks(i, m) \/ Stores(i, m) \/ Sends(i, m)
                    \/ Loaded(i, m) \/ Imports(i, m) \/ Breaks(i, m)

\* No coroutine is needed.
Graphs(m) == /\ IsEvent(m, "graph") /\ save' = m.df
             /\ UNCHANGED <<first, spec, design, task, down>>

Refuses(m) == /\ IsEvent(m, "import")
              /\ UNCHANGED <<first, spec, design, task, down, save>>

ClientTable == /\ Popped(up, up')
               /\ UNCHANGED <<page, graph, edits, clock, torn, held, calm>>
               /\ \/ Begun(up[1]) \/ Resumed(up[1].to, up[1])
                  \/ Graphs(up[1]) \/ Refuses(up[1])

LEMMA Going == ASSUME NEW i \in Slots, NEW t, NEW r, Tasks, ASeq(down), Goes(i, t, r),
                      r.op = Ask(t.at), r.to = i, r.page = page
               PROVE  Sent(i) /\ Fresh = r /\ task'[i] = t
<1>1. task' = [j \in Slots |-> IF j = i THEN t ELSE task[j]]
  BY DEF Goes, Tasks
<1>2. Others(i) /\ task'[i] = t
  BY <1>1 DEF Others
<1>3. Grown(down, down', 1) /\ Fresh = r
  BY Pushing DEF Goes, Fresh
<1> QED
  BY <1>2, <1>3 DEF Sent

LEMMA Ending == ASSUME NEW i \in Slots, Tasks, Ends(i) PROVE Freed(i)
<1>1. task' = [j \in Slots |-> IF j = i THEN Free ELSE task[j]]
  BY DEF Ends, Tasks
<1> QED
  BY <1>1 DEF Others, Freed

\* One turn of the walk over the touched nodes.
LEMMA Walking == ASSUME NEW i \in Slots, NEW df, NEW left, Tasks, ASeq(down), Expose(i, df, left)
                 PROVE  /\ Sent(i) /\ task'[i].at \in {"reget", "skip", "named", "expose"}
                        /\ Fresh.op = "interfaces_change" => Fresh.shown \subseteq Ifaces
                        /\ Turn(i, df, left)
                        /\ task'[i].at = "reget" <=> left = {}
<1>1. CASE left = {}
  <2> DEFINE t == [at |-> "reget", old |-> df]
  <2> DEFINE r == Req(i, "graph_get")
  <2>1. Goes(i, t, r)
    BY <1>1 DEF Expose
  <2>2. t.at = "reget" /\ r.op = Ask(t.at) /\ r.to = i /\ r.page = page /\ r.op # "interfaces_change"
    BY DEF Ask, Req
  <2> HIDE DEF t, r
  <2>3. /\ Sent(i) /\ task'[i].at = "reget" /\ Fresh.op # "interfaces_change"
    BY <2>1, <2>2, Going
  <2> QED
    BY <1>1, <2>3 DEF Turn
<1>2. CASE left # {}
  <2> DEFINE n == Nodes[First(left)]
  <2> DEFINE t(a) == [at |-> a, df |-> df, left |-> left]
  <2>1. ASSUME NEW a \in {"skip", "named"}, Goes(i, t(a), Req(i, "notification_send"))
        PROVE  /\ Sent(i) /\ task'[i].at = a /\ Fresh.op # "interfaces_change"
               /\ task'[i].df = df /\ task'[i].left = left
    <3> DEFINE s == t(a)
    <3> DEFINE r == Req(i, "notification_send")
    <3>1. /\ s.at = a /\ r.op = Ask(s.at) /\ r.to = i /\ r.page = page /\ r.op # "interfaces_change"
          /\ s.df = df /\ s.left = left
      BY <2>1 DEF Ask, Req
    <3>2. Goes(i, s, r)
      BY <2>1
    <3> HIDE DEF s, r
    <3> QED
      BY <3>1, <3>2, Going
  <2>2. ASSUME Goes(i, t("expose"), Change(i, df, n))
        PROVE  /\ Sent(i) /\ task'[i].at = "expose" /\ Fresh.shown \subseteq Ifaces
               /\ task'[i].df = df /\ task'[i].left = left
               /\ Fresh.node = n /\ Fresh.design = df.design
               /\ Fresh.shown = {Opposite(c) : c \in df.conn[n]}
    <3> DEFINE s == t("expose")
    <3> DEFINE r == Change(i, df, n)
    <3>1. \A c : Opposite(c) \in Ifaces
      BY DEF Opposite, Ifaces
    <3>2. /\ s.at = "expose" /\ r.op = Ask(s.at) /\ r.to = i /\ r.page = page /\ r.shown \subseteq Ifaces
          /\ s.df = df /\ s.left = left
      BY <3>1 DEF Ask, Change
    <3>4. r.node = n /\ r.design = df.design /\ r.shown = {Opposite(c) : c \in df.conn[n]}
      BY DEF Change
    <3>3. Goes(i, s, r)
      BY <2>2
    <3> HIDE DEF s, r
    <3> QED
      BY <3>2, <3>3, <3>4, Going
  <2>3. \/ Cardinality(df.conn[n]) > 1 /\ Goes(i, t("skip"), Req(i, "notification_send"))
        \/ n \notin Named /\ Goes(i, t("named"), Req(i, "notification_send"))
        \/ Goes(i, t("expose"), Change(i, df, n))
    BY <1>2 DEF Expose
  <2> HIDE DEF t
  <2>4. CASE Cardinality(df.conn[n]) > 1 /\ Goes(i, t("skip"), Req(i, "notification_send"))
    BY <1>2, <2>1, <2>4 DEF Turn
  <2>5. CASE n \notin Named /\ Goes(i, t("named"), Req(i, "notification_send"))
    BY <1>2, <2>1, <2>5 DEF Turn
  <2>6. CASE Goes(i, t("expose"), Change(i, df, n))
    BY <1>2, <2>2, <2>6 DEF Turn
  <2> QED
    BY <2>3, <2>4, <2>5, <2>6
<1> QED
  BY <1>1, <1>2

LEMMA Starting == ASSUME NEW i \in Slots, NEW m, Tasks, ASeq(down), UpOK(m), m.type = "event",
                         m.ev # "graph", task[i] = Free,
                         \/ m.ev = "change" /\ StartChange(i, None)
                         \/ m.ev = "connections" /\ StartChange(i, NodeSet)
                         \/ m.ev = "nodes" /\ StartChange(i, m.added)
                         \/ m.ev = "connect" /\ StartConnect(i)
                         \/ m.ev = "import" /\ StartImport(i, m.design)
                  PROVE  Begun(m) \/ Refuses(m)
<1>1. ASSUME NEW diff, StartChange(i, diff), m.ev \in {"change", "connections", "nodes"},
             m.ev = "change" => diff = None, m.ev = "connections" => diff = NodeSet,
             m.ev = "nodes" => diff = m.added
      PROVE  Begun(m)
  <2> DEFINE t == [at |-> "get", diff |-> diff]
  <2> DEFINE r == Req(i, "graph_get")
  <2>1. Goes(i, t, r) /\ UNCHANGED <<first, spec, design, save>>
    BY <1>1 DEF StartChange
  <2>2. t.at = "get" /\ t.diff = diff /\ r.op = Ask(t.at) /\ r.to = i /\ r.page = page
    BY DEF Ask, Req
  <2> HIDE DEF t, r
  <2>3. StartsGet(i, m)
    BY <1>1, <2>1, <2>2, Going DEF StartsGet, Starts
  <2> QED
    BY <2>3 DEF Begun
<1>2. CASE m.ev = "connect" /\ StartConnect(i)
  <2>1. ASSUME save # None, ~first, UNCHANGED <<first, spec, design, save>>,
               Goes(i, [at |-> "load"], [op |-> "graph_change", to |-> i, page |-> page, df |-> save])
        PROVE  StartsLoad(i, m)
    <3> DEFINE t == [at |-> "load"]
    <3> DEFINE r == [op |-> "graph_change", to |-> i, page |-> page, df |-> save]
    <3>1. t.at = "load" /\ r.op = Ask(t.at) /\ r.to = i /\ r.page = page /\ r.df = save
      BY DEF Ask
    <3>2. Goes(i, t, r)
      BY <2>1
    <3> HIDE DEF t, r
    <3> QED
      BY <1>2, <2>1, <3>1, <3>2, Going DEF StartsLoad, Starts
  <2>2. ASSUME save = None \/ first, design # None, first' = FALSE, spec' = design,
               UNCHANGED <<design, save>>,
               Goes(i, [at |-> "spec", design |-> design], Req(i, "specification_change"))
        PROVE  StartsSpec(i, m)
    <3> DEFINE t == [at |-> "spec", design |-> design]
    <3> DEFINE r == Req(i, "specification_change")
    <3>1. t.at = "spec" /\ t.design = design /\ r.op = Ask(t.at) /\ r.to = i /\ r.page = page
      BY DEF Ask, Req
    <3>2. Goes(i, t, r)
      BY <2>2
    <3> HIDE DEF t, r
    <3> QED
      BY <1>2, <2>2, <3>1, <3>2, Going DEF StartsSpec, Starts
  <2>3. ASSUME save = None \/ first, design = None, first' = FALSE, UNCHANGED <<spec, design, save>>,
               Goes(i, [at |-> "first"], Req(i, "graph_get"))
        PROVE  StartsFirst(i, m)
    <3> DEFINE t == [at |-> "first"]
    <3> DEFINE r == Req(i, "graph_get")
    <3>1. t.at = "first" /\ r.op = Ask(t.at) /\ r.to = i /\ r.page = page
      BY DEF Ask, Req
    <3>2. Goes(i, t, r)
      BY <2>3
    <3> HIDE DEF t, r
    <3> QED
      BY <1>2, <2>3, <3>1, <3>2, Going DEF StartsFirst, Starts
  <2>4. StartsLoad(i, m) \/ StartsSpec(i, m) \/ StartsFirst(i, m)
    BY <1>2, <2>1, <2>2, <2>3 DEF StartConnect
  <2> QED
    BY <2>4 DEF Begun
<1>3. CASE m.ev = "import" /\ StartImport(i, m.design)
  <2>1. ASSUME design' = m.design, spec' = m.design, UNCHANGED <<first, save>>,
               Goes(i, [at |-> "import", design |-> m.design], Req(i, "specification_change"))
        PROVE  StartsImport(i, m)
    <3> DEFINE t == [at |-> "import", design |-> m.design]
    <3> DEFINE r == Req(i, "specification_change")
    <3>1. t.at = "import" /\ t.design = m.design /\ r.op = Ask(t.at) /\ r.to = i /\ r.page = page
      BY DEF Ask, Req
    <3>2. Goes(i, t, r)
      BY <2>1
    <3> HIDE DEF t, r
    <3> QED
      BY <1>3, <2>1, <3>1, <3>2, Going DEF StartsImport, Starts
  <2>2. StartsImport(i, m) \/ Refuses(m)
    BY <1>3, <2>1 DEF StartImport, Refuses, IsEvent
  <2> QED
    BY <2>2 DEF Begun
<1> QED
  BY <1>1, <1>2, <1>3

LEMMA Resuming == ASSUME NEW m, Tasks, ASeq(down), Reply(m), m.to \in Slots,
                         \/ m.type = "answer" /\ Resume(m.to, m.df)
                         \/ m.type = "error" /\ Break(m.to)
                  PROVE  Resumed(m.to, m)
<1> DEFINE i == m.to
<1> i \in Slots
  OBVIOUS
<1>0. m.type = "error" => m.type # "answer"
  OBVIOUS
<1>1. CASE m.type = "error" /\ Break(i)
  BY <1>1, Ending DEF Resumed, Breaks, Break
<1>2. ASSUME m.type = "answer", task[i].at = "get", UNCHANGED <<first, spec, design>>,
             IF task[i].diff = None THEN Finish(i, m.df) /\ UNCHANGED down
             ELSE Expose(i, m.df, Touched(task[i].diff)) /\ UNCHANGED save
      PROVE  Resumed(i, m)
  <2>1. CASE task[i].diff = None
    BY <1>2, <2>1, Ending DEF Resumed, Stores, Finish, Save, Fetches
  <2>2. CASE task[i].diff # None
    <3>1. Walks(i, m)
      BY <1>2, <2>2, Walking DEF Walks, WalkDf, WalkLeft
    <3> QED
      BY <1>2, <3>1 DEF Resumed
  <2> QED
    BY <2>1, <2>2
<1>3. ASSUME m.type = "answer", task[i].at \in {"reget", "first"}, Finish(i, m.df),
             UNCHANGED <<first, spec, design, down>>
      PROVE  Resumed(i, m)
  BY <1>3, Ending DEF Resumed, Stores, Finish, Save, Fetches
<1>4. ASSUME m.type = "answer", task[i].at \in {"skip", "expose"},
             Expose(i, task[i].df, task[i].left \ {First(task[i].left)}), UNCHANGED <<first, spec, design, save>>
      PROVE  Resumed(i, m)
  <2>1. Walks(i, m)
    BY <1>4, Walking DEF Walks, WalkDf, WalkLeft
  <2> QED
    BY <1>4, <2>1 DEF Resumed
<1>5. ASSUME m.type = "answer", task[i].at = "named", UNCHANGED <<first, spec, design, save>>,
             Goes(i, [at |-> "expose", df |-> task[i].df, left |-> task[i].left],
                  Change(i, task[i].df, Nodes[First(task[i].left)]))
      PROVE  Resumed(i, m)
  <2> DEFINE t == [at |-> "expose", df |-> task[i].df, left |-> task[i].left]
  <2> DEFINE n == Nodes[First(task[i].left)]
  <2> DEFINE r == Change(i, task[i].df, n)
  <2>1. \A c : Opposite(c) \in Ifaces
    BY DEF Opposite, Ifaces
  <2>2. t.at = "expose" /\ t.df = task[i].df /\ t.left = task[i].left
    OBVIOUS
  <2>6. /\ r.node = n /\ r.design = task[i].df.design
        /\ r.shown = {Opposite(c) : c \in task[i].df.conn[n]}
    BY DEF Change
  <2>3. r.op = Ask(t.at) /\ r.to = i /\ r.page = page /\ r.shown \subseteq Ifaces
    BY <2>1, <2>2 DEF Ask, Change
  <2>4. Goes(i, t, r)
    BY <1>5
  <2> HIDE DEF t, r
  <2>7. /\ Sent(i) /\ Fresh = r /\ task'[i] = t
    BY <2>2, <2>3, <2>4, Going
  <2>8. Turn(i, task[i].df, task[i].left)
    BY <2>2, <2>6, <2>7 DEF Turn
  <2>5. Walks(i, m)
    BY <1>5, <2>2, <2>3, <2>7, <2>8 DEF Walks, WalkDf, WalkLeft
  <2> QED
    BY <1>5, <2>5 DEF Resumed
<1>6. ASSUME m.type = "answer", task[i].at = "spec", UNCHANGED <<first, spec, design, save>>,
             Goes(i, [at |-> "load"], [op |-> "graph_change", to |-> i, page |-> page,
                                       df |-> Dataflow(task[i].design, 0)])
      PROVE  Resumed(i, m)
  <2> DEFINE t == [at |-> "load"]
  <2> DEFINE r == [op |-> "graph_change", to |-> i, page |-> page, df |-> Dataflow(task[i].design, 0)]
  <2>1. t.at = "load" /\ r.op = Ask(t.at) /\ r.to = i /\ r.page = page
        /\ r.df = Dataflow(task[i].design, 0)
    BY DEF Ask
  <2>2. Goes(i, t, r)
    BY <1>6
  <2> HIDE DEF t, r
  <2>3. Sends(i, m)
    BY <1>6, <2>1, <2>2, Going DEF Sends
  <2> QED
    BY <1>6, <2>3 DEF Resumed
<1>7. ASSUME m.type = "answer", task[i].at = "load", Ends(i),
             UNCHANGED <<first, spec, design, save, down>>
      PROVE  Resumed(i, m)
  BY <1>7, Ending DEF Resumed, Loaded
<1>8. ASSUME m.type = "answer", task[i].at = "import", Ends(i),
             UNCHANGED <<first, spec, design, save>>,
             down' = Append(down, [op |-> "imported", page |-> page,
                                   df |-> Dataflow(task[i].design, 0)])
      PROVE  Resumed(i, m)
  <2> DEFINE r == [op |-> "imported", page |-> page, df |-> Dataflow(task[i].design, 0)]
  <2>1. r.op = "imported" /\ r.page = page /\ r.df = Dataflow(task[i].design, 0)
    OBVIOUS
  <2>2. down' = Append(down, r)
    BY <1>8
  <2> HIDE DEF r
  <2>3. Grown(down, down', 1) /\ Fresh = r
    BY <2>2, Pushing DEF Fresh
  <2>4. Imports(i, m)
    BY <1>8, <2>1, <2>3, Ending DEF Imports
  <2> QED
    BY <1>8, <2>4 DEF Resumed
<1> QED
  BY <1>0, <1>1, <1>2, <1>3, <1>4, <1>5, <1>6, <1>7, <1>8 DEF Resume

LEMMA ClientSteps == ASSUME Base, Client PROVE ClientTable
<1> DEFINE m == Head(up)
<1>1. up # <<>> /\ up' = Tail(up) /\ UNCHANGED <<page, graph, edits, clock, torn, held, calm>>
  BY DEF Client
<1>2. Popped(up, up') /\ m = up[1]
  BY <1>1, Popping DEF Base, Channels
<1>3. ASeq(down) /\ Tasks /\ UpOK(m)
  BY <1>2 DEF Base, Channels, Popped
<1>4. \/ m.type = "event" /\ Start(m)
      \/ m.type = "answer" /\ Resume(m.to, m.df)
      \/ m.type = "error" /\ Break(m.to)
  BY DEF Client
<1> HIDE DEF m
<1>5. CASE m.type = "event" /\ Start(m)
  <2>1. CASE m.ev = "graph" /\ StartGraph(m.df)
    BY <1>5, <2>1, <1>1, <1>2 DEF ClientTable, Graphs, IsEvent, StartGraph, Save
  <2>2. CASE m.ev # "graph"
    <3>1. Begun(m) \/ Refuses(m)
      BY <1>3, <1>5, <2>2, Starting DEF Start, Idle
    <3> QED
      BY <3>1, <1>1, <1>2 DEF ClientTable
  <2> QED
    BY <1>5, <2>1, <2>2 DEF Start
<1>6. CASE m.type \in {"answer", "error"}
  <2>1. Reply(m) /\ m.to \in Slots
    BY <1>3, <1>6 DEF Reply, UpOK
  <2>2. Resumed(m.to, m)
    BY <1>3, <1>4, <1>6, <2>1, Resuming
  <2> QED
    BY <2>2, <1>1, <1>2 DEF ClientTable
<1> QED
  BY <1>4, <1>5, <1>6
-----------------------------------------------------------------------------
(***************************************************************************)
(* The steps of the page and the user, in the same way.  `Said' is the     *)
(* first message of a step, `Added' the second.                            *)
(***************************************************************************)
Said == up'[Len(up) + 1]
Added == up'[Len(up) + 2]

Shown(g) == /\ clock' = clock + 1
            /\ graph' = [g EXCEPT !.clock = clock + 1]

\* One answer, of a request the dataflow does not change for.
Answers(r) == /\ Grown(up, up', 1) /\ UNCHANGED <<graph, clock>>
              /\ r.op \in {"graph_get", "specification_change", "notification_send",
                           "interfaces_change"}
              /\ r.op = "interfaces_change" => r.design # graph.design
              /\ Said.type = "answer" /\ Said.to = r.to
              /\ Said.df = IF r.op = "graph_get" THEN graph ELSE None

Changes(r) == /\ Grown(up, up', 2) /\ r.op = "graph_change" /\ Shown(r.df)
              /\ IsEvent(Said, "graph") /\ Said.df = graph'
              /\ Added.type = "answer" /\ Added.to = r.to /\ Added.df = None

Replaces(r) == /\ Grown(up, up', 1) /\ r.op = "imported"
               /\ Shown([r.df EXCEPT !.edits = 1..edits])
               /\ IsEvent(Said, "graph") /\ Said.df = graph'

Exposes(r) == /\ Grown(up, up', 2) /\ r.op = "interfaces_change" /\ r.design = graph.design
              /\ Shown([graph EXCEPT !.shown[r.node] = r.shown])
              /\ IsEvent(Said, "change")
              /\ Added.type = "answer" /\ Added.to = r.to /\ Added.df = None

Fails(r) == /\ Grown(up, up', 1) /\ UNCHANGED <<graph, clock>>
            /\ r.op # "imported" /\ r.page < page
            /\ Said.type = "error" /\ Said.to = r.to

PageTable == /\ Popped(down, down')
             /\ UNCHANGED <<page, edits, first, spec, design, save, task, torn, held, calm>>
             /\ \/ Answers(down[1]) \/ Changes(down[1]) \/ Replaces(down[1])
                \/ Exposes(down[1]) \/ Fails(down[1])

\* What event m says was changed in the dataflow that is g now.
Told(g, m) == /\ m.ev # "change" => design \in Wired
              /\ m.ev # "connections" => g.conn = graph.conn
              /\ m.ev # "nodes" => g.shown = graph.shown
              /\ m.ev = "nodes" =>
                    /\ m.added \subseteq NodeSet
                    /\ \A n \in NodeSet \ m.added : g.shown[n] = graph.shown[n]

Edits == /\ Grown(up, up', 1) /\ page > 0
         /\ edits < MaxEdits /\ edits' = edits + 1
         /\ clock' = clock + 1
         /\ graph' \in Dataflows /\ graph'.clock = clock + 1
         /\ graph'.design = graph.design
         /\ graph'.edits = graph.edits \cup {edits + 1}
         /\ Said.type = "event" /\ Said.ev \in {"change", "connections", "nodes"}
         /\ Told(graph', Said)
         /\ UNCHANGED <<page, first, spec, design, save, task, down, torn, held, calm>>

Loads == /\ Grown(up, up', 1) /\ page < MaxPages /\ page' = page + 1
         /\ design \in Wired => page < 1
         /\ clock' = clock + 1
         /\ graph' = [Dataflow(None, 0) EXCEPT !.clock = clock + 1]
         /\ IsEvent(Said, "connect")
         /\ torn' = (torn \/ Importing) /\ calm' = (calm /\ Quiet)
         /\ held' = IF save = None THEN {} ELSE save.edits
         /\ UNCHANGED <<edits, first, spec, design, save, task, down>>

Requests == /\ Grown(up, up', 1) /\ page > 0 /\ design \notin Wired
            /\ IsEvent(Said, "import") /\ Said.design \in Import
            /\ UNCHANGED <<page, graph, edits, clock, first, spec, design, save, task,
                           down, torn, held, calm>>

LEMMA UserSteps == ASSUME Base, User PROVE Edits \/ Loads \/ Requests
<1> USE Sessions
<1>0. ASeq(up) /\ graph \in Dataflows /\ edits \in Nat /\ clock \in Nat /\ page \in Nat
  BY DEF Base, Channels, TypeOK
<1>1. ASSUME NEW g, NEW m, Show(g, m)
      PROVE  Grown(up, up', 1) /\ Said = m /\ Shown(g)
  BY <1>0, <1>1, Pushing DEF Show, Said, Shown
<1>2. ASSUME NEW g \in Dataflows, NEW m, Show(g, m), page > 0, edits < MaxEdits,
             edits' = edits + 1, g.design = graph.design, g.edits = graph.edits \cup {edits + 1},
             m.type = "event", m.ev \in {"change", "connections", "nodes"}, Told(g, m),
             UNCHANGED <<page, first, spec, design, save, task, down, torn, held, calm>>
      PROVE  Edits
  <2>1. Grown(up, up', 1) /\ Said = m /\ Shown(g)
    BY <1>1, <1>2
  <2>2. /\ graph' \in Dataflows /\ graph'.clock = clock + 1
        /\ graph'.design = g.design /\ graph'.edits = g.edits
    BY <1>0, <2>1 DEF Shown, Dataflows
  <2>3. Told(graph', Said)
    <3>1. g \in [design : Designs \cup {None}, edits : SUBSET (1..MaxEdits), clock : Nat,
                 ours : BOOLEAN, conn : [NodeSet -> SUBSET Ifaces],
                 shown : [NodeSet -> SUBSET Ifaces]]
      BY <1>2 DEF Dataflows
    <3>2. graph'.conn = g.conn /\ graph'.shown = g.shown
      BY <2>1, <3>1 DEF Shown
    <3>3. Said = m
      BY <2>1
    <3> QED
      BY <1>2, <3>2, <3>3 DEF Told
  <2> QED
    BY <1>2, <2>1, <2>2, <2>3 DEF Edits, Shown
<1>3. CASE Load
  <2>1. Show(Dataflow(None, 0), Event("connect"))
    BY <1>3 DEF Load
  <2>2. Grown(up, up', 1) /\ Said = Event("connect") /\ Shown(Dataflow(None, 0))
    BY <1>1, <2>1
  <2>3. page < MaxPages
    BY <1>0, <1>3 DEF Load
  <2> QED
    BY <1>3, <2>2, <2>3 DEF Load, Loads, Event, IsEvent, Shown
<1>4. CASE EditProperty
  <2> DEFINE g == [graph EXCEPT !.edits = @ \cup {edits'}]
  <2> DEFINE m == Event("change")
  <2>1. /\ Show(g, m) /\ page > 0 /\ edits < MaxEdits /\ edits' = edits + 1
        /\ UNCHANGED <<page, first, spec, design, save, task, down, torn, held, calm>>
    BY <1>4 DEF EditProperty
  <2>2. g \in Dataflows /\ g.design = graph.design /\ g.edits = graph.edits \cup {edits + 1}
    BY <1>0, <2>1 DEF Dataflows
  <2>3. m.type = "event" /\ m.ev \in {"change", "connections", "nodes"} /\ Told(g, m)
    BY DEF Event, Told
  <2> HIDE DEF g, m
  <2> QED
    BY <1>2, <2>1, <2>2, <2>3
<1>5. CASE EditConnections
  <2> PICK c \in [NodeSet -> Wirings] \ {graph.conn} :
              Show([graph EXCEPT !.edits = @ \cup {edits'}, !.conn = c], Event("connections"))
    BY <1>5 DEF EditConnections
  <2> DEFINE g == [graph EXCEPT !.edits = @ \cup {edits'}, !.conn = c]
  <2> DEFINE m == Event("connections")
  <2>1. /\ Show(g, m) /\ page > 0 /\ edits < MaxEdits /\ edits' = edits + 1
        /\ UNCHANGED <<page, first, spec, design, save, task, down, torn, held, calm>>
    BY <1>5 DEF EditConnections
  <2>2. c \in [NodeSet -> SUBSET Ifaces]
    OBVIOUS
  <2>e. edits' \in 1..MaxEdits /\ graph.edits \cup {edits'} \in SUBSET (1..MaxEdits)
    BY <1>0, <2>1 DEF Dataflows
  <2>3. g \in Dataflows /\ g.design = graph.design /\ g.edits = graph.edits \cup {edits + 1}
    <3> DEFINE h == [graph EXCEPT !.edits = @ \cup {edits'}]
    <3>1. h \in Dataflows /\ h.design = graph.design /\ h.edits = graph.edits \cup {edits + 1}
      BY <1>0, <2>1, <2>e DEF Dataflows
    <3>2. g = [h EXCEPT !.conn = c]
      OBVIOUS
    <3> HIDE DEF h, g
    <3> QED
      BY <2>2, <3>1, <3>2 DEF Dataflows
  <2>4. m.type = "event" /\ m.ev \in {"change", "connections", "nodes"} /\ Told(g, m)
    <3>1. m.ev = "connections" /\ m.type = "event"
      BY DEF Event
    <3>2. g.shown = graph.shown
      BY <1>0 DEF Dataflows
    <3> QED
      BY <1>5, <3>1, <3>2 DEF Told, EditConnections
  <2> HIDE DEF g, m
  <2> QED
    BY <1>2, <2>1, <2>3, <2>4
<1>6. CASE AddNodes
  <2> DEFINE g(S) == [graph EXCEPT !.edits = @ \cup {edits'},
                                   !.shown = [n \in NodeSet |-> IF n \in S THEN {} ELSE @[n]]]
  <2> DEFINE m(S) == [type |-> "event", ev |-> "nodes", added |-> S]
  <2> PICK S \in SUBSET NodeSet : Show(g(S), m(S))
    BY <1>6 DEF AddNodes
  <2>1. /\ page > 0 /\ edits < MaxEdits /\ edits' = edits + 1
        /\ UNCHANGED <<page, first, spec, design, save, task, down, torn, held, calm>>
    BY <1>6 DEF AddNodes
  <2> DEFINE sh == [n \in NodeSet |-> IF n \in S THEN {} ELSE graph.shown[n]]
  <2>2. graph.shown \in [NodeSet -> SUBSET Ifaces]
    BY <1>0 DEF Dataflows
  <2>3. sh \in [NodeSet -> SUBSET Ifaces]
    BY <2>2
  <2>4. g(S) = [graph EXCEPT !.edits = @ \cup {edits'}, !.shown = sh]
    OBVIOUS
  <2> HIDE DEF sh
  <2>e. edits' \in 1..MaxEdits /\ graph.edits \cup {edits'} \in SUBSET (1..MaxEdits)
    BY <1>0, <2>1 DEF Dataflows
  <2>5. g(S) \in Dataflows /\ g(S).design = graph.design /\ g(S).edits = graph.edits \cup {edits + 1}
    <3> DEFINE h == [graph EXCEPT !.edits = @ \cup {edits'}]
    <3>1. h \in Dataflows /\ h.design = graph.design /\ h.edits = graph.edits \cup {edits + 1}
      BY <1>0, <2>1, <2>e DEF Dataflows
    <3>2. g(S) = [h EXCEPT !.shown = sh]
      BY <2>4
    <3> HIDE DEF h, g
    <3> QED
      BY <2>3, <3>1, <3>2 DEF Dataflows
  <2>6. m(S).type = "event" /\ m(S).ev \in {"change", "connections", "nodes"} /\ Told(g(S), m(S))
    <3>1. /\ m(S).type = "event" /\ m(S).ev = "nodes" /\ m(S).added = S
      OBVIOUS
    <3>2. g(S).conn = graph.conn /\ g(S).shown = sh
      BY <1>0, <2>4 DEF Dataflows
    <3>3. \A n \in NodeSet \ S : sh[n] = graph.shown[n]
      BY DEF sh
    <3> HIDE DEF g, m
    <3> QED
      BY <1>6, <3>1, <3>2, <3>3 DEF Told, AddNodes
  <2> HIDE DEF g, m
  <2> QED
    BY <1>2, <2>1, <2>5, <2>6
<1>7. CASE AskImport
  <2> PICK d \in Import : up' = Append(up, [type |-> "event", ev |-> "import", design |-> d])
    BY <1>7 DEF AskImport
  <2> DEFINE m == [type |-> "event", ev |-> "import", design |-> d]
  <2>1. m.type = "event" /\ m.ev = "import" /\ m.design \in Import /\ up' = Append(up, m)
    OBVIOUS
  <2> HIDE DEF m
  <2>2. Grown(up, up', 1) /\ Said = m
    BY <1>0, <2>1, Pushing DEF Said
  <2> QED
    BY <1>7, <2>1, <2>2 DEF AskImport, Requests, IsEvent
<1> QED
  BY <1>3, <1>4, <1>5, <1>6, <1>7 DEF User

LEMMA PageSteps == ASSUME Base, Page PROVE PageTable
<1> DEFINE r == Head(down)
<1>1. /\ down # <<>> /\ down' = Tail(down)
      /\ UNCHANGED <<page, edits, first, spec, design, save, task, torn, held, calm>>
  BY DEF Page
<1>2. Popped(down, down') /\ r = down[1] /\ ASeq(up)
  BY <1>1, Popping DEF Base, Channels
<1>3. ASSUME NEW m, up' = Append(up, m)
      PROVE  Grown(up, up', 1) /\ Said = m
  BY <1>2, <1>3, Pushing DEF Said
<1>4. ASSUME NEW m, NEW n, up' = up \o <<m, n>>
      PROVE  Grown(up, up', 2) /\ Said = m /\ Added = n
  BY <1>2, <1>4, PushingTwo DEF Said, Added
<1>5. ASSUME NEW x, up' = Append(up, Answer(r, x)), UNCHANGED <<graph, clock>>,
             r.op \in {"graph_get", "specification_change", "notification_send",
                       "interfaces_change"},
             r.op = "interfaces_change" => r.design # graph.design,
             x = IF r.op = "graph_get" THEN graph ELSE None
      PROVE  Answers(r)
  <2>1. Grown(up, up', 1) /\ Said = Answer(r, x)
    BY <1>3, <1>5
  <2> QED
    BY <1>5, <2>1 DEF Answers, Answer
<1>6. ASSUME r.op = "graph_change", clock' = clock + 1, graph' = [r.df EXCEPT !.clock = clock'],
             up' = up \o <<GraphEvent(graph'), Answer(r, None)>>
      PROVE  Changes(r)
  <2>1. Grown(up, up', 2) /\ Said = GraphEvent(graph') /\ Added = Answer(r, None)
    BY <1>4, <1>6
  <2> QED
    BY <1>6, <2>1 DEF Changes, Shown, IsEvent, GraphEvent, Answer
<1>7. ASSUME r.op = "imported", clock' = clock + 1,
             graph' = [r.df EXCEPT !.clock = clock', !.edits = 1..edits],
             up' = Append(up, GraphEvent(graph'))
      PROVE  Replaces(r)
  <2>1. Grown(up, up', 1) /\ Said = GraphEvent(graph')
    BY <1>3, <1>7
  <2>2. Shown([r.df EXCEPT !.edits = 1..edits])
    BY <1>7 DEF Shown
  <2> QED
    BY <1>7, <2>1, <2>2 DEF Replaces, IsEvent, GraphEvent
<1>8. ASSUME r.op = "interfaces_change", r.design = graph.design, clock' = clock + 1,
             graph' = [graph EXCEPT !.clock = clock', !.shown[r.node] = r.shown],
             up' = up \o <<Event("change"), Answer(r, None)>>
      PROVE  Exposes(r)
  <2>1. Grown(up, up', 2) /\ Said = Event("change") /\ Added = Answer(r, None)
    BY <1>4, <1>8
  <2>2. Shown([graph EXCEPT !.shown[r.node] = r.shown])
    BY <1>8 DEF Shown
  <2> QED
    BY <1>8, <2>1, <2>2 DEF Exposes, IsEvent, Event, Answer
<1>9. ASSUME r.op # "imported", r.page < page, UNCHANGED <<graph, clock>>,
             up' = Append(up, [type |-> "error", to |-> r.to])
      PROVE  Fails(r)
  <2> DEFINE m == [type |-> "error", to |-> r.to]
  <2>1. m.type = "error" /\ m.to = r.to
    OBVIOUS
  <2>2. up' = Append(up, m)
    BY <1>9
  <2> HIDE DEF m
  <2>3. Grown(up, up', 1) /\ Said = m
    BY <1>3, <2>2
  <2> QED
    BY <1>9, <2>1, <2>3 DEF Fails
<1> HIDE DEF r
<1>10. \/ Answers(r) \/ Changes(r) \/ Replaces(r) \/ Exposes(r) \/ Fails(r)
  BY <1>5, <1>6, <1>7, <1>8, <1>9 DEF Page, r
<1> QED
  BY <1>1, <1>2, <1>10 DEF PageTable
-----------------------------------------------------------------------------
(***************************************************************************)
(* Base is inductive.                                                      *)
(***************************************************************************)
\* What is left when the messages and the coroutines are known to be well formed.
Plain == /\ page \in 0..MaxPages /\ edits \in 0..MaxEdits /\ clock \in Nat
         /\ graph \in Dataflows
         /\ first \in BOOLEAN /\ torn \in BOOLEAN /\ calm \in BOOLEAN /\ held \subseteq 1..MaxEdits
         /\ spec \in Designs \cup {None} /\ design \in Designs \cup {None}
         /\ save = None \/ save \in Dataflows

LEMMA PlainIsEnough == Plain /\ Channels /\ Tasks => TypeOK
  BY DEF Plain, Channels, Tasks, TypeOK, UpOK, DownOK, At

LEMMA BaseIsPlain == Base => Plain
  BY DEF Base, TypeOK, Plain

LEMMA NewDataflow == \A d \in Designs \cup {None} : Dataflow(d, 0) \in Dataflows
<1> SUFFICES ASSUME NEW d \in Designs \cup {None} PROVE Dataflow(d, 0) \in Dataflows
  OBVIOUS
<1>1. Bare \in [NodeSet -> SUBSET Ifaces]
  BY DEF Bare
<1> QED
  BY <1>1 DEF Dataflow, Dataflows

LEMMA BaseStart == Init => Base
<1> SUFFICES ASSUME Init PROVE Base
  OBVIOUS
<1> USE Sessions DEF Init
<1>1. Dataflow(None, 0) \in Dataflows
  BY NewDataflow
<1>2. [Dataflow(None, 0) EXCEPT !.ours = FALSE] \in Dataflows
  BY <1>1 DEF Dataflows
<1>3. Plain
  <2>1. first \in BOOLEAN /\ torn \in BOOLEAN /\ calm \in BOOLEAN
    BY Zenon
  <2>2. save = None \/ save \in Dataflows
    BY <1>1, <1>2
  <2>3. page \in 0..MaxPages /\ edits \in 0..MaxEdits /\ clock \in Nat
    OBVIOUS
  <2>4. /\ graph \in Dataflows /\ held \subseteq 1..MaxEdits
        /\ spec \in Designs \cup {None} /\ design \in Designs \cup {None}
    BY <1>1
  <2> QED
    BY <2>1, <2>2, <2>3, <2>4, Zenon DEF Plain
<1>4. Channels /\ Single
  BY EmptyChannel DEF Channels, Single
<1>5. Tasks
  BY DEF Tasks, Free, At
<1> QED
  BY <1>3, <1>4, <1>5, PlainIsEnough DEF Base

\* One coroutine is changed that no message is for but the one taken.
LEMMA OthersWait ==
    ASSUME Base, NEW i \in Slots, Others(i), Popped(up, up'),
           \/ task[i] = Free
           \/ Reply(up[1]) /\ up[1].to = i
    PROVE  /\ \A k \in 1..Len(up') : UpOK(up[k])' /\ (Reply(up'[k]) => up'[k].to # i)
           /\ \A k \in 1..Len(down) : /\ Request(down[k]) => down[k].to # i
                                      /\ Request(down[k]) => task'[down[k].to] = task[down[k].to]
<1>1. ASSUME NEW k \in 2..Len(up), Reply(up[k])
      PROVE  up[k].to \in Slots /\ up[k].to # i
  <2>1. k \in 1..Len(up) /\ 1 \in 1..Len(up)
    BY DEF Popped
  <2>2. UpOK(up[k]) /\ up[k].to \in Slots /\ task[up[k].to].at # "free"
    BY <1>1, <2>1 DEF Base, Channels, UpOK, Reply
  <2>3. CASE task[i] = Free
    BY <2>2, <2>3 DEF Free
  <2>4. CASE Reply(up[1]) /\ up[1].to = i
    BY <1>1, <2>1, <2>2, <2>4 DEF Base, Single
  <2> QED
    BY <2>2, <2>3, <2>4
<1>2. ASSUME NEW k \in 1..Len(up')
      PROVE  UpOK(up[k])' /\ (Reply(up'[k]) => up'[k].to # i)
  <2>1. up'[k] = up[k + 1] /\ k + 1 \in 2..Len(up)
    BY DEF Popped
  <2>2. UpOK(up[k + 1])
    BY <2>1 DEF Base, Channels
  <2>3. Reply(up[k + 1]) => /\ up[k + 1].to # i
                            /\ task'[up[k + 1].to] = task[up[k + 1].to]
    BY <1>1, <2>1 DEF Others
  <2> QED
    BY <2>1, <2>2, <2>3 DEF UpOK, Reply
<1>3. ASSUME NEW k \in 1..Len(down), Request(down[k])
      PROVE  down[k].to # i /\ task'[down[k].to] = task[down[k].to]
  <2>1. 1 \in 1..Len(up)
    BY DEF Popped
  <2>2. down[k].to \in Slots /\ task[down[k].to].at # "free"
    BY <1>3 DEF Base, Channels, DownOK, Request
  <2>3. down[k].to # i
    BY <1>3, <2>1, <2>2 DEF Base, Single, Free
  <2> QED
    BY <2>2, <2>3 DEF Others
<1> QED
  BY <1>2, <1>3

LEMMA SentKeeps ==
    ASSUME Base, NEW i \in Slots, Sent(i), Popped(up, up'), page' = page,
           \/ task[i] = Free
           \/ Reply(up[1]) /\ up[1].to = i,
           task'[i].at \in At \ {"free"},
           task'[i].at \in {"spec", "import"} => task'[i].design \in Designs,
           Fresh.op = "graph_change" => Fresh.df \in Dataflows,
           Fresh.op = "interfaces_change" => Fresh.shown \subseteq Ifaces
    PROVE  Channels' /\ Tasks' /\ Single'
<1> USE DEF Sent
<1>1. /\ \A k \in 1..Len(up') : UpOK(up[k])' /\ (Reply(up'[k]) => up'[k].to # i)
      /\ \A k \in 1..Len(down) : /\ Request(down[k]) => down[k].to # i
                                 /\ Request(down[k]) => task'[down[k].to] = task[down[k].to]
  BY OthersWait
<1>2. Tasks'
  BY DEF Tasks, Others, Base
<1>3. page \in 1..MaxPages
  BY DEF Base, TypeOK, Channels, Popped
<1>4. /\ Fresh.op # "imported" /\ Fresh.op \notin {"imported"}
      /\ Fresh.page \in 1..MaxPages /\ Fresh.to = i /\ Fresh.op = Ask(task'[i].at)
  BY <1>3 DEF Ask, At
<1>5. ASSUME NEW k \in 1..Len(down') PROVE DownOK(down[k])'
  <2>1. CASE k \in 1..Len(down)
    <3>1. down'[k] = down[k] /\ DownOK(down[k])
      BY <2>1 DEF Grown, Base, Channels
    <3> QED
      BY <1>1, <2>1, <3>1 DEF DownOK, Request
  <2>2. CASE k = Len(down) + 1
    <3>1. down'[k] = Fresh
      BY <2>2 DEF Fresh
    <3> QED
      BY <1>4, <3>1 DEF DownOK
  <2> QED
    BY <2>1, <2>2 DEF Grown
<1>6. Channels'
  <2>1. page' # 0
    BY <1>3
  <2> QED
    BY <1>1, <1>5, <2>1 DEF Channels, Grown, Popped
<1>7. Single'
  <2>1. \A j, k \in 1..Len(up') : Reply(up'[j]) /\ Reply(up'[k]) /\ up'[j].to = up'[k].to => j = k
    BY DEF Base, Single, Popped
  <2>2. \A k \in 1..Len(down') :
           \/ k = Len(down) + 1 /\ down'[k].to = i
           \/ k \in 1..Len(down) /\ down'[k] = down[k]
    BY <1>4 DEF Grown, Fresh
  <2>3. \A j, k \in 1..Len(down') : Request(down'[j]) /\ Request(down'[k]) /\ down'[j].to = down'[k].to
                                      => j = k
    BY <1>1, <2>2 DEF Base, Single
  <2>4. \A j \in 1..Len(up'), k \in 1..Len(down') :
           Reply(up'[j]) /\ Request(down'[k]) => up'[j].to # down'[k].to
    <3>1. \A j \in 1..Len(up') : j + 1 \in 1..Len(up) /\ up'[j] = up[j + 1]
      BY DEF Popped
    <3> QED
      BY <1>1, <2>2, <3>1 DEF Base, Single
  <2> QED
    BY <2>1, <2>3, <2>4 DEF Single
<1> QED
  BY <1>2, <1>6, <1>7

LEMMA FreedKeeps ==
    ASSUME Base, NEW i \in Slots, Freed(i), Popped(up, up'), page' = page,
           Reply(up[1]) /\ up[1].to = i,
           \/ down' = down
           \/ /\ Grown(down, down', 1) /\ Fresh.op = "imported" /\ Fresh.page = page
              /\ Fresh.df \in Dataflows
    PROVE  Channels' /\ Tasks' /\ Single'
<1> USE DEF Freed
<1>1. /\ \A k \in 1..Len(up') : UpOK(up[k])' /\ (Reply(up'[k]) => up'[k].to # i)
      /\ \A k \in 1..Len(down) : /\ Request(down[k]) => down[k].to # i
                                 /\ Request(down[k]) => task'[down[k].to] = task[down[k].to]
  BY OthersWait
<1>2. Tasks'
  BY DEF Tasks, Others, Base, Free, At
<1>3. page \in 1..MaxPages
  BY DEF Base, TypeOK, Channels, Popped
<1>4. \A k \in 1..Len(down') :
         \/ k = Len(down) + 1 /\ down'[k] = Fresh /\ Fresh.op = "imported"
            /\ Fresh.page = page /\ Fresh.df \in Dataflows
         \/ k \in 1..Len(down) /\ down'[k] = down[k]
  BY DEF Grown, Fresh
<1>5. ASSUME NEW k \in 1..Len(down') PROVE DownOK(down[k])'
  <2>1. CASE k \in 1..Len(down) /\ down'[k] = down[k]
    <3>1. down'[k] = down[k] /\ DownOK(down[k])
      BY <2>1 DEF Base, Channels
    <3> QED
      BY <1>1, <2>1, <3>1 DEF DownOK, Request
  <2>2. CASE down'[k] = Fresh /\ Fresh.op = "imported" /\ Fresh.page = page /\ Fresh.df \in Dataflows
    BY <1>3, <2>2 DEF DownOK
  <2> QED
    BY <1>4, <2>1, <2>2
<1>6. Channels'
  <2>1. page' # 0 /\ ASeq(down')
    BY <1>3 DEF Base, Channels, Grown
  <2> QED
    BY <1>1, <1>5, <2>1 DEF Channels, Popped
<1>7. Single'
  <2>1. \A j, k \in 1..Len(up') : Reply(up'[j]) /\ Reply(up'[k]) /\ up'[j].to = up'[k].to => j = k
    BY DEF Base, Single, Popped
  <2>2. \A k \in 1..Len(down') : Request(down'[k]) => k \in 1..Len(down) /\ down'[k] = down[k]
    BY <1>4 DEF Request
  <2>3. \A j, k \in 1..Len(down') : Request(down'[j]) /\ Request(down'[k]) /\ down'[j].to = down'[k].to
                                      => j = k
    BY <2>2 DEF Base, Single
  <2>4. \A j \in 1..Len(up'), k \in 1..Len(down') :
           Reply(up'[j]) /\ Request(down'[k]) => up'[j].to # down'[k].to
    <3>1. \A j \in 1..Len(up') : j + 1 \in 1..Len(up) /\ up'[j] = up[j + 1]
      BY DEF Popped
    <3> QED
      BY <2>2, <3>1 DEF Base, Single
  <2> QED
    BY <2>1, <2>3, <2>4 DEF Single
<1> QED
  BY <1>2, <1>6, <1>7

LEMMA BaseClient == ASSUME Base, ClientTable PROVE Base'
<1> DEFINE m == up[1]
<1>1. /\ Popped(up, up') /\ UNCHANGED <<page, graph, edits, clock, torn, held, calm>>
      /\ Begun(m) \/ Resumed(m.to, m) \/ Graphs(m) \/ Refuses(m)
  BY DEF ClientTable
<1>2. Plain /\ UpOK(m)
  BY <1>1, BaseIsPlain DEF Base, Channels, Popped
<1>3. \A k \in 1..Len(down) : DownOK(down[k])
  BY DEF Base, Channels
<1>4. ASSUME Plain', Channels', Tasks', Single' PROVE Base'
  BY <1>4, PlainIsEnough, PTL DEF Base
<1>5. ASSUME save' = save \/ save' \in Dataflows, first' \in BOOLEAN,
             spec' \in Designs \cup {None}, design' \in Designs \cup {None}
      PROVE  Plain'
  <2>1. save' = None \/ save' \in Dataflows
    BY <1>2, <1>5 DEF Plain
  <2> QED
    BY <1>1, <1>2, <1>5, <2>1, Zenon DEF Plain
<1> HIDE DEF m
<1>6. CASE Begun(m)
  <2> PICK i \in Slots : \/ StartsGet(i, m) \/ StartsLoad(i, m) \/ StartsSpec(i, m)
                         \/ StartsFirst(i, m) \/ StartsImport(i, m)
    BY <1>6 DEF Begun
  <2>1. m.ev = "import" => m.design \in Designs
    BY <1>2, <1>6 DEF UpOK, Begun, StartsGet, StartsLoad, StartsSpec, StartsFirst, StartsImport, Starts
  <2>2. Starts(i, m)
    BY DEF StartsGet, StartsLoad, StartsSpec, StartsFirst, StartsImport
  <2>3. /\ spec' \in Designs \cup {None} /\ design' \in Designs \cup {None}
        /\ task'[i].at \in {"get", "load", "spec", "first", "import"}
        /\ task'[i].at \in {"spec", "import"} => task'[i].design \in Designs
        /\ task'[i].at = "load" => Fresh.df = save /\ save # None
    BY <1>2, <2>1 DEF StartsGet, StartsLoad, StartsSpec, StartsFirst, StartsImport, Plain
  <2>4. first' \in BOOLEAN
    <3>1. first' = first \/ first' = FALSE
      BY DEF StartsGet, StartsLoad, StartsSpec, StartsFirst, StartsImport
    <3> QED
      BY <1>2, <3>1, Zenon DEF Plain
  <2>5. Plain'
    BY <1>5, <2>2, <2>3, <2>4 DEF Starts
  <2>6. /\ Fresh.op = "graph_change" => Fresh.df \in Dataflows
        /\ Fresh.op # "interfaces_change"
        /\ task'[i].at \in At \ {"free"}
    BY <1>2, <2>2, <2>3 DEF Starts, Sent, Ask, At, Plain
  <2>7. Channels' /\ Tasks' /\ Single'
    BY <1>1, <2>2, <2>3, <2>6, SentKeeps DEF Starts
  <2> QED
    BY <1>4, <2>5, <2>7
<1>7. CASE Resumed(m.to, m)
  <2> DEFINE i == m.to
  <2>1. Reply(m) /\ i \in Slots /\ UNCHANGED <<first, spec, design>>
    BY <1>7 DEF Resumed
  <2>2. Reply(up[1]) /\ up[1].to = i
    BY <2>1 DEF m
  <2>3. task[i].at \in {"spec", "import"} => task[i].design \in Designs
    BY <2>1 DEF Base, Tasks
  <2>4. task[i].at \in {"spec", "import"} => Dataflow(task[i].design, 0) \in Dataflows
    BY <2>3, NewDataflow
  <2>5. first' \in BOOLEAN /\ spec' \in Designs \cup {None} /\ design' \in Designs \cup {None}
    BY <1>2, <2>1, Zenon DEF Plain
  <2>6. CASE Walks(i, m) \/ Sends(i, m)
    <3>1. Plain'
      BY <1>5, <2>5, <2>6 DEF Walks, Sends
    <3>2. Sent(i) /\ task'[i].at \in {"reget", "skip", "named", "expose", "load"}
      BY <2>6 DEF Walks, Sends
    <3>3. /\ task'[i].at \in At \ {"free"} /\ task'[i].at \notin {"spec", "import"}
          /\ Fresh.op = "graph_change" => Fresh.df \in Dataflows
          /\ Fresh.op = "interfaces_change" => Fresh.shown \subseteq Ifaces
      BY <2>4, <2>6, <3>2 DEF Walks, Sends, Sent, Ask, At
    <3>4. Channels' /\ Tasks' /\ Single'
      BY <1>1, <2>1, <2>2, <3>2, <3>3, SentKeeps
    <3> QED
      BY <1>4, <3>1, <3>4
  <2>7. CASE Stores(i, m) \/ Loaded(i, m) \/ Imports(i, m) \/ Breaks(i, m)
    <3>1. Stores(i, m) => m.df \in Dataflows
      BY <1>2 DEF Stores, UpOK
    <3>2. Plain'
      BY <1>5, <2>5, <2>7, <3>1 DEF Stores, Loaded, Imports, Breaks
    <3>3. /\ Freed(i)
          /\ \/ down' = down
             \/ /\ Grown(down, down', 1) /\ Fresh.op = "imported" /\ Fresh.page = page
                /\ Fresh.df \in Dataflows
      BY <2>4, <2>7 DEF Stores, Loaded, Imports, Breaks
    <3>4. Channels' /\ Tasks' /\ Single'
      BY <1>1, <2>1, <2>2, <3>3, FreedKeeps
    <3> QED
      BY <1>4, <3>2, <3>4
  <2> QED
    BY <1>7, <2>6, <2>7 DEF Resumed
<1>8. CASE Graphs(m) \/ Refuses(m)
  <2>1. UNCHANGED <<first, spec, design, task, down>>
    BY <1>8 DEF Graphs, Refuses
  <2>2. save' = save \/ save' \in Dataflows
    BY <1>2, <1>8 DEF Graphs, Refuses, UpOK, IsEvent
  <2>3. first' \in BOOLEAN /\ spec' \in Designs \cup {None} /\ design' \in Designs \cup {None}
    BY <1>2, <2>1, Zenon DEF Plain
  <2>4. Plain'
    BY <1>5, <2>2, <2>3
  <2>5. Tasks'
    BY <2>1 DEF Base, Tasks
  <2>6. \A k \in 1..Len(up') : k + 1 \in 1..Len(up) /\ up'[k] = up[k + 1]
    BY <1>1 DEF Popped
  <2>7. Channels'
    <3>1. \A k \in 1..Len(up') : UpOK(up[k])'
      BY <2>1, <2>6 DEF Base, Channels, UpOK
    <3>2. \A k \in 1..Len(down') : DownOK(down[k])'
      BY <2>1, <1>3 DEF DownOK
    <3>3. page' # 0 /\ ASeq(up') /\ ASeq(down')
      BY <1>1, <2>1 DEF Base, Channels, Popped
    <3> QED
      BY <3>1, <3>2, <3>3 DEF Channels
  <2>8. Single'
    <3>1. \A j, k \in 1..Len(up') : Reply(up'[j]) /\ Reply(up'[k]) /\ up'[j].to = up'[k].to => j = k
      BY <2>6 DEF Base, Single
    <3>2. \A j, k \in 1..Len(down') : Request(down'[j]) /\ Request(down'[k])
                                      /\ down'[j].to = down'[k].to => j = k
      BY <2>1 DEF Base, Single
    <3>3. \A j \in 1..Len(up'), k \in 1..Len(down') :
             Reply(up'[j]) /\ Request(down'[k]) => up'[j].to # down'[k].to
      BY <2>1, <2>6 DEF Base, Single
    <3> QED
      BY <3>1, <3>2, <3>3 DEF Single
  <2> QED
    BY <1>4, <2>4, <2>5, <2>7, <2>8
<1> QED
  BY <1>1, <1>6, <1>7, <1>8

\* The page's part: at most two messages more, one of them the reply to what it took.
LEMMA SaidKeeps ==
    ASSUME Base, Popped(down, down'), UNCHANGED <<page, task>>, NEW n \in {1, 2},
           Grown(up, up', n),
           \A k \in Len(up) + 1..Len(up') :
              UpOK(up[k])' /\ (Reply(up'[k]) => Request(down[1]) /\ up'[k].to = down[1].to),
           \A j, k \in Len(up) + 1..Len(up') : Reply(up'[j]) /\ Reply(up'[k]) => j = k
    PROVE  Channels' /\ Tasks' /\ Single'
<1>1. \A k \in 1..Len(down') : k + 1 \in 1..Len(down) /\ down'[k] = down[k + 1]
  BY DEF Popped
<1>2. 1 \in 1..Len(down)
  BY DEF Popped
<1>3. \A k \in 1..Len(up') :
         \/ k \in 1..Len(up) /\ up'[k] = up[k]
         \/ k \in Len(up) + 1..Len(up')
  BY DEF Grown
<1>4. ASSUME NEW k \in 1..Len(up') PROVE UpOK(up[k])'
  <2>1. CASE k \in 1..Len(up) /\ up'[k] = up[k]
    BY <2>1 DEF Base, Channels, UpOK
  <2> QED
    BY <1>3, <2>1
<1>5. ASSUME NEW k \in 1..Len(down') PROVE DownOK(down[k])'
  BY <1>1 DEF Base, Channels, DownOK
<1>6. page' # 0
  <2>1. page # 0
    BY <1>2, EmptyChannel DEF Base, Channels
  <2> QED
    BY <2>1
<1>7. Channels'
  BY <1>4, <1>5, <1>6 DEF Channels, Popped, Grown
<1>8. Tasks'
  BY DEF Base, Tasks
<1>9. Single'
  <2>1. \A j, k \in 1..Len(up') : Reply(up'[j]) /\ Reply(up'[k]) /\ up'[j].to = up'[k].to => j = k
    <3>1. ASSUME NEW j \in 1..Len(up'), NEW k \in 1..Len(up'), Reply(up'[j]), Reply(up'[k]),
                 up'[j].to = up'[k].to
          PROVE  j = k
      <4>1. CASE j \in 1..Len(up) /\ up'[j] = up[j] /\ k \in 1..Len(up) /\ up'[k] = up[k]
        BY <3>1, <4>1 DEF Base, Single
      <4>2. CASE j \in Len(up) + 1..Len(up') /\ k \in Len(up) + 1..Len(up')
        BY <3>1, <4>2
      <4>3. CASE j \in 1..Len(up) /\ up'[j] = up[j] /\ k \in Len(up) + 1..Len(up')
        BY <1>2, <3>1, <4>3 DEF Base, Single
      <4>4. CASE k \in 1..Len(up) /\ up'[k] = up[k] /\ j \in Len(up) + 1..Len(up')
        BY <1>2, <3>1, <4>4 DEF Base, Single
      <4> QED
        BY <1>3, <4>1, <4>2, <4>3, <4>4
    <3> QED
      BY <3>1
  <2>2. \A j, k \in 1..Len(down') : Request(down'[j]) /\ Request(down'[k])
                                    /\ down'[j].to = down'[k].to => j = k
    <3>1. ASSUME NEW j \in 1..Len(down'), NEW k \in 1..Len(down'), Request(down'[j]),
                 Request(down'[k]), down'[j].to = down'[k].to
          PROVE  j = k
      <4>1. /\ j + 1 \in 1..Len(down) /\ down'[j] = down[j + 1]
            /\ k + 1 \in 1..Len(down) /\ down'[k] = down[k + 1]
        BY <1>1
      <4>2. j + 1 = k + 1
        BY <3>1, <4>1 DEF Base, Single
      <4> QED
        BY <4>2
    <3> QED
      BY <3>1
  <2>3. ASSUME NEW j \in 1..Len(up'), NEW k \in 1..Len(down'), Reply(up'[j]), Request(down'[k])
        PROVE  up'[j].to # down'[k].to
    <3>1. k + 1 \in 1..Len(down) /\ k + 1 # 1 /\ Request(down[k + 1]) /\ down'[k] = down[k + 1]
      BY <1>1, <2>3
    <3>2. CASE j \in 1..Len(up) /\ up'[j] = up[j]
      BY <2>3, <3>1, <3>2 DEF Base, Single
    <3>3. CASE j \in Len(up) + 1..Len(up')
      BY <1>2, <2>3, <3>1, <3>3 DEF Base, Single
    <3> QED
      BY <1>3, <3>2, <3>3
  <2> QED
    BY <2>1, <2>2, <2>3 DEF Single
<1> QED
  BY <1>7, <1>8, <1>9

LEMMA BasePage == ASSUME Base, PageTable PROVE Base'
<1> DEFINE r == down[1]
<1>1. /\ Popped(down, down')
      /\ UNCHANGED <<page, edits, first, spec, design, save, task, torn, held, calm>>
      /\ Answers(r) \/ Changes(r) \/ Replaces(r) \/ Exposes(r) \/ Fails(r)
  BY DEF PageTable
<1>2. Plain /\ DownOK(r)
  BY <1>1, BaseIsPlain DEF Base, Channels, Popped
<1>3. r.op # "imported" => /\ r.to \in Slots /\ task[r.to].at \in At \ {"free"}
                           /\ r.op = "graph_get" <=> Fetches(task[r.to].at)
  BY <1>2 DEF DownOK, Base, Tasks, Ask, At, Fetches
<1>4. ASSUME Channels', Tasks', Single', graph' \in Dataflows, clock' \in Nat PROVE Base'
  <2>1. Plain'
    BY <1>1, <1>2, <1>4, Zenon DEF Plain
  <2> QED
    BY <1>4, <2>1, PlainIsEnough, PTL DEF Base
<1>5. ASSUME NEW g \in Dataflows, Shown(g) PROVE graph' \in Dataflows /\ clock' \in Nat
  BY <1>2, <1>5 DEF Shown, Plain, Dataflows
<1> HIDE DEF r
<1>6. CASE Answers(r) \/ Fails(r)
  <2>1. Grown(up, up', 1) /\ UNCHANGED <<graph, clock>> /\ r.op # "imported"
    BY <1>6 DEF Answers, Fails
  <2>2. \A k \in Len(up) + 1..Len(up') : k = Len(up) + 1 /\ up'[k] = Said
    BY <2>1 DEF Grown, Said
  <2>3. /\ Said.to = r.to /\ Said.type \in {"answer", "error"}
        /\ Said.type = "answer" => Said.df = IF r.op = "graph_get" THEN graph ELSE None
    BY <1>6 DEF Answers, Fails
  <2>4. \A k \in Len(up) + 1..Len(up') : UpOK(up[k])' /\ up'[k].to = r.to
    BY <1>1, <1>2, <1>3, <2>1, <2>2, <2>3 DEF UpOK, Plain, At
  <2>5. Request(r) /\ graph' \in Dataflows /\ clock' \in Nat
    BY <1>2, <2>1 DEF Request, Plain
  <2>6. \A k \in Len(up) + 1..Len(up') : Reply(up'[k]) => Request(down[1]) /\ up'[k].to = down[1].to
    BY <2>4, <2>5 DEF r
  <2>7. \A j, k \in Len(up) + 1..Len(up') : j = k
    BY <2>2
  <2>8. Channels' /\ Tasks' /\ Single'
    BY <1>1, <2>1, <2>4, <2>6, <2>7, SaidKeeps
  <2> QED
    BY <1>4, <2>5, <2>8
<1>7. CASE Changes(r) \/ Exposes(r)
  <2>1. Grown(up, up', 2) /\ r.op \in {"graph_change", "interfaces_change"}
    BY <1>7 DEF Changes, Exposes
  <2>2. \A k \in Len(up) + 1..Len(up') : \/ k = Len(up) + 1 /\ up'[k] = Said
                                         \/ k = Len(up) + 2 /\ up'[k] = Added
    BY <2>1 DEF Grown, Said, Added
  <2>3. graph' \in Dataflows /\ clock' \in Nat
    <3>1. CASE Changes(r)
      BY <1>2, <1>5, <3>1 DEF Changes, DownOK
    <3>2. CASE Exposes(r)
      <4>1. r.shown \subseteq Ifaces
        BY <1>2, <3>2 DEF Exposes, DownOK
      <4> DEFINE sh == [graph.shown EXCEPT ![r.node] = r.shown]
      <4> DEFINE g == [graph EXCEPT !.shown = sh]
      <4>2. graph \in Dataflows /\ graph.shown \in [NodeSet -> SUBSET Ifaces]
        BY <1>2 DEF Plain, Dataflows
      <4>3. sh \in [NodeSet -> SUBSET Ifaces]
        BY <4>1, <4>2
      <4>4. [graph EXCEPT !.shown[r.node] = r.shown] = g
        OBVIOUS
      <4> HIDE DEF sh
      <4>5. g \in Dataflows
        BY <4>2, <4>3 DEF Dataflows
      <4>6. Shown(g)
        BY <3>2, <4>4 DEF Exposes
      <4> HIDE DEF g
      <4> QED
        BY <1>5, <4>5, <4>6
    <3> QED
      BY <1>7, <3>1, <3>2
  <2>4. /\ Said.type = "event" /\ Said.ev \in {"graph", "change"}
        /\ Said.ev = "graph" => Said.df \in Dataflows
    BY <1>7, <2>3 DEF Changes, Exposes, IsEvent
  <2>5. /\ Added.type = "answer" /\ Added.to = r.to /\ Added.df = None
        /\ r.to \in Slots /\ task[r.to].at # "free" /\ ~Fetches(task[r.to].at)
    BY <1>3, <1>7, <2>1 DEF Changes, Exposes
  <2>6. ASSUME NEW k \in Len(up) + 1..Len(up')
        PROVE  UpOK(up[k])' /\ (Reply(up'[k]) => k = Len(up) + 2 /\ up'[k].to = r.to)
    <3>1. CASE k = Len(up) + 1 /\ up'[k] = Said
      BY <2>4, <3>1 DEF UpOK, Reply
    <3>2. CASE k = Len(up) + 2 /\ up'[k] = Added
      BY <1>1, <2>5, <3>2 DEF UpOK
    <3> QED
      BY <2>2, <3>1, <3>2
  <2>7. Request(r)
    BY <2>1 DEF Request
  <2>8. \A k \in Len(up) + 1..Len(up') :
           UpOK(up[k])' /\ (Reply(up'[k]) => Request(down[1]) /\ up'[k].to = down[1].to)
    BY <2>6, <2>7 DEF r
  <2>9. \A j, k \in Len(up) + 1..Len(up') : Reply(up'[j]) /\ Reply(up'[k]) => j = k
    BY <2>6
  <2>10. Channels' /\ Tasks' /\ Single'
    BY <1>1, <2>1, <2>8, <2>9, SaidKeeps
  <2> QED
    BY <1>4, <2>3, <2>10
<1>8. CASE Replaces(r)
  <2>1. Grown(up, up', 1) /\ Shown([r.df EXCEPT !.edits = 1..edits]) /\ r.df \in Dataflows
    BY <1>2, <1>8 DEF Replaces, DownOK
  <2>2. \A k \in Len(up) + 1..Len(up') : k = Len(up) + 1 /\ up'[k] = Said
    BY <2>1 DEF Grown, Said
  <2>3. [r.df EXCEPT !.edits = 1..edits] \in Dataflows
    <3>1. (1..edits) \subseteq 1..MaxEdits
      BY <1>2, Sessions DEF Plain
    <3> QED
      BY <2>1, <3>1 DEF Dataflows
  <2>4. graph' \in Dataflows /\ clock' \in Nat
    BY <1>5, <2>1, <2>3
  <2>5. Said.type = "event" /\ Said.ev = "graph" /\ Said.df \in Dataflows
    BY <1>8, <2>4 DEF Replaces, IsEvent
  <2>6. \A k \in Len(up) + 1..Len(up') : UpOK(up[k])' /\ ~Reply(up'[k])
    BY <2>2, <2>5 DEF UpOK, Reply
  <2>7. Channels' /\ Tasks' /\ Single'
    BY <1>1, <2>1, <2>6, SaidKeeps
  <2> QED
    BY <1>4, <2>4, <2>7
<1> QED
  BY <1>1, <1>6, <1>7, <1>8

LEMMA BaseUser == ASSUME Base, Edits \/ Loads \/ Requests PROVE Base'
<1>1. Plain
  BY BaseIsPlain
<1>2. Grown(up, up', 1) /\ UNCHANGED <<first, spec, design, save, task, down>>
  BY DEF Edits, Loads, Requests
<1>3. page' \in 1..MaxPages
  BY <1>1, Sessions DEF Edits, Loads, Requests, Plain
<1>4. Plain'
  <2>1. page' \in 0..MaxPages /\ edits' \in 0..MaxEdits /\ clock' \in Nat
    BY <1>1, <1>3, Sessions DEF Edits, Loads, Requests, Plain
  <2>2. graph' \in Dataflows
    <3>1. Dataflow(None, 0) \in Dataflows
      BY NewDataflow
    <3> QED
      BY <1>1, <3>1 DEF Edits, Loads, Requests, Plain, Dataflows
  <2>3. held' \subseteq 1..MaxEdits
    BY <1>1 DEF Edits, Loads, Requests, Plain, Dataflows
  <2>4. torn' \in BOOLEAN /\ calm' \in BOOLEAN
    <3>1. \/ torn' = torn /\ calm' = calm
          \/ torn' = (torn \/ Importing) /\ calm' = (calm /\ Quiet)
      BY DEF Edits, Loads, Requests
    <3> QED
      BY <1>1, <3>1, Zenon DEF Plain
  <2> QED
    BY <1>1, <1>2, <2>1, <2>2, <2>3, <2>4, Zenon DEF Plain
<1>5. \A k \in 1..Len(up') : \/ k \in 1..Len(up) /\ up'[k] = up[k]
                             \/ k = Len(up) + 1 /\ up'[k] = Said
  BY <1>2 DEF Grown, Said
<1>6. /\ Said.type = "event" /\ Said.ev \in {"connect", "change", "connections", "nodes", "import"}
      /\ Said.ev = "import" => Said.design \in Designs
  BY Sessions DEF Edits, Loads, Requests, IsEvent
<1>7. ASSUME NEW k \in 1..Len(up') PROVE UpOK(up[k])'
  <2>1. CASE k \in 1..Len(up) /\ up'[k] = up[k]
    BY <1>2, <2>1 DEF Base, Channels, UpOK
  <2>2. CASE up'[k] = Said
    BY <1>6, <2>2 DEF UpOK
  <2> QED
    BY <1>5, <2>1, <2>2
<1>8. ASSUME NEW k \in 1..Len(down') PROVE DownOK(down[k])'
  BY <1>2 DEF Base, Channels, DownOK
<1>9. Channels'
  BY <1>2, <1>3, <1>7, <1>8 DEF Channels, Grown, Base
<1>10. Tasks'
  BY <1>2 DEF Base, Tasks
<1>11. Single'
  <2>1. \A k \in 1..Len(up') : Reply(up'[k]) => k \in 1..Len(up) /\ up'[k] = up[k]
    BY <1>5, <1>6 DEF Reply
  <2>2. \A j, k \in 1..Len(up') : Reply(up'[j]) /\ Reply(up'[k]) /\ up'[j].to = up'[k].to => j = k
    BY <2>1 DEF Base, Single
  <2>3. \A j, k \in 1..Len(down') : Request(down'[j]) /\ Request(down'[k])
                                    /\ down'[j].to = down'[k].to => j = k
    BY <1>2 DEF Base, Single
  <2>4. \A j \in 1..Len(up'), k \in 1..Len(down') :
           Reply(up'[j]) /\ Request(down'[k]) => up'[j].to # down'[k].to
    BY <1>2, <2>1 DEF Base, Single
  <2> QED
    BY <2>2, <2>3, <2>4 DEF Single
<1> QED
  BY <1>4, <1>9, <1>10, <1>11, PlainIsEnough, PTL DEF Base

\* Every step by its table.
LEMMA Steps == ASSUME Base, [Next]_vars
               PROVE  \/ ClientTable \/ PageTable \/ Edits \/ Loads \/ Requests
                      \/ UNCHANGED vars
  BY ClientSteps, PageSteps, UserSteps DEF Next

LEMMA BaseInv == Spec => []Base
<1>1. Base /\ [Next]_vars => Base'
  <2> SUFFICES ASSUME Base, [Next]_vars PROVE Base'
    OBVIOUS
  <2>1. CASE UNCHANGED vars
    BY <2>1 DEF vars, Base, TypeOK, Channels, Tasks, Single, UpOK, DownOK
  <2> QED
    BY <2>1, Steps, BaseClient, BasePage, BaseUser
<1> QED
  BY <1>1, BaseStart, PTL DEF Spec

(***************************************************************************)
(* Whatever the user does, and however the handlers interleave, requests   *)
(* and dataflows are well formed.                                          *)
(***************************************************************************)
THEOREM TypeCorrect == Spec => []TypeOK
<1>1. Base => TypeOK
  BY DEF Base
<1> QED
  BY <1>1, BaseInv, PTL
-----------------------------------------------------------------------------
(***************************************************************************)
(* The file is never set back.                                             *)
(***************************************************************************)
LEMMA ClocksStart == Init => Clocks
<1> SUFFICES ASSUME Init PROVE Clocks
  OBVIOUS
<1>1. graph.clock = 0 /\ clock = 0 /\ (save # None => save.clock = 0)
  BY DEF Init, Dataflow
<1> QED
  BY <1>1, EmptyChannel DEF Clocks, Init

LEMMA ClocksClient == ASSUME Base, Clocks, ClientTable PROVE Clocks'
<1> DEFINE m == up[1]
<1>1. /\ Popped(up, up') /\ UNCHANGED <<graph, clock>>
      /\ Begun(m) \/ Resumed(m.to, m) \/ Graphs(m) \/ Refuses(m)
  BY DEF ClientTable
<1>2. save' = save \/ (HasDf(m) /\ save' = m.df)
  <2>1. UpOK(m)
    BY <1>1 DEF Base, Channels, Popped
  <2>2. CASE Begun(m)
    BY <2>2 DEF Begun, StartsGet, StartsLoad, StartsSpec, StartsFirst, StartsImport, Starts
  <2>3. CASE Resumed(m.to, m)
    <3>1. Stores(m.to, m) => HasDf(m)
      BY <2>1, NoDataflow DEF Stores, UpOK, HasDf
    <3> QED
      BY <2>3, <3>1 DEF Resumed, Walks, Stores, Sends, Loaded, Imports, Breaks
  <2> QED
    BY <1>1, <2>2, <2>3 DEF Graphs, Refuses, HasDf
<1>3. \A k \in 1..Len(up') : k + 1 \in 1..Len(up) /\ up'[k] = up[k + 1]
  BY <1>1 DEF Popped
<1>4. 1 \in 1..Len(up)
  BY <1>1 DEF Popped
<1> HIDE DEF m
<1>5. save' # None => save'.clock <= clock
  BY <1>2, <1>4 DEF Clocks, m
<1>6. ASSUME NEW k \in 1..Len(up'), HasDf(up'[k])
      PROVE  /\ up'[k].df.clock <= clock
             /\ up'[k].df.clock = clock => up'[k].df = graph
             /\ save' # None => save'.clock <= up'[k].df.clock
  <2>1. HasDf(up[k + 1]) /\ k + 1 \in 1..Len(up) /\ 1 < k + 1 /\ up'[k] = up[k + 1]
    BY <1>3, <1>6
  <2>2. HasDf(m) => m.df.clock <= up[k + 1].df.clock
    BY <1>4, <2>1 DEF Clocks, m
  <2> QED
    BY <1>2, <2>1, <2>2 DEF Clocks
<1>7. ASSUME NEW j \in 1..Len(up'), NEW k \in 1..Len(up'), j < k, HasDf(up'[j]), HasDf(up'[k])
      PROVE  up'[j].df.clock <= up'[k].df.clock
  <2>1. /\ j + 1 \in 1..Len(up) /\ k + 1 \in 1..Len(up) /\ j + 1 < k + 1
        /\ up'[j] = up[j + 1] /\ up'[k] = up[k + 1]
    BY <1>3, <1>7
  <2> QED
    BY <1>7, <2>1 DEF Clocks
<1>8. graph'.clock = clock'
  BY <1>1 DEF Clocks
<1> QED
  BY <1>1, <1>5, <1>6, <1>7, <1>8 DEF Clocks

\* What is said now is as new as the page.
LEMMA ClocksSaid ==
    ASSUME Base, Clocks, NEW n \in {1, 2}, Grown(up, up', n), save' = save,
           \/ UNCHANGED <<graph, clock>>
           \/ clock' = clock + 1 /\ graph'.clock = clock + 1,
           \A k \in Len(up) + 1..Len(up') : HasDf(up'[k]) => up'[k].df = graph'
    PROVE  Clocks'
<1>1. \A k \in 1..Len(up') : \/ k \in 1..Len(up) /\ up'[k] = up[k]
                             \/ k \in Len(up) + 1..Len(up')
  BY DEF Grown
<1>2. clock \in Nat /\ graph'.clock = clock' /\ clock' \in Nat /\ clock <= clock'
  BY DEF Base, TypeOK, Clocks
<1>3. /\ save # None => save.clock \in Nat
      /\ \A k \in 1..Len(up) : HasDf(up[k]) => up[k].df.clock \in Nat
  <2>1. \A k \in 1..Len(up) : HasDf(up[k]) => up[k].df \in Dataflows
    BY DEF Base, Channels, UpOK, HasDf, IsEvent
  <2> QED
    BY <2>1 DEF Base, TypeOK, Dataflows
<1>4. save' # None => save'.clock <= clock'
  BY <1>2, <1>3 DEF Clocks
<1>5. ASSUME NEW k \in 1..Len(up'), HasDf(up'[k])
      PROVE  /\ up'[k].df.clock <= clock'
             /\ up'[k].df.clock = clock' => up'[k].df = graph'
             /\ save' # None => save'.clock <= up'[k].df.clock
  <2>1. CASE k \in 1..Len(up) /\ up'[k] = up[k]
    <3>1. /\ up[k].df.clock <= clock /\ up[k].df.clock \in Nat
          /\ up[k].df.clock = clock => up[k].df = graph
          /\ save # None => save.clock <= up[k].df.clock
      BY <1>3, <1>5, <2>1 DEF Clocks
    <3> QED
      BY <1>2, <2>1, <3>1
  <2>2. CASE k \in Len(up) + 1..Len(up')
    BY <1>2, <1>4, <1>5, <2>2
  <2> QED
    BY <1>1, <2>1, <2>2
<1>6. ASSUME NEW j \in 1..Len(up'), NEW k \in 1..Len(up'), j < k, HasDf(up'[j]), HasDf(up'[k])
      PROVE  up'[j].df.clock <= up'[k].df.clock
  <2>1. CASE k \in 1..Len(up) /\ up'[k] = up[k]
    <3>1. j \in 1..Len(up) /\ up'[j] = up[j]
      BY <1>1, <1>6, <2>1 DEF Grown
    <3> QED
      BY <1>6, <2>1, <3>1 DEF Clocks
  <2>2. CASE k \in Len(up) + 1..Len(up')
    <3>1. up'[k].df = graph'
      BY <1>6, <2>2
    <3> QED
      BY <1>2, <1>5, <1>6, <3>1
  <2> QED
    BY <1>1, <2>1, <2>2
<1> QED
  BY <1>2, <1>4, <1>5, <1>6 DEF Clocks

LEMMA ClocksInv == Spec => [](Base /\ Clocks)
<1>1. Base /\ Clocks /\ [Next]_vars => Clocks'
  <2> SUFFICES ASSUME Base, Clocks, [Next]_vars PROVE Clocks'
    OBVIOUS
  <2>1. CASE ClientTable
    BY <2>1, ClocksClient
  <2>2. CASE PageTable
    <3> DEFINE r == down[1]
    <3>1. save' = save /\ (Answers(r) \/ Changes(r) \/ Replaces(r) \/ Exposes(r) \/ Fails(r))
      BY <2>2 DEF PageTable
    <3>2. Popped(down, down') /\ DownOK(r)
      BY <2>2 DEF PageTable, Base, Channels, Popped
    <3> HIDE DEF r
    <3>3. CASE Answers(r) \/ Fails(r)
      <4>1. Grown(up, up', 1) /\ UNCHANGED <<graph, clock>>
        BY <3>3 DEF Answers, Fails
      <4>2. HasDf(Said) => Said.df = graph
        BY <3>3 DEF Answers, Fails, HasDf, IsEvent
      <4>3. \A k \in Len(up) + 1..Len(up') : up'[k] = Said
        BY <4>1 DEF Grown, Said
      <4> QED
        BY <3>1, <4>1, <4>2, <4>3, ClocksSaid
    <3>4. CASE Changes(r) \/ Exposes(r)
      <4>1. Grown(up, up', 2) /\ clock' = clock + 1
        BY <3>4 DEF Changes, Exposes, Shown
      <4>2. graph'.clock = clock + 1
        <5>1. graph \in Dataflows /\ (Changes(r) => r.df \in Dataflows)
          BY <3>2 DEF Base, TypeOK, DownOK, Changes
        <5> QED
          BY <3>4, <5>1 DEF Changes, Exposes, Shown, Dataflows
      <4>3. ~HasDf(Added) /\ (HasDf(Said) => Said.df = graph')
        BY <3>4 DEF Changes, Exposes, HasDf, IsEvent
      <4>4. \A k \in Len(up) + 1..Len(up') : up'[k] \in {Said, Added}
        BY <4>1 DEF Grown, Said, Added
      <4> QED
        BY <3>1, <4>1, <4>2, <4>3, <4>4, ClocksSaid
    <3>5. CASE Replaces(r)
      <4>1. Grown(up, up', 1) /\ clock' = clock + 1 /\ Said.df = graph'
        BY <3>5 DEF Replaces, Shown
      <4>2. graph'.clock = clock + 1
        BY <3>2, <3>5 DEF Replaces, Shown, DownOK, Dataflows
      <4>3. \A k \in Len(up) + 1..Len(up') : up'[k] = Said
        BY <4>1 DEF Grown, Said
      <4> QED
        BY <3>1, <4>1, <4>2, <4>3, ClocksSaid
    <3> QED
      BY <3>1, <3>3, <3>4, <3>5
  <2>3. CASE Edits \/ Loads \/ Requests
    <3>1. Grown(up, up', 1) /\ save' = save
      BY <2>3 DEF Edits, Loads, Requests
    <3>2. \/ UNCHANGED <<graph, clock>>
          \/ clock' = clock + 1 /\ graph'.clock = clock + 1
      BY <2>3 DEF Edits, Loads, Requests, Dataflow
    <3>3. \A k \in Len(up) + 1..Len(up') : ~HasDf(up'[k])
      <4>1. \A k \in Len(up) + 1..Len(up') : up'[k] = Said
        BY <3>1 DEF Grown, Said
      <4>2. ~HasDf(Said)
        BY <2>3 DEF Edits, Loads, Requests, HasDf, IsEvent
      <4> QED
        BY <4>1, <4>2
    <3> QED
      BY <3>1, <3>2, <3>3, ClocksSaid
  <2>4. CASE UNCHANGED vars
    BY <2>4 DEF vars, Clocks
  <2> QED
    BY <2>1, <2>2, <2>3, <2>4, Steps
<1> QED
  BY <1>1, BaseInv, ClocksStart, PTL DEF Spec

(***************************************************************************)
(* Overlapping handlers save on their own, each what the page answered it: *)
(* the file is never replaced by a dataflow that the page had left behind  *)
(* when the one in the file was taken.                                     *)
(***************************************************************************)
THEOREM FileNeverSetBack == Spec => SavesInOrder
<1>1. Base /\ Clocks /\ [Next]_vars
         => [save # None /\ save.ours /\ save' # save => save'.clock >= save.clock]_vars
  <2> SUFFICES ASSUME Base, Clocks, [Next]_vars, save # None, save' # save
               PROVE  save'.clock >= save.clock
    OBVIOUS
  <2>1. ClientTable
    BY Steps DEF PageTable, Edits, Loads, Requests, vars
  <2>2. /\ 1 \in 1..Len(up) /\ UpOK(up[1])
        /\ Begun(up[1]) \/ Resumed(up[1].to, up[1]) \/ Graphs(up[1]) \/ Refuses(up[1])
    BY <2>1 DEF ClientTable, Popped, Base, Channels
  <2> DEFINE m == up[1]
  <2>3. \/ IsEvent(m, "graph") /\ save' = m.df
        \/ Stores(m.to, m)
    BY <2>2 DEF Begun, StartsGet, StartsLoad, StartsSpec, StartsFirst, StartsImport, Starts,
                Resumed, Walks, Sends, Loaded, Imports, Breaks, Graphs, Refuses
  <2>4. HasDf(m) /\ save' = m.df /\ m.df \in Dataflows
    BY <2>2, <2>3, NoDataflow DEF Stores, UpOK, HasDf, IsEvent
  <2>5. save.clock <= m.df.clock
    BY <2>2, <2>4 DEF Clocks
  <2>6. save.clock \in Nat /\ m.df.clock \in Nat
    BY <2>4 DEF Base, TypeOK, Dataflows
  <2> QED
    BY <2>4, <2>5, <2>6
<1> QED
  BY <1>1, ClocksInv, PTL DEF Spec, SavesInOrder
-----------------------------------------------------------------------------
(***************************************************************************)
(* When all is over the file holds what the page shows.                    *)
(***************************************************************************)
\* The coroutines that messages not yet taken are for have not moved.
LEMMA OthersAsBefore ==
    ASSUME Base, ClientTable
    PROVE  /\ \A k \in 1..Len(up') : /\ k + 1 \in 2..Len(up) /\ up'[k] = up[k + 1]
                                     /\ Reply(up[k + 1]) => task'[up[k + 1].to] = task[up[k + 1].to]
           /\ \A k \in 1..Len(down) : /\ k \in 1..Len(down') /\ down'[k] = down[k]
                                      /\ Request(down[k]) => task'[down[k].to] = task[down[k].to]
<1> DEFINE m == up[1]
<1>1. Popped(up, up') /\ (Begun(m) \/ Resumed(m.to, m) \/ Graphs(m) \/ Refuses(m))
  BY DEF ClientTable
<1>2. \A k \in 1..Len(up') : k + 1 \in 2..Len(up) /\ k + 1 \in 1..Len(up) /\ up'[k] = up[k + 1]
  BY <1>1 DEF Popped
<1>3. down' = down \/ Grown(down, down', 1)
  BY <1>1 DEF Begun, StartsGet, StartsLoad, StartsSpec, StartsFirst, StartsImport, Starts, Sent,
              Resumed, Walks, Stores, Sends, Loaded, Imports, Breaks, Graphs, Refuses
<1>4. \A k \in 1..Len(down) : k \in 1..Len(down') /\ down'[k] = down[k]
  BY <1>3 DEF Grown
<1>5. CASE Begun(m) \/ Resumed(m.to, m)
  <2>1. PICK i \in Slots : Others(i) /\ (task[i] = Free \/ (Reply(m) /\ m.to = i))
    <3>1. CASE Begun(m)
      BY <3>1 DEF Begun, StartsGet, StartsLoad, StartsSpec, StartsFirst, StartsImport, Starts, Sent
    <3>2. CASE Resumed(m.to, m)
      BY <3>2 DEF Resumed, Walks, Stores, Sends, Loaded, Imports, Breaks, Sent, Freed
    <3> QED
      BY <1>5, <3>1, <3>2
  <2>2. /\ \A k \in 1..Len(up') : Reply(up'[k]) => up'[k].to # i
        /\ \A k \in 1..Len(down) : Request(down[k]) => task'[down[k].to] = task[down[k].to]
    BY <1>1, <2>1, OthersWait
  <2>3. ASSUME NEW k \in 1..Len(up'), Reply(up[k + 1])
        PROVE  task'[up[k + 1].to] = task[up[k + 1].to]
    <3>1. up[k + 1].to \in Slots
      BY <1>2, <2>3 DEF Base, Channels, UpOK, Reply
    <3> QED
      BY <1>2, <2>1, <2>2, <2>3, <3>1 DEF Others
  <2> QED
    BY <1>2, <1>4, <2>2, <2>3
<1>6. CASE Graphs(m) \/ Refuses(m)
  BY <1>2, <1>4, <1>6 DEF Graphs, Refuses
<1> QED
  BY <1>1, <1>5, <1>6

LEMMA SavedClient == ASSUME Base, Clocks, Saved, ClientTable PROVE Saved'
<1> DEFINE m == up[1]
<1>1. /\ Popped(up, up') /\ UNCHANGED <<page, graph, clock>>
      /\ Begun(m) \/ Resumed(m.to, m) \/ Graphs(m) \/ Refuses(m)
  BY DEF ClientTable
<1>2. 1 \in 1..Len(up) /\ UpOK(m) /\ page > 0
  BY <1>1, EmptyChannel DEF Base, Channels, TypeOK, Popped
<1>3. save = graph \/ Promised
  BY <1>2 DEF Saved
<1> HIDE DEF m
<1>4. ASSUME Grown(down, down', 1), Fresh.page = page,
             \/ Fresh.op \in {"graph_get", "notification_send", "interfaces_change", "graph_change"}
             \/ Fresh.op = "specification_change" /\ task'[Fresh.to].at = "spec"
      PROVE  Promised'
  <2>1. Len(down) + 1 \in 1..Len(down')
    BY <1>4 DEF Grown
  <2>2. ASSUME NEW k, k = Len(down) + 1 PROVE Asks(down[k])'
    <3>1. down'[k] = Fresh
      BY <2>2 DEF Fresh
    <3> QED
      BY <1>1, <1>4, <3>1 DEF Asks
  <2> QED
    BY <2>1, <2>2 DEF Promised
<1>5. ASSUME Promised, ~Tells(m) PROVE Promised'
  <2>1. ASSUME NEW k \in 1..Len(up), Tells(up[k]) PROVE Promised'
    <3>1. k # 1
      BY <1>5, <2>1 DEF m
    <3> DEFINE j == k - 1
    <3>2. j \in 1..Len(up') /\ k = j + 1
      BY <1>1, <3>1 DEF Popped
    <3> HIDE DEF j
    <3>3. /\ up'[j] = up[k]
          /\ Reply(up[k]) => task'[up[k].to] = task[up[k].to]
      BY <3>2, OthersAsBefore
    <3>4. Tells(up[j])'
      BY <1>1, <2>1, <3>3 DEF Tells, Reply, IsEvent
    <3> QED
      BY <3>2, <3>4 DEF Promised
  <2>2. ASSUME NEW k \in 1..Len(down), Asks(down[k]) PROVE Promised'
    <3>1. /\ k \in 1..Len(down') /\ down'[k] = down[k]
          /\ Request(down[k]) => task'[down[k].to] = task[down[k].to]
      BY OthersAsBefore
    <3>2. Request(down[k])
      BY <2>2 DEF Asks, Request
    <3>3. Asks(down[k])'
      BY <1>1, <2>2, <3>1, <3>2 DEF Asks
    <3> QED
      BY <3>1, <3>3 DEF Promised
  <2> QED
    BY <1>5, <2>1, <2>2 DEF Promised
<1>6. ASSUME save' = save, ~Tells(m) PROVE Saved'
  <2>1. save' = graph' \/ Promised'
    BY <1>1, <1>3, <1>5, <1>6
  <2> QED
    BY <2>1 DEF Saved
<1>7. ASSUME save' = m.df, HasDf(m), Tells(m) => m.df = graph PROVE Saved'
  <2>1. CASE save = graph
    <3>1. save.clock <= m.df.clock /\ m.df.clock <= clock /\ graph.clock = clock
      <4>1. save # None
        BY <2>1, NoDataflow DEF Base, TypeOK
      <4> QED
        BY <1>2, <1>7, <4>1 DEF Clocks, m
    <3>2. m.df.clock \in Nat /\ clock \in Nat
      BY <1>2, <1>7 DEF Base, TypeOK, UpOK, HasDf, IsEvent, Dataflows
    <3>3. m.df.clock = clock
      BY <2>1, <3>1, <3>2
    <3>4. m.df = graph
      BY <1>2, <1>7, <3>3 DEF Clocks, m
    <3> QED
      BY <1>1, <1>7, <3>4 DEF Saved
  <2>2. CASE Tells(m)
    BY <1>1, <1>7, <2>2 DEF Saved
  <2>3. CASE Promised /\ ~Tells(m)
    <3>1. Promised'
      BY <1>5, <2>3
    <3> QED
      BY <3>1 DEF Saved
  <2> QED
    BY <1>3, <2>1, <2>2, <2>3
<1>8. CASE Begun(m)
  <2> PICK i \in Slots : \/ StartsGet(i, m) \/ StartsLoad(i, m) \/ StartsSpec(i, m)
                         \/ StartsFirst(i, m) \/ StartsImport(i, m)
    BY <1>8 DEF Begun
  <2>1. Starts(i, m) /\ Sent(i)
    BY DEF StartsGet, StartsLoad, StartsSpec, StartsFirst, StartsImport, Starts
  <2>2. CASE task'[i].at \in {"get", "load", "spec", "first"}
    <3>1. Promised'
      BY <1>4, <2>1, <2>2 DEF Sent, Ask
    <3> QED
      BY <3>1 DEF Saved
  <2>3. CASE StartsImport(i, m)
    <3>1. ~Tells(m) /\ save' = save
      BY <2>3 DEF StartsImport, Starts, Tells, IsEvent
    <3> QED
      BY <1>6, <3>1
  <2> QED
    BY <2>2, <2>3 DEF StartsGet, StartsLoad, StartsSpec, StartsFirst
<1>9. CASE Resumed(m.to, m)
  <2> DEFINE i == m.to
  <2>1. CASE Walks(i, m) \/ Sends(i, m)
    <3>1. Sent(i) /\ task'[i].at \in {"reget", "skip", "named", "expose", "load"}
      BY <2>1 DEF Walks, Sends
    <3>2. Promised'
      BY <1>4, <3>1 DEF Sent, Ask
    <3> QED
      BY <3>2 DEF Saved
  <2>2. CASE Stores(i, m)
    <3>1. HasDf(m) /\ save' = m.df /\ (Tells(m) => m.df = graph)
      BY <1>2, <2>2, NoDataflow DEF Stores, UpOK, HasDf, Tells, IsEvent, Fetches
    <3> QED
      BY <1>7, <3>1
  <2>3. CASE Loaded(i, m) \/ Imports(i, m) \/ Breaks(i, m)
    <3>1. save' = save /\ ~Tells(m)
      BY <2>3 DEF Loaded, Imports, Breaks, Tells, IsEvent, Fetches
    <3> QED
      BY <1>6, <3>1
  <2> QED
    BY <1>9, <2>1, <2>2, <2>3 DEF Resumed
<1>10. CASE Graphs(m)
  <2>1. HasDf(m) /\ save' = m.df /\ (Tells(m) => m.df = graph)
    BY <1>10 DEF Graphs, HasDf, Tells, IsEvent
  <2> QED
    BY <1>7, <2>1
<1>11. CASE Refuses(m)
  <2>1. save' = save /\ ~Tells(m)
    BY <1>11 DEF Refuses, Tells, IsEvent
  <2> QED
    BY <1>6, <2>1
<1> QED
  BY <1>1, <1>8, <1>9, <1>10, <1>11

LEMMA SavedPage == ASSUME Base, Saved, PageTable PROVE Saved'
<1> DEFINE r == down[1]
<1>1. /\ Popped(down, down') /\ UNCHANGED <<page, save, task>>
      /\ Answers(r) \/ Changes(r) \/ Replaces(r) \/ Exposes(r) \/ Fails(r)
  BY DEF PageTable
<1>2. 1 \in 1..Len(down) /\ DownOK(r) /\ page > 0
  BY <1>1, EmptyChannel DEF Base, Channels, TypeOK, Popped
<1>3. save = graph \/ Promised
  BY <1>2 DEF Saved
<1> HIDE DEF r
<1>4. ASSUME NEW n \in {1, 2}, Grown(up, up', n),
             \/ Said.type = "event" /\ Said.ev = "change"
             \/ IsEvent(Said, "graph") /\ Said.df = graph'
             \/ Said.type = "answer" /\ task[Said.to].at \in {"skip", "named", "expose", "spec"}
             \/ Said.type = "answer" /\ Fetches(task[Said.to].at) /\ Said.df = graph'
      PROVE  Saved'
  <2>1. Len(up) + 1 \in 1..Len(up')
    BY <1>4 DEF Grown
  <2>2. ASSUME NEW k, k = Len(up) + 1 PROVE Tells(up[k])'
    <3>1. up'[k] = Said
      BY <2>2 DEF Said
    <3> QED
      BY <1>1, <1>4, <3>1 DEF Tells, IsEvent
  <2>3. Promised'
    BY <2>1, <2>2 DEF Promised
  <2> QED
    BY <2>3 DEF Saved
<1>5. ASSUME graph' = graph, Grown(up, up', 1), ~Asks(r) PROVE Saved'
  <2>1. ASSUME NEW k \in 1..Len(up), Tells(up[k]) PROVE Promised'
    <3>1. k \in 1..Len(up') /\ up'[k] = up[k]
      BY <1>5 DEF Grown
    <3>2. Tells(up[k])'
      BY <1>1, <1>5, <2>1, <3>1 DEF Tells, IsEvent
    <3> QED
      BY <3>1, <3>2 DEF Promised
  <2>2. ASSUME NEW k \in 1..Len(down), Asks(down[k]) PROVE Promised'
    <3>1. k # 1
      BY <1>5, <2>2 DEF r
    <3> DEFINE j == k - 1
    <3>2. j \in 1..Len(down') /\ down'[j] = down[k]
      BY <1>1, <3>1 DEF Popped
    <3> HIDE DEF j
    <3>3. Asks(down[j])'
      BY <1>1, <2>2, <3>2 DEF Asks
    <3> QED
      BY <3>2, <3>3 DEF Promised
  <2>3. save' = graph' \/ Promised'
    BY <1>1, <1>3, <1>5, <2>1, <2>2 DEF Promised
  <2> QED
    BY <2>3 DEF Saved
<1>6. CASE Answers(r)
  <2>1. /\ Grown(up, up', 1) /\ graph' = graph /\ Said.type = "answer" /\ Said.to = r.to
        /\ Said.df = IF r.op = "graph_get" THEN graph ELSE None
        /\ r.op \in {"graph_get", "specification_change", "notification_send", "interfaces_change"}
    BY <1>6 DEF Answers
  <2>2. r.to \in Slots /\ r.op = Ask(task[r.to].at) /\ task[r.to].at \in At
    BY <1>2, <2>1 DEF DownOK, Base, Tasks
  <2>3. CASE task[r.to].at = "import"
    <3>1. ~Asks(r)
      BY <2>2, <2>3 DEF Asks, Ask
    <3> QED
      BY <1>5, <2>1, <3>1
  <2>4. CASE task[r.to].at # "import"
    <3>1. \/ task[r.to].at \in {"skip", "named", "expose", "spec"}
          \/ Fetches(task[r.to].at) /\ Said.df = graph'
      BY <2>1, <2>2, <2>4 DEF Ask, At, Fetches
    <3> QED
      BY <1>4, <2>1, <3>1
  <2> QED
    BY <2>3, <2>4
<1>7. CASE Changes(r)
  BY <1>4, <1>7 DEF Changes
<1>8. CASE Replaces(r)
  BY <1>4, <1>8 DEF Replaces
<1>9. CASE Exposes(r)
  BY <1>4, <1>9 DEF Exposes, IsEvent
<1>10. CASE Fails(r)
  <2>1. ~Asks(r)
    BY <1>2, <1>10 DEF Fails, Asks, DownOK, Base, TypeOK
  <2> QED
    BY <1>5, <1>10, <2>1 DEF Fails
<1> QED
  BY <1>1, <1>6, <1>7, <1>8, <1>9, <1>10

LEMMA SavedUser == ASSUME Base, Saved, Edits \/ Loads \/ Requests PROVE Saved'
<1>1. Grown(up, up', 1) /\ UNCHANGED <<save, task, down>>
  BY DEF Edits, Loads, Requests
<1>2. CASE Edits \/ Loads
  <2>1. Len(up) + 1 \in 1..Len(up')
    BY <1>1 DEF Grown
  <2>2. Said.type = "event" /\ Said.ev \in {"connect", "change", "connections", "nodes"}
    BY <1>2 DEF Edits, Loads, IsEvent
  <2>3. ASSUME NEW k, k = Len(up) + 1 PROVE Tells(up[k])'
    BY <2>2, <2>3 DEF Tells, Said
  <2>4. Promised'
    BY <2>1, <2>3 DEF Promised
  <2> QED
    BY <2>4 DEF Saved
<1>3. CASE Requests
  <2>1. UNCHANGED <<page, graph>> /\ page > 0
    BY <1>3 DEF Requests
  <2>2. ASSUME NEW k \in 1..Len(up), Tells(up[k]) PROVE Promised'
    <3>1. k \in 1..Len(up') /\ up'[k] = up[k]
      BY <1>1 DEF Grown
    <3>2. Tells(up[k])'
      BY <1>1, <2>1, <2>2, <3>1 DEF Tells, IsEvent
    <3> QED
      BY <3>1, <3>2 DEF Promised
  <2>3. ASSUME NEW k \in 1..Len(down), Asks(down[k]) PROVE Promised'
    <3>1. Asks(down[k])'
      BY <1>1, <2>1, <2>3 DEF Asks
    <3> QED
      BY <1>1, <3>1 DEF Promised
  <2> QED
    BY <1>1, <2>1, <2>2, <2>3 DEF Saved, Promised
<1> QED
  BY <1>2, <1>3

LEMMA SavedInv == Spec => [](Base /\ Clocks /\ Saved)
<1>1. Init => Saved
  BY DEF Init, Saved
<1>2. Base /\ Clocks /\ Saved /\ [Next]_vars => Saved'
  <2> SUFFICES ASSUME Base, Clocks, Saved, [Next]_vars PROVE Saved'
    OBVIOUS
  <2>1. CASE UNCHANGED vars
    BY <2>1 DEF vars, Saved, Promised, Tells, Asks
  <2> QED
    BY <2>1, Steps, SavedClient, SavedPage, SavedUser
<1> QED
  BY <1>1, <1>2, ClocksInv, PTL DEF Spec

(***************************************************************************)
(* However many changes overlap, those that handlers make included: when   *)
(* every handler has ended and no message is under way, the file holds     *)
(* what the page shows.                                                    *)
(***************************************************************************)
THEOREM LastChangeIsSaved == Spec => []QuietIsSaved
<1>1. Saved => QuietIsSaved
  BY EmptyChannel DEF Saved, Promised, QuietIsSaved, Quiet
<1> QED
  BY <1>1, SavedInv, PTL

-----------------------------------------------------------------------------
(***************************************************************************)
(* The steps of an import follow each other through the channels in order: *)
(* asked for in `down', answered in `up', shown from `down'.               *)
(***************************************************************************)
Wrong(d) == d \notin {None, design}
Asked(r) == r.op = "specification_change" /\ task[r.to].at = "import"
Built(m) == m.type = "answer" /\ task[m.to].at = "import"

AskedFrom(k) == \E j \in k..Len(down) : Asked(down[j])
BuiltFrom(k) == \E j \in k..Len(up) : Built(up[j])
GivenFrom(k) == \E j \in k..Len(down) : down[j].op = "imported"
GivenAfter(k) == GivenFrom(k + 1) \/ BuiltFrom(1) \/ AskedFrom(1)
BuiltAfter(k) == BuiltFrom(k + 1) \/ AskedFrom(1)

\* What is or will be shown of another design is replaced later.
Chain ==
    /\ Wrong(graph.design) => GivenAfter(0)
    /\ \A k \in 1..Len(down) :
          down[k].op \in {"graph_change", "imported"} /\ Wrong(down[k].df.design) => GivenAfter(k)
    /\ \A k \in 1..Len(up) :
          up[k].type = "answer" /\ task[up[k].to].at \in {"spec", "import"}
          /\ Wrong(task[up[k].to].design) => BuiltAfter(k)
    /\ \A k \in 1..Len(down) :
          down[k].op = "specification_change" /\ Wrong(task[down[k].to].design)
             => AskedFrom(k + 1)

\* Messages whose dataflow is saved as they are handled.
Saving(m) == \/ IsEvent(m, "graph")
             \/ m.type = "answer" /\ task[m.to].at \in {"reget", "first"}
             \/ m.type = "answer" /\ task[m.to].at = "get" /\ task[m.to].diff = None

\* No message before k and after j is saved.
NoneIn(j, k) == \A l \in j + 1..k - 1 : ~Saving(up[l])

\* The file as it is when the messages before k have been handled is not of another design.
FileFits(k) == /\ \A j \in 1..k - 1 : Saving(up[j]) /\ NoneIn(j, k) => ~Wrong(up[j].df.design)
               /\ NoneIn(0, k) /\ save # None => ~Wrong(save.design)

\* When the page connects no import is under way, and none starts before it is served.
Connects == \A k \in 1..Len(up) : IsEvent(up[k], "connect") =>
                /\ ~GivenAfter(0)
                /\ \A j \in 1..k - 1 : ~IsEvent(up[j], "import")
                /\ FileFits(k)

\* The requests of an import do not fail.
Served == /\ \A k \in 1..Len(down) : Asked(down[k]) => down[k].page = page
          /\ \A k \in 1..Len(up) : up[k].type = "error" => task[up[k].to].at # "import"

Fits == /\ spec = design
        /\ ~torn => /\ Chain /\ Connects /\ Served
                    /\ ~FileFits(Len(up) + 1) => GivenAfter(0)

-----------------------------------------------------------------------------
LEMMA FitsStart == Init => Fits
<1> SUFFICES ASSUME Init PROVE Fits
  OBVIOUS
<1>1. spec = design /\ graph.design = None /\ (save # None => save.design = None)
  BY DEF Init, Dataflow
<1>2. Len(up) = 0 /\ Len(down) = 0
  BY EmptyChannel DEF Init
<1>3. Chain /\ Connects /\ Served
  BY <1>1, <1>2 DEF Chain, Connects, Served, Wrong
<1>4. FileFits(Len(up) + 1)
  BY <1>1, <1>2 DEF FileFits, Wrong
<1> QED
  BY <1>1, <1>3, <1>4 DEF Fits

Pos == Nat \ {0}

LEMMA Lengths == Base => Len(up) \in Nat /\ Len(down) \in Nat
  BY LenProperties DEF Base, Channels, ASeq

\* A step of the client: `up' is one message shorter, `down' keeps what it holds.
LEMMA ImportsShift ==
    ASSUME Base, ClientTable
    PROVE  /\ \A k \in Pos : AskedFrom(k) => AskedFrom(k)'
           /\ \A k \in Pos : GivenFrom(k) => GivenFrom(k)'
           /\ \A k \in Pos : BuiltFrom(k + 1) => BuiltFrom(k)'
           /\ BuiltFrom(1)' => BuiltFrom(1)
           /\ \A k \in 1..Len(up') : Saving(up[k])' <=> Saving(up[k + 1])
<1>0. /\ Len(up) \in Nat /\ Len(up') \in Nat /\ Len(up) = Len(up') + 1
      /\ \A k \in 1..Len(up') : k + 1 \in 1..Len(up) /\ up'[k] = up[k + 1]
  BY DEF ClientTable, Popped
<1>1. \A k \in 1..Len(up') : Built(up[k])' <=> Built(up[k + 1])
  BY OthersAsBefore DEF Built, Reply
<1>2. \A k \in 1..Len(up') : Saving(up[k])' <=> Saving(up[k + 1])
  BY OthersAsBefore DEF Saving, Reply, IsEvent
<1>3. \A k \in 1..Len(down) : /\ k \in 1..Len(down') /\ down'[k] = down[k]
                              /\ Asked(down[k]) => Asked(down[k])'
  BY OthersAsBefore DEF Asked, Request
<1>4. Len(down) \in Nat
  BY Lengths
<1>5. ASSUME NEW k \in Pos, AskedFrom(k) PROVE AskedFrom(k)'
  <2> PICK j \in k..Len(down) : Asked(down[j])
    BY <1>5 DEF AskedFrom
  <2>1. j \in 1..Len(down) /\ j \in k..Len(down')
    BY <1>3, <1>4 DEF Pos
  <2>2. Asked(down[j])'
    BY <1>3, <2>1
  <2> QED
    BY <2>1, <2>2 DEF AskedFrom
<1>6. ASSUME NEW k \in Pos, GivenFrom(k) PROVE GivenFrom(k)'
  <2> PICK j \in k..Len(down) : down[j].op = "imported"
    BY <1>6 DEF GivenFrom
  <2>1. j \in 1..Len(down) /\ j \in k..Len(down')
    BY <1>3, <1>4 DEF Pos
  <2> QED
    BY <1>3, <2>1 DEF GivenFrom
<1>7. ASSUME NEW k \in Pos, BuiltFrom(k + 1) PROVE BuiltFrom(k)'
  <2> PICK j \in k + 1..Len(up) : Built(up[j])
    BY <1>7 DEF BuiltFrom
  <2> DEFINE i == j - 1
  <2>1. i \in 1..Len(up') /\ i \in k..Len(up') /\ j = i + 1
    BY <1>0 DEF Pos
  <2> HIDE DEF i
  <2>2. Built(up[i])'
    BY <1>1, <2>1
  <2> QED
    BY <2>1, <2>2 DEF BuiltFrom
<1>8. ASSUME BuiltFrom(1)' PROVE BuiltFrom(1)
  <2> PICK j \in 1..Len(up') : Built(up[j])'
    BY <1>8 DEF BuiltFrom
  <2>1. j + 1 \in 1..Len(up) /\ Built(up[j + 1])
    BY <1>0, <1>1
  <2> QED
    BY <2>1 DEF BuiltFrom
<1> QED
  BY <1>2, <1>5, <1>6, <1>7, <1>8

\* The file as the messages leave it is the same after the first of them is handled.
LEMMA FileShift ==
    ASSUME Base, ClientTable, design' = design, NEW k \in 1..Len(up') + 1, FileFits(k + 1)
    PROVE  FileFits(k)'
<1>0. /\ Len(up) \in Nat /\ Len(up') \in Nat /\ Len(up) = Len(up') + 1
      /\ \A j \in 1..Len(up') : j + 1 \in 1..Len(up) /\ up'[j] = up[j + 1]
  BY DEF ClientTable, Popped
<1>1. \A j \in 1..Len(up') : Saving(up[j])' <=> Saving(up[j + 1])
  BY ImportsShift
<1>2. ASSUME NEW j \in 0..k - 1, NoneIn(j, k)' PROVE NoneIn(j + 1, k + 1)
  <2> SUFFICES ASSUME NEW l \in j + 2..k PROVE ~Saving(up[l])
    BY DEF NoneIn
  <2> DEFINE i == l - 1
  <2>1. i \in j + 1..k - 1 /\ i \in 1..Len(up') /\ l = i + 1
    BY <1>0
  <2> HIDE DEF i
  <2>2. ~Saving(up[i])'
    BY <1>2, <2>1 DEF NoneIn
  <2> QED
    BY <1>1, <2>1, <2>2
<1>3. ASSUME NEW j \in 1..k - 1, Saving(up[j])', NoneIn(j, k)'
      PROVE  ~Wrong(up[j].df.design)'
  <2>1. j \in 1..Len(up') /\ j + 1 \in 1..k + 1 - 1 /\ j \in 0..k - 1
    BY <1>0
  <2>2. Saving(up[j + 1]) /\ NoneIn(j + 1, k + 1) /\ up'[j] = up[j + 1]
    BY <1>0, <1>1, <1>2, <1>3, <2>1
  <2>3. ~Wrong(up[j + 1].df.design)
    BY <2>1, <2>2 DEF FileFits
  <2> QED
    BY <2>2, <2>3 DEF Wrong
<1>4. ASSUME NoneIn(0, k)', save' # None PROVE ~Wrong(save.design)'
  <2> DEFINE m == up[1]
  <2>1. NoneIn(1, k + 1)
    <3>1. 0 \in 0..k - 1
      BY <1>0
    <3>2. NoneIn(0 + 1, k + 1)
      BY <1>2, <1>4, <3>1
    <3> QED
      BY <3>2
  <2>2. \/ Saving(m) /\ save' = m.df
        \/ ~Saving(m) /\ save' = save
    BY DEF ClientTable, Begun, StartsGet, StartsLoad, StartsSpec, StartsFirst, StartsImport, Starts,
           Resumed, Walks, Stores, Sends, Loaded, Imports, Breaks, Graphs, Refuses,
           Saving, IsEvent, Fetches, Reply
  <2>3. CASE Saving(m) /\ save' = m.df
    <3>1. 1 \in 1..k + 1 - 1
      BY <1>0
    <3>2. ~Wrong(m.df.design)
      BY <2>1, <2>3, <3>1 DEF FileFits
    <3> QED
      BY <2>3, <3>2 DEF Wrong
  <2>4. CASE ~Saving(m) /\ save' = save
    <3>1. NoneIn(0, k + 1)
      <4> SUFFICES ASSUME NEW l \in 1..k PROVE ~Saving(up[l])
        BY DEF NoneIn
      <4>1. l = 1 \/ l \in 2..k
        BY <1>0
      <4> QED
        BY <2>1, <2>4, <4>1 DEF NoneIn
    <3>2. ~Wrong(save.design)
      BY <1>4, <2>4, <3>1 DEF FileFits
    <3> QED
      BY <2>4, <3>2 DEF Wrong
  <2> QED
    BY <2>2, <2>3, <2>4
<1> QED
  BY <1>3, <1>4 DEF FileFits

\* Where nothing but the channels changes: what the client's step needs of its
\* new message.
LEMMA FitsGoes ==
    ASSUME Base, Fits, ~torn, ClientTable, design' = design,
           GivenAfter(0)' => GivenAfter(0),
           \A k \in 0..Len(down) : GivenAfter(k) => GivenAfter(k)',
           \/ down' = down
           \/ /\ Grown(down, down', 1) /\ Fresh.page = page
              /\ Fresh.op \in {"graph_change", "imported"} /\ Wrong(Fresh.df.design)
                    => BuiltFrom(2) \/ AskedFrom(1)
              /\ Fresh.op = "specification_change" => ~Wrong(task'[Fresh.to].design)
    PROVE  /\ Chain' /\ Connects' /\ Served'
           /\ ~FileFits(Len(up) + 1)' => GivenAfter(0)'
<1> USE DEF Pos
<1>1. /\ Len(up) \in Nat /\ Len(up') \in Nat /\ Len(up) = Len(up') + 1 /\ Len(down) \in Nat
      /\ \A k \in 1..Len(up') : k + 1 \in 1..Len(up) /\ up'[k] = up[k + 1]
      /\ UNCHANGED <<page, graph>>
  BY Lengths DEF ClientTable, Popped
<1>2. /\ Chain /\ Connects /\ Served
      /\ ~FileFits(Len(up) + 1) => GivenAfter(0)
  BY DEF Fits
<1>3. \A k \in 1..Len(down') :
         \/ k \in 1..Len(down) /\ down'[k] = down[k]
         \/ /\ k = Len(down) + 1 /\ down'[k] = Fresh /\ Fresh.page = page
            /\ Fresh.op \in {"graph_change", "imported"} /\ Wrong(Fresh.df.design)
                  => BuiltFrom(2) \/ AskedFrom(1)
            /\ Fresh.op = "specification_change" => ~Wrong(task'[Fresh.to].design)
  BY DEF Grown, Fresh
<1>4. \A d : Wrong(d)' <=> Wrong(d)
  BY DEF Wrong
<1>5. Chain'
  <2>1. Wrong(graph.design)' => GivenAfter(0)'
    BY <1>1, <1>2 DEF Chain, Wrong
  <2>2. ASSUME NEW k \in 1..Len(down'), down'[k].op \in {"graph_change", "imported"},
               Wrong(down[k].df.design)'
        PROVE  GivenAfter(k)'
    <3>1. CASE k \in 1..Len(down) /\ down'[k] = down[k]
      BY <1>2, <2>2, <3>1 DEF Chain, Wrong
    <3>2. CASE down'[k] = Fresh /\ (BuiltFrom(2) \/ AskedFrom(1))
      <4>1. BuiltFrom(1)' \/ AskedFrom(1)'
        BY <3>2, ImportsShift
      <4> QED
        BY <4>1 DEF GivenAfter
    <3> QED
      BY <1>3, <2>2, <3>1, <3>2 DEF Wrong
  <2>3. ASSUME NEW k \in 1..Len(up'), up'[k].type = "answer",
               task'[up'[k].to].at \in {"spec", "import"}, Wrong(task[up[k].to].design)'
        PROVE  BuiltAfter(k)'
    <3>1. task'[up'[k].to] = task[up[k + 1].to] /\ up'[k] = up[k + 1] /\ k + 1 \in 1..Len(up)
      BY <1>1, <2>3, OthersAsBefore DEF Reply
    <3>2. BuiltAfter(k + 1)
      BY <1>2, <2>3, <3>1 DEF Chain, Wrong
    <3>3. BuiltFrom(k + 2) \/ AskedFrom(1)
      BY <3>2 DEF BuiltAfter
    <3>4. BuiltFrom(k + 2) => BuiltFrom(k + 1)'
      <4>1. k + 1 \in Pos /\ k + 2 = k + 1 + 1
        BY <1>1
      <4> QED
        BY <4>1, ImportsShift
    <3>5. AskedFrom(1) => AskedFrom(1)'
      BY ImportsShift
    <3> QED
      BY <3>3, <3>4, <3>5 DEF BuiltAfter
  <2>4. ASSUME NEW k \in 1..Len(down'), down'[k].op = "specification_change",
               Wrong(task[down[k].to].design)'
        PROVE  AskedFrom(k + 1)'
    <3>1. CASE k \in 1..Len(down) /\ down'[k] = down[k]
      <4>1. task'[down[k].to] = task[down[k].to]
        BY <2>4, <3>1, OthersAsBefore DEF Request
      <4>2. AskedFrom(k + 1)
        BY <1>2, <2>4, <3>1, <4>1 DEF Chain, Wrong
      <4>3. k + 1 \in Pos
        BY <1>1
      <4> QED
        BY <4>2, <4>3, ImportsShift
    <3> QED
      BY <1>3, <1>4, <2>4, <3>1 DEF Wrong
  <2> QED
    BY <2>1, <2>2, <2>3, <2>4 DEF Chain
<1>6. Connects'
  <2> SUFFICES ASSUME NEW k \in 1..Len(up'), IsEvent(up'[k], "connect")
               PROVE  /\ ~GivenAfter(0)'
                      /\ \A j \in 1..k - 1 : ~IsEvent(up'[j], "import")
                      /\ FileFits(k)'
    BY DEF Connects, IsEvent
  <2>1. k + 1 \in 1..Len(up) /\ IsEvent(up[k + 1], "connect") /\ k \in 1..Len(up') + 1
    BY <1>1
  <2>2. /\ ~GivenAfter(0) /\ FileFits(k + 1)
        /\ \A j \in 1..k + 1 - 1 : ~IsEvent(up[j], "import")
    BY <1>2, <2>1 DEF Connects
  <2>3. \A j \in 1..k - 1 : ~IsEvent(up'[j], "import")
    <3>1. \A j \in 1..k - 1 : j \in 1..Len(up') /\ j + 1 \in 1..k + 1 - 1
      BY <1>1
    <3> QED
      BY <1>1, <2>2, <3>1
  <2> QED
    BY <2>1, <2>2, <2>3, FileShift
<1>7. Served'
  <2>1. ASSUME NEW k \in 1..Len(down'), Asked(down[k])' PROVE down'[k].page = page'
    <3>1. CASE k \in 1..Len(down) /\ down'[k] = down[k]
      BY <1>1, <1>2, <2>1, <3>1, OthersAsBefore DEF Served, Asked, Request
    <3> QED
      BY <1>1, <1>3, <3>1
  <2>2. ASSUME NEW k \in 1..Len(up'), up'[k].type = "error" PROVE task'[up'[k].to].at # "import"
    BY <1>1, <1>2, <2>2, OthersAsBefore DEF Served, Reply
  <2> QED
    BY <2>1, <2>2 DEF Served
<1>8. ASSUME ~FileFits(Len(up) + 1)' PROVE GivenAfter(0)'
  <2>1. ASSUME NEW k, k = Len(up') + 1 PROVE FileFits(k + 1) => FileFits(k)'
    <3>1. k \in 1..Len(up') + 1
      BY <1>1, <2>1
    <3> QED
      BY <3>1, FileShift
  <2>2. ASSUME FileFits(Len(up) + 1) PROVE FALSE
    <3> DEFINE k == Len(up') + 1
    <3>1. k + 1 = Len(up) + 1
      BY <1>1
    <3>2. FileFits(k + 1)
      BY <2>2, <3>1
    <3>3. \A j : j = Len(up') + 1 => FileFits(j)'
      BY <2>1, <3>2
    <3> QED
      BY <1>8, <3>3
  <2>3. 0 \in 0..Len(down)
    BY <1>1
  <2> QED
    BY <1>2, <2>2, <2>3
<1> QED
  BY <1>5, <1>6, <1>7, <1>8

\* No step of the client but the start of an import changes whether one is under way.
LEMMA ImportsGoOn ==
    ASSUME Base, ClientTable, design' = design,
           \A i \in Slots : ~StartsImport(i, up[1])
    PROVE  /\ GivenAfter(0)' => GivenAfter(0)
           /\ \A k \in 0..Len(down) : GivenAfter(k) => GivenAfter(k)'
<1> USE DEF Pos
<1> DEFINE m == up[1]
<1>1. /\ Len(up) \in Nat /\ Len(up) = Len(up') + 1 /\ Len(down) \in Nat
      /\ Begun(m) \/ Resumed(m.to, m) \/ Graphs(m) \/ Refuses(m)
  BY Lengths DEF ClientTable, Popped
<1>2. Built(m) => Imports(m.to, m)
  BY <1>1 DEF Built, Begun, StartsGet, StartsLoad, StartsSpec, StartsFirst, StartsImport, Starts,
              Resumed, Walks, Stores, Sends, Loaded, Breaks, Graphs, Refuses, IsEvent, Fetches
<1>3. \/ down' = down
      \/ /\ Grown(down, down', 1)
         /\ Fresh.op = "imported" => Built(m)
         /\ Fresh.op = "specification_change" => task'[Fresh.to].at # "import"
  <2>1. CASE Begun(m)
    <3> PICK i \in Slots : \/ StartsGet(i, m) \/ StartsLoad(i, m) \/ StartsSpec(i, m)
                           \/ StartsFirst(i, m)
      BY <2>1 DEF Begun
    <3>1. Sent(i) /\ task'[i].at \in {"get", "load", "spec", "first"}
      BY DEF StartsGet, StartsLoad, StartsSpec, StartsFirst, Starts
    <3> QED
      BY <3>1 DEF Sent, Ask
  <2>2. CASE Resumed(m.to, m)
    <3>1. CASE Walks(m.to, m) \/ Sends(m.to, m)
      <4>1. Sent(m.to) /\ task'[m.to].at \in {"reget", "skip", "named", "expose", "load"}
        BY <3>1 DEF Walks, Sends
      <4> QED
        BY <4>1 DEF Sent, Ask
    <3>2. CASE Imports(m.to, m)
      BY <3>2 DEF Imports, Built
    <3> QED
      BY <2>2, <3>1, <3>2 DEF Resumed, Stores, Loaded, Breaks
  <2> QED
    BY <1>1, <2>1, <2>2 DEF Graphs, Refuses
<1> HIDE DEF m
<1>4. ASSUME NEW k \in 0..Len(down), GivenAfter(k) PROVE GivenAfter(k)'
  <2>1. k + 1 \in Pos
    BY <1>1
  <2>2. CASE GivenFrom(k + 1)
    BY <2>1, <2>2, ImportsShift DEF GivenAfter
  <2>3. CASE AskedFrom(1)
    BY <2>3, ImportsShift DEF GivenAfter
  <2>4. CASE BuiltFrom(2)
    <3>1. BuiltFrom(1 + 1)
      BY <2>4
    <3>2. BuiltFrom(1)'
      BY <3>1, ImportsShift
    <3> QED
      BY <3>2 DEF GivenAfter
  <2>5. CASE Built(m)
    <3>1. Grown(down, down', 1) /\ Fresh.op = "imported"
      BY <1>2, <2>5 DEF Imports
    <3>2. Len(down) + 1 \in k + 1..Len(down') /\ down'[Len(down) + 1].op = "imported"
      BY <1>1, <3>1 DEF Grown, Fresh
    <3>3. GivenFrom(k + 1)'
      BY <3>2 DEF GivenFrom
    <3> QED
      BY <3>3 DEF GivenAfter
  <2>6. BuiltFrom(1) => BuiltFrom(2) \/ Built(m)
    <3> SUFFICES ASSUME NEW j \in 1..Len(up), Built(up[j]) PROVE BuiltFrom(2) \/ Built(m)
      BY DEF BuiltFrom
    <3>1. j = 1 \/ j \in 2..Len(up)
      BY <1>1
    <3> QED
      BY <3>1 DEF BuiltFrom, m
  <2> QED
    BY <1>4, <2>2, <2>3, <2>4, <2>5, <2>6 DEF GivenAfter
<1>5. ASSUME GivenAfter(0)' PROVE GivenAfter(0)
  <2>0. Built(m) => BuiltFrom(1)
    BY <1>1 DEF BuiltFrom, m, ClientTable, Popped
  <2>1. \A k \in 1..Len(down') : \/ k \in 1..Len(down) /\ down'[k] = down[k]
                                 \/ /\ down'[k] = Fresh
                                    /\ Fresh.op = "imported" => Built(m)
                                    /\ Fresh.op = "specification_change"
                                          => task'[Fresh.to].at # "import"
    BY <1>3 DEF Grown, Fresh
  <2>2. ASSUME NEW j \in 1..Len(down'), down'[j].op = "imported" PROVE GivenAfter(0)
    <3>1. CASE j \in 1..Len(down) /\ down'[j] = down[j]
      <4>1. GivenFrom(0 + 1)
        BY <2>2, <3>1 DEF GivenFrom
      <4> QED
        BY <4>1 DEF GivenAfter
    <3> QED
      BY <2>0, <2>1, <2>2, <3>1 DEF GivenAfter
  <2>3. ASSUME NEW j \in 1..Len(down'), Asked(down[j])' PROVE GivenAfter(0)
    <3>1. j \in 1..Len(down) /\ down'[j] = down[j]
      BY <2>1, <2>3 DEF Asked
    <3>2. task'[down[j].to] = task[down[j].to]
      BY <2>3, <3>1, OthersAsBefore DEF Asked, Request
    <3>3. Asked(down[j])
      BY <2>3, <3>1, <3>2 DEF Asked
    <3> QED
      BY <3>1, <3>3 DEF GivenAfter, AskedFrom
  <2>4. BuiltFrom(1)' => BuiltFrom(1)
    BY ImportsShift
  <2>5. \/ \E j \in 1..Len(down') : down'[j].op = "imported"
        \/ \E j \in 1..Len(down') : Asked(down[j])'
        \/ BuiltFrom(1)'
    BY <1>5 DEF GivenAfter, GivenFrom, AskedFrom
  <2> QED
    BY <2>2, <2>3, <2>4, <2>5 DEF GivenAfter
<1> QED
  BY <1>4, <1>5

LEMMA FitsImport ==
    ASSUME Base, Fits, ~torn, ClientTable, NEW i \in Slots, StartsImport(i, up[1])
    PROVE  /\ Chain' /\ Connects' /\ Served'
           /\ GivenAfter(0)'
<1> USE DEF Pos
<1> DEFINE m == up[1]
<1>1. /\ Len(up) \in Nat /\ Len(up') \in Nat /\ Len(up) = Len(up') + 1 /\ Len(down) \in Nat
      /\ \A k \in 1..Len(up') : k + 1 \in 1..Len(up) /\ up'[k] = up[k + 1]
      /\ UNCHANGED <<page, graph>>
  BY Lengths DEF ClientTable, Popped
<1>2. /\ Grown(down, down', 1) /\ Fresh.op = "specification_change" /\ Fresh.to = i
      /\ Fresh.page = page /\ task'[i].at = "import" /\ task'[i].design = design'
      /\ IsEvent(m, "import")
  BY DEF StartsImport, Starts, Sent, Ask, IsEvent
<1>3. \A k \in 1..Len(down') : \/ k \in 1..Len(down) /\ down'[k] = down[k]
                               \/ k = Len(down) + 1 /\ down'[k] = Fresh
  BY <1>2 DEF Grown, Fresh
<1>4. \A k \in 1..Len(down) + 1 : AskedFrom(k)'
  <2>1. ASSUME NEW j, j = Len(down) + 1 PROVE Asked(down[j])' /\ j \in 1..Len(down')
    BY <1>1, <1>2, <2>1 DEF Asked, Fresh, Grown
  <2>2. \E j : j = Len(down) + 1 /\ Asked(down[j])' /\ j = Len(down')
    BY <1>2, <2>1 DEF Grown
  <2> QED
    BY <1>1, <2>2 DEF AskedFrom
<1>5. AskedFrom(1)'
  BY <1>1, <1>4
<1>6. Chain'
  <2>1. ASSUME NEW k \in 1..Len(down'), down'[k].op = "specification_change",
               Wrong(task[down[k].to].design)'
        PROVE  AskedFrom(k + 1)'
    <3>1. k # Len(down) + 1
      BY <1>2, <1>3, <2>1 DEF Wrong, Fresh
    <3> QED
      BY <1>1, <1>3, <1>4, <3>1
  <2> QED
    BY <1>5, <2>1 DEF Chain, GivenAfter, BuiltAfter
<1>7. Connects'
  <2>1. ASSUME NEW k \in 1..Len(up'), IsEvent(up'[k], "connect") PROVE FALSE
    <3>1. k + 1 \in 1..Len(up) /\ IsEvent(up[k + 1], "connect") /\ 1 \in 1..k + 1 - 1
      BY <1>1, <2>1
    <3> QED
      BY <1>2, <3>1 DEF Fits, Connects
  <2> QED
    BY <2>1 DEF Connects, IsEvent
<1>8. Served'
  <2>1. ASSUME NEW k \in 1..Len(down'), Asked(down[k])' PROVE down'[k].page = page'
    <3>1. CASE k \in 1..Len(down) /\ down'[k] = down[k]
      BY <1>1, <2>1, <3>1, OthersAsBefore DEF Fits, Served, Asked, Request
    <3> QED
      BY <1>1, <1>2, <1>3, <3>1
  <2>2. ASSUME NEW k \in 1..Len(up'), up'[k].type = "error" PROVE task'[up'[k].to].at # "import"
    BY <1>1, <2>2, OthersAsBefore DEF Fits, Served, Reply
  <2> QED
    BY <2>1, <2>2 DEF Served
<1> QED
  BY <1>5, <1>6, <1>7, <1>8 DEF GivenAfter

LEMMA FitsClient == ASSUME Base, Fits, ClientTable PROVE Fits'
<1> DEFINE m == up[1]
<1>1. /\ torn' = torn /\ Popped(up, up')
      /\ Begun(m) \/ Resumed(m.to, m) \/ Graphs(m) \/ Refuses(m)
  BY DEF ClientTable
<1>2. spec' = design'
  BY <1>1 DEF Fits, Begun, StartsGet, StartsLoad, StartsSpec, StartsFirst, StartsImport,
              Resumed, Graphs, Refuses
<1>3. 1 \in 1..Len(up) /\ Len(up) \in Nat /\ UpOK(m)
  BY <1>1 DEF Popped, Base, Channels
<1> HIDE DEF m
<1>4. ASSUME ~torn, design' = design, \A i \in Slots : ~StartsImport(i, m),
             \/ down' = down
             \/ /\ Grown(down, down', 1) /\ Fresh.page = page
                /\ Fresh.op \in {"graph_change", "imported"} /\ Wrong(Fresh.df.design)
                      => BuiltFrom(2) \/ AskedFrom(1)
                /\ Fresh.op = "specification_change" => ~Wrong(task'[Fresh.to].design)
      PROVE  Fits'
  <2>1. /\ GivenAfter(0)' => GivenAfter(0)
        /\ \A k \in 0..Len(down) : GivenAfter(k) => GivenAfter(k)'
    BY <1>4, ImportsGoOn DEF m
  <2>2. /\ Chain' /\ Connects' /\ Served'
        /\ ~FileFits(Len(up) + 1)' => GivenAfter(0)'
    BY <1>4, <2>1, FitsGoes
  <2> QED
    BY <1>2, <2>2 DEF Fits
<1>5. CASE torn
  BY <1>1, <1>2, <1>5 DEF Fits
<1>6. CASE ~torn /\ Begun(m)
  <2> PICK i \in Slots : \/ StartsGet(i, m) \/ StartsLoad(i, m) \/ StartsSpec(i, m)
                         \/ StartsFirst(i, m) \/ StartsImport(i, m)
    BY <1>6 DEF Begun
  <2>1. CASE StartsImport(i, m)
    <3>1. Chain' /\ Connects' /\ Served' /\ GivenAfter(0)'
      BY <1>6, <2>1, FitsImport DEF m
    <3> QED
      BY <1>2, <3>1 DEF Fits
  <2>2. CASE ~StartsImport(i, m)
    <3>1. design' = design /\ Sent(i) /\ m.ev # "import"
      BY <2>2 DEF StartsGet, StartsLoad, StartsSpec, StartsFirst, Starts
    <3>2. \A j \in Slots : ~StartsImport(j, m)
      BY <3>1 DEF StartsImport
    <3>3. Fresh.op \in {"graph_change", "imported"} => StartsLoad(i, m)
      BY <2>2, <3>1 DEF StartsGet, StartsLoad, StartsSpec, StartsFirst, Sent, Ask
    <3>4. StartsLoad(i, m) => Fresh.df = save /\ ~Wrong(save.design)
      <4>1. StartsLoad(i, m) => IsEvent(m, "connect") /\ Fresh.df = save /\ save # None
        BY DEF StartsLoad, Starts, IsEvent
      <4>2. IsEvent(m, "connect") => FileFits(1)
        BY <1>3, <1>6 DEF Fits, Connects, m
      <4>3. NoneIn(0, 1)
        BY DEF NoneIn
      <4> QED
        BY <4>1, <4>2, <4>3 DEF FileFits
    <3>5. Fresh.op = "specification_change" => StartsSpec(i, m)
      BY <2>2, <3>1 DEF StartsGet, StartsLoad, StartsSpec, StartsFirst, Sent, Ask
    <3>6. StartsSpec(i, m) => Fresh.to = i /\ ~Wrong(task'[i].design)
      BY <3>1 DEF StartsSpec, Sent, Wrong
    <3> QED
      BY <1>4, <1>6, <3>1, <3>2, <3>3, <3>4, <3>5, <3>6 DEF Sent
  <2> QED
    BY <2>1, <2>2
<1>7. CASE ~torn /\ (Resumed(m.to, m) \/ Graphs(m) \/ Refuses(m))
  <2>1. design' = design
    BY <1>7 DEF Resumed, Graphs, Refuses
  <2>2. \A i \in Slots : ~StartsImport(i, m)
    <3>1. Resumed(m.to, m) => m.type # "event"
      BY DEF Resumed, Reply
    <3>2. Graphs(m) => m.ev # "import"
      BY DEF Graphs, IsEvent
    <3>3. Refuses(m) => down' = down
      BY DEF Refuses
    <3>4. \A i \in Slots : StartsImport(i, m) => down' # down /\ m.type = "event" /\ m.ev = "import"
      BY Lengths DEF StartsImport, Starts, Sent, Grown
    <3> QED
      BY <1>7, <3>1, <3>2, <3>3, <3>4
  <2>3. \/ down' = down
        \/ Walks(m.to, m)
        \/ (Sends(m.to, m) \/ Imports(m.to, m)) /\ m.to \in Slots
    BY <1>7 DEF Resumed, Stores, Loaded, Breaks, Graphs, Refuses
  <2>4. CASE Walks(m.to, m)
    <3>1. /\ Grown(down, down', 1) /\ Fresh.page = page
          /\ Fresh.op \notin {"graph_change", "imported", "specification_change"}
      BY <2>4 DEF Walks, Sent, Ask
    <3> QED
      BY <1>4, <1>7, <2>1, <2>2, <3>1
  <2>5. CASE Sends(m.to, m) \/ Imports(m.to, m)
    <3>1. /\ Grown(down, down', 1) /\ Fresh.page = page
          /\ Fresh.op # "specification_change"
          /\ Fresh.df.design = task[m.to].design
      BY <2>5 DEF Sends, Imports, Sent, Ask, Dataflow
    <3>2. m.type = "answer" /\ task[m.to].at \in {"spec", "import"}
      BY <2>5 DEF Sends, Imports
    <3>3. Wrong(task[m.to].design) => BuiltAfter(1)
      BY <1>3, <1>7, <3>2 DEF Fits, Chain, m
    <3>4. BuiltAfter(1) => BuiltFrom(2) \/ AskedFrom(1)
      BY DEF BuiltAfter
    <3> QED
      BY <1>4, <1>7, <2>1, <2>2, <3>1, <3>3, <3>4
  <2> QED
    BY <1>4, <1>7, <2>1, <2>2, <2>3, <2>4, <2>5
<1> QED
  BY <1>1, <1>5, <1>6, <1>7

\* A step of the page or the user: what is in `up' stays, and is read as before.
LEMMA UpStays ==
    ASSUME Base, NEW n \in {1, 2}, Grown(up, up', n), UNCHANGED <<task, design, save>>
    PROVE  /\ \A k \in 1..Len(up) : Saving(up[k])' <=> Saving(up[k])
           /\ \A k \in Pos : BuiltFrom(k) => BuiltFrom(k)'
           /\ \A k \in 1..Len(up) + 1 : \A j \in 0..k - 1 : NoneIn(j, k)' <=> NoneIn(j, k)
           /\ \A k \in 1..Len(up) + 1 : FileFits(k) => FileFits(k)'
<1> USE DEF Pos
<1>1. /\ Len(up) \in Nat /\ Len(up') \in Nat /\ Len(up) <= Len(up')
      /\ \A k \in 1..Len(up) : k \in 1..Len(up') /\ up'[k] = up[k]
  BY DEF Grown
<1>2. \A k \in 1..Len(up) : (Saving(up[k])' <=> Saving(up[k])) /\ (Built(up[k]) => Built(up[k])')
  BY <1>1 DEF Saving, Built, IsEvent
<1>3. \A k \in Pos : BuiltFrom(k) => BuiltFrom(k)'
  <2> SUFFICES ASSUME NEW k \in Pos, BuiltFrom(k) PROVE BuiltFrom(k)'
    OBVIOUS
  <2> PICK j \in k..Len(up) : Built(up[j])
    BY DEF BuiltFrom
  <2>1. j \in 1..Len(up) /\ j \in k..Len(up')
    BY <1>1
  <2> QED
    BY <1>2, <2>1 DEF BuiltFrom
<1>4. ASSUME NEW k \in 1..Len(up) + 1, NEW j \in 0..k - 1 PROVE NoneIn(j, k)' <=> NoneIn(j, k)
  <2>1. \A l \in j + 1..k - 1 : l \in 1..Len(up)
    BY <1>1
  <2> QED
    BY <1>2, <2>1 DEF NoneIn
<1>5. ASSUME NEW k \in 1..Len(up) + 1, FileFits(k) PROVE FileFits(k)'
  <2>1. ASSUME NEW j \in 1..k - 1, Saving(up[j])', NoneIn(j, k)' PROVE ~Wrong(up[j].df.design)'
    <3>1. j \in 1..Len(up) /\ j \in 0..k - 1
      BY <1>1
    <3> QED
      BY <1>1, <1>2, <1>4, <1>5, <2>1, <3>1 DEF FileFits, Wrong
  <2>2. ASSUME NoneIn(0, k)', save' # None PROVE ~Wrong(save.design)'
    <3>1. 0 \in 0..k - 1
      BY <1>1
    <3> QED
      BY <1>4, <1>5, <2>2, <3>1 DEF FileFits, Wrong
  <2> QED
    BY <2>1, <2>2 DEF FileFits
<1> QED
  BY <1>2, <1>3, <1>4, <1>5

\* What is said and saved is what the page shows.
LEMMA FileGrows ==
    ASSUME Base, NEW n \in {1, 2}, Grown(up, up', n), UNCHANGED <<task, design, save>>,
           NEW N, N = Len(up) + 1, NEW M, M = Len(up') + 1,
           \A k \in N..M - 1 : Saving(up[k])' => up'[k].df = graph',
           ~FileFits(M)'
    PROVE  \/ Wrong(graph.design)'
           \/ ~FileFits(N) /\ \A k \in N..M - 1 : ~Saving(up[k])'
<1>1. /\ Len(up) \in Nat /\ Len(up') \in Nat /\ Len(up) < Len(up')
      /\ \A k \in 1..Len(up) : k \in 1..Len(up') /\ up'[k] = up[k]
  BY DEF Grown
<1>3. /\ N \in 1..Len(up) + 1 /\ N \in Nat /\ M \in Nat /\ N < M
      /\ \A k : k \in 1..Len(up) <=> k \in 1..N - 1
  BY <1>1
<1>4. \/ \E j \in 1..M - 1 : Saving(up[j])' /\ NoneIn(j, M)' /\ Wrong(up[j].df.design)'
      \/ NoneIn(0, M)' /\ save' # None /\ Wrong(save.design)'
  BY DEF FileFits
<1>5. ASSUME NEW j \in 0..N - 1, NoneIn(j, M)'
      PROVE  NoneIn(j, N) /\ \A k \in N..M - 1 : ~Saving(up[k])'
  <2>1. NoneIn(j, N)'
    <3>1. \A l \in j + 1..N - 1 : l \in j + 1..M - 1
      BY <1>3
    <3> QED
      BY <1>5, <3>1 DEF NoneIn
  <2>2. NoneIn(j, N)
    BY <1>3, <2>1, UpStays
  <2>3. \A k \in N..M - 1 : k \in j + 1..M - 1
    BY <1>3
  <2> QED
    BY <1>5, <2>2, <2>3 DEF NoneIn
<1>6. ASSUME NEW j \in 1..M - 1, Saving(up[j])', NoneIn(j, M)', Wrong(up[j].df.design)'
      PROVE  \/ Wrong(graph.design)'
             \/ ~FileFits(N) /\ \A k \in N..M - 1 : ~Saving(up[k])'
  <2>1. CASE j \in N..M - 1
    BY <1>3, <1>6, <2>1 DEF Wrong
  <2>2. CASE j \in 1..N - 1
    <3>1. j \in 0..N - 1 /\ j \in 1..Len(up)
      BY <1>3, <2>2
    <3>2. Saving(up[j]) /\ up'[j] = up[j]
      BY <1>1, <1>6, <3>1, UpStays
    <3>3. NoneIn(j, N) /\ \A k \in N..M - 1 : ~Saving(up[k])'
      BY <1>5, <1>6, <3>1
    <3>4. ~FileFits(N)
      BY <1>6, <2>2, <3>2, <3>3 DEF FileFits, Wrong
    <3> QED
      BY <3>3, <3>4
  <2>3. j \in N..M - 1 \/ j \in 1..N - 1
    BY <1>3
  <2> QED
    BY <2>1, <2>2, <2>3
<1>7. ASSUME NoneIn(0, M)', save' # None, Wrong(save.design)'
      PROVE  ~FileFits(N) /\ \A k \in N..M - 1 : ~Saving(up[k])'
  <2>1. 0 \in 0..N - 1
    BY <1>3
  <2>2. NoneIn(0, N) /\ \A k \in N..M - 1 : ~Saving(up[k])'
    BY <1>5, <1>7, <2>1
  <2> QED
    BY <1>7, <2>2 DEF FileFits, Wrong
<1> QED
  BY <1>4, <1>6, <1>7

\* What the page says in a step.
LEMMA PageSays ==
    ASSUME Base, PageTable, NEW k \in Len(up) + 1..Len(up')
    PROVE  \/ IsEvent(up'[k], "graph") /\ up'[k].df = graph'
           \/ IsEvent(up'[k], "change")
           \/ /\ up'[k].type = "answer" /\ up'[k].to = down[1].to /\ down[1].op # "imported"
              /\ down[1].op = "graph_get" => up'[k].df = graph'
           \/ up'[k].type = "error" /\ up'[k].to = down[1].to /\ Fails(down[1])
<1> DEFINE r == down[1]
<1>1. Answers(r) \/ Changes(r) \/ Replaces(r) \/ Exposes(r) \/ Fails(r)
  BY DEF PageTable
<1>2. ASSUME Grown(up, up', 1) PROVE up'[k] = Said
  BY <1>2 DEF Grown, Said
<1>3. ASSUME Grown(up, up', 2) PROVE up'[k] \in {Said, Added}
  BY <1>3 DEF Grown, Said, Added
<1> HIDE DEF r
<1>4. CASE Answers(r)
  BY <1>2, <1>4 DEF Answers, r
<1>5. CASE Changes(r)
  BY <1>3, <1>5 DEF Changes, IsEvent, r
<1>6. CASE Replaces(r)
  BY <1>2, <1>6 DEF Replaces, r
<1>7. CASE Exposes(r)
  BY <1>3, <1>7 DEF Exposes, IsEvent, r
<1>8. CASE Fails(r)
  BY <1>2, <1>8 DEF Fails, r
<1> QED
  BY <1>1, <1>4, <1>5, <1>6, <1>7, <1>8

LEMMA FitsPage == ASSUME Base, Fits, PageTable PROVE Fits'
<1> USE DEF Pos
<1> DEFINE r == down[1]
<1>1. /\ Popped(down, down') /\ UNCHANGED <<page, spec, design, save, task, torn>>
      /\ Answers(r) \/ Changes(r) \/ Replaces(r) \/ Exposes(r) \/ Fails(r)
  BY DEF PageTable
<1>2. /\ Len(up) \in Nat /\ Len(up') \in Nat /\ Len(down) \in Nat /\ Len(down') \in Nat
      /\ Len(down) = Len(down') + 1 /\ 1 \in 1..Len(down) /\ DownOK(r)
      /\ \A k \in 1..Len(down') : k + 1 \in 1..Len(down) /\ down'[k] = down[k + 1]
  BY <1>1, Lengths DEF Popped, Answers, Changes, Replaces, Exposes, Fails, Grown, Base, Channels
<1>3. PICK n \in {1, 2} : Grown(up, up', n)
  BY <1>1 DEF Answers, Changes, Replaces, Exposes, Fails
<1>4. \A k \in Len(up) + 1..Len(up') :
         \/ IsEvent(up'[k], "graph") /\ up'[k].df = graph'
         \/ IsEvent(up'[k], "change")
         \/ /\ up'[k].type = "answer" /\ up'[k].to = r.to /\ r.op # "imported"
            /\ r.op = "graph_get" => up'[k].df = graph'
         \/ up'[k].type = "error" /\ up'[k].to = r.to /\ Fails(r)
  BY PageSays
<1>5. CASE torn
  BY <1>1, <1>5 DEF Fits
<1>6. CASE ~torn
  <2>1. /\ Chain /\ Connects /\ Served
        /\ ~FileFits(Len(up) + 1) => GivenAfter(0)
    BY <1>6 DEF Fits
  <2>2. r.op # "imported" => r.to \in Slots /\ r.op = Ask(task[r.to].at) /\ task[r.to].at \in At
    BY <1>2 DEF DownOK, Base, Tasks
  <2>3. Asked(r) => Answers(r)
    BY <1>1, <1>2, <2>1 DEF Asked, Served, Changes, Replaces, Exposes, Fails, DownOK, Base, TypeOK
  <2>4. ASSUME NEW k \in 1..Len(up) + 1, Asked(r) PROVE BuiltFrom(k)'
    <3>1. Grown(up, up', 1) /\ Said.type = "answer" /\ Said.to = r.to
      BY <2>3, <2>4 DEF Answers
    <3>2. ASSUME NEW j, j = Len(up) + 1 PROVE Built(up[j])'
      BY <1>1, <2>4, <3>1, <3>2 DEF Built, Asked, Said
    <3>3. \E j : j = Len(up) + 1 /\ Built(up[j])'
      BY <3>2
    <3>4. Len(up) + 1 = Len(up')
      BY <3>1 DEF Grown
    <3> QED
      BY <1>2, <3>3, <3>4 DEF BuiltFrom
  <2>5. \A k \in Pos : AskedFrom(k + 1) => AskedFrom(k)'
    <3> SUFFICES ASSUME NEW k \in Pos, AskedFrom(k + 1) PROVE AskedFrom(k)'
      OBVIOUS
    <3> PICK j \in k + 1..Len(down) : Asked(down[j])
      BY DEF AskedFrom
    <3> DEFINE i == j - 1
    <3>1. i \in 1..Len(down') /\ i \in k..Len(down') /\ j = i + 1
      BY <1>2
    <3> HIDE DEF i
    <3>2. Asked(down[i])'
      BY <1>1, <1>2, <3>1 DEF Asked
    <3> QED
      BY <3>1, <3>2 DEF AskedFrom
  <2>6. \A k \in Pos : GivenFrom(k + 1) => GivenFrom(k)'
    <3> SUFFICES ASSUME NEW k \in Pos, GivenFrom(k + 1) PROVE GivenFrom(k)'
      OBVIOUS
    <3> PICK j \in k + 1..Len(down) : down[j].op = "imported"
      BY DEF GivenFrom
    <3> DEFINE i == j - 1
    <3>1. i \in 1..Len(down') /\ i \in k..Len(down') /\ j = i + 1
      BY <1>2
    <3> HIDE DEF i
    <3> QED
      BY <1>2, <3>1 DEF GivenFrom
  <2>7. AskedFrom(1) => Asked(r) \/ AskedFrom(1)'
    <3> SUFFICES ASSUME NEW j \in 1..Len(down), Asked(down[j]) PROVE Asked(r) \/ AskedFrom(1)'
      BY DEF AskedFrom
    <3>1. j = 1 \/ j \in 1 + 1..Len(down)
      BY <1>2
    <3>2. CASE j \in 1 + 1..Len(down)
      <4>1. AskedFrom(1 + 1)
        BY <3>2 DEF AskedFrom
      <4> QED
        BY <2>5, <4>1
    <3> QED
      BY <3>1, <3>2
  <2>8. BuiltFrom(1) => BuiltFrom(1)'
    BY <1>1, <1>3, UpStays
  <2>9. \A k \in Nat : GivenAfter(k + 1) => GivenAfter(k)'
    <3> SUFFICES ASSUME NEW k \in Nat, GivenAfter(k + 1) PROVE GivenAfter(k)'
      OBVIOUS
    <3>1. k + 1 \in Pos /\ 1 \in 1..Len(up) + 1
      BY <1>2
    <3>2. GivenFrom(k + 1 + 1) => GivenFrom(k + 1)'
      BY <2>6, <3>1
    <3>3. Asked(r) => BuiltFrom(1)'
      BY <2>4, <3>1
    <3> QED
      BY <2>7, <2>8, <3>2, <3>3 DEF GivenAfter
  <2>10. r.op # "imported" /\ GivenAfter(0) => GivenAfter(0)'
    <3>1. ASSUME r.op # "imported", GivenFrom(1) PROVE GivenFrom(1)'
      <4> PICK j \in 1..Len(down) : down[j].op = "imported"
        BY <3>1 DEF GivenFrom
      <4>1. j \in 1 + 1..Len(down)
        BY <1>2, <3>1
      <4>2. GivenFrom(1 + 1)
        BY <4>1 DEF GivenFrom
      <4> QED
        BY <2>6, <4>2
    <3>2. Asked(r) => BuiltFrom(1)'
      <4>1. 1 \in 1..Len(up) + 1
        BY <1>2
      <4> QED
        BY <2>4, <4>1
    <3> QED
      BY <2>7, <2>8, <3>1, <3>2 DEF GivenAfter
  <2>11. Wrong(graph.design)' => GivenAfter(0)'
    <3>1. CASE Answers(r) \/ Fails(r) \/ Exposes(r)
      <4>1. r.op # "imported" /\ graph'.design = graph.design
        <5>1. graph \in Dataflows
          BY DEF Base, TypeOK
        <5> QED
          BY <3>1, <5>1 DEF Answers, Fails, Exposes, Shown, Dataflows
      <4> QED
        BY <1>1, <2>1, <2>10, <4>1 DEF Chain, Wrong
    <3>2. CASE Changes(r) \/ Replaces(r)
      <4>1. r.op \in {"graph_change", "imported"} /\ graph'.design = r.df.design
        BY <1>2, <3>2 DEF Changes, Replaces, Shown, DownOK, Dataflows
      <4>2. Wrong(r.df.design) => GivenAfter(0 + 1)
        BY <1>2, <2>1, <4>1 DEF Chain
      <4> QED
        BY <1>1, <2>9, <4>1, <4>2 DEF Wrong
    <3> QED
      BY <1>1, <3>1, <3>2
  <2>12. Chain'
    <3>1. ASSUME NEW k \in 1..Len(down'), down'[k].op \in {"graph_change", "imported"},
                 Wrong(down[k].df.design)'
          PROVE  GivenAfter(k)'
      <4>1. GivenAfter(k + 1)
        BY <1>1, <1>2, <2>1, <3>1 DEF Chain, Wrong
      <4> QED
        BY <2>9, <4>1
    <3>2. ASSUME NEW k \in 1..Len(up'), up'[k].type = "answer",
                 task'[up'[k].to].at \in {"spec", "import"}, Wrong(task[up[k].to].design)'
          PROVE  BuiltAfter(k)'
      <4>1. CASE k \in 1..Len(up)
        <5>1. up'[k] = up[k] /\ BuiltAfter(k)
          BY <1>1, <1>3, <2>1, <3>2, <4>1 DEF Chain, Wrong, Grown
        <5>2. k + 1 \in Pos /\ k + 1 \in 1..Len(up) + 1
          BY <1>2, <4>1
        <5>3. BuiltFrom(k + 1) => BuiltFrom(k + 1)'
          BY <1>1, <1>3, <5>2, UpStays
        <5>4. Asked(r) => BuiltFrom(k + 1)'
          BY <2>4, <5>2
        <5> QED
          BY <2>7, <5>1, <5>3, <5>4 DEF BuiltAfter
      <4>2. CASE k \in Len(up) + 1..Len(up')
        <5>1. up'[k].to = r.to /\ r.op # "imported"
          BY <1>4, <3>2, <4>2 DEF IsEvent
        <5>2. r.op = "specification_change" /\ Wrong(task[r.to].design)
          BY <1>1, <2>2, <3>2, <5>1 DEF Ask, Wrong
        <5>3. AskedFrom(1 + 1)
          BY <1>2, <2>1, <5>2 DEF Chain
        <5>4. AskedFrom(1)'
          BY <2>5, <5>3
        <5> QED
          BY <5>4 DEF BuiltAfter
      <4> QED
        BY <1>2, <4>1, <4>2
    <3>3. ASSUME NEW k \in 1..Len(down'), down'[k].op = "specification_change",
                 Wrong(task[down[k].to].design)'
          PROVE  AskedFrom(k + 1)'
      <4>1. AskedFrom(k + 1 + 1)
        BY <1>1, <1>2, <2>1, <3>3 DEF Chain, Wrong
      <4>2. k + 1 \in Pos
        BY <1>2
      <4> QED
        BY <2>5, <4>1, <4>2
    <3> QED
      BY <2>11, <3>1, <3>2, <3>3 DEF Chain
  <2>13. Connects'
    <3> SUFFICES ASSUME NEW k \in 1..Len(up'), IsEvent(up'[k], "connect")
                 PROVE  /\ ~GivenAfter(0)'
                        /\ \A j \in 1..k - 1 : ~IsEvent(up'[j], "import")
                        /\ FileFits(k)'
      BY DEF Connects, IsEvent
    <3>1. k \in 1..Len(up) /\ k \in 1..Len(up) + 1
      <4>1. k \notin Len(up) + 1..Len(up')
        BY <1>4 DEF IsEvent
      <4> QED
        BY <1>2, <4>1
    <3>2. up'[k] = up[k]
      BY <1>3, <3>1 DEF Grown
    <3>3. /\ ~GivenAfter(0) /\ FileFits(k)
          /\ \A j \in 1..k - 1 : ~IsEvent(up[j], "import")
      BY <2>1, <3>1, <3>2 DEF Connects
    <3>4. \A j \in 1..k - 1 : ~IsEvent(up'[j], "import")
      <4>1. \A j \in 1..k - 1 : j \in 1..Len(up)
        BY <1>2, <3>1
      <4> QED
        BY <1>3, <3>3, <4>1 DEF Grown
    <3>5. FileFits(k)'
      BY <1>1, <1>3, <3>1, <3>3, UpStays
    <3>6. ~GivenFrom(1) /\ ~BuiltFrom(1) /\ ~AskedFrom(1)
      <4>1. ~GivenFrom(0 + 1)
        BY <3>3 DEF GivenAfter
      <4> QED
        BY <3>3, <4>1 DEF GivenAfter
    <3>7. ~GivenFrom(1)' /\ ~AskedFrom(1)'
      BY <1>1, <1>2, <3>6 DEF GivenFrom, AskedFrom, Asked
    <3>8. ~BuiltFrom(1)'
      <4>1. ASSUME NEW j \in 1..Len(up'), Built(up[j])' PROVE FALSE
        <5>1. CASE j \in 1..Len(up)
          <6>1. Built(up[j])
            BY <1>1, <1>3, <4>1, <5>1 DEF Built, Grown
          <6> QED
            BY <3>6, <5>1, <6>1 DEF BuiltFrom
        <5>2. CASE j \in Len(up) + 1..Len(up')
          <6>1. up'[j].type = "answer" /\ task[up'[j].to].at = "import"
            BY <1>1, <4>1 DEF Built
          <6>2. up'[j].to = r.to /\ r.op # "imported"
            BY <1>4, <5>2, <6>1 DEF IsEvent
          <6>3. Asked(r)
            BY <2>2, <6>1, <6>2 DEF Asked, Ask
          <6> QED
            BY <1>2, <3>6, <6>3 DEF AskedFrom
        <5> QED
          BY <1>2, <5>1, <5>2
      <4> QED
        BY <4>1 DEF BuiltFrom
    <3> QED
      BY <3>4, <3>5, <3>7, <3>8 DEF GivenAfter
  <2>14. Served'
    <3>1. ASSUME NEW k \in 1..Len(down'), Asked(down[k])' PROVE down'[k].page = page'
      BY <1>1, <1>2, <2>1, <3>1 DEF Served, Asked
    <3>2. ASSUME NEW k \in 1..Len(up'), up'[k].type = "error" PROVE task'[up'[k].to].at # "import"
      <4>1. CASE k \in 1..Len(up)
        BY <1>1, <1>3, <2>1, <3>2, <4>1 DEF Served, Grown
      <4>2. CASE k \in Len(up) + 1..Len(up')
        <5>1. Fails(r) /\ up'[k].to = r.to
          BY <1>4, <3>2, <4>2 DEF IsEvent
        <5>2. ~Asked(r) /\ r.op # "imported"
          BY <2>3, <5>1, <1>2 DEF Fails, Answers, Said, Grown
        <5> QED
          BY <1>1, <2>2, <5>1, <5>2 DEF Asked, Ask
      <4> QED
        BY <1>2, <4>1, <4>2
    <3> QED
      BY <3>1, <3>2 DEF Served
  <2>15. ASSUME NEW N, N = Len(up) + 1, NEW M, M = Len(up') + 1, ~FileFits(M)'
         PROVE  GivenAfter(0)'
    <3>1. ASSUME NEW k \in N..M - 1, Saving(up[k])' PROVE up'[k].df = graph'
      <4>1. k \in Len(up) + 1..Len(up')
        BY <1>2, <2>15
      <4>2. ASSUME up'[k].type = "answer", Fetches(task[up'[k].to].at), up'[k].to = r.to,
                   r.op # "imported"
            PROVE  r.op = "graph_get"
        BY <2>2, <4>2 DEF Ask, Fetches
      <4> QED
        BY <1>1, <1>4, <3>1, <4>1, <4>2 DEF Saving, IsEvent, Fetches
    <3>2. \/ Wrong(graph.design)'
          \/ ~FileFits(N) /\ \A k \in N..M - 1 : ~Saving(up[k])'
      BY <1>1, <1>3, <2>15, <3>1, FileGrows
    <3>3. CASE ~FileFits(N) /\ \A k \in N..M - 1 : ~Saving(up[k])'
      <4>1. r.op # "imported"
        <5>1. ASSUME Replaces(r) PROVE FALSE
          <6>1. N \in N..M - 1
            BY <1>2, <2>15, <5>1 DEF Replaces, Grown
          <6>2. Saving(up[N])'
            BY <2>15, <5>1 DEF Replaces, Saving, IsEvent, Said
          <6> QED
            BY <3>3, <6>1, <6>2
        <5> QED
          BY <1>1, <5>1 DEF Answers, Changes, Exposes, Fails
      <4> QED
        BY <2>1, <2>10, <2>15, <3>3, <4>1
    <3> QED
      BY <2>11, <3>2, <3>3
  <2> QED
    BY <1>1, <2>12, <2>13, <2>14, <2>15 DEF Fits
<1> QED
  BY <1>5, <1>6

\* The user's steps are told as events; none of them moves an import on.
LEMMA UserSays ==
    ASSUME Base, Grown(up, up', 1), UNCHANGED <<task, design, save, down>>,
           Said.type = "event", Said.ev # "graph"
    PROVE  /\ \A k \in Nat : GivenAfter(k)' <=> GivenAfter(k)
           /\ \A k \in Nat : BuiltAfter(k) => BuiltAfter(k)'
           /\ \A N, M : N = Len(up) + 1 /\ M = Len(up') + 1 /\ ~FileFits(M)'
                           => Wrong(graph.design)' \/ ~FileFits(N)
<1> USE DEF Pos
<1>1. /\ Len(up) \in Nat /\ Len(up') \in Nat /\ Len(up') = Len(up) + 1
      /\ \A k \in 1..Len(up) : k \in 1..Len(up') /\ up'[k] = up[k]
      /\ \A k \in 1..Len(up') : k \in 1..Len(up) \/ up'[k] = Said
  BY DEF Grown, Said
<1>2. \A k \in Pos : AskedFrom(k)' <=> AskedFrom(k)
  BY DEF AskedFrom, Asked
<1>3. \A k \in Pos : GivenFrom(k)' <=> GivenFrom(k)
  BY DEF GivenFrom
<1>4. \A k \in Pos : BuiltFrom(k) => BuiltFrom(k)'
  BY UpStays
<1>5. ASSUME NEW k \in Pos, BuiltFrom(k)' PROVE BuiltFrom(k)
  <2> PICK j \in k..Len(up') : Built(up[j])'
    BY <1>5 DEF BuiltFrom
  <2>1. j \in 1..Len(up')
    BY <1>1
  <2>2. j \in k..Len(up) /\ j \in 1..Len(up)
    BY <1>1, <2>1 DEF Built
  <2>3. Built(up[j])
    BY <1>1, <2>2 DEF Built
  <2> QED
    BY <2>2, <2>3 DEF BuiltFrom
<1>6. ASSUME NEW N, NEW M, N = Len(up) + 1, M = Len(up') + 1, ~FileFits(M)'
      PROVE  Wrong(graph.design)' \/ ~FileFits(N)
  <2>1. ASSUME NEW k \in N..M - 1 PROVE ~Saving(up[k])'
    <3>1. up'[k] = Said
      BY <1>1, <1>6 DEF Said
    <3> QED
      BY <3>1 DEF Saving, IsEvent
  <2>2. 1 \in {1, 2}
    OBVIOUS
  <2> QED
    BY <1>6, <2>1, <2>2, FileGrows
<1>7. \A k \in Nat : k + 1 \in Pos /\ 1 \in Pos
  OBVIOUS
<1> QED
  BY <1>2, <1>3, <1>4, <1>5, <1>6, <1>7 DEF GivenAfter, BuiltAfter

LEMMA FitsUser == ASSUME Base, Fits, Edits \/ Loads \/ Requests PROVE Fits'
<1>1. /\ Grown(up, up', 1) /\ UNCHANGED <<task, design, save, down, spec>>
      /\ Said.type = "event" /\ Said.ev # "graph"
  BY DEF Edits, Loads, Requests, IsEvent
<1>2. /\ Len(up) \in Nat /\ Len(up') \in Nat /\ Len(down) \in Nat /\ Len(up') = Len(up) + 1
      /\ \A k \in 1..Len(up') : \/ k \in 1..Len(up) /\ up'[k] = up[k]
                                \/ k = Len(up) + 1 /\ up'[k] = Said
  BY <1>1, Lengths DEF Grown, Said
<1>3. torn' \/ ~torn
  BY DEF Base, TypeOK, Edits, Loads, Requests
<1>4. CASE torn'
  BY <1>1, <1>4 DEF Fits
<1>5. CASE ~torn' /\ ~torn
  <2>1. /\ Chain /\ Connects /\ Served
        /\ ~FileFits(Len(up) + 1) => GivenAfter(0)
    BY <1>5 DEF Fits
  <2>2. \A k \in Nat : GivenAfter(k)' <=> GivenAfter(k)
    BY <1>1, UserSays
  <2>3. \A k \in Nat : BuiltAfter(k) => BuiltAfter(k)'
    BY <1>1, UserSays
  <2>4. graph'.design = graph.design \/ graph'.design = None
    BY DEF Edits, Loads, Requests, Dataflow
  <2>5. Loads => ~Importing
    BY <1>5 DEF Loads
  <2>6. ~Importing => ~GivenAfter(0)
    <3> SUFFICES ASSUME GivenAfter(0) PROVE Importing
      OBVIOUS
    <3>1. GivenFrom(0 + 1) \/ BuiltFrom(1) \/ AskedFrom(1)
      BY DEF GivenAfter
    <3>2. CASE GivenFrom(0 + 1)
      BY <3>2 DEF GivenFrom, Importing
    <3>3. CASE BuiltFrom(1)
      <4> PICK k \in 1..Len(up) : Built(up[k])
        BY <3>3 DEF BuiltFrom
      <4>1. up[k].to \in Slots
        BY DEF Base, Channels, UpOK, Built
      <4> QED
        BY <4>1 DEF Built, Importing
    <3>4. CASE AskedFrom(1)
      <4> PICK k \in 1..Len(down) : Asked(down[k])
        BY <3>4 DEF AskedFrom
      <4>1. down[k].to \in Slots
        BY DEF Base, Channels, DownOK, Asked
      <4> QED
        BY <4>1 DEF Asked, Importing
    <3> QED
      BY <3>1, <3>2, <3>3, <3>4
  <2>7. Chain'
    <3>1. Wrong(graph.design)' => GivenAfter(0)'
      BY <1>1, <2>1, <2>2, <2>4 DEF Chain, Wrong
    <3>2. ASSUME NEW k \in 1..Len(down'), down'[k].op \in {"graph_change", "imported"},
                 Wrong(down[k].df.design)'
          PROVE  GivenAfter(k)'
      <4>1. GivenAfter(k)
        BY <1>1, <2>1, <3>2 DEF Chain, Wrong
      <4> QED
        BY <1>1, <1>2, <2>2, <4>1
    <3>3. ASSUME NEW k \in 1..Len(up'), up'[k].type = "answer",
                 task'[up'[k].to].at \in {"spec", "import"}, Wrong(task[up[k].to].design)'
          PROVE  BuiltAfter(k)'
      <4>1. BuiltAfter(k)
        BY <1>1, <1>2, <2>1, <3>3 DEF Chain, Wrong
      <4> QED
        BY <2>3, <4>1
    <3>4. ASSUME NEW k \in 1..Len(down'), down'[k].op = "specification_change",
                 Wrong(task[down[k].to].design)'
          PROVE  AskedFrom(k + 1)'
      <4>1. AskedFrom(k + 1)
        BY <1>1, <2>1, <3>4 DEF Chain, Wrong
      <4> QED
        BY <1>1, <4>1 DEF AskedFrom, Asked
    <3> QED
      BY <3>1, <3>2, <3>3, <3>4 DEF Chain
  <2>8. Connects'
    <3> SUFFICES ASSUME NEW k \in 1..Len(up'), IsEvent(up'[k], "connect")
                 PROVE  /\ ~GivenAfter(0)'
                        /\ \A j \in 1..k - 1 : ~IsEvent(up'[j], "import")
                        /\ FileFits(k)'
      BY DEF Connects, IsEvent
    <3>1. k \in 1..Len(up) + 1 /\ \A j \in 1..k - 1 : j \in 1..Len(up) /\ up'[j] = up[j]
      BY <1>2
    <3>2. FileFits(k) => FileFits(k)'
      BY <1>1, <3>1, UpStays
    <3>3. CASE k \in 1..Len(up) /\ up'[k] = up[k]
      <4>1. /\ ~GivenAfter(0) /\ FileFits(k)
            /\ \A j \in 1..k - 1 : ~IsEvent(up[j], "import")
        BY <2>1, <3>3 DEF Connects
      <4>2. \A j \in 1..k - 1 : ~IsEvent(up'[j], "import")
        BY <3>1, <4>1
      <4> QED
        BY <2>2, <3>2, <4>1, <4>2
    <3>4. CASE k = Len(up) + 1 /\ up'[k] = Said
      <4>1. ~Importing
        BY <2>5, <3>4 DEF Edits, Requests, IsEvent
      <4>2. ~GivenAfter(0) /\ FileFits(k)
        BY <2>1, <2>6, <3>4, <4>1
      <4>3. \A j \in 1..k - 1 : ~IsEvent(up'[j], "import")
        BY <3>1, <4>1 DEF Importing, IsEvent
      <4> QED
        BY <2>2, <3>2, <4>2, <4>3
    <3> QED
      BY <1>2, <3>3, <3>4
  <2>9. Served'
    <3>1. ASSUME NEW k \in 1..Len(down'), Asked(down[k])' PROVE down'[k].page = page'
      <4>1. Asked(down[k]) /\ down'[k] = down[k] /\ k \in 1..Len(down)
        BY <1>1, <3>1 DEF Asked
      <4>2. ~Loads
        <5>1. AskedFrom(1)
          BY <4>1 DEF AskedFrom
        <5>2. GivenAfter(0)
          BY <5>1 DEF GivenAfter
        <5> QED
          BY <2>5, <2>6, <5>2
      <4> QED
        BY <2>1, <4>1, <4>2 DEF Served, Edits, Requests
    <3>2. ASSUME NEW k \in 1..Len(up'), up'[k].type = "error" PROVE task'[up'[k].to].at # "import"
      BY <1>1, <1>2, <2>1, <3>2 DEF Served
    <3> QED
      BY <3>1, <3>2 DEF Served
  <2>10. ASSUME NEW N, N = Len(up) + 1, NEW M, M = Len(up') + 1, ~FileFits(M)'
         PROVE  GivenAfter(0)'
    <3>1. Wrong(graph.design)' \/ ~FileFits(N)
      BY <1>1, <2>10, UserSays
    <3>2. ~FileFits(N) => GivenAfter(0)
      BY <2>1, <2>10
    <3>3. Wrong(graph.design)' => GivenAfter(0)'
      BY <2>7 DEF Chain
    <3> QED
      BY <2>2, <3>1, <3>2, <3>3
  <2> QED
    BY <1>1, <2>7, <2>8, <2>9, <2>10 DEF Fits
<1> QED
  BY <1>3, <1>4, <1>5

LEMMA FitsInv == Spec => [](Base /\ Fits)
<1>1. Init => Fits
  BY FitsStart
<1>2. ASSUME Base, Fits, [Next]_vars PROVE Fits'
  <2>1. CASE UNCHANGED vars
    BY <1>2, <2>1 DEF Fits, Chain, Connects, Served, Wrong, Asked, Built, AskedFrom, BuiltFrom,
                      GivenFrom, GivenAfter, BuiltAfter, FileFits, NoneIn, Saving, IsEvent, vars
  <2> QED
    BY <1>2, <2>1, Steps, FitsClient, FitsPage, FitsUser
<1> QED
  BY <1>1, <1>2, BaseInv, PTL DEF Spec

(***************************************************************************)
(* An import changes the specification first and the dataflow of the page  *)
(* two messages later, while other handlers save and show dataflows and    *)
(* the user may import again: when all is over the page shows a dataflow   *)
(* of the design the client holds the specification of, unless it was      *)
(* loaded again in the middle of an import.                                *)
(***************************************************************************)
THEOREM ImportsFit == Spec => []SpecFitsGraph
<1>1. Base /\ Fits => SpecFitsGraph
  <2> SUFFICES ASSUME Base, Fits, Quiet, ~torn PROVE graph.design \in {None, spec}
    BY DEF SpecFitsGraph
  <2>1. Len(up) = 0 /\ Len(down) = 0
    BY EmptyChannel DEF Quiet
  <2>2. ~GivenAfter(0)
    BY <2>1 DEF GivenAfter, GivenFrom, BuiltFrom, AskedFrom
  <2> QED
    BY <2>2 DEF Fits, Chain, Wrong
<1> QED
  BY <1>1, FitsInv, PTL

-----------------------------------------------------------------------------
(***************************************************************************)
(* The edits of the file on their way to the page that was loaded again.   *)
(***************************************************************************)
NoFuture ==
    /\ graph.edits \subseteq 1..edits
    /\ save # None => save.edits \subseteq 1..edits
    /\ \A k \in 1..Len(up) : HasDf(up[k]) => up[k].df.edits \subseteq 1..edits
    /\ \A k \in 1..Len(down) : down[k].op = "graph_change" => down[k].df.edits \subseteq 1..edits
    /\ held \subseteq 1..edits

FirstLoad ==
    /\ page = 0 /\ save # None => save.edits = {}
    /\ page > 0 /\ (\A k \in 1..Len(up) : ~IsEvent(up[k], "connect")) => ~first

Kept ==
    /\ \A k \in 1..Len(down) : /\ down[k].page = page
                               /\ down[k].op = "graph_change" => held \subseteq down[k].df.edits
    /\ \A i \in Slots : task[i].at = "spec" => held = {}
    /\ \A k \in 1..Len(up) : IsEvent(up[k], "connect") =>
          k = 1 /\ (held = {} \/ (~first /\ save # None /\ held \subseteq save.edits))
    /\ \/ held \subseteq graph.edits
       \/ \E k \in 1..Len(up) : IsEvent(up[k], "connect")
       \/ \E k \in 1..Len(down) : down[k].op = "graph_change"

Calm == NoFuture /\ FirstLoad /\ (calm => Kept)


LEMMA CalmStart == Init => Calm
<1> SUFFICES ASSUME Init PROVE Calm
  OBVIOUS
<1>1. /\ graph.edits = {} /\ held = {} /\ page = 0
      /\ save # None => save.edits = {}
  BY DEF Init, Dataflow
<1>2. Len(up) = 0 /\ Len(down) = 0
  BY EmptyChannel DEF Init
<1>3. \A i \in Slots : task[i].at # "spec"
  BY DEF Init, Free
<1>4. NoFuture /\ FirstLoad
  BY <1>1, <1>2 DEF NoFuture, FirstLoad
<1>5. Kept
  BY <1>1, <1>2, <1>3 DEF Kept
<1> QED
  BY <1>4, <1>5 DEF Calm

\* What a step of the client saves and sends.
LEMMA Saves ==
    ASSUME Base, ClientTable
    PROVE  /\ save' = save \/ (HasDf(up[1]) /\ save' = up[1].df)
           /\ \A k \in 1..Len(down') :
                 \/ k \in 1..Len(down) /\ down'[k] = down[k]
                 \/ /\ down'[k].page = page
                    /\ down'[k].op = "graph_change" =>
                          \/ \E i \in Slots : StartsLoad(i, up[1]) /\ down'[k].df = save
                          \/ \E i \in Slots : task[i].at = "spec" /\ down'[k].df.edits = {}
           /\ \A i \in Slots : task'[i].at = "spec" => task[i].at = "spec" \/ StartsSpec(i, up[1])
<1> DEFINE m == up[1]
<1>1. /\ Begun(m) \/ Resumed(m.to, m) \/ Graphs(m) \/ Refuses(m)
      /\ 1 \in 1..Len(up) /\ UpOK(m)
  BY DEF ClientTable, Popped, Base, Channels
<1> HIDE DEF m
<1>2. CASE Graphs(m) \/ Refuses(m)
  BY <1>2 DEF Graphs, Refuses, HasDf, m
<1>3. CASE Begun(m)
  <2> PICK i \in Slots : \/ StartsGet(i, m) \/ StartsLoad(i, m) \/ StartsSpec(i, m)
                         \/ StartsFirst(i, m) \/ StartsImport(i, m)
    BY <1>3 DEF Begun
  <2>1. Sent(i) /\ save' = save
    BY DEF StartsGet, StartsLoad, StartsSpec, StartsFirst, StartsImport, Starts
  <2>2. \A k \in 1..Len(down') : (k \in 1..Len(down) /\ down'[k] = down[k]) \/ down'[k] = Fresh
    BY <2>1 DEF Sent, Grown, Fresh
  <2>3. Fresh.page = page /\ (Fresh.op = "graph_change" => StartsLoad(i, m) /\ Fresh.df = save)
    BY <2>1 DEF Sent, Ask, StartsGet, StartsLoad, StartsSpec, StartsFirst, StartsImport
  <2>4. task'[i].at = "spec" => StartsSpec(i, m)
    BY DEF StartsGet, StartsLoad, StartsSpec, StartsFirst, StartsImport
  <2>5. \A j \in Slots : j # i => task'[j] = task[j]
    BY <2>1 DEF Sent, Others
  <2> QED
    BY <2>1, <2>2, <2>3, <2>4, <2>5 DEF m
<1>4. CASE Resumed(m.to, m)
  <2> DEFINE i == m.to
  <2>1. /\ i \in Slots
        /\ \/ Walks(i, m) \/ Stores(i, m) \/ Sends(i, m)
           \/ Loaded(i, m) \/ Imports(i, m) \/ Breaks(i, m)
    BY <1>4 DEF Resumed
  <2> HIDE DEF i
  <2>2. CASE Walks(i, m) \/ Sends(i, m)
    <3>1. Sent(i) /\ save' = save
      BY <2>2 DEF Walks, Sends
    <3>2. \A k \in 1..Len(down') : (k \in 1..Len(down) /\ down'[k] = down[k]) \/ down'[k] = Fresh
      BY <3>1 DEF Sent, Grown, Fresh
    <3>3. /\ Fresh.page = page
          /\ Fresh.op = "graph_change" => task[i].at = "spec" /\ Fresh.df.edits = {}
      BY <2>2, <3>1 DEF Sent, Ask, Walks, Sends, Dataflow
    <3>4. task'[i].at # "spec" /\ \A j \in Slots : j # i => task'[j] = task[j]
      BY <2>2, <3>1 DEF Sent, Others, Walks, Sends
    <3> QED
      BY <2>1, <3>1, <3>2, <3>3, <3>4
  <2>3. CASE ~(Walks(i, m) \/ Sends(i, m))
    <3>1. Freed(i)
      BY <2>1, <2>3 DEF Stores, Loaded, Imports, Breaks
    <3>2. task'[i].at # "spec" /\ \A j \in Slots : j # i => task'[j] = task[j]
      BY <3>1 DEF Freed, Others, Free
    <3>3. save' = save \/ (HasDf(up[1]) /\ save' = up[1].df)
      <4>1. ASSUME Stores(i, m) PROVE m.df # None
        BY <1>1, <4>1, NoDataflow DEF Stores, UpOK, i
      <4> QED
        BY <2>1, <2>3, <4>1 DEF Stores, Loaded, Imports, Breaks, HasDf, m
    <3>4. \A k \in 1..Len(down') : \/ k \in 1..Len(down) /\ down'[k] = down[k]
                                   \/ down'[k].page = page /\ down'[k].op = "imported"
      BY <2>1, <2>3 DEF Stores, Loaded, Imports, Breaks, Grown, Fresh
    <3> QED
      BY <3>2, <3>3, <3>4
  <2> QED
    BY <2>2, <2>3
<1> QED
  BY <1>1, <1>2, <1>3, <1>4

LEMMA CalmClient == ASSUME Base, Calm, ClientTable PROVE Calm'
<1>1. /\ UNCHANGED <<page, graph, edits, held, calm>> /\ page > 0
      /\ Len(up) \in Nat /\ Len(up') \in Nat /\ 1 \in 1..Len(up)
      /\ \A k \in 1..Len(up') : k + 1 \in 1..Len(up) /\ up'[k] = up[k + 1]
      /\ \A k \in 1..Len(up) : k = 1 \/ k - 1 \in 1..Len(up')
  <2>1. page = 0 => Len(up) = 0
    BY EmptyChannel DEF Base, Channels
  <2>2. page \in Nat
    BY Sessions DEF Base, TypeOK
  <2> QED
    BY <2>1, <2>2 DEF ClientTable, Popped
<1>2. NoFuture'
  <2>1. save' # None => save'.edits \subseteq 1..edits
    BY <1>1, Saves DEF Calm, NoFuture
  <2>2. ASSUME NEW k \in 1..Len(down'), down'[k].op = "graph_change"
        PROVE  down'[k].df.edits \subseteq 1..edits
    <3>1. CASE k \in 1..Len(down) /\ down'[k] = down[k]
      BY <2>2, <3>1 DEF Calm, NoFuture
    <3>2. CASE \E i \in Slots : StartsLoad(i, up[1]) /\ down'[k].df = save
      BY <3>2 DEF Calm, NoFuture, StartsLoad
    <3> QED
      BY <2>2, <3>1, <3>2, Saves
  <2>3. \A k \in 1..Len(up') : HasDf(up'[k]) => up'[k].df.edits \subseteq 1..edits
    BY <1>1 DEF Calm, NoFuture
  <2> QED
    BY <1>1, <2>1, <2>2, <2>3 DEF Calm, NoFuture, HasDf, IsEvent
<1>3. FirstLoad'
  <2> SUFFICES ASSUME \A k \in 1..Len(up') : ~IsEvent(up'[k], "connect") PROVE ~first'
    BY <1>1 DEF FirstLoad, IsEvent
  <2>1. CASE IsEvent(up[1], "connect")
    BY <2>1 DEF ClientTable, Begun, StartsGet, StartsLoad, StartsSpec, StartsFirst, StartsImport,
                IsEvent, Resumed, Reply, Graphs, Refuses, Base, TypeOK
  <2>2. CASE ~IsEvent(up[1], "connect")
    <3>1. \A k \in 1..Len(up) : ~IsEvent(up[k], "connect")
      <4> SUFFICES ASSUME NEW k \in 1..Len(up), k # 1 PROVE ~IsEvent(up[k], "connect")
        BY <2>2
      <4> DEFINE j == k - 1
      <4>1. j \in 1..Len(up') /\ k = j + 1
        BY <1>1
      <4> HIDE DEF j
      <4> QED
        BY <1>1, <4>1
    <3>2. ~first
      BY <1>1, <3>1 DEF Calm, FirstLoad
    <3>3. first' = first
      BY <2>2 DEF ClientTable, Begun, StartsGet, StartsLoad, StartsSpec, StartsFirst, StartsImport,
                  Starts, IsEvent, Resumed, Graphs, Refuses
    <3> QED
      BY <3>2, <3>3
  <2> QED
    BY <2>1, <2>2
<1>4. ASSUME calm PROVE Kept'
  <2>0. Kept
    BY <1>4 DEF Calm
  <2>1. ASSUME NEW k \in 1..Len(down')
        PROVE  /\ down'[k].page = page
               /\ down'[k].op = "graph_change" => held \subseteq down'[k].df.edits
    <3>1. CASE k \in 1..Len(down) /\ down'[k] = down[k]
      BY <2>0, <3>1 DEF Kept
    <3>2. ASSUME NEW i \in Slots, StartsLoad(i, up[1]), down'[k].df = save
          PROVE  held \subseteq down'[k].df.edits
      <4>1. IsEvent(up[1], "connect")
        BY <3>2 DEF StartsLoad, Starts, IsEvent
      <4> QED
        BY <1>1, <2>0, <3>2, <4>1 DEF Kept
    <3>3. ASSUME NEW i \in Slots, task[i].at = "spec" PROVE held = {}
      BY <2>0, <3>3 DEF Kept
    <3> QED
      BY <3>1, <3>2, <3>3, Saves
  <2>2. ASSUME NEW i \in Slots, task'[i].at = "spec" PROVE held = {}
    <3>1. CASE task[i].at = "spec"
      BY <2>0, <3>1 DEF Kept
    <3>2. CASE StartsSpec(i, up[1])
      <4>1. IsEvent(up[1], "connect") /\ (save = None \/ first)
        BY <3>2 DEF StartsSpec, Starts, IsEvent
      <4> QED
        BY <1>1, <2>0, <4>1 DEF Kept
    <3> QED
      BY <2>2, <3>1, <3>2, Saves
  <2>3. \A k \in 1..Len(up') : ~IsEvent(up'[k], "connect")
    <3> SUFFICES ASSUME NEW k \in 1..Len(up'), IsEvent(up'[k], "connect") PROVE FALSE
      OBVIOUS
    <3>1. k + 1 = 1
      BY <1>1, <2>0 DEF Kept
    <3> QED
      BY <1>1, <3>1
  <2>4. held \subseteq graph.edits \/ \E k \in 1..Len(down') : down'[k].op = "graph_change"
    <3>1. CASE \E k \in 1..Len(up) : IsEvent(up[k], "connect")
      <4>1. IsEvent(up[1], "connect") /\ (held = {} \/ (~first /\ save # None))
        BY <2>0, <3>1 DEF Kept
      <4>2. ASSUME NEW i \in Slots, StartsLoad(i, up[1])
            PROVE  \E k \in 1..Len(down') : down'[k].op = "graph_change"
        <5>1. Sent(i) /\ Fresh.op = "graph_change"
          BY <4>2 DEF StartsLoad, Starts, Sent, Ask
        <5>2. Len(down) + 1 \in 1..Len(down') /\ down'[Len(down) + 1].op = "graph_change"
          BY <5>1 DEF Sent, Grown, Fresh
        <5> QED
          BY <5>2
      <4>3. held = {} \/ \E i \in Slots : StartsLoad(i, up[1])
        BY <4>1 DEF ClientTable, Begun, StartsGet, StartsSpec, StartsFirst, StartsImport,
                    IsEvent, Resumed, Reply, Graphs, Refuses
      <4> QED
        BY <4>2, <4>3
    <3>2. CASE \E k \in 1..Len(down) : down[k].op = "graph_change"
      <4> PICK k \in 1..Len(down) : down[k].op = "graph_change"
        BY <3>2
      <4>1. k \in 1..Len(down') /\ down'[k] = down[k]
        <5>1. down' = down \/ Grown(down, down', 1)
          BY DEF ClientTable, Begun, StartsGet, StartsLoad, StartsSpec, StartsFirst, StartsImport,
                 Starts, Sent, Resumed, Walks, Stores, Sends, Loaded, Imports, Breaks,
                 Graphs, Refuses
        <5> QED
          BY <5>1 DEF Grown
      <4> QED
        BY <4>1
    <3> QED
      BY <2>0, <3>1, <3>2 DEF Kept
  <2> QED
    BY <1>1, <2>1, <2>2, <2>3, <2>4 DEF Kept, IsEvent
<1> QED
  BY <1>1, <1>2, <1>3, <1>4 DEF Calm

LEMMA CalmPage == ASSUME Base, Calm, PageTable PROVE Calm'
<1> DEFINE r == down[1]
<1>1. /\ UNCHANGED <<page, edits, first, save, task, held, calm>>
      /\ Answers(r) \/ Changes(r) \/ Replaces(r) \/ Exposes(r) \/ Fails(r)
      /\ 1 \in 1..Len(down) /\ DownOK(r) /\ page > 0
      /\ \A k \in 1..Len(down') : k + 1 \in 1..Len(down) /\ down'[k] = down[k + 1]
      /\ \A k \in 1..Len(down) : k = 1 \/ (k - 1 \in 1..Len(down') /\ down[k] = down'[k - 1])
  <2>1. page = 0 => Len(down) = 0
    BY EmptyChannel DEF Base, Channels
  <2>2. page \in Nat
    BY Sessions DEF Base, TypeOK
  <2> QED
    BY <2>1, <2>2 DEF PageTable, Popped, Base, Channels
<1>2. /\ Len(up) \in Nat /\ Len(up') \in Nat /\ Len(up) <= Len(up')
      /\ \A k \in 1..Len(up) : k \in 1..Len(up') /\ up'[k] = up[k]
  BY <1>1 DEF Answers, Changes, Replaces, Exposes, Fails, Grown
<1>3. \A k \in Len(up) + 1..Len(up') :
         /\ ~IsEvent(up'[k], "connect")
         /\ HasDf(up'[k]) => up'[k].df = graph'
  <2> SUFFICES ASSUME NEW k \in Len(up) + 1..Len(up')
               PROVE  /\ ~IsEvent(up'[k], "connect")
                      /\ HasDf(up'[k]) => up'[k].df = graph'
    OBVIOUS
  <2>1. CASE Answers(r)
    BY <2>1 DEF Answers, Grown, Said, HasDf, IsEvent
  <2>2. CASE Changes(r)
    <3>1. up'[k] \in {Said, Added}
      BY <2>2 DEF Changes, Grown, Said, Added
    <3> QED
      BY <2>2, <3>1 DEF Changes, HasDf, IsEvent
  <2>3. CASE Replaces(r)
    BY <2>3 DEF Replaces, Grown, Said, HasDf, IsEvent
  <2>4. CASE Exposes(r)
    <3>1. up'[k] \in {Said, Added}
      BY <2>4 DEF Exposes, Grown, Said, Added
    <3> QED
      BY <2>4, <3>1 DEF Exposes, HasDf, IsEvent
  <2>5. CASE Fails(r)
    BY <2>5 DEF Fails, Grown, Said, HasDf, IsEvent
  <2> QED
    BY <1>1, <2>1, <2>2, <2>3, <2>4, <2>5
<1> HIDE DEF r
<1>4. graph \in Dataflows /\ (r.op \in {"graph_change", "imported"} => r.df \in Dataflows)
  BY <1>1 DEF Base, TypeOK, DownOK
<1>5. \/ graph'.edits = graph.edits /\ r.op # "graph_change"
      \/ r.op = "graph_change" /\ graph'.edits = r.df.edits
      \/ graph'.edits = 1..edits /\ r.op # "graph_change"
      \/ graph'.edits = graph.edits /\ r.op # "imported" /\ r.page < page
  <2>1. CASE Answers(r)
    BY <2>1 DEF Answers
  <2>2. CASE Changes(r)
    BY <1>4, <2>2 DEF Changes, Shown, Dataflows
  <2>3. CASE Replaces(r)
    BY <1>4, <2>3 DEF Replaces, Shown, Dataflows
  <2>4. CASE Exposes(r)
    BY <1>4, <2>4 DEF Exposes, Shown, Dataflows
  <2>5. CASE Fails(r)
    BY <2>5 DEF Fails
  <2> QED
    BY <1>1, <2>1, <2>2, <2>3, <2>4, <2>5
<1>6. NoFuture'
  <2>1. graph'.edits \subseteq 1..edits
    BY <1>1, <1>5 DEF Calm, NoFuture, r
  <2>2. \A k \in 1..Len(up') : HasDf(up'[k]) => up'[k].df.edits \subseteq 1..edits
    <3> SUFFICES ASSUME NEW k \in 1..Len(up'), HasDf(up'[k])
                 PROVE  up'[k].df.edits \subseteq 1..edits
      OBVIOUS
    <3>1. k \in 1..Len(up) \/ k \in Len(up) + 1..Len(up')
      BY <1>2
    <3> QED
      BY <1>2, <1>3, <2>1, <3>1 DEF Calm, NoFuture
  <2>3. \A k \in 1..Len(down') : down'[k].op = "graph_change" => down'[k].df.edits \subseteq 1..edits
    BY <1>1 DEF Calm, NoFuture
  <2> QED
    BY <1>1, <2>1, <2>2, <2>3 DEF Calm, NoFuture, HasDf, IsEvent
<1>7. FirstLoad'
  BY <1>1, <1>2 DEF Calm, FirstLoad, IsEvent
<1>8. ASSUME calm PROVE Kept'
  <2>0. Kept
    BY <1>8 DEF Calm
  <2>1. r.page = page /\ (r.op = "graph_change" => held \subseteq r.df.edits)
    BY <1>1, <2>0 DEF Kept, r
  <2>2. page \in Nat
    BY Sessions DEF Base, TypeOK
  <2>3. \/ held \subseteq graph'.edits
        \/ r.op # "graph_change" /\ graph'.edits = graph.edits
    <3>1. held \subseteq 1..edits /\ ~(r.page < page)
      BY <2>1, <2>2 DEF Calm, NoFuture
    <3> QED
      BY <1>5, <2>1, <3>1
  <2>4. \A k \in 1..Len(up') : IsEvent(up'[k], "connect") => k \in 1..Len(up) /\ up'[k] = up[k]
    <3> SUFFICES ASSUME NEW k \in 1..Len(up'), IsEvent(up'[k], "connect")
                 PROVE  k \in 1..Len(up)
      BY <1>2
    <3>1. k \in 1..Len(up) \/ k \in Len(up) + 1..Len(up')
      BY <1>2
    <3> QED
      BY <1>3, <3>1
  <2>5. \/ held \subseteq graph'.edits
        \/ \E k \in 1..Len(up') : IsEvent(up'[k], "connect")
        \/ \E k \in 1..Len(down') : down'[k].op = "graph_change"
    <3>1. CASE \E k \in 1..Len(down) : down[k].op = "graph_change"
      <4> PICK k \in 1..Len(down) : down[k].op = "graph_change"
        BY <3>1
      <4>1. CASE k = 1
        BY <2>3, <4>1 DEF r
      <4>2. CASE k # 1
        BY <1>1, <4>2
      <4> QED
        BY <4>1, <4>2
    <3>2. CASE \E k \in 1..Len(up) : IsEvent(up[k], "connect")
      BY <1>2, <3>2
    <3> QED
      BY <2>0, <2>3, <3>1, <3>2 DEF Kept
  <2>6. \A k \in 1..Len(down') : /\ down'[k].page = page
                                 /\ down'[k].op = "graph_change" => held \subseteq down'[k].df.edits
    BY <1>1, <2>0 DEF Kept
  <2>7. \A k \in 1..Len(up') : IsEvent(up'[k], "connect") =>
          k = 1 /\ (held = {} \/ (~first /\ save # None /\ held \subseteq save.edits))
    BY <2>0, <2>4 DEF Kept
  <2> QED
    BY <1>1, <2>0, <2>5, <2>6, <2>7 DEF Kept, IsEvent
<1> QED
  BY <1>1, <1>6, <1>7, <1>8 DEF Calm

LEMMA CalmUser == ASSUME Base, Calm, Edits \/ Loads \/ Requests PROVE Calm'
<1>1. /\ Grown(up, up', 1) /\ UNCHANGED <<task, save, down, first>>
      /\ Said.type = "event" /\ Said.ev # "graph"
      /\ page \in Nat /\ edits \in Nat /\ edits' \in Nat /\ edits <= edits'
  BY Sessions DEF Edits, Loads, Requests, IsEvent, Base, TypeOK
<1>2. /\ Len(up) \in Nat /\ Len(up') \in Nat /\ Len(up') = Len(up) + 1
      /\ \A k \in 1..Len(up) : k \in 1..Len(up') /\ up'[k] = up[k]
      /\ \A k \in 1..Len(up') : \/ k \in 1..Len(up) /\ up'[k] = up[k]
                                \/ k = Len(up) + 1 /\ up'[k] = Said
  BY <1>1 DEF Grown, Said
<1>3. NoFuture'
  <2>1. 1..edits \subseteq 1..edits'
    BY <1>1
  <2>2. graph'.edits \subseteq 1..edits' /\ held' \subseteq 1..edits'
    <3>1. CASE Loads
      BY <1>1, <2>1, <3>1 DEF Calm, NoFuture, Loads, Dataflow
    <3>2. CASE Edits
      <4>1. edits + 1 \in 1..edits'
        BY <1>1, <3>2 DEF Edits
      <4> QED
        BY <2>1, <3>2, <4>1 DEF Calm, NoFuture, Edits
    <3>3. CASE Requests
      BY <2>1, <3>3 DEF Calm, NoFuture, Requests
    <3> QED
      BY <3>1, <3>2, <3>3
  <2>3. ~HasDf(Said)
    BY <1>1 DEF HasDf, IsEvent
  <2>4. \A k \in 1..Len(up') : HasDf(up'[k]) => up'[k].df.edits \subseteq 1..edits'
    BY <1>2, <2>1, <2>3 DEF Calm, NoFuture
  <2> QED
    BY <1>1, <2>1, <2>2, <2>4 DEF Calm, NoFuture, HasDf, IsEvent
<1>4. FirstLoad'
  <2>1. CASE Loads
    <3>1. page' > 0 /\ IsEvent(Said, "connect")
      BY <1>1, <2>1 DEF Loads
    <3>2. IsEvent(up'[Len(up) + 1], "connect") /\ Len(up) + 1 \in 1..Len(up')
      BY <1>2, <3>1 DEF Said
    <3>3. \E k \in 1..Len(up') : IsEvent(up'[k], "connect")
      BY <3>2
    <3> QED
      BY <3>1, <3>3 DEF FirstLoad, IsEvent
  <2>2. CASE Edits \/ Requests
    <3>1. page' = page /\ page > 0
      BY <2>2 DEF Edits, Requests
    <3> QED
      BY <1>1, <1>2, <3>1 DEF Calm, FirstLoad, IsEvent
  <2> QED
    BY <2>1, <2>2
<1>5. ASSUME calm' PROVE Kept'
  <2>1. CASE Loads
    <3>1. Quiet /\ page' = page + 1 /\ IsEvent(Said, "connect")
      BY <1>5, <2>1 DEF Loads
    <3>2. Len(up) = 0 /\ Len(down) = 0 /\ Len(down') = 0
      BY <1>1, <3>1, EmptyChannel DEF Quiet
    <3>3. \A i \in Slots : task'[i].at # "spec"
      BY <1>1, <3>1 DEF Quiet, Idle, Free
    <3>4. held' = {} \/ (~first /\ save # None /\ held' \subseteq save.edits)
      BY <1>1, <2>1, <3>2 DEF Calm, FirstLoad, Loads
    <3>5. Len(up') = 1 /\ IsEvent(up'[1], "connect")
      BY <1>2, <3>1, <3>2 DEF Said
    <3>6. \E k \in 1..Len(up') : IsEvent(up'[k], "connect")
      BY <3>5
    <3> QED
      BY <1>1, <3>2, <3>3, <3>4, <3>5, <3>6 DEF Kept, IsEvent
  <2>2. CASE Edits \/ Requests
    <3>0. Kept /\ UNCHANGED <<page, held>> /\ graph.edits \subseteq graph'.edits
      BY <1>5, <2>2 DEF Calm, Edits, Requests
    <3>1. ~IsEvent(Said, "connect")
      BY <2>2 DEF Edits, Requests, IsEvent
    <3>2. \A k \in 1..Len(up') : IsEvent(up'[k], "connect") =>
            k = 1 /\ (held = {} \/ (~first /\ save # None /\ held \subseteq save.edits))
      BY <1>2, <3>0, <3>1 DEF Kept
    <3>3. \/ held \subseteq graph'.edits
          \/ \E k \in 1..Len(up') : IsEvent(up'[k], "connect")
          \/ \E k \in 1..Len(down) : down[k].op = "graph_change"
      BY <1>2, <3>0 DEF Kept
    <3> QED
      BY <1>1, <3>0, <3>2, <3>3 DEF Kept, IsEvent
  <2> QED
    BY <2>1, <2>2
<1> QED
  BY <1>3, <1>4, <1>5 DEF Calm

LEMMA CalmInv == Spec => [](Base /\ Calm)
<1>1. ASSUME Base, Calm, [Next]_vars PROVE Calm'
  <2>1. CASE UNCHANGED vars
    BY <1>1, <2>1 DEF Calm, NoFuture, FirstLoad, Kept, HasDf, IsEvent, vars
  <2> QED
    BY <1>1, <2>1, Steps, CalmClient, CalmPage, CalmUser
<1> QED
  BY <1>1, CalmStart, BaseInv, PTL DEF Spec

(***************************************************************************)
(* "Topwrap will save the current dataflow to ensure it's not lost, e.g.   *)
(* during an accidental page refresh": if nothing was under way whenever   *)
(* the page was loaded, the edits the file held are in what it shows once  *)
(* everything is over, however many edits, loads and imports there were.   *)
(***************************************************************************)
THEOREM CalmRefreshIsSafe == Spec => []CalmRefreshKeepsEdits
<1>1. Base /\ Calm => CalmRefreshKeepsEdits
  <2> SUFFICES ASSUME Kept, Quiet PROVE held \subseteq graph.edits
    BY DEF Calm, CalmRefreshKeepsEdits, RefreshKeepsEdits
  <2>1. Len(up) = 0 /\ Len(down) = 0
    BY EmptyChannel DEF Quiet
  <2> QED
    BY <2>1 DEF Kept
<1> QED
  BY <1>1, CalmInv, PTL

-----------------------------------------------------------------------------

(***************************************************************************)
(* The walks of _expose_nodes over the External I/O nodes.  A coroutine    *)
(* awaits its answer where its request or its answer is.                   *)
(***************************************************************************)
Opposites(c) == {Opposite(i) : i \in c}
IsGood(n) == Cardinality(graph.conn[n]) <= 1 => graph.shown[n] = Opposites(graph.conn[n])

InUp(i, k) == k \in 1..Len(up) /\ Reply(up[k]) /\ up[k].to = i
InDown(i, k) == k \in 1..Len(down) /\ Request(down[k]) /\ down[k].to = i
Answered(i) == \E k \in 1..Len(up) : InUp(i, k)
Awaiting(i) == \E k \in 1..Len(down) : InDown(i, k)

\* The answer to w comes before that to f.
Before(w, f) == /\ \A j \in 1..Len(up), k \in 1..Len(up) : InUp(w, j) /\ InUp(f, k) => j < k
                /\ \A j \in 1..Len(down), k \in 1..Len(down) : InDown(w, j) /\ InDown(f, k) => j < k
                /\ ~(Awaiting(w) /\ Answered(f))

\* What is connected in df is connected in the page, or no longer.
IsFresh(df) == df.design = graph.design /\ df.conn = graph.conn
IsStale(df) == df.design = graph.design /\ df.conn # graph.conn

OnWalk(i) == task[i].at \in {"skip", "expose"}
Gets(i) == task[i].at = "get" /\ task[i].diff # None
FreshAnswer(i) == \A k \in 1..Len(up) : InUp(i, k) => IsFresh(up[k].df)
Stage(i) == IF task[i].at = "get" THEN 0 ELSE First(task[i].left)

\* A coroutine that may expose what should no longer be exposed.
Writes(w) ==
    \/ Gets(w) /\ \E k \in 1..Len(up) : InUp(w, k) /\ IsStale(up[k].df)
    \/ OnWalk(w) /\ IsStale(task[w].df) /\ (Answered(w) \/ Awaiting(w))

\* One that looks at all nodes from some position on, and what it goes by is so.
Mends(f) ==
    \/ Gets(f) /\ task[f].diff = NodeSet /\ FreshAnswer(f)
    \/ OnWalk(f) /\ IsFresh(task[f].df)
       /\ \A j \in 1..Len(Nodes) : First(task[f].left) <= j => j \in task[f].left

Follows(f, w) == Stage(f) < Stage(w) \/ (Stage(f) = Stage(w) /\ Before(w, f))
Announced == \E k \in 1..Len(up) : IsEvent(up[k], "connections")

Mended == \A w \in Slots : Writes(w) => Announced \/ \E f \in Slots : Mends(f) /\ Follows(f, w)

\* One that has still to look at node n.
Covers(f, n) ==
    \/ Gets(f) /\ n \in task[f].diff /\ FreshAnswer(f)
    \/ OnWalk(f) /\ IsFresh(task[f].df)
       /\ \E j \in task[f].left : Nodes[j] = n /\ (j = First(task[f].left) => ~Answered(f))

NodeAdded(n) == \E k \in 1..Len(up) : IsEvent(up[k], "nodes") /\ n \in up[k].added

Covered == \A n \in NodeSet :
              IsGood(n) \/ Announced \/ NodeAdded(n) \/ \E f \in Slots : Covers(f, n)

\* What the coroutines of a walk go by and have asked for.
Turns ==
    /\ \A k \in 1..Len(up) : IsEvent(up[k], "nodes") => up[k].added \subseteq NodeSet
    /\ \A i \in Slots :
          /\ task[i].at \notin {"named", "first", "import"}
          /\ Gets(i) => task[i].diff \subseteq NodeSet
          /\ OnWalk(i) =>
                /\ task[i].df \in Dataflows
                /\ task[i].left # {} /\ task[i].left \subseteq 1..Len(Nodes)
                /\ task[i].at = "skip" =>
                      Cardinality(task[i].df.conn[Nodes[First(task[i].left)]]) > 1
          /\ \A k \in 1..Len(down) : InDown(i, k) /\ task[i].at = "expose" =>
                LET n == Nodes[First(task[i].left)]
                IN  /\ down[k].node = n /\ down[k].design = task[i].df.design
                    /\ down[k].shown = Opposites(task[i].df.conn[n])

(***************************************************************************)
(* A session in which the user changes External I/O nodes loads the page   *)
(* once, and the design is shown in it once: before that no dataflow       *)
(* under way is of the design.                                             *)
(***************************************************************************)
Once == /\ page \in {0, 1}
        /\ page = 0 => first /\ \A i \in Slots : task[i] = Free
        /\ \A k \in 1..Len(up) : up[k].type # "error" /\ ~IsEvent(up[k], "import")
        /\ \A k \in 1..Len(down) : down[k].op # "imported"

IsConnect(k) == k \in 1..Len(up) /\ IsEvent(up[k], "connect")
IsLoad(k) == k \in 1..Len(down) /\ down[k].op = "graph_change"
Connecting == \E k \in 1..Len(up) : IsConnect(k)
Specifies == \E i \in Slots : task[i].at = "spec"
LoadsGraph == \E k \in 1..Len(down) : IsLoad(k)

OneLoad ==
    /\ \A j \in 1..Len(up), k \in 1..Len(up) : IsConnect(j) /\ IsConnect(k) => j = k
    /\ \A i, j \in Slots : task[i].at = "spec" /\ task[j].at = "spec" => i = j
    /\ \A j \in 1..Len(down), k \in 1..Len(down) : IsLoad(j) /\ IsLoad(k) => j = k
    /\ ~(Connecting /\ Specifies) /\ ~(Connecting /\ LoadsGraph) /\ ~(Specifies /\ LoadsGraph)
    /\ Connecting => first
    /\ \A i \in Slots : task[i].at = "spec" => task[i].design = design
    /\ \A k \in 1..Len(down) : IsLoad(k) => down[k].df = Dataflow(design, 0)

Unseen == Connecting \/ Specifies \/ LoadsGraph \/ page = 0
Hidden == /\ graph.design # design
          /\ \A i \in Slots : OnWalk(i) => task[i].df.design # design
          /\ \A i \in Slots, k \in 1..Len(up) : InUp(i, k) /\ Gets(i) => up[k].df.design # design

Unshown == Unseen => Hidden

WiredInv == Once /\ OneLoad /\ Unshown /\ Turns /\ Mended /\ Covered

(***************************************************************************)
(* In the other sessions nothing is connected and nothing exposed.         *)
(***************************************************************************)
IsBare(df) == df.conn = Bare /\ df.shown = Bare
UnwiredInv ==
    /\ IsBare(graph) /\ (save # None => IsBare(save))
    /\ \A k \in 1..Len(up) :
          /\ HasDf(up[k]) => IsBare(up[k].df)
          /\ up[k].type = "event" => up[k].ev \notin {"connections", "nodes"}
          /\ IsEvent(up[k], "import") => up[k].design \notin Wired
    /\ \A k \in 1..Len(down) :
          /\ down[k].op # "interfaces_change"
          /\ down[k].op \in {"graph_change", "imported"} => IsBare(down[k].df)
    /\ \A i \in Slots : task[i].at \notin {"skip", "named", "expose"} /\ ~Gets(i)

ExposeInv == IF design \in Wired THEN WiredInv ELSE UnwiredInv
-----------------------------------------------------------------------------
(***************************************************************************)
(* Coroutines that a step leaves alone, while u messages are taken from    *)
(* the page's side of the channel and d from the client's.                 *)
(***************************************************************************)
Unmoved(j, u, d) ==
    /\ task'[j] = task[j]
    /\ \A k \in 1..Len(up') : InUp(j, k)' => InUp(j, k + u) /\ up'[k] = up[k + u]
    /\ \A k \in 1..Len(down') : InDown(j, k)' => InDown(j, k + d)

SameWiring == graph'.conn = graph.conn /\ graph'.design = graph.design

LEMMA FreshStays == ASSUME NEW df, SameWiring
                    PROVE  (IsFresh(df)' <=> IsFresh(df)) /\ (IsStale(df)' <=> IsStale(df))
  BY DEF SameWiring, IsFresh, IsStale

LEMMA UnmovedAnswers ==
    ASSUME NEW j, NEW u \in {0, 1}, NEW d \in {0, 1}, Unmoved(j, u, d), SameWiring
    PROVE  /\ Answered(j)' => Answered(j)
           /\ Awaiting(j)' => Awaiting(j)
           /\ FreshAnswer(j) => FreshAnswer(j)'
<1>1. ASSUME Answered(j)' PROVE Answered(j)
  <2> PICK k \in 1..Len(up') : InUp(j, k)'
    BY <1>1 DEF Answered
  <2>1. InUp(j, k + u)
    BY DEF Unmoved
  <2> QED
    BY <2>1 DEF Answered, InUp
<1>2. ASSUME Awaiting(j)' PROVE Awaiting(j)
  <2> PICK k \in 1..Len(down') : InDown(j, k)'
    BY <1>2 DEF Awaiting
  <2>1. InDown(j, k + d)
    BY DEF Unmoved
  <2> QED
    BY <2>1 DEF Awaiting, InDown
<1>3. ASSUME FreshAnswer(j), NEW k \in 1..Len(up'), InUp(j, k)'
      PROVE  IsFresh(up[k].df)'
  <2>1. InUp(j, k + u) /\ up'[k] = up[k + u]
    BY <1>3 DEF Unmoved
  <2>2. k + u \in 1..Len(up)
    BY <2>1 DEF InUp
  <2>3. IsFresh(up[k + u].df)
    BY <1>3, <2>1, <2>2 DEF FreshAnswer
  <2> QED
    BY <2>1, <2>3 DEF IsFresh, SameWiring
<1> QED
  BY <1>1, <1>2, <1>3 DEF FreshAnswer

LEMMA UnmovedWrites ==
    ASSUME NEW w, NEW u \in {0, 1}, NEW d \in {0, 1}, Unmoved(w, u, d), SameWiring, Writes(w)'
    PROVE  Writes(w)
<1>1. task'[w] = task[w]
  BY DEF Unmoved
<1>2. CASE Gets(w)' /\ \E k \in 1..Len(up') : InUp(w, k)' /\ IsStale(up[k].df)'
  <2> PICK k \in 1..Len(up') : InUp(w, k)' /\ IsStale(up[k].df)'
    BY <1>2
  <2>1. InUp(w, k + u) /\ up'[k] = up[k + u]
    BY DEF Unmoved
  <2>2. k + u \in 1..Len(up)
    BY <2>1 DEF InUp
  <2>3. IsStale(up[k + u].df)
    BY <2>1 DEF IsStale, SameWiring
  <2>4. Gets(w)
    BY <1>1, <1>2 DEF Gets
  <2> QED
    BY <2>1, <2>2, <2>3, <2>4 DEF Writes
<1>3. CASE OnWalk(w)' /\ IsStale(task[w].df)' /\ (Answered(w)' \/ Awaiting(w)')
  <2>1. Answered(w) \/ Awaiting(w)
    BY <1>3, UnmovedAnswers
  <2>2. OnWalk(w) /\ IsStale(task[w].df)
    BY <1>1, <1>3 DEF OnWalk, IsStale, SameWiring
  <2> QED
    BY <2>1, <2>2 DEF Writes
<1> QED
  BY <1>2, <1>3 DEF Writes

LEMMA UnmovedMends ==
    ASSUME NEW f, NEW u \in {0, 1}, NEW d \in {0, 1}, Unmoved(f, u, d), SameWiring, Mends(f)
    PROVE  Mends(f)'
<1>1. task'[f] = task[f] /\ (FreshAnswer(f) => FreshAnswer(f)')
  BY UnmovedAnswers DEF Unmoved
<1>2. IsFresh(task[f].df) => IsFresh(task[f].df)'
  BY <1>1 DEF IsFresh, SameWiring
<1> QED
  BY <1>1, <1>2 DEF Mends, Gets, OnWalk

LEMMA UnmovedFollows ==
    ASSUME NEW f, NEW w, NEW u \in {0, 1}, NEW d \in {0, 1}, Unmoved(f, u, d), Unmoved(w, u, d),
           SameWiring, Follows(f, w)
    PROVE  Follows(f, w)'
<1>1. Stage(f)' = Stage(f) /\ Stage(w)' = Stage(w)
  BY DEF Unmoved, Stage
<1>2. ASSUME Before(w, f) PROVE Before(w, f)'
  <2>1. ~(Awaiting(w)' /\ Answered(f)')
    BY <1>2, UnmovedAnswers DEF Before
  <2>2. ASSUME NEW j \in 1..Len(up'), NEW k \in 1..Len(up'), InUp(w, j)', InUp(f, k)'
        PROVE  j < k
    <3>1. InUp(w, j + u) /\ InUp(f, k + u)
      BY <2>2 DEF Unmoved
    <3>2. j + u \in 1..Len(up) /\ k + u \in 1..Len(up)
      BY <3>1 DEF InUp
    <3>3. j + u < k + u
      BY <1>2, <3>1, <3>2 DEF Before
    <3> QED
      BY <3>3
  <2>3. ASSUME NEW j \in 1..Len(down'), NEW k \in 1..Len(down'), InDown(w, j)', InDown(f, k)'
        PROVE  j < k
    <3>1. InDown(w, j + d) /\ InDown(f, k + d)
      BY <2>3 DEF Unmoved
    <3>2. j + d \in 1..Len(down) /\ k + d \in 1..Len(down)
      BY <3>1 DEF InDown
    <3>3. j + d < k + d
      BY <1>2, <3>1, <3>2 DEF Before
    <3> QED
      BY <3>3
  <2> QED
    BY <2>1, <2>2, <2>3 DEF Before
<1> QED
  BY <1>1, <1>2 DEF Follows

LEMMA UnmovedCovers ==
    ASSUME NEW f, NEW n, NEW u \in {0, 1}, NEW d \in {0, 1}, Unmoved(f, u, d), SameWiring,
           Covers(f, n)
    PROVE  Covers(f, n)'
<1>1. /\ task'[f] = task[f] /\ (FreshAnswer(f) => FreshAnswer(f)')
      /\ Answered(f)' => Answered(f)
  BY UnmovedAnswers DEF Unmoved
<1>2. IsFresh(task[f].df) => IsFresh(task[f].df)'
  BY <1>1 DEF IsFresh, SameWiring
<1> QED
  BY <1>1, <1>2 DEF Covers, Gets, OnWalk
-----------------------------------------------------------------------------
(***************************************************************************)
(* Which coroutines a step leaves alone, and where the others await their  *)
(* answers after it.                                                       *)
(***************************************************************************)
LEMMA ClientUnmoved ==
    ASSUME Base, Popped(up, up'), NEW j \in Slots, task'[j] = task[j],
           down' = down \/ (Grown(down, down', 1) /\ ~(Request(Fresh) /\ Fresh.to = j))
    PROVE  Unmoved(j, 1, 0)
<1>1. \A k \in 1..Len(up') : InUp(j, k)' => InUp(j, k + 1) /\ up'[k] = up[k + 1]
  BY DEF Popped, InUp, Reply
<1>2. ASSUME NEW k \in 1..Len(down'), InDown(j, k)' PROVE InDown(j, k + 0)
  <2>1. CASE down' = down
    BY <1>2, <2>1 DEF InDown, Request
  <2>2. CASE Grown(down, down', 1) /\ ~(Request(Fresh) /\ Fresh.to = j)
    <3>1. k \in 1..Len(down) \/ k = Len(down) + 1
      BY <2>2 DEF Grown
    <3>2. k # Len(down) + 1
      BY <1>2, <2>2 DEF InDown, Fresh, Request
    <3>3. down'[k] = down[k] /\ k \in 1..Len(down)
      BY <2>2, <3>1, <3>2 DEF Grown
    <3> QED
      BY <1>2, <3>3 DEF InDown, Request
  <2> QED
    BY <2>1, <2>2
<1> QED
  BY <1>1, <1>2 DEF Unmoved

\* A coroutine that sends a request has been answered before, or has just started.
LEMMA ClientMoved ==
    ASSUME Base, Popped(up, up'), NEW i \in Slots, Sent(i),
           \/ up[1].type = "event" /\ task[i] = Free
           \/ Reply(up[1]) /\ up[1].to = i
    PROVE  /\ ~Answered(i)'
           /\ \A k \in 1..Len(down') : InDown(i, k)' => k = Len(down) + 1
<1>0. /\ Len(up) = Len(up') + 1 /\ Len(up) \in Nat /\ Len(up') \in Nat
      /\ \A k \in 1..Len(up') : up'[k] = up[k + 1]
  BY DEF Popped
<1>1. ASSUME NEW k \in 1..Len(up'), InUp(i, k)' PROVE FALSE
  <2>1. Reply(up[k + 1]) /\ up[k + 1].to = i /\ k + 1 \in 1..Len(up) /\ 1 \in 1..Len(up) /\ k + 1 # 1
    BY <1>0, <1>1 DEF InUp, Reply
  <2>2. CASE task[i] = Free
    BY <2>1, <2>2 DEF Base, Channels, UpOK, Free, Reply
  <2>3. CASE Reply(up[1]) /\ up[1].to = i
    BY <2>1, <2>3 DEF Base, Single
  <2> QED
    BY <2>2, <2>3
<1>2. ASSUME NEW k \in 1..Len(down'), InDown(i, k)' PROVE k = Len(down) + 1
  <2> SUFFICES ASSUME k # Len(down) + 1 PROVE FALSE
    OBVIOUS
  <2>1. k \in 1..Len(down) /\ down'[k] = down[k]
    BY DEF Sent, Grown
  <2>2. Request(down[k]) /\ down[k].to = i
    BY <1>2, <2>1 DEF InDown, Request
  <2>3. CASE task[i] = Free
    BY <2>1, <2>2, <2>3 DEF Base, Channels, DownOK, Free, Request
  <2>4. CASE Reply(up[1]) /\ up[1].to = i
    BY <1>0, <2>1, <2>2, <2>4 DEF Base, Single
  <2> QED
    BY <2>3, <2>4
<1> QED
  BY <1>1, <1>2 DEF Answered

\* The last request is answered last.
LEMMA SentLast ==
    ASSUME NEW i, NEW w, Len(down) \in Nat, Unmoved(w, 1, 0), ~Answered(i)',
           \A k \in 1..Len(down') : InDown(i, k)' => k = Len(down) + 1
    PROVE  Before(w, i)'
<1>1. \A k \in 1..Len(up') : ~InUp(i, k)'
  BY DEF Answered
<1>2. ASSUME NEW j \in 1..Len(down'), NEW k \in 1..Len(down'), InDown(w, j)', InDown(i, k)'
      PROVE  j < k
  <2>1. InDown(w, j + 0) /\ k = Len(down) + 1
    BY <1>2 DEF Unmoved
  <2>2. j + 0 \in 1..Len(down)
    BY <2>1 DEF InDown
  <2> QED
    BY <2>1, <2>2
<1> QED
  BY <1>1, <1>2 DEF Before

LEMMA PageUnmoved ==
    ASSUME Base, Popped(down, down'), NEW j \in Slots, task'[j] = task[j], NEW n \in {1, 2},
           Grown(up, up', n),
           \A k \in Len(up) + 1..Len(up') : Reply(up'[k]) => up'[k].to # j
    PROVE  Unmoved(j, 0, 1)
<1>0. Len(up') = Len(up) + n /\ Len(up) \in Nat /\ \A k \in 1..Len(up) : up'[k] = up[k]
  BY DEF Grown
<1>1. ASSUME NEW k \in 1..Len(up'), InUp(j, k)' PROVE InUp(j, k + 0) /\ up'[k] = up[k + 0]
  <2>1. Reply(up'[k]) /\ up'[k].to = j
    BY <1>1 DEF InUp, Reply
  <2>2. k \in 1..Len(up)
    BY <1>0, <2>1
  <2>3. up'[k] = up[k] /\ k + 0 = k
    BY <1>0, <2>2
  <2> QED
    BY <2>1, <2>2, <2>3 DEF InUp
<1>2. \A k \in 1..Len(down') : InDown(j, k)' => InDown(j, k + 1)
  BY DEF Popped, InDown, Request
<1> QED
  BY <1>1, <1>2 DEF Unmoved

LEMMA UserUnmoved ==
    ASSUME Base, NEW j \in Slots, Grown(up, up', 1), ~Reply(Said), down' = down, task' = task
    PROVE  Unmoved(j, 0, 0)
<1>0. Len(up') = Len(up) + 1 /\ Len(up) \in Nat /\ \A k \in 1..Len(up) : up'[k] = up[k]
  BY DEF Grown
<1>1. ASSUME NEW k \in 1..Len(up'), InUp(j, k)' PROVE InUp(j, k + 0) /\ up'[k] = up[k + 0]
  <2>1. Reply(up'[k]) /\ up'[k].to = j
    BY <1>1 DEF InUp, Reply
  <2>2. k \in 1..Len(up)
    BY <1>0, <2>1 DEF Said
  <2>3. up'[k] = up[k] /\ k + 0 = k
    BY <1>0, <2>2
  <2> QED
    BY <2>1, <2>2, <2>3 DEF InUp
<1>2. \A k \in 1..Len(down') : InDown(j, k)' => InDown(j, k + 0)
  BY DEF InDown, Request
<1> QED
  BY <1>1, <1>2 DEF Unmoved

\* A coroutine whose request the page answers is the last to be answered.
LEMMA PageMoved ==
    ASSUME Base, Popped(down, down'), NEW i \in Slots, NEW n \in {1, 2}, Grown(up, up', n),
           Request(down[1]), down[1].to = i,
           \A k \in Len(up) + 1..Len(up') : Reply(up'[k]) => k = Len(up')
    PROVE  /\ ~Answered(i) /\ InDown(i, 1) /\ ~Awaiting(i)'
           /\ \A k \in 1..Len(up') : InUp(i, k)' => k = Len(up')
<1>0. /\ Len(up') = Len(up) + n /\ Len(up) \in Nat /\ \A k \in 1..Len(up) : up'[k] = up[k]
      /\ Len(down) = Len(down') + 1 /\ Len(down') \in Nat
      /\ \A k \in 1..Len(down') : down'[k] = down[k + 1]
  BY DEF Popped, Grown
<1>1. InDown(i, 1) /\ 1 \in 1..Len(down)
  BY <1>0 DEF InDown
<1>2. \A k \in 1..Len(up) : ~(Reply(up[k]) /\ up[k].to = i)
  BY <1>1 DEF Base, Single
<1>3. ~Answered(i)
  BY <1>2 DEF Answered, InUp
<1>4. ASSUME NEW k \in 1..Len(down'), InDown(i, k)' PROVE FALSE
  <2>1. Request(down[k + 1]) /\ down[k + 1].to = i /\ k + 1 \in 1..Len(down) /\ k + 1 # 1
    BY <1>0, <1>4 DEF InDown, Request
  <2> QED
    BY <1>1, <2>1 DEF Base, Single
<1>5. ASSUME NEW k \in 1..Len(up'), InUp(i, k)' PROVE k = Len(up')
  <2>1. Reply(up'[k]) /\ up'[k].to = i
    BY <1>5 DEF InUp, Reply
  <2>2. k \in Len(up) + 1..Len(up')
    BY <1>0, <1>2, <2>1
  <2> QED
    BY <2>1, <2>2
<1> QED
  BY <1>1, <1>3, <1>4, <1>5 DEF Awaiting
-----------------------------------------------------------------------------
LEMMA NodesAreListed == /\ Len(Nodes) \in Nat /\ \A j \in 1..Len(Nodes) : Nodes[j] \in NodeSet
                        /\ \A n \in NodeSet : \E j \in 1..Len(Nodes) : Nodes[j] = n
<1>1. Nodes \in Seq(NodeSet)
  BY ExternalNodes
<1>2. Len(Nodes) \in Nat
  BY <1>1, LenProperties
<1> QED
  BY <1>2 DEF NodeSet

LEMMA FirstIsLeast == ASSUME NEW S \in SUBSET (1..Len(Nodes)), S # {}
                      PROVE  First(S) \in S /\ \A k \in S : First(S) <= k
<1> DEFINE R == OpToRel(<, Nat)
<1>1. IsWellFoundedOn(R, Nat)
  BY NatLessThanWellFounded, Zenon
<1>2. \A k, j \in Nat : k < j => <<k, j>> \in R
  BY Zenon DEF OpToRel
<1> HIDE DEF R
<1>3. S \subseteq Nat
  BY NodesAreListed
<1>4. PICK j \in S : \A k \in S : ~(<<k, j>> \in R)
  BY <1>1, <1>3, WFMin
<1>5. \A k \in S : j <= k
  <2> SUFFICES ASSUME NEW k \in S, k < j PROVE FALSE
    BY <1>3
  <2>1. k \in Nat /\ j \in Nat
    BY <1>3
  <2>2. <<k, j>> \in R
    BY <1>2, <2>1
  <2> QED
    BY <1>4, <2>2
<1> QED
  BY <1>5 DEF First

LEMMA StageOf == ASSUME Turns, NEW i \in Slots
                 PROVE  /\ Gets(i) => Stage(i) = 0
                        /\ OnWalk(i) => /\ Stage(i) = First(task[i].left)
                                        /\ Stage(i) \in 1..Len(Nodes)
                                        /\ Stage(i) \in task[i].left
                                        /\ \A j \in task[i].left : Stage(i) <= j
<1>1. Gets(i) => Stage(i) = 0
  BY DEF Gets, Stage
<1>2. ASSUME OnWalk(i)
      PROVE  /\ Stage(i) = First(task[i].left)
             /\ Stage(i) \in 1..Len(Nodes)
             /\ Stage(i) \in task[i].left
             /\ \A j \in task[i].left : Stage(i) <= j
  <2>1. task[i].left # {} /\ task[i].left \subseteq 1..Len(Nodes)
    BY <1>2 DEF Turns
  <2>2. Stage(i) = First(task[i].left)
    BY <1>2 DEF OnWalk, Stage
  <2> QED
    BY <2>1, <2>2, FirstIsLeast
<1> QED
  BY <1>1, <1>2

(***************************************************************************)
(* Steps in which no coroutine starts or goes on with a walk.              *)
(***************************************************************************)
LEMMA MendedStays ==
    ASSUME Mended, SameWiring, NEW u \in {0, 1}, NEW d \in {0, 1}, NEW M \in SUBSET Slots,
           \A j \in Slots \ M : Unmoved(j, u, d),
           \A j \in M : ~Mends(j) /\ ~Writes(j)',
           Announced => Announced'
    PROVE  Mended'
<1> SUFFICES ASSUME NEW w \in Slots, Writes(w)', ~Announced'
             PROVE  \E f \in Slots : Mends(f)' /\ Follows(f, w)'
  BY DEF Mended
<1>1. w \in Slots \ M /\ Unmoved(w, u, d)
  OBVIOUS
<1>2. Writes(w)
  BY <1>1, UnmovedWrites
<1>3. PICK f \in Slots : Mends(f) /\ Follows(f, w)
  BY <1>2 DEF Mended
<1>4. Unmoved(f, u, d)
  BY <1>3
<1> QED
  BY <1>1, <1>3, <1>4, UnmovedMends, UnmovedFollows

LEMMA CoveredStays ==
    ASSUME Covered, SameWiring, NEW u \in {0, 1}, NEW d \in {0, 1}, NEW M \in SUBSET Slots,
           \A j \in Slots \ M : Unmoved(j, u, d),
           \A j \in M : \A n \in NodeSet : Covers(j, n) => Covers(j, n)' \/ IsGood(n)',
           Announced => Announced' \/ \E j \in M : \A n \in NodeSet : Covers(j, n)',
           \A n \in NodeSet : NodeAdded(n) => NodeAdded(n)' \/ \E j \in M : Covers(j, n)',
           \A n \in NodeSet : IsGood(n) => \/ IsGood(n)' \/ Announced' \/ NodeAdded(n)'
                                           \/ \E f \in Slots : Covers(f, n)'
    PROVE  Covered'
<1> SUFFICES ASSUME NEW n \in NodeSet, ~IsGood(n)', ~Announced', ~NodeAdded(n)'
             PROVE  \E f \in Slots : Covers(f, n)'
  BY DEF Covered
<1>1. CASE IsGood(n)
  BY <1>1
<1>2. CASE Announced
  BY <1>2
<1>3. CASE NodeAdded(n)
  BY <1>3
<1>4. ASSUME NEW f \in Slots, Covers(f, n) PROVE Covers(f, n)'
  <2>1. CASE f \in M
    BY <1>4, <2>1
  <2>2. CASE f \notin M
    BY <1>4, <2>2, UnmovedCovers
  <2> QED
    BY <2>1, <2>2
<1> QED
  BY <1>1, <1>2, <1>3, <1>4 DEF Covered
-----------------------------------------------------------------------------
(***************************************************************************)
(* A coroutine goes on with its walk.                                      *)
(***************************************************************************)
LEMMA TurnTaken ==
    ASSUME Base, Turns, Named = NodeSet, Popped(up, up'), NEW i \in Slots, up[1].to = i,
           Walks(i, up[1])
    PROVE  /\ InUp(i, 1) /\ (Gets(i) \/ OnWalk(i))
           /\ WalkLeft(i) = IF task[i].at = "get" THEN Touched(task[i].diff)
                                                  ELSE task[i].left \ {Stage(i)}
           /\ WalkLeft(i) \subseteq 1..Len(Nodes)
           /\ WalkDf(i, up[1]) \in Dataflows
           /\ task'[i].at \in {"reget", "skip", "expose"}
           /\ OnWalk(i)' <=> WalkLeft(i) # {}
           /\ OnWalk(i)' => task'[i].df = WalkDf(i, up[1]) /\ task'[i].left = WalkLeft(i)
           /\ ~Gets(i)'
<1> DEFINE m == up[1]
<1>0. Len(up) = Len(up') + 1 /\ Len(up) \in Nat /\ Len(up') \in Nat
  BY DEF Popped
<1>1. m.type = "answer" /\ 1 \in 1..Len(up) /\ InUp(i, 1)
  BY <1>0 DEF Walks, InUp, Reply
<1>2. task[i].at \in {"get", "skip", "expose"} /\ (task[i].at = "get" => task[i].diff # None)
  BY DEF Walks, Turns
<1>3. Gets(i) \/ OnWalk(i)
  BY <1>2 DEF Gets, OnWalk
<1>4. UpOK(m)
  BY <1>1 DEF Base, Channels
<1>5. WalkDf(i, m) \in Dataflows
  <2>1. CASE task[i].at = "get"
    <3>1. m.df \in Dataflows
      BY <1>1, <1>4, <2>1 DEF UpOK, Fetches
    <3> QED
      BY <2>1, <3>1 DEF WalkDf
  <2>2. CASE task[i].at # "get"
    BY <1>2, <2>2 DEF WalkDf, Turns, OnWalk
  <2> QED
    BY <2>1, <2>2
<1>6. WalkLeft(i) = IF task[i].at = "get" THEN Touched(task[i].diff)
                                          ELSE task[i].left \ {Stage(i)}
  BY <1>2 DEF WalkLeft, Stage
<1>7. WalkLeft(i) \subseteq 1..Len(Nodes)
  BY <1>2, <1>6 DEF Turns, OnWalk, Touched
<1>8. /\ task'[i].at \in {"reget", "skip", "named", "expose"}
      /\ task'[i].at = "reget" <=> WalkLeft(i) = {}
      /\ Turn(i, WalkDf(i, m), WalkLeft(i))
  BY <1>2 DEF Walks
<1>9. task'[i].at # "named"
  <2> SUFFICES ASSUME task'[i].at = "named" PROVE FALSE
    OBVIOUS
  <2>1. WalkLeft(i) # {}
    BY <1>8
  <2>2. First(WalkLeft(i)) \in 1..Len(Nodes)
    BY <1>7, <2>1, FirstIsLeast
  <2>3. Nodes[First(WalkLeft(i))] \in Named
    BY <2>2, NodesAreListed
  <2> QED
    BY <1>8, <2>3 DEF Turn
<1> HIDE DEF m
<1>10. OnWalk(i)' <=> WalkLeft(i) # {}
  BY <1>8, <1>9 DEF OnWalk
<1>11. OnWalk(i)' => task'[i].df = WalkDf(i, m) /\ task'[i].left = WalkLeft(i)
  BY <1>8 DEF OnWalk, Turn
<1>12. ~Gets(i)'
  BY <1>8 DEF Gets
<1> QED
  BY <1>1, <1>3, <1>5, <1>6, <1>7, <1>8, <1>9, <1>10, <1>11, <1>12 DEF m

\* Events that have not been taken are still there.
LEMMA EventsStay ==
    ASSUME Popped(up, up')
    PROVE  /\ Announced => Announced' \/ IsEvent(up[1], "connections")
           /\ \A n \in NodeSet : NodeAdded(n) =>
                 NodeAdded(n)' \/ (IsEvent(up[1], "nodes") /\ n \in up[1].added)
<1>0. /\ Len(up) = Len(up') + 1 /\ Len(up) \in Nat /\ Len(up') \in Nat
      /\ \A k \in 1..Len(up') : up'[k] = up[k + 1]
  BY DEF Popped
<1>1. ASSUME NEW k \in 1..Len(up), k # 1
      PROVE  k - 1 \in 1..Len(up') /\ up'[k - 1] = up[k]
  BY <1>0, <1>1
<1> QED
  BY <1>1 DEF Announced, NodeAdded, IsEvent

LEMMA WalkMends ==
    ASSUME Base, Turns, Named = NodeSet, Mended, SameWiring, Popped(up, up'), NEW i \in Slots,
           up[1].to = i, Walks(i, up[1]), \A j \in Slots \ {i} : Unmoved(j, 1, 0)
    PROVE  Mended'
<1> DEFINE m == up[1]
           left == WalkLeft(i)
           df == WalkDf(i, m)
<1>1. /\ InUp(i, 1) /\ (Gets(i) \/ OnWalk(i))
      /\ left = IF task[i].at = "get" THEN Touched(task[i].diff) ELSE task[i].left \ {Stage(i)}
      /\ left \subseteq 1..Len(Nodes)
      /\ OnWalk(i)' <=> left # {}
      /\ OnWalk(i)' => task'[i].df = df /\ task'[i].left = left
      /\ ~Gets(i)'
  BY TurnTaken
<1>2. 1 \in 1..Len(up) /\ Len(down) \in Nat /\ Sent(i) /\ m.type = "answer"
  BY <1>1 DEF InUp, Walks, Sent, Grown
<1>3. ~Answered(i)' /\ \A k \in 1..Len(down') : InDown(i, k)' => k = Len(down) + 1
  BY <1>2, ClientMoved DEF Reply
<1>4. Announced => Announced'
  BY <1>2, EventsStay DEF IsEvent, m
<1>5. df = IF task[i].at = "get" THEN m.df ELSE task[i].df
  BY DEF WalkDf
<1>6. Answered(i)
  BY <1>1, <1>2 DEF Answered
<1>7. Gets(i) <=> task[i].at = "get"
  BY <1>1 DEF Gets, OnWalk
<1> HIDE DEF m, left, df
<1> SUFFICES ASSUME NEW w \in Slots, Writes(w)', ~Announced
             PROVE  \E f \in Slots : Mends(f)' /\ Follows(f, w)'
  BY <1>4 DEF Mended
<1>8. OnWalk(i)' => /\ Stage(i)' = First(left) /\ First(left) \in left
                    /\ \A k \in left : First(left) <= k
  <2> SUFFICES ASSUME OnWalk(i)' PROVE /\ Stage(i)' = First(left) /\ First(left) \in left
                                       /\ \A k \in left : First(left) <= k
    OBVIOUS
  <2>1. Stage(i)' = First(left)
    BY <1>1 DEF OnWalk, Stage
  <2> QED
    BY <1>1, <2>1, FirstIsLeast
<1>9. CASE w = i
  <2>1. OnWalk(i)' /\ IsStale(df)
    <3>1. OnWalk(i)' /\ IsStale(task[i].df)'
      BY <1>1, <1>9 DEF Writes
    <3>2. task'[i].df = df
      BY <1>1, <3>1
    <3>3. task'[i].df.design = graph'.design /\ task'[i].df.conn # graph'.conn
      BY <3>1 DEF IsStale
    <3> QED
      BY <3>1, <3>2, <3>3 DEF IsStale, SameWiring
  <2>2. Writes(i)
    BY <1>1, <1>2, <1>5, <1>6, <1>7, <2>1 DEF Writes, m
  <2>3. PICK f \in Slots : Mends(f) /\ Follows(f, i)
    BY <2>2 DEF Mended
  <2>4. f # i
    BY <1>1, <1>2, <1>5, <1>7, <2>1, <2>3 DEF Mends, FreshAnswer, IsFresh, IsStale, m, OnWalk, Gets
  <2>5. Unmoved(f, 1, 0) /\ Mends(f)'
    BY <2>3, <2>4, UnmovedMends
  <2>6. Stage(f)' = Stage(f) /\ Stage(f) \in Nat /\ Stage(i) \in Nat /\ Stage(f) <= Stage(i)
    BY <1>1, <2>3, <2>5, StageOf, NodesAreListed DEF Mends, Unmoved, Stage, Follows
  <2>7. Stage(i) < Stage(i)' /\ Stage(i)' \in Nat
    BY <1>1, <1>7, <1>8, <2>1, StageOf, NodesAreListed
  <2> QED
    BY <1>9, <2>5, <2>6, <2>7 DEF Follows
<1>10. CASE w # i
  <2>1. Unmoved(w, 1, 0) /\ Writes(w)
    BY <1>10, UnmovedWrites
  <2>2. PICK f \in Slots : Mends(f) /\ Follows(f, w)
    BY <2>1 DEF Mended
  <2>3. CASE f # i
    BY <2>1, <2>2, <2>3, UnmovedMends, UnmovedFollows
  <2>4. CASE f = i
    <3>1. (Gets(w) \/ OnWalk(w)) /\ (Answered(w) \/ Awaiting(w))
      BY <2>1 DEF Writes, Answered
    <3>2. Stage(i) < Stage(w)
      <4>1. ASSUME Before(w, i) PROVE FALSE
        <5>1. ~Awaiting(w)
          BY <1>6, <4>1 DEF Before
        <5>2. PICK j \in 1..Len(up) : InUp(w, j)
          BY <3>1, <5>1 DEF Answered
        <5>3. j < 1
          BY <1>1, <1>2, <4>1, <5>2 DEF Before
        <5> QED
          BY <5>3
      <4> QED
        BY <2>2, <2>4, <4>1 DEF Follows
    <3>3. /\ Stage(i) \in Nat /\ OnWalk(w) /\ Stage(w) \in 1..Len(Nodes)
          /\ Stage(w)' = Stage(w)
      BY <1>1, <2>1, <3>1, <3>2, StageOf, NodesAreListed DEF Unmoved, Stage
    <3>4. Stage(w) \in left /\ \A j \in 1..Len(Nodes) : Stage(i) < j => j \in left
      <4>1. CASE Gets(i)
        <5>1. left = 1..Len(Nodes)
          BY <1>1, <1>7, <2>2, <2>4, <4>1, NodesAreListed DEF Mends, OnWalk, Gets, Touched
        <5> QED
          BY <3>3, <5>1
      <4>2. CASE OnWalk(i)
        <5>1. \A j \in 1..Len(Nodes) : Stage(i) <= j => j \in task[i].left
          BY <2>2, <2>4, <4>2, StageOf DEF Mends, OnWalk, Gets
        <5>2. left = task[i].left \ {Stage(i)}
          BY <1>1, <1>7, <4>2 DEF OnWalk
        <5> QED
          BY <3>2, <3>3, <5>1, <5>2, NodesAreListed
      <4> QED
        BY <1>1, <4>1, <4>2
    <3>5. OnWalk(i)'
      BY <1>1, <3>4
    <3>6. IsFresh(task[i].df)'
      <4>1. IsFresh(df)
        BY <1>1, <1>2, <1>5, <1>7, <2>2, <2>4 DEF Mends, FreshAnswer, m, OnWalk, Gets
      <4> QED
        BY <1>1, <3>5, <4>1 DEF IsFresh, SameWiring
    <3>7. Stage(i) < First(left) /\ First(left) \in Nat
      BY <1>1, <1>7, <1>8, <3>5, StageOf, NodesAreListed
    <3>8. \A j \in 1..Len(Nodes) : First(left) <= j => j \in left
      BY <3>3, <3>4, <3>7, NodesAreListed
    <3>9. Mends(i)'
      BY <1>1, <3>5, <3>6, <3>8 DEF Mends
    <3>10. Stage(i)' <= Stage(w)' /\ Stage(i)' \in Nat /\ Stage(w)' \in Nat
      BY <1>8, <3>3, <3>4, <3>5, <3>7
    <3>11. Before(w, i)'
      BY <1>2, <1>3, <2>1, SentLast
    <3>12. Follows(i, w)'
      BY <3>10, <3>11 DEF Follows
    <3> QED
      BY <3>9, <3>12
  <2> QED
    BY <2>3, <2>4
<1> QED
  BY <1>9, <1>10

LEMMA WalkCovers ==
    ASSUME Base, Turns, Named = NodeSet, Covered, graph' = graph, Popped(up, up'), NEW i \in Slots,
           up[1].to = i, Walks(i, up[1]), \A j \in Slots \ {i} : Unmoved(j, 1, 0)
    PROVE  Covered'
<1> DEFINE m == up[1]
           left == WalkLeft(i)
           df == WalkDf(i, m)
<1>1. /\ InUp(i, 1) /\ (Gets(i) \/ OnWalk(i))
      /\ left = IF task[i].at = "get" THEN Touched(task[i].diff) ELSE task[i].left \ {Stage(i)}
      /\ OnWalk(i)' <=> left # {}
      /\ OnWalk(i)' => task'[i].df = df /\ task'[i].left = left
  BY TurnTaken
<1>2. 1 \in 1..Len(up) /\ Len(down) \in Nat /\ Sent(i) /\ m.type = "answer"
  BY <1>1 DEF InUp, Walks, Sent, Grown
<1>3. ~Answered(i)'
  BY <1>2, ClientMoved DEF Reply
<1>4. /\ Announced => Announced'
      /\ \A n \in NodeSet : NodeAdded(n) => NodeAdded(n)'
  BY <1>2, EventsStay DEF IsEvent, m
<1>5. df = IF task[i].at = "get" THEN m.df ELSE task[i].df
  BY DEF WalkDf
<1>6. Answered(i)
  BY <1>1, <1>2 DEF Answered
<1>7. Gets(i) <=> task[i].at = "get"
  BY <1>1 DEF Gets, OnWalk
<1>8. FreshAnswer(i) => IsFresh(m.df)
  BY <1>1, <1>2 DEF FreshAnswer
<1> HIDE DEF m, left, df
<1>9. ASSUME NEW n \in NodeSet, Covers(i, n) PROVE Covers(i, n)'
  <2>1. PICK j \in left : Nodes[j] = n
    <3>1. CASE Gets(i)
      <4>1. n \in task[i].diff
        BY <1>7, <1>9, <3>1 DEF Covers, OnWalk
      <4>2. PICK j \in 1..Len(Nodes) : Nodes[j] = n
        BY NodesAreListed
      <4> QED
        BY <1>1, <1>7, <3>1, <4>1, <4>2 DEF Touched
    <3>2. CASE OnWalk(i)
      <4>1. PICK j \in task[i].left : Nodes[j] = n /\ j # First(task[i].left)
        BY <1>6, <1>9, <3>2 DEF Covers, OnWalk, Gets
      <4>2. Stage(i) = First(task[i].left)
        BY <3>2 DEF Stage, OnWalk
      <4> QED
        BY <1>1, <1>7, <3>2, <4>1, <4>2 DEF OnWalk
    <3> QED
      BY <1>1, <3>1, <3>2
  <2>2. OnWalk(i)' /\ task'[i].df = df /\ task'[i].left = left
    BY <1>1, <2>1
  <2>3. df.design = graph.design /\ df.conn = graph.conn
    BY <1>1, <1>5, <1>7, <1>8, <1>9 DEF Covers, IsFresh, Gets, OnWalk
  <2>4. IsFresh(task[i].df)'
    BY <2>2, <2>3 DEF IsFresh
  <2> QED
    BY <1>3, <2>1, <2>2, <2>4 DEF Covers
<1>10. SameWiring /\ \A n \in NodeSet : IsGood(n) => IsGood(n)'
  BY DEF SameWiring, IsGood
<1> DEFINE M == {i}
<1>11. M \in SUBSET Slots /\ (\A j \in Slots \ M : Unmoved(j, 1, 0))
       /\ \A j \in M : \A n \in NodeSet : Covers(j, n) => Covers(j, n)' \/ IsGood(n)'
  BY <1>9
<1> HIDE DEF M
<1> QED
  BY <1>4, <1>10, <1>11, CoveredStays
-----------------------------------------------------------------------------
(***************************************************************************)
(* The other steps of the client.                                          *)
(***************************************************************************)
LEMMA OthersUnmoved ==
    ASSUME Base, Popped(up, up'), NEW i \in Slots, Others(i),
           down' = down \/ (Grown(down, down', 1) /\ (Fresh.op = "imported" \/ Fresh.to = i))
    PROVE  \A j \in Slots \ {i} : Unmoved(j, 1, 0)
<1> SUFFICES ASSUME NEW j \in Slots, j # i PROVE Unmoved(j, 1, 0)
  OBVIOUS
<1>1. task'[j] = task[j]
  BY DEF Others
<1>2. down' = down \/ (Grown(down, down', 1) /\ ~(Request(Fresh) /\ Fresh.to = j))
  BY DEF Request
<1> QED
  BY <1>1, <1>2, ClientUnmoved

\* Coroutines that are on no walk before and after the step, if any.
LEMMA ClientRests ==
    ASSUME Mended, Covered, graph' = graph, Popped(up, up'), NEW M \in SUBSET Slots,
           \A j \in Slots \ M : Unmoved(j, 1, 0),
           \A j \in M : ~Gets(j) /\ ~OnWalk(j) /\ ~Gets(j)' /\ ~OnWalk(j)',
           ~IsEvent(up[1], "connections"), ~IsEvent(up[1], "nodes")
    PROVE  Mended' /\ Covered'
<1>1. SameWiring /\ \A n \in NodeSet : IsGood(n) => IsGood(n)'
  BY DEF SameWiring, IsGood
<1>2. \A j \in M : ~Mends(j) /\ ~Writes(j)' /\ \A n \in NodeSet : ~Covers(j, n)
  BY DEF Mends, Writes, Covers
<1>3. /\ Announced => Announced'
      /\ \A n \in NodeSet : NodeAdded(n) => NodeAdded(n)'
  BY EventsStay
<1>4. Mended'
  BY <1>1, <1>2, <1>3, MendedStays
<1>5. Covered'
  BY <1>1, <1>2, <1>3, CoveredStays
<1> QED
  BY <1>4, <1>5

\* A walk that starts when connections have changed looks at every node, after all others.
LEMMA ConnectionsStart ==
    ASSUME Base, Turns, graph' = graph, Popped(up, up'), NEW i \in Slots,
           StartsGet(i, up[1]), up[1].ev = "connections",
           \A j \in Slots \ {i} : Unmoved(j, 1, 0)
    PROVE  Mended' /\ Covered'
<1>1. task[i] = Free /\ Sent(i) /\ up[1].type = "event" /\ Len(down) \in Nat
      /\ task'[i].at = "get" /\ task'[i].diff = NodeSet
  BY DEF StartsGet, Starts, Sent, Grown
<1>2. ~Answered(i)' /\ \A k \in 1..Len(down') : InDown(i, k)' => k = Len(down) + 1
  BY <1>1, ClientMoved
<1>3. Gets(i)' /\ FreshAnswer(i)' /\ ~OnWalk(i)'
  BY <1>1, <1>2, ExternalNodes DEF Gets, OnWalk, FreshAnswer, Answered
<1>4. Mends(i)' /\ \A n \in NodeSet : Covers(i, n)'
  BY <1>1, <1>3 DEF Mends, Covers
<1>5. ASSUME NEW w \in Slots, Writes(w)' PROVE Follows(i, w)'
  <2>1. w # i
    BY <1>2, <1>3, <1>5 DEF Writes, Answered
  <2>2. Unmoved(w, 1, 0)
    BY <2>1
  <2>3. Stage(i)' = 0 /\ Before(w, i)'
    BY <1>1, <1>2, <2>2, SentLast DEF Stage
  <2>4. (Gets(w) \/ OnWalk(w)) /\ Stage(w)' = Stage(w)
    BY <1>5, <2>2 DEF Writes, Unmoved, Gets, OnWalk, Stage
  <2>5. Stage(w) = 0 \/ Stage(w) \in 1..Len(Nodes)
    BY <2>4, StageOf
  <2> QED
    BY <2>3, <2>4, <2>5, NodesAreListed DEF Follows
<1> QED
  BY <1>4, <1>5 DEF Mended, Covered

\* One that starts when nodes have been added looks at these.
LEMMA NodesStart ==
    ASSUME Base, Turns, Mended, Covered, graph' = graph, Popped(up, up'), NEW i \in Slots,
           StartsGet(i, up[1]), up[1].ev = "nodes",
           \A j \in Slots \ {i} : Unmoved(j, 1, 0)
    PROVE  Mended' /\ Covered'
<1>1. task[i] = Free /\ Sent(i) /\ up[1].type = "event" /\ 1 \in 1..Len(up)
      /\ task'[i].at = "get" /\ task'[i].diff = up[1].added
  BY DEF StartsGet, Starts, Popped
<1>2. ~Answered(i)'
  BY <1>1, ClientMoved
<1>3. up[1].added \subseteq NodeSet
  BY <1>1 DEF Turns, IsEvent
<1>4. Gets(i)' /\ FreshAnswer(i)' /\ ~OnWalk(i)'
  BY <1>1, <1>2, <1>3, ExternalNodes DEF Gets, OnWalk, FreshAnswer, Answered
<1>5. \A n \in up[1].added : Covers(i, n)'
  BY <1>1, <1>4 DEF Covers
<1>6. ~Gets(i) /\ ~OnWalk(i)
  BY <1>1 DEF Gets, OnWalk, Free
<1>7. SameWiring /\ \A n \in NodeSet : IsGood(n) => IsGood(n)'
  BY DEF SameWiring, IsGood
<1>8. ~IsEvent(up[1], "connections")
  BY DEF IsEvent
<1>9. /\ Announced => Announced'
      /\ \A n \in NodeSet : NodeAdded(n) => NodeAdded(n)' \/ Covers(i, n)'
  BY <1>5, <1>8, EventsStay
<1> DEFINE M == {i}
<1>10. /\ M \in SUBSET Slots /\ i \in M
       /\ \A j \in Slots \ M : Unmoved(j, 1, 0)
       /\ \A j \in M : ~Mends(j) /\ ~Writes(j)' /\ \A n \in NodeSet : ~Covers(j, n)
  BY <1>2, <1>4, <1>6 DEF Mends, Writes, Covers, Answered
<1> HIDE DEF M
<1>11. Mended'
  BY <1>7, <1>9, <1>10, MendedStays
<1>12. Covered'
  BY <1>7, <1>9, <1>10, CoveredStays
<1> QED
  BY <1>11, <1>12

LEMMA MendedClient ==
    ASSUME Base, Named = NodeSet, Once, Turns, Mended, Covered, ClientTable
    PROVE  Mended' /\ Covered'
<1> DEFINE m == up[1]
<1>1. /\ Popped(up, up') /\ graph' = graph /\ 1 \in 1..Len(up)
      /\ Begun(m) \/ Resumed(m.to, m) \/ Graphs(m) \/ Refuses(m)
  BY DEF ClientTable, Popped
<1>2. m.type # "error" /\ ~IsEvent(m, "import")
  BY <1>1 DEF Once
<1> HIDE DEF m
<1>3. CASE Begun(m)
  <2> PICK i \in Slots : \/ StartsGet(i, m) \/ StartsLoad(i, m) \/ StartsSpec(i, m)
                         \/ StartsFirst(i, m) \/ StartsImport(i, m)
    BY <1>3 DEF Begun
  <2>1. Starts(i, m) /\ task[i] = Free /\ Sent(i) /\ m.type = "event"
    BY DEF StartsGet, StartsLoad, StartsSpec, StartsFirst, StartsImport, Starts
  <2>2. \A j \in Slots \ {i} : Unmoved(j, 1, 0)
    BY <1>1, <2>1, OthersUnmoved DEF Sent
  <2>3. ~Gets(i) /\ ~OnWalk(i)
    BY <2>1 DEF Gets, OnWalk, Free
  <2>4. CASE StartsGet(i, m) /\ m.ev = "connections"
    BY <1>1, <2>2, <2>4, ConnectionsStart DEF m
  <2>5. CASE StartsGet(i, m) /\ m.ev = "nodes"
    BY <1>1, <2>2, <2>5, NodesStart DEF m
  <2>6. CASE \/ StartsGet(i, m) /\ m.ev = "change"
             \/ StartsLoad(i, m) \/ StartsSpec(i, m) \/ StartsFirst(i, m)
    <3>1. ~Gets(i)' /\ ~OnWalk(i)' /\ m.ev \notin {"connections", "nodes"}
      BY <2>6 DEF StartsGet, StartsLoad, StartsSpec, StartsFirst, Gets, OnWalk
    <3> DEFINE M == {i}
    <3>2. /\ M \in SUBSET Slots
          /\ \A j \in Slots \ M : Unmoved(j, 1, 0)
          /\ \A j \in M : ~Gets(j) /\ ~OnWalk(j) /\ ~Gets(j)' /\ ~OnWalk(j)'
      BY <2>2, <2>3, <3>1
    <3> HIDE DEF M
    <3> QED
      BY <1>1, <3>1, <3>2, ClientRests DEF m, IsEvent
  <2> QED
    BY <1>2, <2>4, <2>5, <2>6 DEF StartsGet, StartsImport, Starts, IsEvent
<1>4. CASE Resumed(m.to, m)
  <2> PICK i \in Slots : i = m.to
    BY <1>4 DEF Resumed
  <2>1. /\ Reply(m)
        /\ Walks(i, m) \/ Stores(i, m) \/ Sends(i, m) \/ Loaded(i, m) \/ Imports(i, m)
    BY <1>2, <1>4 DEF Resumed, Breaks
  <2>2. \A j \in Slots \ {i} : Unmoved(j, 1, 0)
    BY <1>1, <2>1, OthersUnmoved DEF Walks, Stores, Sends, Loaded, Imports, Sent, Freed
  <2>3. CASE Walks(i, m)
    <3>1. SameWiring
      BY <1>1 DEF SameWiring
    <3> QED
      BY <1>1, <2>1, <2>2, <2>3, <3>1, WalkMends, WalkCovers DEF m
  <2>4. CASE Stores(i, m) \/ Sends(i, m) \/ Loaded(i, m) \/ Imports(i, m)
    <3>1. ~Gets(i) /\ ~OnWalk(i) /\ ~Gets(i)' /\ ~OnWalk(i)'
      BY <2>4 DEF Stores, Sends, Loaded, Imports, Freed, Free, Gets, OnWalk, Fetches
    <3>2. ~IsEvent(m, "connections") /\ ~IsEvent(m, "nodes")
      BY <2>1 DEF IsEvent, Reply
    <3> DEFINE M == {i}
    <3>3. /\ M \in SUBSET Slots
          /\ \A j \in Slots \ M : Unmoved(j, 1, 0)
          /\ \A j \in M : ~Gets(j) /\ ~OnWalk(j) /\ ~Gets(j)' /\ ~OnWalk(j)'
      BY <2>1, <2>2, <3>1
    <3> HIDE DEF M
    <3> QED
      BY <1>1, <3>2, <3>3, ClientRests DEF m
  <2> QED
    BY <2>1, <2>3, <2>4
<1>5. CASE Graphs(m) \/ Refuses(m)
  <2>1. \A j \in Slots : Unmoved(j, 1, 0)
    <3> SUFFICES ASSUME NEW j \in Slots PROVE Unmoved(j, 1, 0)
      OBVIOUS
    <3>1. task'[j] = task[j] /\ down' = down
      BY <1>5 DEF Graphs, Refuses
    <3> QED
      BY <1>1, <3>1, ClientUnmoved
  <2>2. ~IsEvent(m, "connections") /\ ~IsEvent(m, "nodes")
    BY <1>5 DEF IsEvent, Graphs, Refuses
  <2> DEFINE M == {}
  <2>3. /\ M \in SUBSET Slots
        /\ \A j \in Slots \ M : Unmoved(j, 1, 0)
        /\ \A j \in M : ~Gets(j) /\ ~OnWalk(j) /\ ~Gets(j)' /\ ~OnWalk(j)'
    BY <2>1
  <2> HIDE DEF M
  <2> QED
    BY <1>1, <2>2, <2>3, ClientRests DEF m
<1> QED
  BY <1>1, <1>3, <1>4, <1>5
-----------------------------------------------------------------------------
(***************************************************************************)
(* The page answers a request of coroutine i, last of all.                 *)
(***************************************************************************)
Answering(i, n) == /\ Popped(down, down') /\ task' = task /\ Grown(up, up', n)
                /\ Request(down[1]) /\ down[1].to = i
                /\ \A k \in Len(up) + 1..Len(up') :
                      /\ Reply(up'[k]) => k = Len(up') /\ up'[k].to = i
                      /\ ~IsEvent(up'[k], "connections") /\ ~IsEvent(up'[k], "nodes")

LEMMA ServedMoves ==
    ASSUME Base, NEW i \in Slots, NEW n \in {1, 2}, Answering(i, n)
    PROVE  /\ ~Answered(i) /\ InDown(i, 1) /\ ~Awaiting(i)' /\ Awaiting(i)
           /\ \A k \in 1..Len(up') : InUp(i, k)' => k = Len(up')
           /\ \A j \in Slots \ {i} : Unmoved(j, 0, 1)
           /\ Announced => Announced'
           /\ \A x \in NodeSet : NodeAdded(x) => NodeAdded(x)'
<1>1. /\ ~Answered(i) /\ InDown(i, 1) /\ ~Awaiting(i)'
      /\ \A k \in 1..Len(up') : InUp(i, k)' => k = Len(up')
  BY PageMoved DEF Answering
<1>2. Awaiting(i)
  BY <1>1 DEF Awaiting, InDown
<1>3. ASSUME NEW j \in Slots, j # i PROVE Unmoved(j, 0, 1)
  <2>1. task'[j] = task[j]
    BY DEF Answering
  <2>2. \A k \in Len(up) + 1..Len(up') : Reply(up'[k]) => up'[k].to # j
    BY <1>3 DEF Answering
  <2> QED
    BY <2>1, <2>2, PageUnmoved DEF Answering
<1>4. \A k \in 1..Len(up) : k \in 1..Len(up') /\ up'[k] = up[k]
  BY DEF Answering, Grown
<1>5. /\ Announced => Announced'
      /\ \A x \in NodeSet : NodeAdded(x) => NodeAdded(x)'
  BY <1>4 DEF Announced, NodeAdded, IsEvent
<1> QED
  BY <1>1, <1>2, <1>3, <1>5

\* A request that waited for another waits for it still when it is answered.
LEMMA ServedFollows ==
    ASSUME Base, SameWiring, NEW i \in Slots, NEW n \in {1, 2}, Answering(i, n),
           NEW f \in Slots, NEW w \in Slots, Follows(f, w)
    PROVE  Follows(f, w)'
<1>1. /\ ~Answered(i) /\ InDown(i, 1) /\ ~Awaiting(i)' /\ Awaiting(i) /\ 1 \in 1..Len(down)
      /\ \A k \in 1..Len(up') : InUp(i, k)' => k = Len(up')
      /\ \A j \in Slots \ {i} : Unmoved(j, 0, 1)
  BY ServedMoves DEF InDown
<1>2. Stage(f)' = Stage(f) /\ Stage(w)' = Stage(w)
  BY DEF Answering, Stage
<1>3. Len(up) \in Nat /\ Len(up') = Len(up) + n
  BY DEF Answering, Grown
<1> SUFFICES ASSUME Before(w, f) PROVE Before(w, f)'
  BY <1>2 DEF Follows
<1>4. CASE f # i /\ w # i
  <2>1. ASSUME NEW j \in 1..Len(up'), NEW k \in 1..Len(up'), InUp(w, j)', InUp(f, k)'
        PROVE  j < k
    <3>1. InUp(w, j + 0) /\ InUp(f, k + 0)
      BY <1>1, <1>4, <2>1 DEF Unmoved
    <3>2. j + 0 \in 1..Len(up) /\ k + 0 \in 1..Len(up)
      BY <3>1 DEF InUp
    <3>3. j + 0 < k + 0
      BY <3>1, <3>2 DEF Before
    <3> QED
      BY <3>3
  <2>2. ASSUME NEW j \in 1..Len(down'), NEW k \in 1..Len(down'), InDown(w, j)', InDown(f, k)'
        PROVE  j < k
    <3>1. InDown(w, j + 1) /\ InDown(f, k + 1)
      BY <1>1, <1>4, <2>2 DEF Unmoved
    <3>2. j + 1 \in 1..Len(down) /\ k + 1 \in 1..Len(down)
      BY <3>1 DEF InDown
    <3>3. j + 1 < k + 1
      BY <3>1, <3>2 DEF Before
    <3> QED
      BY <3>3
  <2>3. ~(Awaiting(w)' /\ Answered(f)')
    BY <1>1, <1>4, UnmovedAnswers DEF Before
  <2> QED
    BY <2>1, <2>2, <2>3 DEF Before
<1>5. CASE f = i
  <2>1. \A j \in 1..Len(down) : ~InDown(w, j)
    BY <1>1, <1>5 DEF Before
  <2>2. w # i /\ ~Awaiting(w)
    BY <1>1, <2>1 DEF Awaiting
  <2>3. Unmoved(w, 0, 1) /\ ~Awaiting(w)'
    BY <1>1, <2>2, UnmovedAnswers
  <2>4. ASSUME NEW j \in 1..Len(up'), NEW k \in 1..Len(up'), InUp(w, j)', InUp(f, k)'
        PROVE  j < k
    <3>1. InUp(w, j + 0) /\ k = Len(up')
      BY <1>1, <1>5, <2>3, <2>4 DEF Unmoved
    <3>2. j + 0 \in 1..Len(up)
      BY <3>1 DEF InUp
    <3> QED
      BY <1>3, <3>1, <3>2
  <2> QED
    BY <2>3, <2>4 DEF Before, Awaiting
<1>6. CASE w = i /\ f # i
  <2>1. ~Answered(f)
    BY <1>1, <1>6 DEF Before
  <2>2. Unmoved(f, 0, 1) /\ ~Answered(f)'
    BY <1>1, <1>6, <2>1, UnmovedAnswers
  <2> QED
    BY <1>1, <1>6, <2>2 DEF Before, Awaiting, Answered
<1> QED
  BY <1>4, <1>5, <1>6

LEMMA ServedMends ==
    ASSUME Base, Mended, SameWiring, NEW i \in Slots, NEW n \in {1, 2}, Answering(i, n),
           Gets(i) => \A k \in 1..Len(up') : InUp(i, k)' => IsFresh(up[k].df)'
    PROVE  Mended'
<1>1. /\ Awaiting(i) /\ \A j \in Slots \ {i} : Unmoved(j, 0, 1)
      /\ (Announced => Announced') /\ task'[i] = task[i]
  BY ServedMoves DEF Answering
<1>2. ASSUME NEW w \in Slots, Writes(w)' PROVE Writes(w)
  <2>1. CASE w # i
    BY <1>1, <1>2, <2>1, UnmovedWrites
  <2>2. CASE w = i
    <3>1. ~Gets(i)'
      <4> SUFFICES ASSUME Gets(i)' PROVE FALSE
        OBVIOUS
      <4>1. Gets(i) /\ ~OnWalk(i)'
        BY <1>1 DEF Gets, OnWalk
      <4>2. PICK k \in 1..Len(up') : InUp(i, k)' /\ IsStale(up[k].df)'
        BY <1>2, <2>2, <4>1 DEF Writes
      <4> QED
        BY <4>1, <4>2 DEF IsFresh, IsStale
    <3>2. OnWalk(i)' /\ IsStale(task[i].df)'
      BY <1>2, <2>2, <3>1 DEF Writes
    <3>3. OnWalk(i) /\ IsStale(task[i].df)
      BY <1>1, <3>2 DEF OnWalk, IsStale, SameWiring
    <3> QED
      BY <1>1, <2>2, <3>3 DEF Writes
  <2> QED
    BY <2>1, <2>2
<1>3. ASSUME NEW f \in Slots, Mends(f) PROVE Mends(f)'
  <2>1. CASE f # i
    BY <1>1, <1>3, <2>1, UnmovedMends
  <2>2. CASE f = i
    <3>1. CASE Gets(i)
      <4>1. Gets(i)' /\ FreshAnswer(i)'
        BY <1>1, <3>1 DEF Gets, FreshAnswer
      <4> QED
        BY <1>1, <1>3, <2>2, <3>1, <4>1 DEF Mends, Gets, OnWalk
    <3>2. CASE OnWalk(i)
      <4>1. OnWalk(i)' /\ IsFresh(task[i].df)'
        BY <1>1, <1>3, <2>2, <3>2 DEF Mends, OnWalk, Gets, IsFresh, SameWiring
      <4> QED
        BY <1>1, <1>3, <2>2, <3>2, <4>1 DEF Mends, OnWalk, Gets
    <3> QED
      BY <1>3, <2>2, <3>1, <3>2 DEF Mends
  <2> QED
    BY <2>1, <2>2
<1> SUFFICES ASSUME NEW w \in Slots, Writes(w)', ~Announced'
             PROVE  \E f \in Slots : Mends(f)' /\ Follows(f, w)'
  BY DEF Mended
<1>4. PICK f \in Slots : Mends(f) /\ Follows(f, w)
  BY <1>1, <1>2 DEF Mended
<1> QED
  BY <1>3, <1>4, ServedFollows

LEMMA ServedCovers ==
    ASSUME Base, Covered, SameWiring, NEW i \in Slots, NEW n \in {1, 2}, Answering(i, n),
           Gets(i) => \A k \in 1..Len(up') : InUp(i, k)' => IsFresh(up[k].df)',
           \A x \in NodeSet : IsGood(x) => \/ IsGood(x)' \/ Announced'
                                           \/ \E f \in Slots : Covers(f, x)',
           \A x \in NodeSet : OnWalk(i) /\ IsFresh(task[i].df)
                                 /\ x = Nodes[First(task[i].left)] => IsGood(x)'
    PROVE  Covered'
<1>1. /\ Awaiting(i) /\ \A j \in Slots \ {i} : Unmoved(j, 0, 1)
      /\ (Announced => Announced') /\ \A x \in NodeSet : NodeAdded(x) => NodeAdded(x)'
      /\ task'[i] = task[i]
  BY ServedMoves DEF Answering
<1>2. ASSUME NEW x \in NodeSet, Covers(i, x), ~IsGood(x)' PROVE Covers(i, x)'
  <2>1. CASE Gets(i)
    <3>1. Gets(i)' /\ FreshAnswer(i)'
      BY <1>1, <2>1 DEF Gets, FreshAnswer
    <3> QED
      BY <1>1, <1>2, <2>1, <3>1 DEF Covers, Gets, OnWalk
  <2>2. CASE OnWalk(i)
    <3>1. IsFresh(task[i].df) /\ \E j \in task[i].left : Nodes[j] = x
      BY <1>2, <2>2 DEF Covers, Gets, OnWalk
    <3>2. PICK j \in task[i].left : Nodes[j] = x /\ j # First(task[i].left)
      BY <1>2, <2>2, <3>1
    <3>3. OnWalk(i)' /\ IsFresh(task[i].df)'
      BY <1>1, <2>2, <3>1 DEF OnWalk, IsFresh, SameWiring
    <3> QED
      BY <1>1, <3>2, <3>3 DEF Covers
  <2> QED
    BY <1>2, <2>1, <2>2 DEF Covers
<1> DEFINE M == {i}
<1>3. /\ M \in SUBSET Slots
      /\ \A j \in Slots \ M : Unmoved(j, 0, 1)
      /\ \A j \in M : \A x \in NodeSet : Covers(j, x) => Covers(j, x)' \/ IsGood(x)'
  BY <1>1, <1>2
<1> HIDE DEF M
<1> QED
  BY <1>1, <1>3, CoveredStays

\* What coroutine i has asked for, and the request that is taken.
LEMMA TakenAsk ==
    ASSUME Base, NEW i \in Slots, InDown(i, 1)
    PROVE  down[1].op = Ask(task[i].at)
  BY DEF Base, Channels, DownOK, InDown, Request

LEMMA AnswersMended ==
    ASSUME Base, Turns, Mended, Covered, Popped(down, down'), task' = task, Request(down[1]),
           Answers(down[1])
    PROVE  Mended' /\ Covered'
<1> DEFINE r == down[1]
<1>1. /\ r.to \in Slots /\ Grown(up, up', 1) /\ graph' = graph /\ 1 \in 1..Len(down)
      /\ r.op \in {"graph_get", "specification_change", "notification_send", "interfaces_change"}
      /\ Said.type = "answer" /\ Said.to = r.to
      /\ Said.df = IF r.op = "graph_get" THEN graph ELSE None
      /\ r.op = "interfaces_change" => r.design # graph.design
  <2>1. 1 \in 1..Len(down)
    BY DEF Popped
  <2> QED
    BY <2>1 DEF Answers, Base, Channels, DownOK, Request
<1> HIDE DEF r
<1> PICK i \in Slots : r.to = i
  BY <1>1
<1>2. Answering(i, 1)
  <2>1. \A k \in Len(up) + 1..Len(up') : k = Len(up') /\ up'[k] = Said
    BY <1>1 DEF Grown, Said
  <2> QED
    BY <1>1, <2>1 DEF Answering, r, IsEvent, Reply
<1>3. /\ Awaiting(i) /\ InDown(i, 1)
      /\ \A k \in 1..Len(up') : InUp(i, k)' => k = Len(up')
  BY <1>2, ServedMoves
<1>4. r.op = Ask(task[i].at)
  BY <1>3, TakenAsk DEF r
<1>5. SameWiring
  BY <1>1 DEF SameWiring
<1>6. ASSUME Gets(i), NEW k \in 1..Len(up'), InUp(i, k)' PROVE IsFresh(up[k].df)'
  <2>1. up'[k] = Said
    BY <1>1, <1>3, <1>6 DEF Grown, Said
  <2>2. Said.df = graph
    BY <1>1, <1>4, <1>6 DEF Gets, Ask
  <2> QED
    BY <1>1, <2>1, <2>2 DEF IsFresh
<1>7. ASSUME NEW x \in NodeSet, OnWalk(i), IsFresh(task[i].df), x = Nodes[First(task[i].left)]
      PROVE  IsGood(x)'
  <2>1. task[i].at = "skip"
    <3> SUFFICES ASSUME task[i].at = "expose" PROVE FALSE
      BY <1>7 DEF OnWalk
    <3>1. r.design = task[i].df.design
      BY <1>1, <1>3 DEF Turns, r
    <3>2. r.op = "interfaces_change"
      BY <1>4 DEF Ask
    <3> QED
      BY <1>1, <1>7, <3>1, <3>2 DEF IsFresh
  <2>2. Cardinality(task[i].df.conn[x]) > 1 /\ task[i].df \in Dataflows
    BY <1>7, <2>1 DEF Turns, OnWalk
  <2>3. graph.conn[x] = task[i].df.conn[x]
    BY <1>7 DEF IsFresh
  <2>4. ~(Cardinality(graph.conn[x]) <= 1)
    <3>1. Cardinality(graph.conn[x]) \in Nat
      <4>1. graph.conn[x] \in SUBSET Ifaces
        BY DEF Base, TypeOK, Dataflows
      <4>2. IsFiniteSet(Ifaces)
        <5>1. IsFiniteSet({} \cup {"in"})
          BY FS_EmptySet, FS_AddElement
        <5>2. IsFiniteSet(({} \cup {"in"}) \cup {"out"})
          BY <5>1, FS_AddElement
        <5>3. IsFiniteSet((({} \cup {"in"}) \cup {"out"}) \cup {"inout"})
          BY <5>2, FS_AddElement
        <5>4. Ifaces = (({} \cup {"in"}) \cup {"out"}) \cup {"inout"}
          BY DEF Ifaces
        <5> QED
          BY <5>3, <5>4
      <4> QED
        BY <4>1, <4>2, FS_Subset, FS_CardinalityType
    <3> QED
      BY <2>2, <2>3, <3>1
  <2> QED
    BY <1>1, <2>4 DEF IsGood
<1>8. \A x \in NodeSet : IsGood(x) => IsGood(x)'
  BY <1>1 DEF IsGood
<1>9. Mended'
  BY <1>2, <1>5, <1>6, ServedMends
<1>10. Covered'
  BY <1>2, <1>5, <1>6, <1>7, <1>8, ServedCovers
<1> QED
  BY <1>9, <1>10

LEMMA ExposesMended ==
    ASSUME Base, Turns, Mended, Covered, Popped(down, down'), task' = task, Exposes(down[1])
    PROVE  Mended' /\ Covered'
<1> DEFINE r == down[1]
<1>1. /\ r.op = "interfaces_change" /\ r.design = graph.design /\ 1 \in 1..Len(down)
      /\ r.to \in Slots /\ Grown(up, up', 2)
      /\ graph' = [[graph EXCEPT !.shown[r.node] = r.shown] EXCEPT !.clock = clock + 1]
      /\ IsEvent(Said, "change") /\ Added.type = "answer" /\ Added.to = r.to
  <2>1. 1 \in 1..Len(down)
    BY DEF Popped
  <2> QED
    BY <2>1 DEF Exposes, Shown, Base, Channels, DownOK
<1> HIDE DEF r
<1> PICK i \in Slots : r.to = i
  BY <1>1
<1>2. Answering(i, 2)
  <2>1. Len(up) \in Nat /\ Len(up') = Len(up) + 2
    BY <1>1 DEF Grown
  <2>2. ASSUME NEW k \in Len(up) + 1..Len(up')
        PROVE  (k = Len(up) + 1 /\ up'[k] = Said) \/ (k = Len(up') /\ up'[k] = Added)
    BY <2>1 DEF Said, Added
  <2>3. /\ ~Reply(Said) /\ ~IsEvent(Said, "connections") /\ ~IsEvent(Said, "nodes")
        /\ ~IsEvent(Added, "connections") /\ ~IsEvent(Added, "nodes") /\ Added.to = i
    BY <1>1 DEF Reply, IsEvent
  <2>4. Request(down[1]) /\ down[1].to = i
    BY <1>1 DEF r, Request
  <2> QED
    BY <1>1, <2>2, <2>3, <2>4 DEF Answering
<1>3. /\ Awaiting(i) /\ InDown(i, 1) /\ Announced => Announced'
  BY <1>2, ServedMoves
<1>4. Awaiting(i) /\ InDown(i, 1) /\ \A j \in Slots \ {i} : Unmoved(j, 0, 1)
  BY <1>2, ServedMoves
<1>5. task[i].at = "expose" /\ OnWalk(i) /\ ~Gets(i)
  <2>1. Ask(task[i].at) = "interfaces_change"
    BY <1>1, <1>4, TakenAsk DEF r
  <2> QED
    BY <2>1 DEF Ask, OnWalk, Gets
<1> DEFINE n == Nodes[First(task[i].left)]
           df == task[i].df
<1>6. /\ r.node = n /\ df.design = graph.design /\ r.shown = Opposites(df.conn[n])
  BY <1>1, <1>4, <1>5 DEF Turns, r
<1>7. First(task[i].left) = Stage(i) /\ Stage(i) \in 1..Len(Nodes) /\ n \in NodeSet
  BY <1>5, StageOf, NodesAreListed
<1>8. graph \in Dataflows
  BY DEF Base, TypeOK
<1>9. /\ graph'.conn = graph.conn /\ graph'.design = graph.design
      /\ graph'.shown = [graph.shown EXCEPT ![n] = Opposites(df.conn[n])]
  BY <1>1, <1>6, <1>8 DEF Dataflows
<1>10. /\ graph'.shown[n] = Opposites(df.conn[n])
       /\ \A x \in NodeSet \ {n} : graph'.shown[x] = graph.shown[x]
  <2>1. graph.shown \in [NodeSet -> SUBSET Ifaces]
    BY <1>8 DEF Dataflows
  <2> QED
    BY <1>7, <1>9, <2>1
<1> HIDE DEF n, df
<1>11. SameWiring
  BY <1>9 DEF SameWiring
<1>12. ASSUME IsFresh(df) PROVE IsGood(n)'
  <2>1. df.conn = graph.conn
    BY <1>12 DEF IsFresh
  <2>2. graph'.shown[n] = Opposites(graph'.conn[n])
    BY <1>9, <1>10, <2>1
  <2> QED
    BY <2>2 DEF IsGood, n
<1>13. ASSUME ~IsFresh(df), ~Announced' PROVE \E f \in Slots : Covers(f, n)'
  <2>1. IsStale(df)
    BY <1>6, <1>13 DEF IsFresh, IsStale
  <2>2. Writes(i)
    BY <1>4, <1>5, <2>1 DEF Writes, df
  <2>3. PICK f \in Slots : Mends(f) /\ Follows(f, i)
    BY <1>3, <1>4, <1>13, <2>2 DEF Mended
  <2>4. f # i
    BY <1>5, <1>13, <2>3 DEF Mends, df
  <2>5. Covers(f, n)
    <3>1. CASE Gets(f)
      BY <1>7, <2>3, <3>1 DEF Mends, Covers, Gets, OnWalk
    <3>2. CASE OnWalk(f)
      <4>1. /\ IsFresh(task[f].df) /\ Stage(f) = First(task[f].left) /\ Stage(f) \in 1..Len(Nodes)
            /\ \A j \in 1..Len(Nodes) : First(task[f].left) <= j => j \in task[f].left
        BY <2>3, <3>2, StageOf DEF Mends, OnWalk, Gets
      <4>2. Stage(i) \in task[f].left
        BY <1>7, <2>3, <4>1, NodesAreListed DEF Follows
      <4>3. Stage(i) = Stage(f) => ~Answered(f)
        BY <1>4, <1>7, <2>3, <4>1 DEF Follows, Before
      <4>4. Nodes[Stage(i)] = n
        BY <1>7 DEF n
      <4> QED
        BY <3>2, <4>1, <4>2, <4>3, <4>4 DEF Covers
    <3> QED
      BY <2>3, <3>1, <3>2 DEF Mends
  <2>6. Covers(f, n)'
    BY <1>4, <1>11, <2>4, <2>5, UnmovedCovers DEF n
  <2> QED
    BY <2>6
<1>14. ASSUME NEW x \in NodeSet, IsGood(x)
       PROVE  IsGood(x)' \/ Announced' \/ \E f \in Slots : Covers(f, x)'
  <2>1. CASE x = n
    <3>1. IsFresh(df) => IsGood(x)'
      BY <1>7, <1>9, <1>10, <2>1 DEF IsFresh, IsGood
    <3>2. ~IsFresh(df) => Announced' \/ \E f \in Slots : Covers(f, x)'
      BY <1>13, <2>1 DEF n
    <3> QED
      BY <3>1, <3>2
  <2>2. CASE x # n
    <3>1. graph'.shown[x] = graph.shown[x] /\ graph'.conn[x] = graph.conn[x]
      BY <1>9, <1>10, <2>2
    <3> QED
      BY <1>14, <3>1 DEF IsGood
  <2> QED
    BY <2>1, <2>2
<1>15. ASSUME NEW x \in NodeSet, OnWalk(i), IsFresh(task[i].df), x = Nodes[First(task[i].left)]
       PROVE  IsGood(x)'
  <2>1. x = n /\ IsFresh(df)
    BY <1>15 DEF n, df
  <2> QED
    BY <1>7, <1>9, <1>10, <2>1 DEF IsFresh, IsGood
<1>16. Mended'
  BY <1>2, <1>5, <1>11, ServedMends
<1>17. Covered'
  BY <1>2, <1>5, <1>11, <1>14, <1>15, ServedCovers
<1> QED
  BY <1>16, <1>17

\* Nothing is connected and nothing exposed.
LEMMA BareIsGood == ASSUME NEW n \in NodeSet, IsBare(graph)' PROVE IsGood(n)'
<1>1. graph'.conn[n] = {} /\ graph'.shown[n] = {}
  BY DEF IsBare, Bare
<1> QED
  BY <1>1 DEF IsGood, Opposites

LEMMA ChangesMended ==
    ASSUME Base, OneLoad, Unshown, Popped(down, down'), task' = task, design' = design,
           Changes(down[1])
    PROVE  Mended' /\ Covered'
<1> DEFINE r == down[1]
<1>1. /\ r.op = "graph_change" /\ IsLoad(1) /\ r.to \in Slots /\ Grown(up, up', 2)
      /\ r.df = Dataflow(design, 0) /\ graph' = [r.df EXCEPT !.clock = clock + 1]
      /\ IsEvent(Said, "graph") /\ Added.type = "answer" /\ Added.to = r.to
      /\ task[r.to].at = "load"
  <2>1. 1 \in 1..Len(down)
    BY DEF Popped
  <2>2. r.op = "graph_change" /\ IsLoad(1)
    BY <2>1 DEF Changes, IsLoad
  <2>3. r.to \in Slots /\ r.op = Ask(task[r.to].at)
    BY <2>1, <2>2 DEF Base, Channels, DownOK
  <2>4. task[r.to].at = "load"
    BY <2>2, <2>3 DEF Ask
  <2> QED
    BY <2>1, <2>2, <2>3, <2>4 DEF Changes, Shown, OneLoad
<1> HIDE DEF r
<1>2. LoadsGraph
  BY <1>1 DEF LoadsGraph, IsLoad
<1>3. IsBare(graph)' /\ graph'.design = design
  BY <1>1 DEF Dataflow, IsBare
<1>4. Covered'
  BY <1>3, BareIsGood DEF Covered
<1>5. ASSUME NEW w \in Slots, Writes(w)' PROVE FALSE
  <2>0. task'[w] = task[w]
    OBVIOUS
  <2>1. CASE Gets(w)' /\ \E k \in 1..Len(up') : InUp(w, k)' /\ IsStale(up[k].df)'
    <3>1. PICK k \in 1..Len(up') : InUp(w, k)' /\ IsStale(up[k].df)'
      BY <2>1
    <3>2. Reply(up'[k]) /\ up'[k].to = w
      BY <3>1 DEF InUp, Reply
    <3>3. Gets(w) /\ w # r.to
      BY <1>1, <2>0, <2>1 DEF Gets
    <3>4. Len(up') = Len(up) + 2 /\ Len(up) \in Nat /\ \A j \in 1..Len(up) : up'[j] = up[j]
      BY <1>1 DEF Grown
    <3>5. k \in 1..Len(up) \/ up'[k] = Said \/ up'[k] = Added
      BY <3>4 DEF Said, Added
    <3>6. k \in 1..Len(up)
      BY <1>1, <3>2, <3>3, <3>5 DEF IsEvent, Reply
    <3>7. up'[k] = up[k] /\ InUp(w, k)
      BY <3>2, <3>4, <3>6 DEF InUp
    <3>8. up[k].df.design # design
      BY <1>2, <3>3, <3>6, <3>7 DEF Unshown, Unseen, Hidden
    <3> QED
      BY <1>3, <3>1, <3>7, <3>8 DEF IsStale
  <2>2. CASE OnWalk(w)' /\ IsStale(task[w].df)'
    <3>1. OnWalk(w) /\ task[w].df.design = design
      BY <1>3, <2>0, <2>2 DEF OnWalk, IsStale
    <3> QED
      BY <1>2, <3>1 DEF Unshown, Unseen, Hidden
  <2> QED
    BY <1>5, <2>1, <2>2 DEF Writes
<1> QED
  BY <1>4, <1>5 DEF Mended

LEMMA MendedPage ==
    ASSUME Base, Once, OneLoad, Unshown, Turns, Mended, Covered, PageTable
    PROVE  Mended' /\ Covered'
<1>1. /\ Popped(down, down') /\ task' = task /\ design' = design /\ 1 \in 1..Len(down)
      /\ \/ Answers(down[1]) \/ Changes(down[1]) \/ Replaces(down[1])
         \/ Exposes(down[1]) \/ Fails(down[1])
  BY DEF PageTable, Popped
<1>2. down[1].op # "imported" /\ down[1].page \in 1..MaxPages /\ page \in {0, 1}
  BY <1>1 DEF Once, Base, Channels, DownOK
<1>3. ~Replaces(down[1])
  BY <1>2 DEF Replaces
<1>4. ~Fails(down[1])
  BY <1>2, Sessions DEF Fails
<1>5. Request(down[1])
  BY <1>2 DEF Request
<1> QED
  BY <1>1, <1>3, <1>4, <1>5, AnswersMended, ExposesMended, ChangesMended
-----------------------------------------------------------------------------
(***************************************************************************)
(* The steps of the user.                                                  *)
(***************************************************************************)
LEMMA EditsMended ==
    ASSUME Base, Mended, Covered, Edits
    PROVE  Mended' /\ Covered'
<1>1. /\ Grown(up, up', 1) /\ Said.type = "event" /\ Said.ev \in {"change", "connections", "nodes"}
      /\ graph'.design = graph.design /\ down' = down /\ task' = task /\ Told(graph', Said)
  BY DEF Edits
<1>2. /\ Len(up') \in Nat /\ Len(up) + 1 \in 1..Len(up') /\ up'[Len(up) + 1] = Said
      /\ \A k \in 1..Len(up) : k \in 1..Len(up') /\ up'[k] = up[k]
  BY <1>1 DEF Grown, Said
<1>3. CASE Said.ev = "connections"
  <2>1. Announced'
    BY <1>1, <1>2, <1>3 DEF Announced, IsEvent
  <2> QED
    BY <2>1 DEF Mended, Covered
<1>4. CASE Said.ev # "connections"
  <2>1. SameWiring
    BY <1>1, <1>4 DEF Told, SameWiring
  <2>2. \A j \in Slots : Unmoved(j, 0, 0)
    BY <1>1, UserUnmoved DEF Reply
  <2>3. Announced => Announced'
    BY <1>2 DEF Announced, IsEvent
  <2>4. \A n \in NodeSet : NodeAdded(n) => NodeAdded(n)'
    BY <1>2 DEF NodeAdded, IsEvent
  <2>5. ASSUME NEW n \in NodeSet, IsGood(n) PROVE IsGood(n)' \/ NodeAdded(n)'
    <3>1. CASE Said.ev = "nodes" /\ n \in Said.added
      BY <1>1, <1>2, <3>1 DEF NodeAdded, IsEvent
    <3>2. CASE ~(Said.ev = "nodes" /\ n \in Said.added)
      <4>1. graph'.shown[n] = graph.shown[n] /\ graph'.conn[n] = graph.conn[n]
        BY <1>1, <1>4, <3>2 DEF Told
      <4> QED
        BY <2>5, <4>1 DEF IsGood
    <3> QED
      BY <3>1, <3>2
  <2> DEFINE M == {}
  <2>6. /\ M \in SUBSET Slots
        /\ \A j \in Slots \ M : Unmoved(j, 0, 0)
        /\ \A j \in M : ~Mends(j) /\ ~Writes(j)' /\ \A n \in NodeSet : ~Covers(j, n)
    BY <2>2
  <2> HIDE DEF M
  <2>7. Mended'
    BY <2>1, <2>3, <2>6, MendedStays
  <2>8. Covered'
    BY <2>1, <2>3, <2>4, <2>5, <2>6, CoveredStays
  <2> QED
    BY <2>7, <2>8
<1> QED
  BY <1>3, <1>4

LEMMA LoadsMended ==
    ASSUME Base, Once, design \in Wired, Loads
    PROVE  Mended' /\ Covered'
<1>1. page = 0 /\ task' = task
  BY DEF Loads, Once
<1>2. \A i \in Slots : task'[i] = Free
  BY <1>1 DEF Once
<1>3. \A i \in Slots : ~Gets(i)' /\ ~OnWalk(i)'
  BY <1>2 DEF Gets, OnWalk, Free
<1>4. Mended'
  BY <1>3 DEF Mended, Writes
<1>5. IsBare(graph)'
  BY DEF Loads, Dataflow, IsBare
<1>6. Covered'
  BY <1>5, BareIsGood DEF Covered
<1> QED
  BY <1>4, <1>6
-----------------------------------------------------------------------------
(***************************************************************************)
(* The page is loaded once and nothing is imported.                        *)
(***************************************************************************)
Wire == design \in Wired /\ Once /\ OneLoad /\ Unshown /\ Turns

LEMMA WiredIsDesign == ASSUME design \in Wired PROVE design # None /\ design \in Designs
  BY Sessions

\* What the client sends and takes in such a session.
LEMMA WiredClient ==
    ASSUME Base, Wire, ClientTable
    PROVE  /\ Popped(up, up') /\ 1 \in 1..Len(up) /\ page = 1 /\ design' = design
           /\ down' = down \/ (Grown(down, down', 1) /\ Fresh.op # "imported")
           /\ up[1].type # "error" /\ ~IsEvent(up[1], "import")
           /\ \/ \E i \in Slots : StartsGet(i, up[1]) \/ StartsSpec(i, up[1])
              \/ \E i \in Slots : /\ up[1].to = i /\ Reply(up[1])
                                  /\ Walks(i, up[1]) \/ Stores(i, up[1]) \/ Sends(i, up[1])
                                        \/ Loaded(i, up[1])
                                  /\ UNCHANGED <<first, spec, design>>
              \/ Graphs(up[1]) \/ Refuses(up[1])
<1> DEFINE m == up[1]
<1>1. /\ Popped(up, up') /\ 1 \in 1..Len(up)
      /\ Begun(m) \/ Resumed(m.to, m) \/ Graphs(m) \/ Refuses(m)
  BY DEF ClientTable, Popped
<1>2. m.type # "error" /\ ~IsEvent(m, "import") /\ page = 1
  BY <1>1, EmptyChannel DEF Wire, Once, Base, Channels
<1>3. ASSUME NEW i \in Slots, Sent(i) PROVE Grown(down, down', 1) /\ Fresh.op # "imported"
  BY <1>3 DEF Sent, Ask
<1>4. CASE Begun(m)
  <2> PICK i \in Slots : \/ StartsGet(i, m) \/ StartsLoad(i, m) \/ StartsSpec(i, m)
                         \/ StartsFirst(i, m) \/ StartsImport(i, m)
    BY <1>4 DEF Begun
  <2>1. ~StartsLoad(i, m)
    <3> SUFFICES ASSUME StartsLoad(i, m) PROVE FALSE
      OBVIOUS
    <3>1. IsConnect(1)
      BY <1>1 DEF StartsLoad, Starts, IsConnect, IsEvent
    <3>2. Connecting
      BY <3>1 DEF Connecting, IsConnect
    <3> QED
      BY <3>2 DEF StartsLoad, Wire, OneLoad
  <2>2. ~StartsFirst(i, m)
    BY WiredIsDesign DEF StartsFirst, Wire
  <2>3. ~StartsImport(i, m)
    BY <1>2 DEF StartsImport, Starts, IsEvent
  <2>4. StartsGet(i, m) \/ StartsSpec(i, m)
    BY <2>1, <2>2, <2>3
  <2>5. Sent(i) /\ design' = design
    BY <2>4 DEF StartsGet, StartsSpec, Starts
  <2> QED
    BY <1>1, <1>2, <1>3, <2>4, <2>5
<1>5. CASE Resumed(m.to, m)
  <2> PICK i \in Slots : m.to = i
    BY <1>5 DEF Resumed
  <2>1. /\ Reply(m) /\ UNCHANGED <<first, spec, design>>
        /\ Walks(i, m) \/ Stores(i, m) \/ Sends(i, m) \/ Loaded(i, m)
    BY <1>2, <1>5 DEF Resumed, Breaks, Imports, Wire, Turns
  <2>2. down' = down \/ (Grown(down, down', 1) /\ Fresh.op # "imported")
    BY <1>3, <2>1 DEF Walks, Stores, Sends, Loaded
  <2> QED
    BY <1>1, <1>2, <2>1, <2>2
<1>6. CASE Graphs(m) \/ Refuses(m)
  BY <1>1, <1>2, <1>6 DEF Graphs, Refuses
<1> QED
  BY <1>1, <1>4, <1>5, <1>6

LEMMA WiredPage ==
    ASSUME Base, Wire, PageTable
    PROVE  /\ Popped(down, down') /\ page = 1 /\ UNCHANGED <<page, first, spec, design, task>>
           /\ Request(down[1]) /\ InDown(down[1].to, 1) /\ down[1].to \in Slots
           /\ Answers(down[1]) \/ Changes(down[1]) \/ Exposes(down[1])
<1>1. /\ Popped(down, down') /\ UNCHANGED <<page, first, spec, design, task>>
      /\ 1 \in 1..Len(down)
      /\ \/ Answers(down[1]) \/ Changes(down[1]) \/ Replaces(down[1])
         \/ Exposes(down[1]) \/ Fails(down[1])
  BY DEF PageTable, Popped
<1>2. /\ down[1].op # "imported" /\ down[1].page \in 1..MaxPages /\ down[1].to \in Slots
      /\ page = 1
  BY <1>1, EmptyChannel DEF Wire, Once, Base, Channels, DownOK
<1>3. ~Replaces(down[1])
  BY <1>2 DEF Replaces
<1>4. ~Fails(down[1])
  BY <1>2, Sessions DEF Fails
<1>5. Request(down[1]) /\ InDown(down[1].to, 1)
  BY <1>1, <1>2 DEF Request, InDown
<1> QED
  BY <1>1, <1>2, <1>3, <1>4, <1>5

LEMMA OnceClient == ASSUME Base, Wire, ClientTable PROVE Once'
<1>1. /\ Popped(up, up') /\ page = 1
      /\ down' = down \/ (Grown(down, down', 1) /\ Fresh.op # "imported")
  BY WiredClient
<1>2. page' = page
  BY DEF ClientTable
<1>3. \A k \in 1..Len(up') : k + 1 \in 1..Len(up) /\ up'[k] = up[k + 1]
  BY <1>1 DEF Popped
<1>4. \A k \in 1..Len(up') : up'[k].type # "error" /\ ~IsEvent(up'[k], "import")
  BY <1>3 DEF Wire, Once
<1>5. \A k \in 1..Len(down') : down'[k].op # "imported"
  <2>1. CASE down' = down
    BY <2>1 DEF Wire, Once
  <2>2. CASE Grown(down, down', 1) /\ Fresh.op # "imported"
    <3>1. \A k \in 1..Len(down') : (k \in 1..Len(down) /\ down'[k] = down[k]) \/ down'[k] = Fresh
      BY <2>2 DEF Grown, Fresh
    <3> QED
      BY <2>2, <3>1 DEF Wire, Once
  <2> QED
    BY <1>1, <2>1, <2>2
<1> QED
  BY <1>1, <1>2, <1>4, <1>5 DEF Once, IsEvent

LEMMA OncePage == ASSUME Base, Wire, PageTable PROVE Once'
<1>1. /\ Popped(down, down') /\ page = 1 /\ UNCHANGED page
      /\ Answers(down[1]) \/ Changes(down[1]) \/ Exposes(down[1])
  BY WiredPage
<1>2. \A k \in 1..Len(down') : k + 1 \in 1..Len(down) /\ down'[k] = down[k + 1]
  BY <1>1 DEF Popped
<1>3. \A k \in 1..Len(down') : down'[k].op # "imported"
  BY <1>2 DEF Wire, Once
<1>4. ASSUME NEW k \in 1..Len(up') PROVE up'[k].type # "error" /\ ~IsEvent(up'[k], "import")
  <2>1. \/ k \in 1..Len(up) /\ up'[k] = up[k]
        \/ k = Len(up) + 1 /\ up'[k] = Said
        \/ k = Len(up) + 2 /\ up'[k] = Added /\ ~Answers(down[1])
    BY <1>1 DEF Answers, Changes, Exposes, Grown, Said, Added
  <2>2. CASE k \in 1..Len(up) /\ up'[k] = up[k]
    BY <2>2 DEF Wire, Once
  <2>3. CASE k = Len(up) + 1 /\ up'[k] = Said
    BY <1>1, <2>3 DEF Answers, Changes, Exposes, IsEvent
  <2>4. CASE k = Len(up) + 2 /\ up'[k] = Added /\ ~Answers(down[1])
    BY <1>1, <2>4 DEF Changes, Exposes, IsEvent
  <2> QED
    BY <2>1, <2>2, <2>3, <2>4
<1> QED
  BY <1>1, <1>3, <1>4 DEF Once, IsEvent

LEMMA OnceUser == ASSUME Base, Wire, Edits \/ Loads PROVE Once'
<1>1. /\ Grown(up, up', 1) /\ down' = down /\ task' = task /\ first' = first
      /\ Said.type = "event" /\ Said.ev # "import"
  BY DEF Edits, Loads, IsEvent
<1>2. page' = 1
  BY DEF Edits, Loads, Wire, Once
<1>3. \A k \in 1..Len(up') : (k \in 1..Len(up) /\ up'[k] = up[k]) \/ up'[k] = Said
  BY <1>1 DEF Grown, Said
<1>4. \A k \in 1..Len(up') : up'[k].type # "error" /\ ~IsEvent(up'[k], "import")
  BY <1>1, <1>3 DEF Wire, Once, IsEvent
<1> QED
  BY <1>1, <1>2, <1>4 DEF Once, Wire, IsEvent
-----------------------------------------------------------------------------
(***************************************************************************)
(* The page gets the dataflow of the design once.                          *)
(***************************************************************************)
\* What becomes of connections and of requests to load when the client takes a message.
LEMMA LoadsShift ==
    ASSUME Base, Popped(up, up'), down' = down \/ Grown(down, down', 1)
    PROVE  /\ \A k \in 1..Len(up') : IsConnect(k)' => IsConnect(k + 1)
           /\ Connecting' => Connecting
           /\ \A k \in 1..Len(down') : IsLoad(k)' =>
                 \/ IsLoad(k) /\ down'[k] = down[k]
                 \/ k = Len(down) + 1 /\ down'[k] = Fresh /\ Fresh.op = "graph_change" /\ down' # down
<1>1. \A k \in 1..Len(up') : k + 1 \in 1..Len(up) /\ up'[k] = up[k + 1]
  BY DEF Popped
<1>2. ASSUME NEW k \in 1..Len(up'), IsConnect(k)' PROVE IsConnect(k + 1)
  BY <1>1, <1>2 DEF IsConnect, IsEvent
<1>3. Connecting' => Connecting
  BY <1>1, <1>2 DEF Connecting, IsConnect
<1>4. ASSUME NEW k \in 1..Len(down'), IsLoad(k)'
      PROVE  \/ IsLoad(k) /\ down'[k] = down[k]
             \/ k = Len(down) + 1 /\ down'[k] = Fresh /\ Fresh.op = "graph_change" /\ down' # down
  <2>1. CASE down' = down
    BY <1>4, <2>1 DEF IsLoad
  <2>2. CASE Grown(down, down', 1)
    BY <1>4, <2>2 DEF IsLoad, Grown, Fresh
  <2> QED
    BY <2>1, <2>2
<1> QED
  BY <1>2, <1>3, <1>4

\* Steps in which the client neither asks for the specification nor sends a dataflow.
LEMMA LoadRests ==
    ASSUME Base, OneLoad, Popped(up, up'), design' = design, first' = first,
           \A j \in Slots : task'[j].at = "spec" => task'[j] = task[j],
           down' = down \/ (Grown(down, down', 1) /\ Fresh.op # "graph_change")
    PROVE  OneLoad' /\ (Specifies' => Specifies) /\ (LoadsGraph' => LoadsGraph)
                    /\ (Connecting' => Connecting)
<1>1. /\ \A k \in 1..Len(up') : IsConnect(k)' => IsConnect(k + 1)
      /\ Connecting' => Connecting
  BY LoadsShift
<1>2. \A k \in 1..Len(down') : IsLoad(k)' => IsLoad(k) /\ down'[k] = down[k]
  BY LoadsShift
<1>3. Specifies' => Specifies
  BY DEF Specifies
<1>4. LoadsGraph' => LoadsGraph
  BY <1>2 DEF LoadsGraph, IsLoad
<1>5. ASSUME NEW j \in 1..Len(up'), NEW k \in 1..Len(up'), IsConnect(j)', IsConnect(k)' PROVE j = k
  <2>1. IsConnect(j + 1) /\ IsConnect(k + 1) /\ Len(up') \in Nat
    BY <1>1, <1>5 DEF Popped
  <2>2. j + 1 = k + 1
    BY <2>1 DEF OneLoad, IsConnect
  <2> QED
    BY <2>1, <2>2
<1>6. ASSUME NEW j \in 1..Len(down'), NEW k \in 1..Len(down'), IsLoad(j)', IsLoad(k)' PROVE j = k
  BY <1>2, <1>6 DEF OneLoad, IsLoad
<1>7. \A k \in 1..Len(down') : IsLoad(k)' => down'[k].df = Dataflow(design, 0)
  BY <1>2 DEF OneLoad, IsLoad
<1>8. \A i, j \in Slots : task'[i].at = "spec" /\ task'[j].at = "spec" => i = j
  BY DEF OneLoad
<1>9. \A i \in Slots : task'[i].at = "spec" => task'[i].design = design
  BY DEF OneLoad
<1>10. Dataflow(design, 0)' = Dataflow(design, 0)
  BY DEF Dataflow
<1>11. /\ ~(Connecting' /\ Specifies') /\ ~(Connecting' /\ LoadsGraph') /\ ~(Specifies' /\ LoadsGraph')
       /\ Connecting' => first'
  BY <1>1, <1>3, <1>4 DEF OneLoad
<1> QED
  BY <1>1, <1>3, <1>4, <1>5, <1>6, <1>7, <1>8, <1>9, <1>10, <1>11 DEF OneLoad

\* The client takes the connection and asks for the specification.
LEMMA LoadSpecifies ==
    ASSUME Base, OneLoad, Popped(up, up'), NEW i \in Slots, StartsSpec(i, up[1])
    PROVE  OneLoad' /\ Connecting /\ ~Connecting' /\ ~LoadsGraph'
<1>1. /\ up[1].type = "event" /\ up[1].ev = "connect" /\ Grown(down, down', 1)
      /\ Fresh.op = "specification_change"
      /\ task'[i].at = "spec" /\ task'[i].design = design /\ design' = design
      /\ \A j \in Slots : j # i => task'[j] = task[j]
  BY DEF StartsSpec, Starts, Sent, Ask, Others
<1>2. IsConnect(1) /\ Connecting
  BY <1>1 DEF Popped, IsConnect, IsEvent, Connecting
<1>3. ~Specifies /\ ~LoadsGraph
  BY <1>2 DEF OneLoad
<1>4. ~LoadsGraph'
  BY <1>1, <1>3, LoadsShift DEF LoadsGraph, IsLoad
<1>5. ASSUME Connecting' PROVE FALSE
  <2> PICK k \in 1..Len(up') : IsConnect(k)'
    BY <1>5 DEF Connecting
  <2>1. IsConnect(k + 1) /\ k + 1 # 1 /\ k + 1 \in 1..Len(up) /\ 1 \in 1..Len(up)
    BY <1>1, LoadsShift DEF Popped
  <2> QED
    BY <1>2, <2>1 DEF OneLoad
<1>6. \A j \in Slots : task'[j].at = "spec" => j = i
  BY <1>1, <1>3 DEF Specifies
<1>7. \A k \in 1..Len(up') : ~IsConnect(k)'
  BY <1>5 DEF Connecting
<1>8. \A k \in 1..Len(down') : ~IsLoad(k)'
  BY <1>4 DEF LoadsGraph
<1>9. OneLoad'
  BY <1>1, <1>4, <1>5, <1>6, <1>7, <1>8 DEF OneLoad
<1> QED
  BY <1>2, <1>4, <1>5, <1>9

\* The client has the answer and sends the dataflow of the design.
LEMMA LoadSends ==
    ASSUME Base, OneLoad, Popped(up, up'), NEW i \in Slots, Sends(i, up[1]),
           design' = design, first' = first
    PROVE  OneLoad' /\ Specifies /\ ~Connecting' /\ ~Specifies'
<1>1. /\ Grown(down, down', 1) /\ Fresh.df = Dataflow(task[i].design, 0)
      /\ task[i].at = "spec" /\ task'[i].at = "load"
      /\ \A j \in Slots : j # i => task'[j] = task[j]
  BY DEF Sends, Sent, Others
<1>2. Specifies /\ ~Connecting /\ ~LoadsGraph /\ task[i].design = design
  BY <1>1 DEF OneLoad, Specifies
<1>3. ~Connecting'
  BY <1>1, <1>2, LoadsShift
<1>4. ASSUME NEW j \in Slots, task'[j].at = "spec" PROVE FALSE
  <2>1. j # i
    BY <1>1, <1>4
  <2>2. task[j].at = "spec"
    BY <1>1, <1>4, <2>1
  <2> QED
    BY <1>1, <2>1, <2>2 DEF OneLoad
<1>5. ~Specifies'
  BY <1>4 DEF Specifies
<1>6. \A k \in 1..Len(down') : IsLoad(k)' => k = Len(down) + 1 /\ down'[k] = Fresh
  BY <1>1, <1>2, LoadsShift DEF LoadsGraph, IsLoad
<1>7. \A k \in 1..Len(up') : ~IsConnect(k)'
  BY <1>3 DEF Connecting
<1>8. Dataflow(design, 0)' = Fresh.df
  BY <1>1, <1>2 DEF Dataflow
<1>9. OneLoad'
  BY <1>3, <1>4, <1>5, <1>6, <1>7, <1>8 DEF OneLoad
<1> QED
  BY <1>2, <1>3, <1>5, <1>9

LEMMA HiddenStays ==
    ASSUME Hidden, design' = design, graph'.design = graph.design, Popped(up, up'),
           \A j \in Slots : \/ task'[j] = task[j]
                            \/ /\ OnWalk(j)' => task'[j].df.design # design
                               /\ Gets(j)' => ~Answered(j)'
    PROVE  Hidden'
<1>1. ASSUME NEW j \in Slots, OnWalk(j)' PROVE task'[j].df.design # design
  BY <1>1 DEF Hidden, OnWalk
<1>2. ASSUME NEW j \in Slots, NEW k \in 1..Len(up'), InUp(j, k)', Gets(j)'
      PROVE  up'[k].df.design # design
  <2>1. task'[j] = task[j]
    BY <1>2 DEF Answered
  <2>2. Gets(j)
    BY <1>2, <2>1 DEF Gets
  <2>3. up'[k] = up[k + 1] /\ k + 1 \in 1..Len(up)
    BY DEF Popped
  <2>4. InUp(j, k + 1)
    BY <1>2, <2>3 DEF InUp, Reply
  <2> QED
    BY <2>2, <2>3, <2>4 DEF Hidden
<1> QED
  BY <1>1, <1>2 DEF Hidden

LEMMA LoadClient ==
    ASSUME Base, Named = NodeSet, Wire, ClientTable
    PROVE  OneLoad' /\ Unshown'
<1> DEFINE m == up[1]
<1>1. /\ Popped(up, up') /\ 1 \in 1..Len(up) /\ page = 1 /\ design' = design
      /\ page' = page /\ graph' = graph
  BY WiredClient DEF ClientTable
<1>2. \/ \E i \in Slots : StartsGet(i, m) \/ StartsSpec(i, m)
      \/ \E i \in Slots : /\ m.to = i /\ Reply(m)
                          /\ Walks(i, m) \/ Stores(i, m) \/ Sends(i, m) \/ Loaded(i, m)
                          /\ UNCHANGED <<first, spec, design>>
      \/ Graphs(m) \/ Refuses(m)
  BY WiredClient
<1>3. OneLoad' /\ (Unseen' => Unseen) /\ (Hidden => Hidden')
  <2>1. OneLoad /\ Turns
    BY DEF Wire
  <2>2. ASSUME \A j \in Slots : task'[j].at = "spec" => task'[j] = task[j], first' = first,
               down' = down \/ (Grown(down, down', 1) /\ Fresh.op # "graph_change")
        PROVE  OneLoad' /\ (Unseen' => Unseen)
    BY <1>1, <2>1, <2>2, LoadRests DEF Unseen
  <2>3. ASSUME NEW i \in Slots, Others(i), OnWalk(i)' => task'[i].df.design # design,
               Gets(i)' => ~Answered(i)', Hidden
        PROVE  Hidden'
    <3>1. \A j \in Slots : \/ task'[j] = task[j]
                           \/ /\ OnWalk(j)' => task'[j].df.design # design
                              /\ Gets(j)' => ~Answered(j)'
      BY <2>3 DEF Others
    <3> QED
      BY <1>1, <2>3, <3>1, HiddenStays
  <2> HIDE DEF m
  <2>4. CASE \E i \in Slots : StartsGet(i, m)
    <3> PICK i \in Slots : StartsGet(i, m)
      BY <2>4
    <3>1. Sent(i) /\ Others(i) /\ task[i] = Free /\ task'[i].at = "get" /\ m.type = "event" /\ first' = first
      BY DEF StartsGet, Starts, Sent
    <3>2. Grown(down, down', 1) /\ Fresh.op # "graph_change"
      BY <3>1 DEF Sent, Ask
    <3>3. ~Answered(i)' /\ ~OnWalk(i)'
      BY <1>1, <3>1, ClientMoved DEF m, OnWalk
    <3>4. \A j \in Slots : task'[j].at = "spec" => task'[j] = task[j]
      BY <3>1 DEF Others
    <3> QED
      BY <1>1, <2>2, <2>3, <3>1, <3>2, <3>3, <3>4
  <2>5. CASE \E i \in Slots : StartsSpec(i, m)
    <3> PICK i \in Slots : StartsSpec(i, m)
      BY <2>5
    <3>1. OneLoad' /\ Connecting
      BY <1>1, <2>1, LoadSpecifies DEF m
    <3>2. Others(i) /\ task'[i].at = "spec"
      BY DEF StartsSpec, Starts, Sent
    <3>3. ~OnWalk(i)' /\ ~Gets(i)'
      BY <3>2 DEF OnWalk, Gets
    <3> QED
      BY <2>3, <3>1, <3>2, <3>3 DEF Unseen
  <2>6. CASE \E i \in Slots : m.to = i /\ Reply(m) /\ Walks(i, m) /\ first' = first
    <3> PICK i \in Slots : m.to = i /\ Reply(m) /\ Walks(i, m) /\ first' = first
      BY <2>6
    <3>1. /\ InUp(i, 1) /\ (Gets(i) \/ OnWalk(i)) /\ ~Gets(i)'
          /\ OnWalk(i)' => task'[i].df = WalkDf(i, m)
      BY <1>1, <2>1, TurnTaken DEF m
    <3>2. ASSUME Hidden, OnWalk(i)' PROVE task'[i].df.design # design
      BY <1>1, <3>1, <3>2 DEF Hidden, WalkDf, Gets, OnWalk, m
    <3>3. Sent(i) /\ Others(i) /\ task'[i].at \in {"reget", "skip", "named", "expose"}
      BY DEF Walks, Sent
    <3>4. Grown(down, down', 1) /\ Fresh.op # "graph_change"
      BY <3>3 DEF Sent, Ask
    <3>5. \A j \in Slots : task'[j].at = "spec" => task'[j] = task[j]
      BY <3>3 DEF Others
    <3>6. Hidden => Hidden'
      BY <2>3, <3>1, <3>2, <3>3
    <3> QED
      BY <1>1, <2>2, <3>3, <3>4, <3>5, <3>6
  <2>7. CASE \E i \in Slots : (Stores(i, m) \/ Loaded(i, m)) /\ first' = first
    <3> PICK i \in Slots : (Stores(i, m) \/ Loaded(i, m)) /\ first' = first
      BY <2>7
    <3>1. Others(i) /\ task'[i] = Free /\ down' = down
      BY DEF Stores, Loaded, Freed
    <3>2. ~OnWalk(i)' /\ ~Gets(i)'
      BY <3>1 DEF OnWalk, Gets, Free
    <3>3. \A j \in Slots : task'[j].at = "spec" => task'[j] = task[j]
      BY <3>1 DEF Others, Free
    <3> QED
      BY <2>2, <2>3, <3>1, <3>2, <3>3
  <2>8. CASE \E i \in Slots : Sends(i, m) /\ first' = first
    <3> PICK i \in Slots : Sends(i, m) /\ first' = first
      BY <2>8
    <3>1. OneLoad' /\ Specifies
      BY <1>1, <2>1, LoadSends DEF m
    <3>2. Others(i) /\ task'[i].at = "load"
      BY DEF Sends, Sent
    <3>3. ~OnWalk(i)' /\ ~Gets(i)'
      BY <3>2 DEF OnWalk, Gets
    <3> QED
      BY <2>3, <3>1, <3>2, <3>3 DEF Unseen
  <2>9. CASE Graphs(m) \/ Refuses(m)
    <3>1. task' = task /\ down' = down /\ first' = first
      BY <2>9 DEF Graphs, Refuses
    <3>2. \A j \in Slots : task'[j] = task[j]
      BY <3>1
    <3>3. Hidden => Hidden'
      BY <1>1, <3>2, HiddenStays
    <3> QED
      BY <2>2, <3>1, <3>2, <3>3
  <2> QED
    BY <1>2, <2>4, <2>5, <2>6, <2>7, <2>8, <2>9
<1> QED
  BY <1>3 DEF Unshown, Wire

LEMMA LoadPage == ASSUME Base, Wire, PageTable PROVE OneLoad' /\ Unshown'
<1> DEFINE r == down[1]
<1>1. /\ Popped(down, down') /\ page = 1 /\ UNCHANGED <<page, first, spec, design, task>>
      /\ InDown(r.to, 1) /\ r.to \in Slots
      /\ Answers(r) \/ Changes(r) \/ Exposes(r)
  BY WiredPage
<1> HIDE DEF r
<1>2. OneLoad /\ Unshown /\ task' = task /\ design' = design
  BY <1>1 DEF Wire
<1>3. Len(up) \in Nat /\ \A k \in 1..Len(up) : up'[k] = up[k]
  BY <1>1 DEF Answers, Changes, Exposes, Grown
<1>4. ASSUME NEW k \in 1..Len(up')
      PROVE  \/ k \in 1..Len(up) /\ up'[k] = up[k]
             \/ k = Len(up) + 1 /\ up'[k] = Said
             \/ k = Len(up) + 2 /\ up'[k] = Added /\ ~Answers(r)
  BY <1>1 DEF Answers, Changes, Exposes, Grown, Said, Added
<1>5. ASSUME NEW k \in 1..Len(up'), IsConnect(k)' PROVE IsConnect(k)
  <2>1. CASE k \in 1..Len(up) /\ up'[k] = up[k]
    BY <1>5, <2>1 DEF IsConnect, IsEvent
  <2>2. CASE up'[k] = Said
    BY <1>1, <1>5, <2>2 DEF Answers, Changes, Exposes, IsConnect, IsEvent
  <2>3. CASE up'[k] = Added /\ ~Answers(r)
    BY <1>1, <1>5, <2>3 DEF Changes, Exposes, IsConnect, IsEvent
  <2> QED
    BY <1>4, <2>1, <2>2, <2>3
<1>6. \A k \in 1..Len(down') : /\ k + 1 \in 1..Len(down) /\ down'[k] = down[k + 1]
                               /\ IsLoad(k)' => IsLoad(k + 1)
  BY <1>1 DEF Popped, IsLoad
<1>7. Connecting' => Connecting
  BY <1>5 DEF Connecting, IsConnect
<1>8. (Specifies' <=> Specifies) /\ (LoadsGraph' => LoadsGraph)
  BY <1>2, <1>6 DEF Specifies, LoadsGraph, IsLoad
<1>9. OneLoad'
  <2>1. ASSUME NEW j \in 1..Len(up'), NEW k \in 1..Len(up'), IsConnect(j)', IsConnect(k)' PROVE j = k
    BY <1>2, <1>5, <2>1 DEF OneLoad, IsConnect
  <2>2. ASSUME NEW j \in 1..Len(down'), NEW k \in 1..Len(down'), IsLoad(j)', IsLoad(k)' PROVE j = k
    <3>1. j + 1 = k + 1
      BY <1>2, <1>6, <2>2 DEF OneLoad
    <3> QED
      BY <1>1, <3>1 DEF Popped
  <2>3. Dataflow(design, 0)' = Dataflow(design, 0)
    BY <1>2 DEF Dataflow
  <2>4. \A k \in 1..Len(down') : IsLoad(k)' => down'[k].df = Dataflow(design, 0)
    BY <1>2, <1>6 DEF OneLoad
  <2>5. \A i, j \in Slots : task'[i].at = "spec" /\ task'[j].at = "spec" => i = j
    BY <1>2 DEF OneLoad
  <2>6. \A i \in Slots : task'[i].at = "spec" => task'[i].design = design
    BY <1>2 DEF OneLoad
  <2>7. /\ ~(Connecting' /\ Specifies') /\ ~(Connecting' /\ LoadsGraph') /\ ~(Specifies' /\ LoadsGraph')
        /\ Connecting' => first'
    BY <1>1, <1>2, <1>7, <1>8 DEF OneLoad
  <2> QED
    BY <1>2, <2>1, <2>2, <2>3, <2>4, <2>5, <2>6, <2>7 DEF OneLoad
<1>10. CASE Changes(r)
  <2>1. IsLoad(1) /\ LoadsGraph
    BY <1>1, <1>10 DEF Changes, InDown, IsLoad, LoadsGraph, r
  <2>2. ASSUME NEW k \in 1..Len(down'), IsLoad(k)' PROVE FALSE
    <3>1. k + 1 = 1
      BY <1>2, <1>6, <2>1, <2>2 DEF OneLoad, IsLoad
    <3> QED
      BY <3>1
  <2>3. ~Unseen'
    BY <1>1, <1>2, <1>7, <1>8, <2>1, <2>2 DEF Unseen, OneLoad, LoadsGraph
  <2> QED
    BY <1>9, <2>3 DEF Unshown
<1>11. CASE Answers(r) \/ Exposes(r)
  <2>1. Unseen' => Unseen
    BY <1>1, <1>7, <1>8 DEF Unseen
  <2>2. ASSUME Hidden PROVE Hidden'
    <3>1. graph'.design = graph.design
      <4>1. CASE Answers(r)
        BY <4>1 DEF Answers
      <4>2. CASE Exposes(r)
        <5>1. graph \in Dataflows
          BY DEF Base, TypeOK
        <5> QED
          BY <4>2, <5>1 DEF Exposes, Shown, Dataflows
      <4> QED
        BY <1>11, <4>1, <4>2
    <3>2. ASSUME NEW i \in Slots, NEW k \in 1..Len(up'), InUp(i, k)', Gets(i)'
          PROVE  up'[k].df.design # design
      <4>0. Gets(i) /\ Reply(up'[k]) /\ up'[k].to = i
        BY <1>2, <3>2 DEF Gets, InUp, Reply
      <4>1. CASE k \in 1..Len(up) /\ up'[k] = up[k]
        BY <2>2, <4>0, <4>1 DEF Hidden, InUp
      <4>2. CASE up'[k] = Said
        <5>1. Answers(r) /\ r.to = i
          BY <1>11, <4>0, <4>2 DEF Answers, Exposes, IsEvent, Reply
        <5>2. r.op = Ask(task[i].at)
          BY <1>1, <5>1, TakenAsk DEF r
        <5>3. up'[k].df = graph
          BY <4>0, <4>2, <5>1, <5>2 DEF Answers, Ask, Gets
        <5> QED
          BY <2>2, <5>3 DEF Hidden
      <4>3. CASE up'[k] = Added /\ ~Answers(r)
        <5>1. r.op = "interfaces_change" /\ r.to = i
          BY <1>11, <4>0, <4>3 DEF Exposes
        <5>2. r.op = Ask(task[i].at)
          BY <1>1, <5>1, TakenAsk DEF r
        <5> QED
          BY <4>0, <5>1, <5>2 DEF Ask, Gets
      <4> QED
        BY <1>4, <4>1, <4>2, <4>3
    <3>3. \A i \in Slots : OnWalk(i)' => task'[i].df.design # design
      BY <1>2, <2>2 DEF Hidden, OnWalk
    <3> QED
      BY <1>2, <2>2, <3>1, <3>2, <3>3 DEF Hidden
  <2> QED
    BY <1>2, <1>9, <2>1, <2>2 DEF Unshown
<1> QED
  BY <1>1, <1>10, <1>11

LEMMA LoadUser == ASSUME Base, Wire, Edits \/ Loads PROVE OneLoad' /\ Unshown'
<1>1. /\ Grown(up, up', 1) /\ down' = down /\ task' = task /\ design' = design /\ first' = first
      /\ Said.type = "event" /\ OneLoad /\ Unshown /\ design # None
  BY WiredIsDesign DEF Edits, Loads, IsEvent, Wire
<1>2. /\ Len(up) \in Nat /\ Len(up') = Len(up) + 1
      /\ \A k \in 1..Len(up') : \/ k \in 1..Len(up) /\ up'[k] = up[k]
                                \/ k = Len(up) + 1 /\ up'[k] = Said
  BY <1>1 DEF Grown, Said
<1>3. Dataflow(design, 0)' = Dataflow(design, 0)
  BY <1>1 DEF Dataflow
<1>4. /\ \A k \in 1..Len(down') : IsLoad(k)' <=> IsLoad(k)
      /\ (Specifies' <=> Specifies) /\ (LoadsGraph' <=> LoadsGraph)
  BY <1>1 DEF IsLoad, Specifies, LoadsGraph
<1>5. CASE Edits
  <2>1. \A k \in 1..Len(up') : IsConnect(k)' => IsConnect(k)
    BY <1>2, <1>5 DEF Edits, IsConnect, IsEvent
  <2>2. Connecting' => Connecting
    BY <2>1 DEF Connecting, IsConnect
  <2>3. OneLoad'
    <3>1. \A j \in 1..Len(up'), k \in 1..Len(up') : IsConnect(j)' /\ IsConnect(k)' => j = k
      BY <1>1, <2>1 DEF OneLoad, IsConnect
    <3> QED
      BY <1>1, <1>3, <1>4, <2>2, <3>1 DEF OneLoad
  <2>4. Unseen' => Unseen
    BY <1>4, <1>5, <2>2 DEF Unseen, Edits
  <2>5. Hidden => Hidden'
    <3>1. \A i \in Slots, k \in 1..Len(up') : InUp(i, k)' => InUp(i, k) /\ up'[k] = up[k]
      BY <1>1, <1>2 DEF InUp, Reply
    <3>2. \A i \in Slots, k \in 1..Len(up') : InUp(i, k)' => k \in 1..Len(up)
      BY <3>1 DEF InUp
    <3> QED
      BY <1>1, <1>5, <3>1, <3>2 DEF Hidden, Edits, OnWalk, Gets
  <2> QED
    BY <1>1, <2>3, <2>4, <2>5 DEF Unshown
<1>6. CASE Loads
  <2>1. page = 0 /\ first /\ \A i \in Slots : task[i] = Free
    BY <1>6 DEF Loads, Wire, Once
  <2>2. up = <<>> /\ down = <<>>
    BY <2>1 DEF Base, Channels
  <2>3. Len(up) = 0 /\ Len(down) = 0
    BY <2>2, EmptyChannel
  <2>4. \A i \in Slots : task'[i].at = "free"
    BY <1>1, <2>1 DEF Free
  <2>5. ~Specifies' /\ ~LoadsGraph'
    BY <1>1, <2>3, <2>4 DEF Specifies, LoadsGraph
  <2>6. OneLoad'
    BY <1>1, <1>2, <2>1, <2>3, <2>4, <2>5 DEF OneLoad, IsConnect, IsLoad
  <2>7. Hidden'
    BY <1>1, <1>6, <2>4 DEF Hidden, OnWalk, Gets, Loads, Dataflow
  <2> QED
    BY <2>6, <2>7 DEF Unshown
<1> QED
  BY <1>5, <1>6
-----------------------------------------------------------------------------
(***************************************************************************)
(* The coroutines of a walk and what they have asked for.                  *)
(***************************************************************************)
\* What Turns says of one coroutine.
TurnsOf(i) ==
    /\ task[i].at \notin {"named", "first", "import"}
    /\ Gets(i) => task[i].diff \subseteq NodeSet
    /\ OnWalk(i) =>
          /\ task[i].df \in Dataflows
          /\ task[i].left # {} /\ task[i].left \subseteq 1..Len(Nodes)
          /\ task[i].at = "skip" =>
                Cardinality(task[i].df.conn[Nodes[First(task[i].left)]]) > 1
    /\ \A k \in 1..Len(down) : InDown(i, k) /\ task[i].at = "expose" =>
          LET n == Nodes[First(task[i].left)]
          IN  /\ down[k].node = n /\ down[k].design = task[i].df.design
              /\ down[k].shown = Opposites(task[i].df.conn[n])

LEMMA TurnsIsAll == Turns <=> /\ \A k \in 1..Len(up) : IsEvent(up[k], "nodes") => up[k].added \subseteq NodeSet
                              /\ \A i \in Slots : TurnsOf(i)
  BY DEF Turns, TurnsOf

LEMMA TurnsNext ==
    ASSUME \A k \in 1..Len(up') : IsEvent(up[k], "nodes")' => up'[k].added \subseteq NodeSet,
           \A i \in Slots : TurnsOf(i)'
    PROVE  Turns'
  BY DEF Turns, TurnsOf

\* A coroutine left alone, whose requests are still the same.
LEMMA TurnStays ==
    ASSUME NEW j \in Slots, TurnsOf(j), task'[j] = task[j],
           \A k \in 1..Len(down') : InDown(j, k)' =>
              \E l \in 1..Len(down) : InDown(j, l) /\ down'[k] = down[l]
    PROVE  TurnsOf(j)'
<1>1. ASSUME NEW k \in 1..Len(down'), InDown(j, k)', task'[j].at = "expose"
      PROVE  LET n == Nodes[First(task'[j].left)]
             IN  /\ down'[k].node = n /\ down'[k].design = task'[j].df.design
                 /\ down'[k].shown = Opposites(task'[j].df.conn[n])
  <2> PICK l \in 1..Len(down) : InDown(j, l) /\ down'[k] = down[l]
    BY <1>1
  <2> QED
    BY <1>1 DEF TurnsOf
<1> QED
  BY <1>1 DEF TurnsOf, Gets, OnWalk, Opposites, Opposite

LEMMA TurnsClient ==
    ASSUME Base, Named = NodeSet, Wire, ClientTable
    PROVE  Turns'
<1> DEFINE m == up[1]
<1>1. Popped(up, up') /\ 1 \in 1..Len(up)
  BY WiredClient
<1>2. \/ \E i \in Slots : StartsGet(i, m) \/ StartsSpec(i, m)
      \/ \E i \in Slots : /\ m.to = i /\ Reply(m)
                          /\ Walks(i, m) \/ Stores(i, m) \/ Sends(i, m) \/ Loaded(i, m)
      \/ Graphs(m) \/ Refuses(m)
  BY WiredClient
<1>3. Turns /\ (\A j \in Slots : TurnsOf(j))
      /\ \A k \in 1..Len(up) : IsEvent(up[k], "nodes") => up[k].added \subseteq NodeSet
  BY TurnsIsAll DEF Wire
<1>4. \A k \in 1..Len(up') : IsEvent(up[k], "nodes")' => up'[k].added \subseteq NodeSet
  BY <1>1, <1>3 DEF Popped, IsEvent
<1>5. ASSUME NEW j \in Slots, Unmoved(j, 1, 0), down' = down \/ Grown(down, down', 1)
      PROVE  TurnsOf(j)'
  <2>1. \A k \in 1..Len(down') : InDown(j, k)' => InDown(j, k + 0)
    BY <1>5 DEF Unmoved
  <2>2. \A k \in 1..Len(down') : InDown(j, k)' => k \in 1..Len(down) /\ InDown(j, k)
    BY <2>1 DEF InDown
  <2>3. \A k \in 1..Len(down') : InDown(j, k)' => down'[k] = down[k]
    BY <1>5, <2>2 DEF Grown
  <2>4. task'[j] = task[j]
    BY <1>5 DEF Unmoved
  <2> QED
    BY <1>3, <2>2, <2>3, <2>4, TurnStays
<1> HIDE DEF m
<1>6. ASSUME NEW i \in Slots, Others(i), TurnsOf(i)',
             down' = down \/ (Grown(down, down', 1) /\ (Fresh.op = "imported" \/ Fresh.to = i))
      PROVE  Turns'
  <2>1. \A j \in Slots \ {i} : Unmoved(j, 1, 0)
    BY <1>1, <1>6, OthersUnmoved
  <2>2. \A j \in Slots : TurnsOf(j)'
    BY <1>5, <1>6, <2>1
  <2> QED
    BY <1>4, <2>2, TurnsNext
<1>7. CASE \E i \in Slots : StartsGet(i, m) \/ StartsSpec(i, m)
  <2> PICK i \in Slots : StartsGet(i, m) \/ StartsSpec(i, m)
    BY <1>7
  <2>1. Sent(i) /\ Others(i) /\ m.type = "event" /\ task'[i].at \in {"get", "spec"}
    BY DEF StartsGet, StartsSpec, Starts, Sent
  <2>2. ASSUME Gets(i)' PROVE task'[i].diff \subseteq NodeSet
    <3>1. StartsGet(i, m)
      BY <2>2 DEF Gets, StartsSpec
    <3>2. m.ev = "nodes" => m.added \subseteq NodeSet
      BY <1>1, <1>3, <2>1 DEF IsEvent, m
    <3>3. m.ev # "change"
      BY <2>2, <3>1 DEF StartsGet, Gets
    <3> QED
      BY <3>1, <3>2, <3>3 DEF StartsGet
  <2>3. TurnsOf(i)'
    BY <2>1, <2>2 DEF TurnsOf, OnWalk
  <2> QED
    BY <1>6, <2>1, <2>3 DEF Sent
<1>8. CASE \E i \in Slots : m.to = i /\ Reply(m) /\ Walks(i, m)
  <2> PICK i \in Slots : m.to = i /\ Reply(m) /\ Walks(i, m)
    BY <1>8
  <2> DEFINE df == WalkDf(i, m)
             left == WalkLeft(i)
  <2>1. /\ left \subseteq 1..Len(Nodes) /\ df \in Dataflows
        /\ task'[i].at \in {"reget", "skip", "expose"}
        /\ OnWalk(i)' <=> left # {}
        /\ OnWalk(i)' => task'[i].df = df /\ task'[i].left = left
        /\ ~Gets(i)'
    BY <1>1, <1>3, TurnTaken DEF m
  <2>2. Sent(i) /\ Others(i) /\ Turn(i, df, left)
    BY DEF Walks, Sent
  <2>3. \A k \in 1..Len(down') : InDown(i, k)' => k = Len(down) + 1
    BY <1>1, <2>2, ClientMoved DEF m
  <2> HIDE DEF df, left
  <2>4. ASSUME NEW k \in 1..Len(down'), InDown(i, k)', task'[i].at = "expose"
        PROVE  LET n == Nodes[First(task'[i].left)]
               IN  /\ down'[k].node = n /\ down'[k].design = task'[i].df.design
                   /\ down'[k].shown = Opposites(task'[i].df.conn[n])
    <3>1. down'[k] = Fresh
      BY <2>3, <2>4 DEF Fresh
    <3>2. task'[i].df = df /\ task'[i].left = left
      BY <2>1, <2>4 DEF OnWalk
    <3> QED
      BY <2>2, <2>4, <3>1, <3>2 DEF Turn, Opposites
  <2>5. ASSUME OnWalk(i)'
        PROVE  /\ task'[i].df \in Dataflows
               /\ task'[i].left # {} /\ task'[i].left \subseteq 1..Len(Nodes)
               /\ task'[i].at = "skip" =>
                     Cardinality(task'[i].df.conn[Nodes[First(task'[i].left)]]) > 1
    BY <2>1, <2>2, <2>5 DEF Turn
  <2>6. TurnsOf(i)'
    BY <2>1, <2>4, <2>5 DEF TurnsOf, Opposites
  <2> QED
    BY <1>6, <2>2, <2>6 DEF Sent
<1>9. CASE \E i \in Slots : Stores(i, m) \/ Sends(i, m) \/ Loaded(i, m)
  <2> PICK i \in Slots : Stores(i, m) \/ Sends(i, m) \/ Loaded(i, m)
    BY <1>9
  <2>1. /\ Others(i) /\ task'[i].at \in {"free", "load"}
        /\ down' = down \/ (Grown(down, down', 1) /\ (Fresh.op = "imported" \/ Fresh.to = i))
    BY DEF Stores, Sends, Loaded, Sent, Freed, Free
  <2>2. TurnsOf(i)'
    BY <2>1 DEF TurnsOf, Gets, OnWalk
  <2> QED
    BY <1>6, <2>1, <2>2
<1>10. CASE Graphs(m) \/ Refuses(m)
  <2>1. task' = task /\ down' = down
    BY <1>10 DEF Graphs, Refuses
  <2>2. ASSUME NEW j \in Slots PROVE TurnsOf(j)'
    <3>1. Unmoved(j, 1, 0)
      BY <1>1, <2>1, ClientUnmoved
    <3> QED
      BY <1>5, <2>1, <3>1
  <2> QED
    BY <1>4, <2>2, TurnsNext
<1> QED
  BY <1>2, <1>7, <1>8, <1>9, <1>10

LEMMA TurnsPage == ASSUME Base, Wire, PageTable PROVE Turns'
<1>1. /\ Popped(down, down') /\ task' = task
      /\ Answers(down[1]) \/ Changes(down[1]) \/ Exposes(down[1])
  BY WiredPage
<1>2. (\A j \in Slots : TurnsOf(j))
      /\ \A k \in 1..Len(up) : IsEvent(up[k], "nodes") => up[k].added \subseteq NodeSet
  BY TurnsIsAll DEF Wire
<1>3. ASSUME NEW k \in 1..Len(up'), IsEvent(up[k], "nodes")' PROVE up'[k].added \subseteq NodeSet
  <2>1. \/ k \in 1..Len(up) /\ up'[k] = up[k]
        \/ k = Len(up) + 1 /\ up'[k] = Said
        \/ k = Len(up) + 2 /\ up'[k] = Added /\ ~Answers(down[1])
    BY <1>1 DEF Answers, Changes, Exposes, Grown, Said, Added
  <2>2. k \in 1..Len(up) /\ up'[k] = up[k]
    BY <1>1, <1>3, <2>1 DEF Answers, Changes, Exposes, IsEvent
  <2> QED
    BY <1>2, <1>3, <2>2 DEF IsEvent
<1>4. ASSUME NEW j \in Slots PROVE TurnsOf(j)'
  <2>1. \A k \in 1..Len(down') : InDown(j, k)' => k + 1 \in 1..Len(down) /\ InDown(j, k + 1)
                                                  /\ down'[k] = down[k + 1]
    BY <1>1 DEF Popped, InDown, Request
  <2> QED
    BY <1>1, <1>2, <2>1, TurnStays
<1> QED
  BY <1>3, <1>4, TurnsNext

LEMMA TurnsUser == ASSUME Base, Wire, Edits \/ Loads PROVE Turns'
<1>1. Grown(up, up', 1) /\ down' = down /\ task' = task
  BY DEF Edits, Loads
<1>2. (\A j \in Slots : TurnsOf(j))
      /\ \A k \in 1..Len(up) : IsEvent(up[k], "nodes") => up[k].added \subseteq NodeSet
  BY TurnsIsAll DEF Wire
<1>3. ASSUME NEW k \in 1..Len(up'), IsEvent(up[k], "nodes")' PROVE up'[k].added \subseteq NodeSet
  <2>1. (k \in 1..Len(up) /\ up'[k] = up[k]) \/ up'[k] = Said
    BY <1>1 DEF Grown, Said
  <2>2. CASE k \in 1..Len(up) /\ up'[k] = up[k]
    BY <1>2, <1>3, <2>2 DEF IsEvent
  <2>3. CASE up'[k] = Said
    BY <1>3, <2>3 DEF Edits, Loads, Told, IsEvent
  <2> QED
    BY <2>1, <2>2, <2>3
<1>4. ASSUME NEW j \in Slots PROVE TurnsOf(j)'
  <2>1. \A k \in 1..Len(down') : InDown(j, k)' => k \in 1..Len(down) /\ InDown(j, k)
                                                  /\ down'[k] = down[k]
    BY <1>1 DEF InDown, Request
  <2> QED
    BY <1>1, <1>2, <2>1, TurnStays
<1> QED
  BY <1>3, <1>4, TurnsNext
-----------------------------------------------------------------------------
(***************************************************************************)
(* ExposeInv is inductive.                                                 *)
(***************************************************************************)
LEMMA WiredStep ==
    ASSUME Base, Named = NodeSet, design \in Wired, WiredInv,
           ClientTable \/ PageTable \/ Edits \/ Loads \/ Requests
    PROVE  design' \in Wired /\ WiredInv'
<1>1. Wire /\ Once /\ OneLoad /\ Unshown /\ Turns /\ Mended /\ Covered
  BY DEF WiredInv, Wire
<1>2. CASE ClientTable
  <2>1. design' = design
    BY <1>1, <1>2, WiredClient
  <2>2. Once' /\ OneLoad' /\ Unshown' /\ Turns' /\ Mended' /\ Covered'
    BY <1>1, <1>2, OnceClient, LoadClient, TurnsClient, MendedClient
  <2> QED
    BY <2>1, <2>2 DEF WiredInv
<1>3. CASE PageTable
  <2>1. design' = design
    BY <1>3 DEF PageTable
  <2>2. Once' /\ OneLoad' /\ Unshown' /\ Turns' /\ Mended' /\ Covered'
    BY <1>1, <1>3, OncePage, LoadPage, TurnsPage, MendedPage
  <2> QED
    BY <2>1, <2>2 DEF WiredInv
<1>4. CASE Edits \/ Loads
  <2>1. design' = design
    BY <1>4 DEF Edits, Loads
  <2>2. Once' /\ OneLoad' /\ Unshown' /\ Turns'
    BY <1>1, <1>4, OnceUser, LoadUser, TurnsUser
  <2>3. Mended' /\ Covered'
    BY <1>1, <1>4, EditsMended, LoadsMended
  <2> QED
    BY <2>1, <2>2, <2>3 DEF WiredInv
<1>5. ~Requests
  BY DEF Requests
<1> QED
  BY <1>2, <1>3, <1>4, <1>5

LEMMA BareDataflow == \A d : IsBare(Dataflow(d, 0))
  BY DEF IsBare, Dataflow

LEMMA UnwiredClient ==
    ASSUME Base, design \notin Wired, UnwiredInv, ClientTable
    PROVE  design' \notin Wired /\ UnwiredInv'
<1> DEFINE m == up[1]
<1>1. /\ Popped(up, up') /\ 1 \in 1..Len(up) /\ graph' = graph
      /\ Begun(m) \/ Resumed(m.to, m) \/ Graphs(m) \/ Refuses(m)
  BY DEF ClientTable, Popped
<1>3. /\ UpOK(m) /\ (HasDf(m) => IsBare(m.df))
      /\ m.type = "event" => m.ev \notin {"connections", "nodes"}
      /\ IsEvent(m, "import") => m.design \notin Wired
  BY <1>1 DEF Base, Channels, UnwiredInv
<1>4. \A k \in 1..Len(up') : k + 1 \in 1..Len(up) /\ up'[k] = up[k + 1]
  BY <1>1 DEF Popped
<1>5. ASSUME NEW k \in 1..Len(up')
      PROVE  /\ HasDf(up[k])' => IsBare(up[k].df)'
             /\ up'[k].type = "event" => up'[k].ev \notin {"connections", "nodes"}
             /\ IsEvent(up[k], "import")' => up'[k].design \notin Wired
  <2>1. /\ HasDf(up[k + 1]) => IsBare(up[k + 1].df)
        /\ up[k + 1].type = "event" => up[k + 1].ev \notin {"connections", "nodes"}
        /\ IsEvent(up[k + 1], "import") => up[k + 1].design \notin Wired
    BY <1>4 DEF UnwiredInv
  <2> QED
    BY <1>4, <2>1 DEF HasDf, IsEvent, IsBare, Bare
<1> HIDE DEF m
<1>6. ASSUME save' = save \/ (save' # None => save'.conn = Bare /\ save'.shown = Bare),
             design' = design \/ design' \notin Wired,
             \/ down' = down
             \/ /\ Grown(down, down', 1) /\ Fresh.op # "interfaces_change"
                /\ Fresh.op \in {"graph_change", "imported"} => IsBare(Fresh.df),
             \A j \in Slots : task'[j] = task[j] \/ (~OnWalk(j)' /\ task'[j].at # "named" /\ ~Gets(j)')
      PROVE  design' \notin Wired /\ UnwiredInv'
  <2>1. IsBare(graph)' /\ (save' # None => IsBare(save)')
    BY <1>1, <1>6 DEF UnwiredInv, IsBare, Bare
  <2>2. ASSUME NEW k \in 1..Len(down')
        PROVE  /\ down'[k].op # "interfaces_change"
               /\ down'[k].op \in {"graph_change", "imported"} => IsBare(down[k].df)'
    <3>1. (k \in 1..Len(down) /\ down'[k] = down[k])
             \/ (down'[k] = Fresh /\ Grown(down, down', 1) /\ Fresh.op # "interfaces_change"
                 /\ (Fresh.op \in {"graph_change", "imported"} => IsBare(Fresh.df)))
      BY <1>6 DEF Grown, Fresh
    <3> QED
      BY <3>1 DEF UnwiredInv, IsBare, Bare
  <2>3. \A i \in Slots : task'[i].at \notin {"skip", "named", "expose"} /\ ~Gets(i)'
    BY <1>6 DEF UnwiredInv, OnWalk, Gets
  <2>4. design' \notin Wired
    BY <1>6
  <2> QED
    BY <1>5, <2>1, <2>2, <2>3, <2>4 DEF UnwiredInv
<1>7. CASE Begun(m)
  <2> PICK i \in Slots : \/ StartsGet(i, m) \/ StartsLoad(i, m) \/ StartsSpec(i, m)
                         \/ StartsFirst(i, m) \/ StartsImport(i, m)
    BY <1>7 DEF Begun
  <2>1. Sent(i) /\ Others(i) /\ save' = save /\ m.type = "event"
    BY DEF StartsGet, StartsLoad, StartsSpec, StartsFirst, StartsImport, Starts, Sent
  <2>2. task'[i].at \in {"get", "load", "spec", "first", "import"}
        /\ (task'[i].at = "get" => task'[i].diff = None)
    BY <1>3, <2>1 DEF StartsGet, StartsLoad, StartsSpec, StartsFirst, StartsImport
  <2>3. design' = design \/ design' \notin Wired
    BY <1>3, <2>1 DEF StartsGet, StartsLoad, StartsSpec, StartsFirst, StartsImport, IsEvent
  <2>4. /\ Grown(down, down', 1) /\ Fresh.op # "interfaces_change"
        /\ Fresh.op \in {"graph_change", "imported"} => task'[i].at = "load"
    BY <2>1, <2>2 DEF Sent, Ask
  <2>5. Fresh.op \in {"graph_change", "imported"} => IsBare(Fresh.df)
    BY <2>4 DEF StartsGet, StartsLoad, StartsSpec, StartsFirst, StartsImport, UnwiredInv
  <2>6. \A j \in Slots : task'[j] = task[j] \/ (~OnWalk(j)' /\ task'[j].at # "named" /\ ~Gets(j)')
    BY <2>1, <2>2 DEF Others, OnWalk, Gets
  <2> QED
    BY <1>6, <2>1, <2>3, <2>4, <2>5, <2>6
<1>8. CASE Resumed(m.to, m)
  <2> PICK i \in Slots : m.to = i
    BY <1>8 DEF Resumed
  <2>1. /\ Reply(m) /\ design' = design
        /\ \/ Walks(i, m) \/ Stores(i, m) \/ Sends(i, m)
           \/ Loaded(i, m) \/ Imports(i, m) \/ Breaks(i, m)
    BY <1>8 DEF Resumed
  <2>2. ~Walks(i, m)
    BY DEF Walks, UnwiredInv, Gets
  <2>3. Others(i) /\ task'[i].at \in {"free", "load"}
    BY <2>1, <2>2 DEF Stores, Sends, Loaded, Imports, Breaks, Sent, Freed, Free
  <2>4. \A j \in Slots : task'[j] = task[j] \/ (~OnWalk(j)' /\ task'[j].at # "named" /\ ~Gets(j)')
    BY <2>3 DEF Others, OnWalk, Gets
  <2>5. CASE Stores(i, m)
    <3>1. save' = m.df /\ down' = down /\ m.type = "answer" /\ Fetches(task[i].at)
      BY <2>5 DEF Stores
    <3>2. m.df \in Dataflows
      BY <1>3, <3>1 DEF UpOK
    <3>3. IsBare(m.df)
      BY <1>3, <3>1, <3>2, NoDataflow DEF HasDf
    <3> QED
      BY <1>6, <2>1, <2>4, <3>1, <3>3 DEF IsBare
  <2>6. CASE Sends(i, m) \/ Imports(i, m)
    <3>1. /\ Grown(down, down', 1) /\ Fresh.op # "interfaces_change" /\ save' = save
          /\ Fresh.df = Dataflow(task[i].design, 0)
      BY <2>6 DEF Sends, Imports, Sent, Ask
    <3>2. IsBare(Fresh.df)
      BY <3>1, BareDataflow
    <3> QED
      BY <1>6, <2>1, <2>4, <3>1, <3>2
  <2>7. CASE Loaded(i, m) \/ Breaks(i, m)
    <3>1. down' = down /\ save' = save
      BY <2>7 DEF Loaded, Breaks
    <3> QED
      BY <1>6, <2>1, <2>4, <3>1
  <2> QED
    BY <2>1, <2>2, <2>5, <2>6, <2>7
<1>9. CASE Graphs(m) \/ Refuses(m)
  <2>1. /\ task' = task /\ down' = down /\ design' = design
        /\ save' = save \/ (HasDf(m) /\ save' = m.df)
    BY <1>9 DEF Graphs, Refuses, HasDf
  <2>2. save' = save \/ (save' # None => save'.conn = Bare /\ save'.shown = Bare)
    BY <1>3, <2>1 DEF IsBare
  <2>3. \A j \in Slots : task'[j] = task[j]
    BY <2>1
  <2> QED
    BY <1>6, <2>1, <2>2, <2>3
<1> QED
  BY <1>1, <1>7, <1>8, <1>9

LEMMA UnwiredPage ==
    ASSUME Base, design \notin Wired, UnwiredInv, PageTable
    PROVE  design' \notin Wired /\ UnwiredInv'
<1> DEFINE r == down[1]
<1>1. /\ Popped(down, down') /\ UNCHANGED <<save, design, task>> /\ 1 \in 1..Len(down)
      /\ \/ Answers(r) \/ Changes(r) \/ Replaces(r) \/ Exposes(r) \/ Fails(r)
  BY DEF PageTable, Popped
<1>2. /\ r.op # "interfaces_change"
      /\ r.op \in {"graph_change", "imported"} => IsBare(r.df) /\ r.df \in Dataflows
  BY <1>1 DEF UnwiredInv, Base, Channels, DownOK
<1> HIDE DEF r
<1>3. graph \in Dataflows /\ IsBare(graph) /\ (save # None => IsBare(save))
  BY DEF Base, TypeOK, UnwiredInv
<1>4. ~Exposes(r)
  BY <1>2 DEF Exposes
<1>5. IsBare(graph)' /\ (save' # None => IsBare(save)')
  <2>1. graph'.conn = Bare /\ graph'.shown = Bare
    <3>1. CASE Answers(r) \/ Fails(r)
      BY <1>3, <3>1 DEF Answers, Fails, IsBare
    <3>2. CASE Changes(r)
      BY <1>2, <3>2 DEF Changes, Shown, IsBare, Dataflows
    <3>3. CASE Replaces(r)
      BY <1>2, <3>3 DEF Replaces, Shown, IsBare, Dataflows
    <3> QED
      BY <1>1, <1>4, <3>1, <3>2, <3>3
  <2> QED
    BY <1>1, <1>3, <2>1 DEF IsBare, Bare
<1>6. ASSUME NEW k \in 1..Len(up')
      PROVE  /\ HasDf(up[k])' => IsBare(up[k].df)'
             /\ up'[k].type = "event" => up'[k].ev \notin {"connections", "nodes"}
             /\ IsEvent(up[k], "import")' => up'[k].design \notin Wired
  <2>1. \/ k \in 1..Len(up) /\ up'[k] = up[k]
        \/ k = Len(up) + 1 /\ up'[k] = Said
        \/ k = Len(up) + 2 /\ up'[k] = Added /\ Changes(r)
    BY <1>1, <1>4 DEF Answers, Changes, Replaces, Fails, Grown, Said, Added
  <2>2. CASE k \in 1..Len(up) /\ up'[k] = up[k]
    BY <2>2 DEF UnwiredInv, HasDf, IsEvent, IsBare, Bare
  <2>3. CASE up'[k] = Said
    <3>1. CASE Answers(r)
      BY <1>3, <2>3, <3>1 DEF Answers, HasDf, IsEvent, IsBare, Bare
    <3>2. CASE Changes(r) \/ Replaces(r)
      BY <1>5, <2>3, <3>2 DEF Changes, Replaces, HasDf, IsEvent, IsBare, Bare
    <3>3. CASE Fails(r)
      BY <2>3, <3>3 DEF Fails, HasDf, IsEvent, IsBare, Bare
    <3> QED
      BY <1>1, <1>4, <3>1, <3>2, <3>3
  <2>4. CASE up'[k] = Added /\ Changes(r)
    BY <2>4 DEF Changes, HasDf, IsEvent
  <2> QED
    BY <2>1, <2>2, <2>3, <2>4
<1>7. ASSUME NEW k \in 1..Len(down')
      PROVE  /\ down'[k].op # "interfaces_change"
             /\ down'[k].op \in {"graph_change", "imported"} => IsBare(down[k].df)'
  <2>1. k + 1 \in 1..Len(down) /\ down'[k] = down[k + 1]
    BY <1>1 DEF Popped
  <2> QED
    BY <2>1 DEF UnwiredInv, IsBare, Bare
<1>8. \A i \in Slots : task'[i].at \notin {"skip", "named", "expose"} /\ ~Gets(i)'
  BY <1>1 DEF UnwiredInv, Gets
<1> QED
  BY <1>1, <1>5, <1>6, <1>7, <1>8 DEF UnwiredInv

LEMMA UnwiredUser ==
    ASSUME Base, design \notin Wired, UnwiredInv, Edits \/ Loads \/ Requests
    PROVE  design' \notin Wired /\ UnwiredInv'
<1>1. /\ Grown(up, up', 1) /\ UNCHANGED <<save, design, task, down>>
      /\ Said.type = "event" /\ Said.ev \notin {"connections", "nodes", "graph"}
      /\ IsEvent(Said, "import") => Said.design \notin Wired
  BY Sessions DEF Edits, Loads, Requests, IsEvent, Told
<1>2. graph'.conn = Bare /\ graph'.shown = Bare
  BY DEF Edits, Loads, Requests, Told, Dataflow, UnwiredInv, IsBare
<1>3. IsBare(graph)' /\ (save' # None => IsBare(save)')
  BY <1>1, <1>2 DEF IsBare, Bare, UnwiredInv
<1>4. ASSUME NEW k \in 1..Len(up')
      PROVE  /\ HasDf(up[k])' => IsBare(up[k].df)'
             /\ up'[k].type = "event" => up'[k].ev \notin {"connections", "nodes"}
             /\ IsEvent(up[k], "import")' => up'[k].design \notin Wired
  <2>1. (k \in 1..Len(up) /\ up'[k] = up[k]) \/ up'[k] = Said
    BY <1>1 DEF Grown, Said
  <2>2. CASE k \in 1..Len(up) /\ up'[k] = up[k]
    BY <2>2 DEF UnwiredInv, HasDf, IsEvent, IsBare, Bare
  <2>3. CASE up'[k] = Said
    BY <1>1, <2>3 DEF HasDf, IsEvent
  <2> QED
    BY <2>1, <2>2, <2>3
<1>5. ASSUME NEW k \in 1..Len(down')
      PROVE  /\ down'[k].op # "interfaces_change"
             /\ down'[k].op \in {"graph_change", "imported"} => IsBare(down[k].df)'
  BY <1>1 DEF UnwiredInv, IsBare, Bare
<1>6. \A i \in Slots : task'[i].at \notin {"skip", "named", "expose"} /\ ~Gets(i)'
  BY <1>1 DEF UnwiredInv, Gets
<1> QED
  BY <1>1, <1>3, <1>4, <1>5, <1>6 DEF UnwiredInv

LEMMA ExposeStart == Init => ExposeInv
<1> SUFFICES ASSUME Init PROVE ExposeInv
  OBVIOUS
<1>1. /\ page = 0 /\ first /\ up = <<>> /\ down = <<>>
      /\ graph = Dataflow(None, 0)
      /\ save \in {None, [Dataflow(None, 0) EXCEPT !.ours = FALSE]}
      /\ \A i \in Slots : task[i] = Free
  BY DEF Init
<1>2. Len(up) = 0 /\ Len(down) = 0
  BY <1>1, EmptyChannel
<1>3. \A i \in Slots : task[i].at = "free" /\ ~Gets(i) /\ ~OnWalk(i)
  BY <1>1 DEF Free, Gets, OnWalk
<1>4. graph.conn = Bare /\ graph.shown = Bare /\ graph.design = None
  BY <1>1 DEF Dataflow
<1>5. CASE design \in Wired
  <2>1. Once /\ OneLoad /\ Turns
    BY <1>1, <1>2, <1>3 DEF Once, OneLoad, Turns, IsConnect, IsLoad, Connecting, Specifies, LoadsGraph
  <2>2. Unshown
    BY <1>2, <1>3, <1>4, <1>5, WiredIsDesign DEF Unshown, Hidden
  <2>3. Mended
    BY <1>3 DEF Mended, Writes
  <2>4. \A n \in NodeSet : graph.conn[n] = {} /\ graph.shown[n] = {}
    BY <1>4 DEF Bare
  <2>5. Covered
    BY <2>4 DEF Covered, IsGood, Opposites
  <2> QED
    BY <1>5, <2>1, <2>2, <2>3, <2>5 DEF ExposeInv, WiredInv
<1>6. CASE design \notin Wired
  <2>1. save # None => save.conn = Bare /\ save.shown = Bare
    BY <1>1 DEF Dataflow
  <2> QED
    BY <1>2, <1>3, <1>4, <1>6, <2>1 DEF ExposeInv, UnwiredInv, IsBare
<1> QED
  BY <1>5, <1>6

LEMMA ExposeStep ==
    ASSUME Named = NodeSet, Base, ExposeInv, [Next]_vars
    PROVE  ExposeInv'
<1>1. CASE UNCHANGED vars
  <2>1. WiredInv => WiredInv'
    BY <1>1 DEF vars, WiredInv, Once, OneLoad, Unshown, Unseen, Hidden, Turns, Mended, Covered,
                Connecting, Specifies, LoadsGraph, IsConnect, IsLoad, Writes, Mends, Follows, Covers,
                Before, InUp, InDown, Answered, Awaiting, IsFresh, IsStale, OnWalk, Gets, FreshAnswer,
                Stage, Announced, NodeAdded, IsGood
  <2>2. UnwiredInv => UnwiredInv'
    BY <1>1 DEF vars, UnwiredInv, IsBare, Gets
  <2>3. design' = design
    BY <1>1 DEF vars
  <2> QED
    BY <2>1, <2>2, <2>3 DEF ExposeInv
<1>2. CASE ClientTable \/ PageTable \/ Edits \/ Loads \/ Requests
  <2>1. CASE design \in Wired
    BY <1>2, <2>1, WiredStep DEF ExposeInv
  <2>2. CASE design \notin Wired
    BY <1>2, <2>2, UnwiredClient, UnwiredPage, UnwiredUser DEF ExposeInv
  <2> QED
    BY <2>1, <2>2
<1> QED
  BY <1>1, <1>2, Steps

(***************************************************************************)
(* Whatever changes overlap, and however their handlers interleave: once   *)
(* they have all ended, each External I/O node with one connection exposes *)
(* the interface opposite the connected one, and each without any exposes  *)
(* none, on a page that was not loaded again, if every node has a name of  *)
(* its own.                                                                *)
(***************************************************************************)
THEOREM NamedExposeOpposite == ASSUME Named = NodeSet PROVE Spec => []ExposedOpposite
<1>1. Base /\ ExposeInv /\ [Next]_vars => ExposeInv'
  BY ExposeStep
<1>2. ExposeInv => ExposedOpposite
  <2> SUFFICES ASSUME ExposeInv, up = <<>>, down = <<>>, \A i \in Slots : task[i] = Free,
                      NEW n \in NodeSet
               PROVE  IsGood(n)
    BY DEF ExposedOpposite, IsGood, Opposites, Quiet, Idle
  <2>1. Len(up) = 0
    BY EmptyChannel
  <2>2. CASE design \in Wired
    <3>1. Covered
      BY <2>2 DEF ExposeInv, WiredInv
    <3>2. \A f \in Slots : ~Covers(f, n)
      BY DEF Covers, Gets, OnWalk, Free
    <3> QED
      BY <2>1, <3>1, <3>2 DEF Covered, Announced, NodeAdded
  <2>3. CASE design \notin Wired
    <3>1. graph.conn[n] = {} /\ graph.shown[n] = {}
      BY <2>3 DEF ExposeInv, UnwiredInv, IsBare, Bare
    <3> QED
      BY <3>1 DEF IsGood, Opposites
  <2> QED
    BY <2>2, <2>3
<1> QED
  BY <1>1, <1>2, BaseInv, ExposeStart, PTL DEF Spec
=============================================================================
