---------------------------- MODULE KpmGuiProofs ----------------------------
(***************************************************************************)
(* Proofs about KpmGui: the order in which the threads of `topwrap gui'    *)
(* start, and what the command leaves behind, for every combination of the *)
(* options and however the threads, the process of the server and the user *)
(* interleave.                                                             *)
(***************************************************************************)
EXTENDS KpmGui, TLAPS

\* A thread that has ended put one exception in the queue at most.
OneEach == /\ errors > 0 => server = "dead" \/ client = "dead"
           /\ errors > 1 => server = "dead" /\ client = "dead"

\* The main thread is past the loop that waits for the server.
Past == {"start_client", "await_client", "browser", "await_end"}

\* It gets there, and starts the client, after the server's event only.
InOrder == /\ main \in {"build", "begin"} => server = "unborn"
           /\ main = "await_server" => own
           /\ main \in {"build", "begin", "await_server", "start_client"} => client = "unborn"
           /\ main \in Past => serverReady \/ ~own
           /\ client # "unborn" \/ opened => serverReady \/ ~own

\* The process is on the list after it was started, and is not started twice;
\* from the end of Reap on, one that was on the list in time is dead.
Listed == /\ child # "none" => server \in {"register", "read", "dead"}
          /\ children => server \in {"read", "dead"}
          /\ listed => children /\ main \in {"reap", "cancel", "ended"}
          /\ main \in {"cancel", "ended"} /\ listed /\ ~spawned => ~Alive

IInv == TypeOK /\ OneEach /\ InOrder /\ Listed

\* Nothing has been started at first.
LEMMA StartInv == Init => IInv
<1> SUFFICES ASSUME Init PROVE IInv
  OBVIOUS
<1>1. own \in BOOLEAN /\ spawned \in BOOLEAN
  BY Options DEF Init
<1>2. TypeOK
  <2>1. /\ printed \in BOOLEAN /\ children \in BOOLEAN /\ serverReady \in BOOLEAN
        /\ task \in BOOLEAN /\ clientReady \in BOOLEAN /\ opened \in BOOLEAN
        /\ listed \in BOOLEAN
    BY Zenon DEF Init
  <2> QED
    BY <1>1, <2>1 DEF Init, TypeOK
<1>3. OneEach /\ InOrder /\ Listed
  BY DEF Init, OneEach, InOrder, Listed, Past
<1> QED
  BY <1>2, <1>3 DEF IInv

\* The steps of the main thread.
LEMMA MainInv == IInv /\ (Main \/ Interrupt) => IInv'
<1> SUFFICES ASSUME IInv, Main \/ Interrupt PROVE IInv'
  OBVIOUS
<1> USE DEF IInv, TypeOK, OneEach, InOrder, Listed, Past, Alive, options, serverVars, clientVars
<1>1. CASE Build
  BY <1>1 DEF Build
<1>2. CASE StartServer
  BY <1>2 DEF StartServer
<1>3. CASE AwaitServer
  BY <1>3 DEF AwaitServer, RaiseError
<1>4. CASE StartClient
  BY <1>4 DEF StartClient
<1>5. CASE AwaitClient
  BY <1>5 DEF AwaitClient, WaitForEvent, RaiseError
<1>6. CASE OpenBrowser
  BY <1>6 DEF OpenBrowser
<1>7. CASE AwaitEnd
  BY <1>7 DEF AwaitEnd, WaitForEvent, RaiseError, ServerAlive
<1>8. CASE Terminate
  BY <1>8 DEF Terminate
<1>9. CASE Reap
  BY <1>9 DEF Reap
<1>10. CASE CancelTask
  BY <1>10 DEF CancelTask
<1>11. CASE Interrupt
  BY <1>11 DEF Interrupt
<1> QED
  BY <1>1, <1>2, <1>3, <1>4, <1>5, <1>6, <1>7, <1>8, <1>9, <1>10, <1>11 DEF Main

\* The steps of the thread of the server and of the process it watches.
LEMMA ServerInv == IInv /\ (ServerThread \/ ChildReady \/ ChildEnds) => IInv'
<1> SUFFICES ASSUME IInv, ServerThread \/ ChildReady \/ ChildEnds PROVE IInv'
  OBVIOUS
<1> USE DEF IInv, TypeOK, OneEach, InOrder, Listed, Past, Alive, options, clientVars, Running
<1>1. CASE Spawn
  BY <1>1 DEF Spawn
<1>2. CASE Register
  BY <1>2 DEF Register
<1>3. CASE ReadReady
  BY <1>3 DEF ReadReady
<1>4. CASE ReadEnd
  BY <1>4 DEF ReadEnd
<1>5. CASE ChildReady
  BY <1>5 DEF ChildReady
<1>6. CASE ChildEnds
  BY <1>6 DEF ChildEnds
<1> QED
  BY <1>1, <1>2, <1>3, <1>4, <1>5, <1>6 DEF ServerThread

\* The steps of the thread of the client.
LEMMA ClientInv == IInv /\ (Pipeline \/ Connect \/ Disconnect) => IInv'
<1> SUFFICES ASSUME IInv, Pipeline \/ Connect \/ Disconnect PROVE IInv'
  OBVIOUS
<1> USE DEF IInv, TypeOK, OneEach, InOrder, Listed, Past, Alive, options, serverVars, Running, Fails
<1>1. CASE Pipeline
  <2>1. task' \in BOOLEAN
    BY <1>1, Zenon DEF Pipeline
  <2> QED
    BY <1>1, <2>1 DEF Pipeline
<1>2. CASE Connect
  <2>1. clientReady' \in BOOLEAN
    BY <1>2, Zenon DEF Connect
  <2> QED
    BY <1>2, <2>1 DEF Connect
<1>3. CASE Disconnect
  BY <1>3 DEF Disconnect
<1> QED
  BY <1>1, <1>2, <1>3

LEMMA Invariance == Spec => []IInv
<1>1. IInv /\ UNCHANGED vars => IInv'
  <2> SUFFICES ASSUME IInv, UNCHANGED vars PROVE IInv'
    OBVIOUS
  <2> USE DEF IInv, vars
  <2>1. TypeOK' /\ OneEach' /\ InOrder'
    BY DEF TypeOK, OneEach, InOrder, Past
  <2>2. Listed'
    BY DEF Listed, Alive
  <2> QED
    BY <2>1, <2>2
<1>2. IInv /\ Next => IInv'
  BY MainInv, ServerInv, ClientInv DEF Next
<1> QED
  BY StartInv, <1>1, <1>2, PTL DEF Spec

\* The threads, the process and the events have their types, and the queue
\* holds one exception of each thread at most.
THEOREM TypeCorrect == Spec => []TypeOK
<1>1. IInv => TypeOK
  BY DEF IInv
<1> QED
  BY <1>1, Invariance, PTL

\* A server process that was on the list when the cleanup began is not left
\* behind, whenever the command was interrupted or a thread failed, unless it
\* was started by multiprocessing.
THEOREM CleanupReaps == Spec => []NoServerLeft
<1>1. IInv => NoServerLeft
  BY DEF IInv, Listed, NoServerLeft
<1> QED
  BY <1>1, Invariance, PTL

\* Neither the client nor the browser is started before the command's own
\* server has said that it runs.
THEOREM ServerComesFirst == Spec => []ServerFirst
<1>1. IInv => ServerFirst
  BY DEF IInv, InOrder, ServerFirst
<1> QED
  BY <1>1, Invariance, PTL
=============================================================================
