------------------------------- MODULE KpmGui -------------------------------
(***************************************************************************)
(* The command `topwrap gui' (cli/main.py): its main thread, the thread    *)
(* that runs and watches the process of the Pipeline Manager server        *)
(* (KPM.run_server), and the thread that runs the client (KPM.run_client). *)
(*                                                                         *)
(* The threads tell the main thread of their progress by two events and a  *)
(* queue of exceptions; the main thread polls them.  It ends the others in *)
(* KPM.cleanup, whatever made it end.                                      *)
(***************************************************************************)
EXTENDS Naturals

CONSTANTS UseServer,   \* values of the option use_server
          Preserve     \* values of the option preserve_parent_state

ASSUME Options == UseServer \subseteq BOOLEAN /\ Preserve \subseteq BOOLEAN

VARIABLES
    own,         \* use_server
    spawned,     \* preserve_parent_state: the child is of multiprocessing
    main,        \* where the main thread is
    server,      \* where the thread of KPM.run_server is
    child,       \* the server process
    printed,     \* it has printed that it is ready
    children,    \* it is in KPM.child_processes
    serverReady, \* server_ready_event
    client,      \* where the thread of KPM.run_client is
    task,        \* KPM.kpm_run_client_task is set
    clientReady, \* client_ready_event
    errors,      \* exceptions in error_queue
    opened,      \* the browser was opened
    listed       \* the process was on the list when the cleanup began

vars == <<own, spawned, main, server, child, printed, children, serverReady,
          client, task, clientReady, errors, opened, listed>>

serverVars == <<server, child, printed, children, serverReady>>
clientVars == <<client, task, clientReady>>
options == <<own, spawned>>

Init == /\ own \in UseServer /\ spawned \in Preserve
        /\ main = "build"
        /\ server = "unborn" /\ child = "none" /\ printed = FALSE
        /\ children = FALSE /\ serverReady = FALSE
        /\ client = "unborn" /\ task = FALSE /\ clientReady = FALSE
        /\ errors = 0 /\ opened = FALSE /\ listed = FALSE

Alive == child \in {"booting", "running"}
-----------------------------------------------------------------------------
(***************************************************************************)
(* The main thread                                                         *)
(***************************************************************************)
\* The frontend is built first if it is not there; a build that fails ends
\* the command before there is anything to clean up.
Build ==
    /\ main = "build"
    /\ main' \in IF own THEN {"begin", "ended"} ELSE {"begin"}
    /\ UNCHANGED <<options, serverVars, clientVars, errors, opened, listed>>

\* The thread of the server, with use_server only.
StartServer ==
    /\ main = "begin"
    /\ IF own THEN main' = "await_server" /\ server' = "spawn"
              ELSE main' = "start_client" /\ UNCHANGED server
    /\ UNCHANGED <<options, child, printed, children, serverReady, clientVars,
                   errors, opened, listed>>

\* The next exception of the queue is raised in the main thread.
RaiseError == /\ errors > 0
              /\ errors' = errors - 1
              /\ main' = "cleanup"

\* Mutant: the main thread waits while the event is not set.
AwaitServerInverted ==
    /\ main = "await_server"
    /\ \/ ~serverReady /\ main' = "start_client" /\ UNCHANGED errors
       \/ serverReady /\ RaiseError
    /\ UNCHANGED <<options, serverVars, clientVars, opened, listed>>

\* The loop that waits for the server has a test of its own.
AwaitServer ==
    /\ main = "await_server"
    /\ \/ serverReady /\ main' = "start_client" /\ UNCHANGED errors
       \/ ~serverReady /\ RaiseError
    /\ UNCHANGED <<options, serverVars, clientVars, opened, listed>>

StartClient ==
    /\ main = "start_client"
    /\ main' = "await_client" /\ client' = "pipeline"
    /\ UNCHANGED <<options, serverVars, task, clientReady, errors, opened, listed>>

\* Mutant: the queue is not looked at.
WaitOnly(at, event, next) ==
    /\ main = at
    /\ ~event /\ main' = next /\ UNCHANGED errors
    /\ UNCHANGED <<options, serverVars, clientVars, listed>>

\* wait_for_event_or_raise_error: it breaks as soon as event() is false.
WaitForEvent(at, event, next) ==
    /\ main = at
    /\ \/ ~event /\ main' = next /\ UNCHANGED errors
       \/ event /\ RaiseError
    /\ UNCHANGED <<options, serverVars, clientVars, listed>>

AwaitClient == WaitForEvent("await_client", clientReady, "browser") /\ UNCHANGED opened

OpenBrowser ==
    /\ main = "browser"
    /\ main' = "await_end" /\ opened' = own
    /\ UNCHANGED <<options, serverVars, clientVars, errors, listed>>

ServerAlive == server \notin {"unborn", "dead"}

AwaitEnd == WaitForEvent("await_end", ServerAlive, "cleanup") /\ UNCHANGED opened

\* The user interrupts the command while it waits.
Interrupt ==
    /\ main \in {"await_server", "await_client", "await_end"}
    /\ main' = "cleanup"
    /\ UNCHANGED <<options, serverVars, clientVars, errors, opened, listed>>

\* KPM.cleanup: the children on the list are terminated, waited for, ...
Terminate ==
    /\ main = "cleanup"
    /\ main' = IF children THEN "reap" ELSE "cancel"
    /\ listed' = children
    /\ UNCHANGED <<options, serverVars, clientVars, errors, opened>>

\* Mutant: a child that takes too long is left alone.
ReapOnce ==
    /\ main = "reap"
    /\ main' = "cancel"
    /\ UNCHANGED <<options, serverVars, clientVars, errors, opened, listed>>

\* ... and killed if that takes too long.  `join' of a multiprocessing child
\* just returns after the timeout, so that such a child is not killed.
Reap ==
    /\ main = "reap"
    /\ main' = "cancel"
    /\ child' = IF Alive /\ ~spawned THEN "dead" ELSE child
    /\ UNCHANGED <<options, server, printed, children, serverReady, clientVars,
                   errors, opened, listed>>

\* ... then the task of the client is cancelled, if it is there already.
CancelTask ==
    /\ main = "cancel"
    /\ main' = "ended"
    /\ client' = IF task /\ client \in {"connect", "serving"} THEN "dead" ELSE client
    /\ UNCHANGED <<options, serverVars, task, clientReady, errors, opened, listed>>

Main == \/ Build \/ StartServer \/ AwaitServer \/ StartClient \/ AwaitClient
        \/ OpenBrowser \/ AwaitEnd \/ Terminate \/ Reap \/ CancelTask
-----------------------------------------------------------------------------
(***************************************************************************)
(* KPM.run_server and the process it watches.  Threads are daemons: they   *)
(* run until the command has ended.                                        *)
(***************************************************************************)
Running == main # "ended"

Spawn ==
    /\ Running /\ server = "spawn"
    /\ server' = "register" /\ child' = "booting"
    /\ UNCHANGED <<options, main, printed, children, serverReady, clientVars,
                   errors, opened, listed>>

Register ==
    /\ Running /\ server = "register"
    /\ server' = "read" /\ children' = TRUE
    /\ UNCHANGED <<options, main, child, printed, serverReady, clientVars,
                   errors, opened, listed>>

\* A line of the log says that the server runs.
ReadReady ==
    /\ Running /\ server = "read" /\ printed /\ ~serverReady
    /\ serverReady' = TRUE
    /\ UNCHANGED <<options, main, server, child, printed, children, clientVars,
                   errors, opened, listed>>

\* Mutant: an empty read is taken for an empty line.
ReadNothing ==
    /\ Running /\ server = "read" /\ child = "dead" /\ (printed => serverReady)
    /\ UNCHANGED vars

\* Mutant: the thread goes on reading after the exception.
ReadEndAgain ==
    /\ Running /\ server = "read" /\ child = "dead" /\ ~serverReady
    /\ errors' = errors + 1
    /\ UNCHANGED <<options, main, server, child, printed, children, serverReady,
                   clientVars, opened, listed>>

\* The log ends with the process.
ReadEnd ==
    /\ Running /\ server = "read" /\ child = "dead" /\ (printed => serverReady)
    /\ server' = "dead"
    /\ errors' = IF serverReady THEN errors ELSE errors + 1
    /\ UNCHANGED <<options, main, child, printed, children, serverReady,
                   clientVars, opened, listed>>

ServerThread == Spawn \/ Register \/ ReadReady \/ ReadEnd

\* The process gets ready, or ends: on its own or because it was told to.
ChildReady ==
    /\ child = "booting"
    /\ child' = "running" /\ printed' = TRUE
    /\ UNCHANGED <<options, main, server, children, serverReady, clientVars,
                   errors, opened, listed>>

ChildEnds ==
    /\ Alive
    /\ child' = "dead"
    /\ UNCHANGED <<options, main, server, printed, children, serverReady,
                   clientVars, errors, opened, listed>>
-----------------------------------------------------------------------------
(***************************************************************************)
(* KPM.run_client: the specification is built, then the client connects.   *)
(***************************************************************************)
\* The exception hook of the threads puts what ends them in the queue,
\* sys.exit too.
Fails == client' = "dead" /\ errors' = errors + 1

Pipeline ==
    /\ Running /\ client = "pipeline"
    /\ \/ client' = "connect" /\ task' = TRUE /\ UNCHANGED errors
       \/ Fails /\ UNCHANGED task
    /\ UNCHANGED <<options, main, serverVars, clientReady, opened, listed>>

\* A server that is not ours may be there or not.
Connect ==
    /\ Running /\ client = "connect"
    /\ \/ /\ own => child = "running"
          /\ client' = "serving" /\ clientReady' = TRUE /\ UNCHANGED errors
       \/ Fails /\ UNCHANGED clientReady
    /\ UNCHANGED <<options, main, serverVars, task, opened, listed>>

\* The connection ends; the client returns or raises.
Disconnect ==
    /\ Running /\ client = "serving"
    /\ \/ client' = "dead" /\ UNCHANGED errors
       \/ Fails
    /\ UNCHANGED <<options, main, serverVars, task, clientReady, opened, listed>>

Next == \/ Main \/ Interrupt \/ ServerThread \/ ChildReady \/ ChildEnds
        \/ Pipeline \/ Connect \/ Disconnect

\* Each thread gets its turns; the process may take as long as it likes.
Spec == /\ Init /\ [][Next]_vars
        /\ WF_vars(Main) /\ WF_vars(ServerThread)
        /\ WF_vars(Pipeline) /\ WF_vars(Connect)
-----------------------------------------------------------------------------
\* The types of the variables; each of the two threads ends in one exception
\* at most.
TypeOK ==
    /\ own \in BOOLEAN /\ spawned \in BOOLEAN
    /\ main \in {"build", "begin", "await_server", "start_client", "await_client",
                 "browser", "await_end", "cleanup", "reap", "cancel", "ended"}
    /\ server \in {"unborn", "spawn", "register", "read", "dead"}
    /\ child \in {"none", "booting", "running", "dead"}
    /\ client \in {"unborn", "pipeline", "connect", "serving", "dead"}
    /\ printed \in BOOLEAN /\ children \in BOOLEAN /\ serverReady \in BOOLEAN
    /\ task \in BOOLEAN /\ clientReady \in BOOLEAN /\ opened \in BOOLEAN
    /\ listed \in BOOLEAN
    /\ errors \in 0..2

(***************************************************************************)
(* The command leaves no server process behind, except one of              *)
(* multiprocessing that does not end by itself, and one that was started   *)
(* but not on the list yet when the cleanup began.                         *)
(***************************************************************************)
NoServerLeft ==
    main = "ended" /\ Alive => spawned \/ ~listed

(***************************************************************************)
(* The client is started, and the browser opened, only when the server of  *)
(* the command has said that it runs.                                      *)
(***************************************************************************)
ServerFirst == client # "unborn" \/ opened => serverReady \/ ~own

(***************************************************************************)
(* An exception that ends one of the threads ends the command, from        *)
(* whichever of its loops.                                                 *)
(***************************************************************************)
ErrorsEnd == errors > 0 ~> main = "ended"

(***************************************************************************)
(* When the server process has ended, so does the command, unless it is in *)
(* the loop that waits for the client and never leaves.                    *)
(***************************************************************************)
ServerGoneEnds == child = "dead" ~> main \in {"ended", "await_client"}

(***************************************************************************)
(* "wait_for_event_or_raise_error(client_ready_event.is_set, ...)": when   *)
(* the client is ready the command goes on.                                *)
(***************************************************************************)
WaitEndsWithEvent ==
    main = "await_client" /\ clientReady ~> main # "await_client"
=============================================================================
