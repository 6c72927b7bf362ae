---------------------------- MODULE Application ----------------------------
(***************************************************************************)
(* GatewayApplication: the initial start, SIGHUP reloads and the shutdown  *)
(* of the runtime (backends, dispatcher, response router, frontends).      *)
(*                                                                         *)
(* A runtime is known by the version of the configuration file it was      *)
(* started from.  Its parts are 0, the dispatcher and response router      *)
(* tasks, and 1 .. Frontends, the frontends in the order they are started. *)
(* Signals come between any two steps: their handlers only set events.     *)
(*                                                                         *)
(* Of a connection of a TCP or Unix frontend we keep where its handler is: *)
(* accepted, with the handshake to do or the handler task to begin; served,*)
(* its task being in _tasks; or cancelled, closing its writer.  asyncio's  *)
(* Server.wait_closed() waits for all connections from Python 3.12.1 on,   *)
(* and for none before that; the gateway asks for 3.11 or later.           *)
(***************************************************************************)
EXTENDS Naturals, FiniteSets

CONSTANTS
    Frontends,  \* number of configured frontends
    Clients,    \* clients, each with one connection at a time
    MaxEdits,   \* bound on the edits of the configuration file
    MaxHups     \* bound on the SIGHUPs

ASSUME ApplicationAssumption ==
    /\ Frontends \in Nat \ {0}
    /\ MaxEdits \in Nat
    /\ MaxHups \in Nat

\* A configuration file works, does not load, or loads and has a frontend that
\* cannot be started, a state_dir or a pid_file that cannot be written.
Kinds == {"good", "broken", "unstartable", "no_state_dir", "no_pid_file"}

Versions == 1 .. MaxEdits + 1
Parts == 0 .. Frontends

VARIABLES
    disk,       \* the configuration file: its version and kind
    hups,       \* SIGHUPs so far
    at,         \* where run() is
    initial,    \* the first start is not over
    stopEvent,  \* _stop_event
    reloadEvent,\* _reload_event
    runtime,    \* _runtime: its version, or 0 for None
    loaded,     \* the configuration loaded last
    leaving,    \* the runtime that _stop_runtime stops, or 0
    up,         \* the parts that run and the sockets and ptys they hold
    serial,     \* runtimes whose SerialBackend has its session open
    waits,      \* Server.wait_closed() waits for connections
    stop,       \* where stop() of the frontend that is stopped is
    conn        \* conn[c]: the connection of client c

vars == <<disk, hups, at, initial, stopEvent, reloadEvent, runtime, loaded,
          leaving, up, serial, waits, stop, conn>>
clientVars == <<waits, stop, conn>>

\* A connection of part `part` of runtime v; `reads` says whether the client reads
\* what it is sent, and `late` whether its handler had not begun to run when the
\* server was closed.
NoConnection ==
    [at |-> "none", v |-> 0, part |-> 0, reads |-> TRUE, late |-> FALSE]

Connections(place, v, part) ==
    {c \in Clients : /\ conn[c].at = place
                     /\ conn[c].v = v /\ conn[c].part = part /\ ~ conn[c].late}

Init ==
    /\ disk \in [v : {1}, kind : Kinds]
    /\ hups = 0
    /\ at = "begin"
    /\ initial = TRUE
    /\ stopEvent = FALSE
    /\ reloadEvent = FALSE
    /\ runtime = 0
    /\ loaded = [v |-> 0, kind |-> "broken"]
    /\ leaving = 0
    /\ up = {}
    /\ serial = {}
    /\ waits \in BOOLEAN
    /\ stop = "none"
    /\ conn = [c \in Clients |-> NoConnection]

-----------------------------------------------------------------------------
(* The surroundings. *)

\* Somebody edits the configuration file.
Edit ==
    /\ disk.v <= MaxEdits
    /\ disk' \in [v : {disk.v + 1}, kind : Kinds]
    /\ UNCHANGED <<hups, at, initial, stopEvent, reloadEvent, runtime, loaded,
                   leaving, up, serial, clientVars>>

\* SIGHUP: request_reload.
Hup ==
    /\ at \notin {"begin", "ended", "failed"}
    /\ hups < MaxHups
    /\ hups' = hups + 1
    /\ reloadEvent' = TRUE
    /\ UNCHANGED <<disk, at, initial, stopEvent, runtime, loaded, leaving, up,
                   serial, clientVars>>

\* SIGTERM or SIGINT: request_shutdown.
Term ==
    /\ at \notin {"begin", "ended", "failed"}
    /\ stopEvent' = TRUE
    /\ UNCHANGED <<disk, hups, at, initial, reloadEvent, runtime, loaded,
                   leaving, up, serial, clientVars>>

\* The first request for a serial backend opens its session.
OpenSerial(v) ==
    /\ <<v, 0>> \in up
    /\ serial' = serial \cup {v}
    /\ UNCHANGED <<disk, hups, at, initial, stopEvent, reloadEvent, runtime,
                   loaded, leaving, up, clientVars>>

-----------------------------------------------------------------------------
(* The clients of the frontends. *)

Moves(c, record) ==
    /\ conn' = [conn EXCEPT ![c] = record]
    /\ UNCHANGED <<disk, hups, at, initial, stopEvent, reloadEvent, runtime,
                   loaded, leaving, up, serial, waits, stop>>

\* A frontend that is up and whose server is not closed accepts a connection.
Connect(c) ==
    /\ conn[c] = NoConnection
    /\ at \notin {"ended", "failed"}
    /\ \E p \in up, reads \in BOOLEAN :
          /\ p[2] # 0
          /\ ~ (stop # "none" /\ p[1] = leaving
                /\ \A q \in 1 .. p[2] - 1 : <<leaving, q>> \notin up)
          /\ Moves(c, [at |-> "accepted", v |-> p[1], part |-> p[2],
                       reads |-> reads, late |-> FALSE])

\* Its handler begins to run and puts its task into _tasks.
Serve(c) ==
    /\ conn[c].at = "accepted"
    /\ Moves(c, [conn[c] EXCEPT !.at = "served"])

\* The client ends the connection, and the handler with it.
Disconnect(c) ==
    /\ conn[c] # NoConnection
    /\ Moves(c, NoConnection)

\* A cancelled handler closes its writer, which ends when what it has written has
\* been read.
HandlerEnds(c) ==
    /\ conn[c].at = "cancelled"
    /\ conn[c].reads
    /\ Moves(c, NoConnection)

-----------------------------------------------------------------------------
(* _reload_runtime, _stop_runtime and _start_runtime. *)

\* An exception ends the program at its first start, and is logged later.
Failed == IF initial THEN "failed" ELSE "waiting"

Leave_Never == /\ at' = "starting"          \* mutant: the runtime is replaced,
               /\ UNCHANGED <<runtime, leaving>>     \* not stopped

\* The runtime in place is stopped before the new one is started.
Leave ==
    /\ at' = IF runtime = 0 THEN "starting" ELSE "stopping"
    /\ leaving' = runtime
    /\ runtime' = 0

\* The configuration file is loaded, or found broken; state_dir is made outside
\* any try block.
Load ==
    /\ loaded' = disk
    /\ \/ /\ disk.kind = "broken"
          /\ at' = Failed
          /\ UNCHANGED <<runtime, leaving>>
       \/ /\ disk.kind = "no_state_dir"
          /\ at' = "failed"
          /\ UNCHANGED <<runtime, leaving>>
       \/ /\ disk.kind \notin {"broken", "no_state_dir"}
          /\ Leave
    /\ UNCHANGED <<disk, hups, initial, stopEvent, up, serial, clientVars>>

\* run() installs the signal handlers and loads the first configuration.
Begin ==
    /\ at = "begin"
    /\ Load
    /\ UNCHANGED reloadEvent

\* The parts of the runtime that leaves are stopped one by one, the frontends
\* first, in order, and then the tasks.
Stopping(part) ==
    /\ at \in {"stopping", "closing"}
    /\ <<leaving, part>> \in up
    /\ part = 0 => \A q \in Parts \ {0} : <<leaving, q>> \notin up
    /\ \A q \in 1 .. part - 1 : <<leaving, q>> \notin up

appVars == <<disk, hups, at, initial, stopEvent, reloadEvent, runtime, loaded,
             leaving, serial, waits>>

StopTasks ==
    /\ Stopping(0)
    /\ up' = up \ {<<leaving, 0>>}
    /\ UNCHANGED <<appVars, stop, conn>>

Interrupted(c, part) ==
    CASE c \in Connections("served", leaving, part) -> [conn[c] EXCEPT !.at = "cancelled"]
      [] c \in Connections("accepted", leaving, part) -> [conn[c] EXCEPT !.late = TRUE]
      [] OTHER -> conn[c]

\* Mutant: no handler is cancelled.
Cancel_None(part) == stop' = "cancelled" /\ UNCHANGED conn

\* The handlers in _tasks are cancelled; those that have not begun are not there.
Cancel(part) ==
    /\ stop' = "cancelled"
    /\ conn' = [c \in Clients |-> Interrupted(c, part)]

\* The server is closed, and its connections are waited for or not.
CloseServer(part) ==
    /\ part # 0
    /\ Stopping(part)
    /\ stop = "none"
    /\ IF waits THEN stop' = "closed" /\ UNCHANGED conn ELSE Cancel(part)
    /\ UNCHANGED <<appVars, up>>

\* They have all ended.
ServerClosed(part) ==
    /\ Stopping(part)
    /\ stop = "closed"
    /\ \A c \in Clients : conn[c].v = leaving => conn[c].part # part
    /\ Cancel(part)
    /\ UNCHANGED <<appVars, up>>

\* gather() is over when the cancelled handlers have ended.
StopPart(part) ==
    /\ Stopping(part)
    /\ stop = "cancelled"
    /\ Connections("cancelled", leaving, part) = {}
    /\ up' = up \ {<<leaving, part>>}
    /\ stop' = "none"
    /\ UNCHANGED <<appVars, conn>>

StopFrontend(part) == CloseServer(part) \/ ServerClosed(part) \/ StopPart(part)

\* Nothing of it is left but a serial session: SerialBackend has no close().
Stopped ==
    /\ at \in {"stopping", "closing"}
    /\ \A part \in Parts : <<leaving, part>> \notin up
    /\ at' = IF at = "stopping" THEN "starting" ELSE "ended"
    /\ leaving' = 0
    /\ UNCHANGED <<disk, hups, initial, stopEvent, reloadEvent, runtime, loaded,
                   up, serial, clientVars>>

\* The parts are started in order.
NextPart == Cardinality({part \in Parts : <<loaded.v, part>> \in up})

StartPart ==
    /\ at = "starting"
    /\ NextPart \in Parts
    /\ loaded.kind # "unstartable" \/ NextPart < Frontends
    /\ up' = up \cup {<<loaded.v, NextPart>>}
    /\ UNCHANGED <<disk, hups, at, initial, stopEvent, reloadEvent, runtime,
                   loaded, leaving, serial, clientVars>>

\* Mutant: the event is cleared after the reload.
Reloaded_Clear == reloadEvent' = FALSE

\* What the end of a reload does to the request for one.
Reloaded == UNCHANGED reloadEvent

\* All parts are up.  A pid file that cannot be written ends the program.
Started ==
    /\ at = "starting"
    /\ NextPart \notin Parts
    /\ at' = IF loaded.kind = "no_pid_file" THEN "failed" ELSE "waiting"
    /\ initial' = FALSE
    /\ runtime' = loaded.v
    /\ Reloaded
    /\ UNCHANGED <<disk, hups, stopEvent, loaded, leaving, up, serial, clientVars>>

\* Mutant: what could be started is taken for the runtime.
StartFails_Kept ==
    /\ at = "starting"
    /\ loaded.kind = "unstartable"
    /\ NextPart \in Parts \ {0}
    /\ at' = Failed
    /\ runtime' = loaded.v
    /\ UNCHANGED <<disk, hups, initial, stopEvent, reloadEvent, loaded,
                   leaving, up, serial, clientVars>>

\* A frontend cannot be started.  What was started before it runs on, and
\* nothing keeps it.
StartFails ==
    /\ at = "starting"
    /\ loaded.kind = "unstartable"
    /\ NextPart \in Parts \ {0}
    /\ at' = Failed
    /\ UNCHANGED <<disk, hups, initial, stopEvent, reloadEvent, runtime, loaded,
                   leaving, up, serial, clientVars>>

-----------------------------------------------------------------------------
(* The loop of run(). *)

\* Mutant: without a runtime no event is awaited.
HeedsStop_Up == stopEvent /\ runtime # 0

\* What the loop waits for.  The reload event is awaited with a runtime only.
HeedsStop == stopEvent
HeedsReload == reloadEvent /\ runtime # 0

Reload ==
    /\ at = "waiting"
    /\ HeedsReload /\ ~ HeedsStop
    /\ reloadEvent' = FALSE
    /\ Load

Shutdown ==
    /\ at = "waiting"
    /\ HeedsStop
    /\ at' = "closing"
    /\ leaving' = runtime
    /\ runtime' = 0
    /\ UNCHANGED <<disk, hups, initial, stopEvent, reloadEvent, loaded, up,
                   serial, clientVars>>

-----------------------------------------------------------------------------

Run ==
    \/ Begin \/ StopTasks \/ (\E part \in Parts : StopFrontend(part)) \/ Stopped
    \/ StartPart \/ Started \/ StartFails \/ Reload \/ Shutdown

Next ==
    \/ Run
    \/ Edit \/ Hup \/ Term \/ \E v \in Versions : OpenSerial(v)
    \/ \E c \in Clients : Connect(c) \/ Serve(c) \/ Disconnect(c) \/ HandlerEnds(c)

Spec == Init /\ [][Next]_vars

\* run() goes on when it can, and so do the handlers; no client has to leave.
FairSpec ==
    /\ Spec
    /\ WF_vars(Run)
    /\ \A c \in Clients : WF_vars(Serve(c)) /\ WF_vars(HandlerEnds(c))

-----------------------------------------------------------------------------

TypeOK ==
    /\ disk \in [v : Versions, kind : Kinds]
    /\ hups \in 0 .. MaxHups
    /\ at \in {"begin", "waiting", "stopping", "starting", "closing", "ended",
               "failed"}
    /\ initial \in BOOLEAN /\ stopEvent \in BOOLEAN /\ reloadEvent \in BOOLEAN
    /\ runtime \in IF at \in {"waiting", "failed"} THEN 0 .. disk.v ELSE {0}
    /\ loaded \in [v : 0 .. disk.v, kind : Kinds]
    /\ leaving \in 0 .. disk.v
    /\ up \subseteq (Versions \X Parts)
    /\ serial \subseteq Versions
    /\ waits \in BOOLEAN
    /\ stop \in IF at \in {"stopping", "closing"} THEN {"none", "closed", "cancelled"}
                ELSE {"none"}
    /\ conn \in [Clients -> [at : {"none", "accepted", "served", "cancelled"},
                             v : 0 .. disk.v, part : Parts,
                             reads : BOOLEAN, late : BOOLEAN]]

\* Tasks and frontends of two runtimes are never up together, whatever fails or
\* is signalled: the new ones find the addresses of the old ones free.
OneRuntimeAtATime ==
    \A p, q \in up : p[1] = q[1]

\* While the application waits, all of its runtime is up.  It has none only after a
\* start that failed, and what that start has left up is known: the dispatcher, the
\* response router and the frontends before the one that failed, of the configuration
\* loaded last, which run on and serve, and which no reload or shutdown stops.
RuntimeIsWhole ==
    at = "waiting" =>
        IF runtime # 0
        THEN up = {runtime} \X Parts
        ELSE \E failed \in Parts \ {0} : up = {loaded.v} \X (0 .. failed - 1)

\* A handler does not outlive its frontend, unless its connection was accepted and
\* it had not begun when the server was closed: then nothing cancels it, and it goes
\* on to read requests that nobody dispatches (from Python 3.12.1 on, where the
\* server waits for it, this cannot happen).
HandlersEndWithTheirFrontend ==
    \A c \in Clients :
        conn[c] # NoConnection /\ <<conn[c].v, conn[c].part>> \notin up
            => conn[c].late /\ ~ waits

\* The program is over, or about to be.
Over == at \in {"ended", "failed"}

\* A client holds up stop(): it stays connected and wait_closed() waits for that, or
\* it does not read what its handler has still to write.
HeldUp ==
    \E c \in Clients :
        /\ Stopping(conn[c].part) /\ conn[c].v = leaving
        /\ \/ stop = "closed"
           \/ stop = "cancelled" /\ conn[c].at = "cancelled" /\ ~ conn[c].reads

\* Under FairSpec, unless a client holds up the stop of its frontend for good, a
\* request to reload is honoured, with the file as it is then or later ("Trigger a
\* configuration reload via SIGHUP", cli.py:266).
ReloadIsHonoured ==
    \/ <>[]HeldUp
    \/ \A v \in Versions :
          (reloadEvent /\ disk.v = v /\ ~ stopEvent)
              ~> (loaded.v >= v \/ stopEvent \/ Over)

\* The same as long as there is a runtime: no request is lost to a reload that is
\* under way.
ReloadIsHonouredWhileUp ==
    \/ <>[]HeldUp
    \/ \A v \in Versions :
          (reloadEvent /\ disk.v = v /\ ~ stopEvent)
              ~> (loaded.v >= v \/ stopEvent \/ Over \/ (at = "waiting" /\ runtime = 0))

\* Under FairSpec, and unless a client holds it up for good, a request to shut down
\* is honoured, runtime or none.
ShutdownIsHonoured == <>[]HeldUp \/ (stopEvent ~> Over)

=============================================================================
