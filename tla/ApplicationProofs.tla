-------------------------- MODULE ApplicationProofs --------------------------
(***************************************************************************)
(* Reloads and shutdowns never leave two runtimes up, nor half of one that *)
(* is taken for whole, nor a handler without its frontend; and a start     *)
(* that fails leaves up what it had started: for any number of frontends,  *)
(* clients, edits and signals.                                             *)
(***************************************************************************)
EXTENDS Application, FiniteSetTheorems, TLAPS

\* The first k parts of the runtime of version v.
FirstParts(v, k) == {v} \X (0 .. k - 1)

\* What is up, and which runtime it belongs to, at each place of run().
Upkeep ==
    /\ \A p \in up : p[1] <= disk.v
    /\ OneRuntimeAtATime
    /\ initial => at \in {"begin", "starting", "failed"} /\ runtime = 0
    /\ at = "begin" => up = {} /\ initial
    /\ at = "starting" =>
          /\ loaded.v # 0
          /\ \E k \in 0 .. Frontends + 1 : up = FirstParts(loaded.v, k)
    /\ at = "stopping" => loaded.v # 0 /\ up \subseteq {leaving} \X Parts
    /\ runtime # 0 => up = {runtime} \X Parts
    /\ at = "waiting" /\ runtime = 0 =>
          \E k \in Parts \ {0} : up = FirstParts(loaded.v, k)

\* The frontend that is being stopped: the first that is still up.
Current(part) ==
    /\ part # 0
    /\ <<leaving, part>> \in up
    /\ \A q \in 1 .. part - 1 : <<leaving, q>> \notin up

\* Handlers: which of them a frontend that is closed leaves behind.
Handlers ==
    /\ stop # "none" => \E part \in Parts : Current(part)
    /\ \A c \in Clients : conn[c] # NoConnection =>
          /\ conn[c].at # "none"
          /\ conn[c].part # 0
          /\ conn[c].late => ~ waits
          /\ conn[c].at = "cancelled" => ~ conn[c].late
          /\ <<conn[c].v, conn[c].part>> \notin up => conn[c].late
          /\ stop = "cancelled" /\ conn[c].v = leaving /\ Current(conn[c].part)
                => conn[c].at = "cancelled" \/ conn[c].late

IInv == TypeOK /\ Upkeep /\ Handlers

-----------------------------------------------------------------------------
(* Types. *)

Connection(v) ==
    [at : {"none", "accepted", "served", "cancelled"}, v : 0 .. v, part : Parts,
     reads : BOOLEAN, late : BOOLEAN]

\* No connection is one, too, whatever versions there are.
LEMMA NoneTyped ==
    ASSUME NEW v \in Nat
    PROVE  NoConnection \in Connection(v)
BY ApplicationAssumption DEF NoConnection, Connection, Parts

\* A program that begins satisfies the invariant.
LEMMA InitInv == Init => IInv
<1>. SUFFICES ASSUME Init PROVE IInv
  OBVIOUS
<1>. USE ApplicationAssumption
<1>1. TypeOK
  <2>1. disk.v = 1 /\ disk \in [v : Versions, kind : Kinds]
    BY DEF Init, Versions
  <2>2. conn \in [Clients -> Connection(disk.v)]
    BY <2>1, NoneTyped DEF Init
  <2>3. loaded \in [v : 0 .. disk.v, kind : Kinds]
    BY <2>1 DEF Init, Kinds
  <2>4. stop = "none" /\ runtime = 0 /\ at = "begin"
    BY DEF Init
  <2>5. leaving \in 0 .. disk.v /\ up = {} /\ serial = {} /\ hups \in 0 .. MaxHups
    BY <2>1 DEF Init
  <2>6. /\ initial \in BOOLEAN /\ stopEvent \in BOOLEAN /\ reloadEvent \in BOOLEAN
        /\ waits \in BOOLEAN
    BY DEF Init
  <2>. QED BY <2>1, <2>2, <2>3, <2>4, <2>5, <2>6 DEF TypeOK, Connection
<1>2. Upkeep
  BY DEF Init, Upkeep, OneRuntimeAtATime
<1>3. Handlers
  BY DEF Init, Handlers
<1>. QED
  BY <1>1, <1>2, <1>3 DEF IInv

\* Every step of the surroundings and of a client keeps the types.
LEMMA TypeSurroundings ==
    ASSUME TypeOK, Upkeep,
           \/ Edit \/ Hup \/ Term \/ \E v \in Versions : OpenSerial(v)
           \/ \E c \in Clients : Connect(c) \/ Serve(c) \/ Disconnect(c) \/ HandlerEnds(c)
    PROVE  TypeOK'
<1>. USE ApplicationAssumption DEF TypeOK, clientVars
<1>1. CASE Edit
  BY <1>1 DEF Edit, Versions
<1>2. CASE Hup
  BY <1>2 DEF Hup
<1>3. CASE Term
  BY <1>3 DEF Term
<1>4. ASSUME NEW v \in Versions, OpenSerial(v) PROVE TypeOK'
  BY <1>4 DEF OpenSerial
<1>5. ASSUME NEW c \in Clients, Connect(c) PROVE TypeOK'
  <2>1. PICK p \in up, reads \in BOOLEAN :
            Moves(c, [at |-> "accepted", v |-> p[1], part |-> p[2],
                      reads |-> reads, late |-> FALSE])
    BY <1>5 DEF Connect
  <2>2. p[1] \in 0 .. disk.v /\ p[2] \in Parts
    BY DEF Upkeep, Versions
  <2>. QED BY <2>1, <2>2 DEF Moves
<1>6. ASSUME NEW c \in Clients, Serve(c) PROVE TypeOK'
  BY <1>6 DEF Serve, Moves
<1>7. ASSUME NEW c \in Clients, Disconnect(c) \/ HandlerEnds(c) PROVE TypeOK'
  <2>1. NoConnection \in Connection(disk.v)
    BY NoneTyped DEF Versions
  <2>. QED BY <1>7, <2>1 DEF Disconnect, HandlerEnds, Moves, Connection
<1>. QED
  BY <1>1, <1>2, <1>3, <1>4, <1>5, <1>6, <1>7

\* What a connection becomes when its frontend is stopped is one again.
LEMMA InterruptedTyped ==
    ASSUME TypeOK, NEW part, NEW c \in Clients
    PROVE  Interrupted(c, part) \in Connection(disk.v)
<1>1. conn[c] \in Connection(disk.v)
  BY DEF TypeOK, Connection
<1>2. Interrupted(c, part) \in
         {conn[c], [conn[c] EXCEPT !.at = "cancelled"], [conn[c] EXCEPT !.late = TRUE]}
  BY DEF Interrupted
<1>. QED
  BY <1>1, <1>2 DEF Connection

\* Every step of run() keeps the types.
LEMMA TypeRun ==
    ASSUME TypeOK, Upkeep, Handlers, Run
    PROVE  TypeOK'
<1>. USE ApplicationAssumption DEF TypeOK, clientVars, appVars
<1>1. CASE Begin \/ Reload
  <2>1. loaded' = disk /\ UNCHANGED <<disk, hups, initial, stopEvent, up, serial, clientVars>>
    BY <1>1 DEF Begin, Reload, Load
  <2>2. /\ runtime \in 0 .. disk.v /\ stop = "none" /\ reloadEvent' \in BOOLEAN
        /\ at = "begin" => runtime = 0
    <3>1. CASE Begin
      BY <3>1 DEF Begin, Versions
    <3>2. CASE Reload
      BY <3>2 DEF Reload
    <3>. QED BY <1>1, <3>1, <3>2
  <2>3. /\ at' \in {"waiting", "failed", "starting", "stopping"}
        /\ leaving' \in 0 .. disk.v
        /\ runtime' \in IF at' \in {"waiting", "failed"} THEN 0 .. disk.v ELSE {0}
    BY <1>1, <2>2 DEF Begin, Reload, Load, Leave, Failed, Versions
  <2>4. disk'.v \in 0 .. disk'.v
    BY <2>1 DEF Versions
  <2>. QED BY <2>1, <2>2, <2>3, <2>4
<1>2. CASE StopTasks
  BY <1>2 DEF StopTasks, Stopping
<1>3. ASSUME NEW part \in Parts, StopFrontend(part)
      PROVE  TypeOK'
  <2>1. conn' = conn \/ conn' = [c \in Clients |-> Interrupted(c, part)]
    BY <1>3 DEF StopFrontend, CloseServer, ServerClosed, StopPart, Cancel
  <2>2. conn' \in [Clients -> Connection(disk.v)]
    BY <2>1, InterruptedTyped DEF Connection
  <2>3. UNCHANGED appVars /\ up' \subseteq up
    BY <1>3 DEF StopFrontend, CloseServer, ServerClosed, StopPart
  <2>4. at \in {"stopping", "closing"} /\ stop' \in {"none", "closed", "cancelled"}
    BY <1>3 DEF StopFrontend, CloseServer, ServerClosed, StopPart, Cancel, Stopping
  <2>. QED BY <2>2, <2>3, <2>4 DEF Connection
<1>4. CASE Stopped
  <2>1. stop = "none"
    BY <1>4 DEF Stopped, Handlers, Current
  <2>. QED BY <1>4, <2>1 DEF Stopped, Versions
<1>5. CASE StartPart
  BY <1>5 DEF StartPart, Upkeep, Versions
<1>6. CASE Started
  BY <1>6 DEF Started, Reloaded
<1>8. CASE StartFails
  BY <1>8 DEF StartFails, Failed, Versions
<1>7. CASE Shutdown
  BY <1>7 DEF Shutdown, Versions
<1>. QED
  BY <1>1, <1>2, <1>3, <1>4, <1>5, <1>6, <1>7, <1>8 DEF Run

LEMMA TypeStep ==
    ASSUME TypeOK, Upkeep, Handlers, [Next]_vars
    PROVE  TypeOK'
<1>1. CASE UNCHANGED vars
  BY <1>1 DEF TypeOK, vars
<1>. QED
  BY <1>1, TypeSurroundings, TypeRun DEF Next

-----------------------------------------------------------------------------
(* What is up. *)

\* While a runtime is started, NextPart is the first part that is not up.
LEMMA PartsInOrder ==
    ASSUME NEW k \in 0 .. Frontends + 1, up = FirstParts(loaded.v, k)
    PROVE  NextPart = k
<1>1. {part \in Parts : <<loaded.v, part>> \in up} = 0 .. k - 1
  BY ApplicationAssumption DEF FirstParts, Parts
<1>2. Cardinality(0 .. k - 1) = k
  BY FS_Interval, ApplicationAssumption
<1>. QED
  BY <1>1, <1>2, Zenon DEF NextPart

\* What the surroundings and the clients do changes nothing that is up.
LEMMA UpkeepSurroundings ==
    ASSUME TypeOK, Upkeep,
           \/ Edit \/ Hup \/ Term \/ \E v \in Versions : OpenSerial(v)
           \/ \E c \in Clients : Connect(c) \/ Serve(c) \/ Disconnect(c) \/ HandlerEnds(c)
    PROVE  Upkeep'
<1>1. UNCHANGED <<up, at, initial, runtime, loaded, leaving>> /\ disk.v <= disk'.v
      /\ disk'.v \in Nat
  <2>1. CASE Edit
    BY <2>1 DEF Edit, TypeOK, Versions
  <2>2. CASE Hup \/ Term \/ \E v \in Versions : OpenSerial(v)
    <3>1. UNCHANGED <<disk, up, at, initial, runtime, loaded, leaving>>
      BY <2>2 DEF Hup, Term, OpenSerial
    <3>. QED BY <3>1 DEF TypeOK, Versions
  <2>3. CASE \E c \in Clients : Connect(c) \/ Serve(c) \/ Disconnect(c) \/ HandlerEnds(c)
    BY <2>3 DEF TypeOK, Versions, Connect, Serve, Disconnect, HandlerEnds, Moves
  <2>. QED BY <2>1, <2>2, <2>3
<1>2. \A p \in up : p[1] <= disk'.v
  BY <1>1 DEF Upkeep, TypeOK, Versions
<1>. QED
  BY <1>1, <1>2 DEF Upkeep, OneRuntimeAtATime

\* run() begins to stop a runtime that is whole, starts the parts of the next in
\* order when nothing of the last is up, and takes for the runtime one that is whole.
LEMMA UpkeepRun ==
    ASSUME TypeOK, Upkeep, Handlers, Run
    PROVE  Upkeep'
<1>. USE ApplicationAssumption DEF TypeOK, clientVars, appVars
<1>1. CASE Begin \/ Reload
  <2>1. /\ loaded' = disk /\ UNCHANGED <<disk, initial, up>>
        /\ at = "begin" => up = {} /\ runtime = 0 /\ initial
        /\ at # "begin" => runtime # 0 /\ ~ initial
    BY <1>1 DEF Begin, Reload, Load, HeedsReload, Upkeep
  <2>2. CASE Leave
    <3>1. /\ at' = IF runtime = 0 THEN "starting" ELSE "stopping"
          /\ leaving' = runtime /\ runtime' = 0
      BY <2>2 DEF Leave
    <3>2. loaded'.v # 0
      BY <2>1 DEF Versions
    <3>3. CASE runtime = 0
      <4>1. up = {} /\ FirstParts(loaded'.v, 0) = {}
        BY <2>1, <3>3 DEF FirstParts
      <4>. QED BY <2>1, <3>1, <3>2, <3>3, <4>1 DEF Upkeep, OneRuntimeAtATime
    <3>4. CASE runtime # 0
      <4>1. up = {runtime} \X Parts
        BY <3>4 DEF Upkeep
      <4>. QED BY <2>1, <3>1, <3>2, <3>4, <4>1 DEF Upkeep, OneRuntimeAtATime
    <3>. QED BY <3>3, <3>4
  <2>3. CASE at' \in {Failed, "failed"} /\ UNCHANGED <<runtime, leaving>>
    BY <2>1, <2>3 DEF Failed, Upkeep, OneRuntimeAtATime
  <2>. QED BY <1>1, <2>2, <2>3 DEF Begin, Reload, Load
<1>2. CASE StopTasks \/ \E part \in Parts : StopFrontend(part)
  <2>1. /\ UNCHANGED appVars /\ up' \subseteq up
        /\ at \in {"stopping", "closing"}
    BY <1>2 DEF StopTasks, StopFrontend, CloseServer, ServerClosed, StopPart, Stopping
  <2>. QED BY <2>1 DEF Upkeep, OneRuntimeAtATime
<1>3. CASE Stopped
  <2>1. at = "stopping" => up = {}
    BY <1>3 DEF Stopped, Upkeep
  <2>2. FirstParts(loaded.v, 0) = {}
    BY DEF FirstParts
  <2>3. at = "stopping" => up' = FirstParts(loaded'.v, 0)
    BY <1>3, <2>1, <2>2 DEF Stopped
  <2>. QED BY <1>3, <2>3 DEF Stopped, Upkeep, OneRuntimeAtATime
<1>4. CASE StartPart
  <2>1. PICK k \in 0 .. Frontends + 1 : up = FirstParts(loaded.v, k)
    BY <1>4 DEF StartPart, Upkeep
  <2>2. NextPart = k /\ k \in Parts
    BY <1>4, <2>1, PartsInOrder DEF StartPart
  <2>3. up' = FirstParts(loaded.v, k + 1) /\ k + 1 \in 0 .. Frontends + 1
    <3>1. 0 .. k + 1 - 1 = (0 .. k - 1) \cup {k}
      BY <2>2 DEF Parts
    <3>. QED BY <1>4, <2>1, <2>2, <3>1 DEF StartPart, FirstParts, Parts
  <2>4. \A p \in up' : p[1] = loaded.v
    BY <2>3 DEF FirstParts
  <2>5. at = "starting" /\ UNCHANGED <<disk, at, initial, runtime, loaded, leaving>>
    BY <1>4 DEF StartPart
  <2>. QED BY <2>3, <2>4, <2>5 DEF Upkeep, OneRuntimeAtATime
<1>5. CASE Started
  <2>1. PICK k \in 0 .. Frontends + 1 : up = FirstParts(loaded.v, k)
    BY <1>5 DEF Started, Upkeep
  <2>2. k = Frontends + 1
    BY <1>5, <2>1, PartsInOrder DEF Started, Parts
  <2>3. up = {loaded.v} \X Parts
    <3>1. 0 .. k - 1 = Parts
      BY <2>2 DEF Parts
    <3>. QED BY <2>1, <3>1 DEF FirstParts
  <2>. QED BY <1>5, <2>3 DEF Started, Upkeep, OneRuntimeAtATime
<1>6. CASE StartFails
  <2>1. PICK k \in 0 .. Frontends + 1 : up = FirstParts(loaded.v, k)
    BY <1>6 DEF StartFails, Upkeep
  <2>2. NextPart = k
    BY <2>1, PartsInOrder
  <2>3. k \in Parts \ {0}
    BY <1>6, <2>2 DEF StartFails
  <2>. QED BY <1>6, <2>1, <2>3 DEF StartFails, Failed, Upkeep, OneRuntimeAtATime
<1>7. CASE Shutdown
  BY <1>7 DEF Shutdown, Upkeep, OneRuntimeAtATime
<1>. QED
  BY <1>1, <1>2, <1>3, <1>4, <1>5, <1>6, <1>7 DEF Run

LEMMA UpkeepStep ==
    ASSUME TypeOK, Upkeep, Handlers, [Next]_vars
    PROVE  Upkeep'
<1>1. CASE UNCHANGED vars
  BY <1>1 DEF Upkeep, OneRuntimeAtATime, vars
<1>. QED
  BY <1>1, UpkeepSurroundings, UpkeepRun DEF Next

-----------------------------------------------------------------------------
(* Handlers. *)

\* At most one frontend is being stopped.
LEMMA OneCurrent ==
    ASSUME NEW p \in Parts, NEW q \in Parts, Current(p), Stopping(q) \/ Current(q)
    PROVE  p = q
BY ApplicationAssumption DEF Current, Stopping, Parts

\* Clients connect to frontends that are up, and not to the one that is stopped.
LEMMA HandlersClients ==
    ASSUME TypeOK, Handlers, NEW c \in Clients,
           Connect(c) \/ Serve(c) \/ Disconnect(c) \/ HandlerEnds(c)
    PROVE  Handlers'
<1>. USE DEF TypeOK
<1>1. /\ UNCHANGED <<leaving, up, waits, stop>>
      /\ \A d \in Clients : d # c => conn'[d] = conn[d]
      /\ \A part : Current(part)' <=> Current(part)
  BY DEF Connect, Serve, Disconnect, HandlerEnds, Moves, Current
<1>2. conn'[c] # NoConnection =>
          /\ conn'[c].at # "none"
          /\ conn'[c].part # 0
          /\ conn'[c].late => ~ waits
          /\ conn'[c].at = "cancelled" => ~ conn'[c].late
          /\ <<conn'[c].v, conn'[c].part>> \notin up => conn'[c].late
          /\ stop = "cancelled" /\ conn'[c].v = leaving /\ Current(conn'[c].part)
                => conn'[c].at = "cancelled" \/ conn'[c].late
  <2>1. CASE Connect(c)
    <3>1. PICK p \in up, reads \in BOOLEAN :
              /\ p[2] # 0
              /\ ~ (stop # "none" /\ p[1] = leaving
                    /\ \A q \in 1 .. p[2] - 1 : <<leaving, q>> \notin up)
              /\ conn'[c] = [at |-> "accepted", v |-> p[1], part |-> p[2],
                             reads |-> reads, late |-> FALSE]
      BY <2>1 DEF Connect, Moves
    <3>2. p = <<p[1], p[2]>>
      OBVIOUS
    <3>. QED BY <3>1, <3>2 DEF Current
  <2>2. CASE Serve(c)
    BY <2>2 DEF Serve, Moves, Handlers, NoConnection
  <2>3. CASE Disconnect(c) \/ HandlerEnds(c)
    BY <2>3 DEF Disconnect, HandlerEnds, Moves
  <2>. QED BY <2>1, <2>2, <2>3
<1>. QED
  BY <1>1, <1>2 DEF Handlers

\* Cancelling a frontend's handlers leaves none behind but those that had not begun,
\* and where the server waits for its connections there are none.
LEMMA HandlersCancel ==
    ASSUME TypeOK, Handlers, NEW part \in Parts \ {0}, Stopping(part), Cancel(part),
           UNCHANGED <<leaving, up, waits>>,
           waits => \A c \in Clients : conn[c].v = leaving => conn[c].part # part
    PROVE  Handlers'
<1>. USE DEF TypeOK
<1>1. Current(part) /\ \A q : Current(q)' <=> Current(q)
  BY DEF Current, Stopping
<1>2. ASSUME NEW c \in Clients, conn'[c] # NoConnection
      PROVE  /\ conn'[c].at # "none"
             /\ conn'[c].part # 0
             /\ conn'[c].late => ~ waits
             /\ conn'[c].at = "cancelled" => ~ conn'[c].late
             /\ <<conn'[c].v, conn'[c].part>> \notin up => conn'[c].late
             /\ conn'[c].v = leaving /\ Current(conn'[c].part)
                   => conn'[c].at = "cancelled" \/ conn'[c].late
  <2>1. conn'[c] = Interrupted(c, part)
    BY DEF Cancel
  <2>2. conn[c] # NoConnection
    <3>1. NoConnection.at = "none"
      BY DEF NoConnection
    <3>. QED BY <1>2, <2>1, <3>1 DEF Interrupted, Connections
  <2>3. conn[c].part \in Parts
    OBVIOUS
  <2>4. CASE conn[c].v = leaving /\ conn[c].part = part
    BY <2>1, <2>2, <2>4, <1>1 DEF Interrupted, Connections, Handlers
  <2>5. CASE ~ (conn[c].v = leaving /\ conn[c].part = part)
    <3>1. conn'[c] = conn[c]
      BY <2>1, <2>5 DEF Interrupted, Connections
    <3>. QED BY <2>2, <2>3, <2>5, <3>1, <1>1, OneCurrent DEF Handlers
  <2>. QED BY <2>4, <2>5
<1>. QED
  BY <1>1, <1>2 DEF Handlers, Cancel

\* run() closes, cancels and waits for the handlers of one frontend after another.
LEMMA HandlersRun ==
    ASSUME TypeOK, Handlers, Run
    PROVE  Handlers'
<1>. USE ApplicationAssumption DEF TypeOK, clientVars, appVars
<1>1. ASSUME stop = "none", UNCHANGED clientVars, up \subseteq up'
      PROVE  Handlers'
  BY <1>1 DEF Handlers
<1>2. CASE Begin \/ Reload \/ Shutdown \/ StartPart \/ Started \/ StartFails
  BY <1>1, <1>2 DEF Begin, Reload, Load, Leave, Shutdown, StartPart, Started, StartFails
<1>3. CASE Stopped
  <2>1. stop = "none"
    BY <1>3 DEF Stopped, Handlers, Current
  <2>. QED BY <1>1, <1>3, <2>1 DEF Stopped
<1>4. CASE StopTasks
  <2>1. stop = "none"
    BY <1>4 DEF StopTasks, Stopping, Handlers, Current
  <2>. QED BY <1>4, <2>1 DEF StopTasks, Handlers
<1>5. ASSUME NEW part \in Parts, CloseServer(part)
      PROVE  Handlers'
  <2>1. CASE waits
    <3>1. Current(part)' /\ stop' = "closed" /\ UNCHANGED <<conn, up, waits>>
      BY <1>5, <2>1 DEF CloseServer, Current, Stopping
    <3>. QED BY <3>1 DEF Handlers
  <2>2. CASE ~ waits
    BY <1>5, <2>2, HandlersCancel DEF CloseServer
  <2>. QED BY <2>1, <2>2
<1>6. ASSUME NEW part \in Parts, ServerClosed(part)
      PROVE  Handlers'
  <2>1. part # 0
    BY <1>6 DEF ServerClosed, Stopping, Handlers, Current
  <2>. QED BY <1>6, <2>1, HandlersCancel DEF ServerClosed
<1>7. ASSUME NEW part \in Parts, StopPart(part)
      PROVE  Handlers'
  <2>1. Current(part)
    BY <1>7, OneCurrent DEF StopPart, Handlers
  <2>2. \A c \in Clients :
            conn[c] # NoConnection /\ conn[c].v = leaving /\ conn[c].part = part
               => conn[c].late
    BY <1>7, <2>1 DEF StopPart, Connections, Handlers
  <2>. QED BY <1>7, <2>2 DEF StopPart, Handlers
<1>. QED
  BY <1>2, <1>3, <1>4, <1>5, <1>6, <1>7 DEF Run, StopFrontend

LEMMA HandlersStep ==
    ASSUME TypeOK, Handlers, [Next]_vars
    PROVE  Handlers'
<1>1. CASE UNCHANGED vars \/ Edit \/ Hup \/ Term \/ \E v \in Versions : OpenSerial(v)
  <2>1. UNCHANGED <<leaving, up, waits, stop, conn>>
    BY <1>1 DEF vars, clientVars, Edit, Hup, Term, OpenSerial
  <2>. QED BY <2>1 DEF Handlers, Current
<1>. QED
  BY <1>1, HandlersClients, HandlersRun DEF Next

-----------------------------------------------------------------------------
(* What holds of the application. *)

\* The state of the application is typed and its invariant holds, whichever way
\* configurations fail and whenever signals and clients come.
THEOREM ApplicationInvariant == Spec => []IInv
<1>1. IInv /\ [Next]_vars => IInv'
  BY TypeStep, UpkeepStep, HandlersStep DEF IInv
<1>. QED BY <1>1, InitInv, PTL DEF Spec

\* Parts of two runtimes are never up together.
THEOREM OneRuntime == Spec => []OneRuntimeAtATime
<1>1. IInv => OneRuntimeAtATime
  BY DEF IInv, Upkeep
<1>. QED BY <1>1, ApplicationInvariant, PTL

\* A runtime that run() waits with has all of its parts up; without one, the parts
\* that are up are those that the failed start had come to, and no others.
THEOREM WholeRuntime == Spec => []RuntimeIsWhole
<1>1. IInv => RuntimeIsWhole
  BY DEF IInv, Upkeep, RuntimeIsWhole, FirstParts
<1>. QED BY <1>1, ApplicationInvariant, PTL

\* A handler whose frontend is stopped had not begun when the server was closed, on
\* a Python whose wait_closed() waits for nothing; otherwise it has ended.
THEOREM HandlersEnd == Spec => []HandlersEndWithTheirFrontend
<1>1. IInv => HandlersEndWithTheirFrontend
  BY DEF IInv, Handlers, HandlersEndWithTheirFrontend
<1>. QED BY <1>1, ApplicationInvariant, PTL

=============================================================================
