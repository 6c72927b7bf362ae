---------------------------- MODULE ServiceProofs ----------------------------
(***************************************************************************)
(* One pid file, one gateway: for any number of administrators who use the *)
(* commands patiently, and of gateways that crash, hang and fail to start. *)
(***************************************************************************)
EXTENDS Service, TLAPS

\* Commands that are being given.
Active == {a \in Admins : cmd[a].at # "idle"}

\* No gateway is about to write the pid file, or asked to.
Settled ==
    \A p \in Instances :
        gateway[p] = "bare" \/ (gateway[p] = "up" /\ pending[p] # "HUP")

\* Places of a command at which it has read the pid of the only gateway there can
\* be, and at which there is none.
Following == {"check", "term", "hup", "wait", "kill", "waitKilled"}
Alone == {"unlink", "spawn", "remove", "stale", "stopped"}

\* A pid that was read belongs to a process that exists or has existed, and a
\* command that removes the file after a stop has seen that process end.
Known ==
    /\ pidFile # Nobody => gateway[pidFile] # "unborn"
    /\ \A a \in Admins :
          /\ cmd[a].pid # Nobody => gateway[cmd[a].pid] # "unborn"
          /\ cmd[a].at \in {"remove", "stopped"} => ~ Running(cmd[a].pid)

\* What patience adds: one command at a time; while it is given, gateways only
\* end; and the file that a gateway has open is the one that will be read.
Orderly ==
    /\ \A a, b \in Active : a = b
    /\ Active # {} => Settled
    /\ \A a \in Admins :
          /\ cmd[a].at \in Following => Instances \subseteq {cmd[a].pid}
          /\ cmd[a].at \in Alone => Instances = {}
          /\ cmd[a].at = "stopped" => pidFile = Nobody
    /\ \A p \in Pids : gateway[p] = "writing" => p \in writers
    /\ \A p, q \in Instances : p = q
    /\ \A p \in Pids : gateway[p] \in {"up", "bare"} => pidFile = p

IInv == TypeOK /\ Known /\ (patient => Orderly)

-----------------------------------------------------------------------------
(* Types. *)

\* Before anything is started the invariant holds.
LEMMA InitInv == Init => IInv
<1>. SUFFICES ASSUME Init PROVE IInv
  OBVIOUS
<1>1. TypeOK
  BY DEF Init, TypeOK, NoCommand, None, Nobody
<1>2. Instances = {} /\ Active = {}
  BY DEF Init, Instances, Active, NoCommand
<1>3. Known
  BY DEF Init, Known, NoCommand, Nobody
<1>4. Orderly
  BY <1>2 DEF Init, Orderly, Settled, Instances, NoCommand, Following, Alone
<1>. QED
  BY <1>1, <1>3, <1>4 DEF IInv

\* A signal leaves pending typed, and at a gateway it is sent to.
LEMMA SentTyped ==
    ASSUME TypeOK, NEW p \in Pids, NEW signal \in {"HUP", "TERM", "KILL"},
           Sent(p, signal)
    PROVE  /\ pending' \in [Pids -> {None, "HUP", "TERM", "KILL"}]
           /\ \A q \in Pids : pending'[q] \in {pending[q], signal}
BY DEF TypeOK, Sent

\* What runs is a process.
LEMMA RunningIsBorn ==
    ASSUME TypeOK, NEW pid \in Pids \cup {Nobody}, Running(pid)
    PROVE  pid \in Pids /\ gateway[pid] # "unborn"
BY DEF TypeOK, Running, Instances

\* Every step of a gateway keeps the types.
LEMMA TypeGateway ==
    ASSUME TypeOK, NEW p \in Pids, Gateway(p) \/ End(p) \/ Interrupt(p)
    PROVE  TypeOK'
<1>1. CASE Started(p)
  BY <1>1 DEF TypeOK, Started, OpenFile, Becomes, Nobody
<1>2. CASE WriteFile(p)
  BY <1>2 DEF TypeOK, WriteFile, Becomes, Nobody
<1>3. CASE Reload(p)
  BY <1>3 DEF TypeOK, Reload, OpenFile, Becomes, Nobody, None
<1>4. CASE Leave(p)
  BY <1>4 DEF TypeOK, Leave, Unlink, Becomes, Nobody, None
<1>5. CASE End(p)
  BY <1>5 DEF TypeOK, End, Becomes, Nobody, None
<1>6. CASE Interrupt(p)
  BY <1>6, SentTyped DEF TypeOK, Interrupt
<1>. QED
  BY <1>1, <1>2, <1>3, <1>4, <1>5, <1>6 DEF Gateway

\* Every step of a command keeps the types.
LEMMA TypeCommand ==
    ASSUME TypeOK, NEW a \in Admins,
           Works(a) \/ \E op \in Operations : Command(a, op)
    PROVE  TypeOK'
<1>. USE DEF TypeOK, Operations, None, Nobody
<1>1. CASE \E op \in Operations : Command(a, op)
  BY <1>1 DEF Command, GoesOn
<1>2. CASE Read(a)
  BY <1>2 DEF Read
<1>3. CASE StartChecks(a)
  BY <1>3 DEF StartChecks, Finds, Ends, GoesOn, NoCommand
<1>4. CASE StopChecks(a)
  BY <1>4 DEF StopChecks, Finds, Goes, StopEnds, Ends, GoesOn, NoCommand
<1>5. CASE ReloadChecks(a)
  BY <1>5 DEF ReloadChecks, Finds, Goes, Ends, NoCommand
<1>6. CASE StatusChecks(a)
  BY <1>6 DEF StatusChecks, Finds, Ends, NoCommand
<1>7. CASE StartUnlinks(a)
  BY <1>7 DEF StartUnlinks, Unlink, Goes
<1>8. CASE Spawn(a)
  BY <1>8 DEF Spawn, Becomes, Ends, NoCommand
<1>9. CASE SpawnFails(a)
  BY <1>9 DEF SpawnFails, Ends, NoCommand
<1>10. ASSUME NEW from, NEW signal \in {"HUP", "TERM", "KILL"},
              NEW next \in {"idle", "wait", "waitKilled"}, Signal(a, from, signal, next)
       PROVE  TypeOK'
  <2>1. pending' \in [Pids -> {None, "HUP", "TERM", "KILL"}]
    BY <1>10, SentTyped, RunningIsBorn DEF Signal
  <2>. QED BY <1>10, <2>1 DEF Signal, Ends, Goes, NoCommand
<1>11. CASE Hup(a) \/ Term(a) \/ Kill(a)
  BY <1>10, <1>11 DEF Hup, Term, Kill
<1>12. CASE Waited(a)
  BY <1>12 DEF Waited, Goes
<1>13. CASE TimedOut(a)
  BY <1>13 DEF TimedOut, Goes, StopEnds, Ends, GoesOn, NoCommand
<1>14. CASE Remove(a)
  BY <1>14 DEF Remove, Unlink, Goes, StopEnds, Ends, GoesOn, NoCommand
<1>15. CASE Stopped(a)
  BY <1>15 DEF Stopped, StopEnds, Ends, GoesOn, NoCommand
<1>. QED
  BY <1>1, <1>2, <1>3, <1>4, <1>5, <1>6, <1>7, <1>8, <1>9, <1>11, <1>12, <1>13,
     <1>14, <1>15 DEF Works

LEMMA TypeStep ==
    ASSUME TypeOK, [Next]_vars
    PROVE  TypeOK'
<1>1. CASE UNCHANGED vars
  BY <1>1 DEF TypeOK, vars
<1>. QED
  BY <1>1, TypeGateway, TypeCommand DEF Next

-----------------------------------------------------------------------------
(* Which processes there are. *)

\* A step starts one process at most, by the only command that can, and what has
\* ended stays ended.
LEMMA OnlySpawnStarts ==
    ASSUME TypeOK, Next, NEW p \in Pids
    PROVE  /\ gateway'[p] = "unborn" => gateway[p] = "unborn"
           /\ (gateway[p] # "unborn" /\ ~ Running(p)) => ~ Running(p)'
           /\ Running(p)' /\ gateway[p] # "unborn" => Running(p)
<1>. USE DEF TypeOK, Running, Instances
<1>1. ASSUME NEW q \in Pids, Gateway(q) \/ End(q) \/ Interrupt(q)
      PROVE  /\ gateway'[p] = "unborn" => gateway[p] = "unborn"
             /\ Running(p)' => Running(p)
  BY <1>1 DEF Gateway, Started, WriteFile, Reload, Leave, End, Interrupt, OpenFile,
              Becomes
<1>2. ASSUME NEW a \in Admins, Spawn(a)
      PROVE  /\ gateway'[p] = "unborn" => gateway[p] = "unborn"
             /\ Running(p)' /\ gateway[p] # "unborn" => Running(p)
  BY <1>2 DEF Spawn, Becomes
<1>3. ASSUME NEW a \in Admins,
             (Works(a) /\ ~ Spawn(a)) \/ \E op \in Operations : Command(a, op)
      PROVE  UNCHANGED gateway
  BY <1>3 DEF Works, Command, Read, StartChecks, StopChecks, ReloadChecks,
              StatusChecks, Finds, StartUnlinks, SpawnFails, Hup, Term, Kill,
              Signal, Waited, TimedOut, Remove, Stopped
<1>. QED
  BY <1>1, <1>2, <1>3 DEF Next

\* What a command knows of its pid, after a step of a gateway.
LEMMA KnownGateway ==
    ASSUME TypeOK, Known, Next, NEW p \in Pids, Gateway(p) \/ End(p) \/ Interrupt(p)
    PROVE  Known'
<1>1. UNCHANGED cmd
  BY DEF Gateway, Started, WriteFile, Reload, Leave, End, Interrupt
<1>2. pidFile' \in {pidFile, Nobody, p} /\ (pidFile' = p => gateway'[p] # "unborn")
  BY DEF TypeOK, Known, Gateway, Started, WriteFile, Reload, Leave, End, Interrupt,
         OpenFile, Becomes, Unlink, Nobody, Running, Instances
<1>3. pidFile' # Nobody => gateway'[pidFile'] # "unborn"
  BY <1>2, OnlySpawnStarts DEF TypeOK, Known
<1>4. ASSUME NEW a \in Admins
      PROVE  /\ cmd[a].pid # Nobody => gateway'[cmd[a].pid] # "unborn"
             /\ cmd[a].at \in {"remove", "stopped"} => ~ Running(cmd[a].pid)'
  <2>1. cmd[a].pid \in Pids \cup {Nobody}
    BY DEF TypeOK
  <2>2. ~ Running(Nobody)'
    BY DEF Running, Instances, Nobody, Pids
  <2>. QED BY <1>1, <2>1, <2>2, OnlySpawnStarts DEF Known
<1>. QED
  BY <1>1, <1>3, <1>4 DEF Known, Running, Instances

\* What a command knows of its pid, after a step of a command.
LEMMA KnownCommand ==
    ASSUME TypeOK, Known, Next, NEW a \in Admins,
           Works(a) \/ \E op \in Operations : Command(a, op)
    PROVE  Known'
<1>1. /\ pidFile' \in {pidFile, Nobody}
      /\ \A b \in Admins :
            /\ cmd'[b].pid \in {cmd[b].pid, pidFile, Nobody}
            /\ cmd'[b].at \in {"remove", "stopped"} =>
                  /\ cmd'[b].pid = cmd[b].pid
                  /\ ~ Running(cmd[b].pid)
  <2>. USE DEF TypeOK, Known, Nobody
  <2>1. CASE Waited(a) \/ TimedOut(a) \/ Remove(a) \/ Stopped(a)
    BY <2>1 DEF Waited, TimedOut, Remove, Stopped, Goes, StopEnds, Ends, GoesOn,
                NoCommand, Unlink
  <2>2. CASE \/ Read(a) \/ StartChecks(a) \/ StopChecks(a) \/ ReloadChecks(a)
             \/ StatusChecks(a) \/ StartUnlinks(a) \/ Spawn(a) \/ SpawnFails(a)
             \/ \E op \in Operations : Command(a, op)
    BY <2>2 DEF Read, StartChecks, StopChecks, ReloadChecks, StatusChecks, Finds,
                StartUnlinks, Spawn, SpawnFails, Command, Goes, StopEnds, Ends,
                GoesOn, NoCommand, Unlink
  <2>3. CASE Hup(a) \/ Term(a) \/ Kill(a)
    BY <2>3 DEF Hup, Term, Kill, Signal, Goes, Ends, NoCommand
  <2>. QED BY <2>1, <2>2, <2>3 DEF Works
<1>2. pidFile' # Nobody => gateway'[pidFile'] # "unborn"
  BY <1>1, OnlySpawnStarts DEF TypeOK, Known
<1>3. ASSUME NEW b \in Admins
      PROVE  /\ cmd'[b].pid # Nobody => gateway'[cmd'[b].pid] # "unborn"
             /\ cmd'[b].at \in {"remove", "stopped"} => ~ Running(cmd[b].pid)'
  <2>1. cmd[b].pid \in Pids \cup {Nobody} /\ pidFile \in Pids \cup {Nobody}
    BY DEF TypeOK
  <2>2. ~ Running(Nobody)'
    BY DEF Running, Instances, Nobody, Pids
  <2>3. cmd'[b].at \in {"remove", "stopped"} /\ cmd[b].pid # Nobody
           => ~ Running(cmd[b].pid)'
    BY <1>1, <2>1, OnlySpawnStarts DEF Known
  <2>. QED BY <1>1, <2>1, <2>2, <2>3, OnlySpawnStarts DEF Known
<1>. QED
  BY <1>1, <1>2, <1>3 DEF Known, Running, Instances

LEMMA KnownStep ==
    ASSUME TypeOK, Known, [Next]_vars
    PROVE  Known'
<1>1. CASE UNCHANGED vars
  BY <1>1 DEF Known, Running, Instances, vars
<1>. QED
  BY <1>1, KnownGateway, KnownCommand DEF Next

-----------------------------------------------------------------------------
(* Patience. *)

\* A gateway works by itself only while no command is given; one that ends, or is
\* interrupted, is no obstacle to the command that is.
LEMMA OrderlyGateway ==
    ASSUME TypeOK, Orderly, NEW p \in Pids, Gateway(p) \/ End(p) \/ Interrupt(p)
    PROVE  Orderly'
<1>. USE DEF TypeOK
<1>1. UNCHANGED cmd /\ Active' = Active
  BY DEF Gateway, Started, WriteFile, Reload, Leave, End, Interrupt, Active
<1>2. CASE Started(p) \/ WriteFile(p) \/ Reload(p)
  <2>1. p \in Instances /\ Instances' \subseteq Instances
    BY <1>2 DEF Started, WriteFile, Reload, OpenFile, Becomes, Instances
  <2>2. Active = {}
    BY <1>2, <2>1 DEF Orderly, Settled, Started, WriteFile, Reload
  <2>3. \A q \in Instances : q = p
    BY <2>1 DEF Orderly
  <2>4. \A q \in Pids : gateway'[q] = "writing" => q \in writers'
    BY <1>2, <2>3 DEF Started, WriteFile, Reload, OpenFile, Becomes, Orderly, Instances
  <2>5. \A q \in Pids : gateway'[q] \in {"up", "bare"} => pidFile' = q
    BY <1>2, <2>3 DEF Started, WriteFile, Reload, OpenFile, Becomes, Orderly, Instances
  <2>6. \A a \in Admins : cmd[a].at = "idle"
    BY <2>2 DEF Active
  <2>. QED
    BY <1>1, <2>1, <2>2, <2>3, <2>4, <2>5, <2>6 DEF Orderly, Following, Alone
<1>3. CASE Leave(p) \/ End(p)
  <2>1. Instances' = Instances \ {p}
    BY <1>3 DEF Leave, End, Becomes, Instances
  <2>2. Active # {} => Settled'
    BY <1>3, <2>1 DEF Orderly, Settled, Leave, End, Becomes, Instances
  <2>3. \A a \in Admins : cmd[a].at = "stopped" => pidFile' = Nobody
    BY <1>3 DEF Orderly, Leave, End, Unlink
  <2>4. \A q \in Pids : gateway'[q] = "writing" => q \in writers'
    BY <1>3 DEF Orderly, Leave, End, Becomes, Unlink, Instances
  <2>5. \A q \in Pids : gateway'[q] \in {"up", "bare"} => pidFile' = q
    BY <1>3 DEF Orderly, Leave, End, Becomes, Unlink, Instances
  <2>. QED
    BY <1>1, <2>1, <2>2, <2>3, <2>4, <2>5 DEF Orderly
<1>4. CASE Interrupt(p)
  <2>1. Instances' = Instances /\ UNCHANGED <<gateway, pidFile, writers>>
    BY <1>4 DEF Interrupt, Instances
  <2>2. \A q \in Pids : pending'[q] \in {pending[q], "TERM"}
    BY <1>4, SentTyped DEF Interrupt
  <2>3. Settled => Settled'
    BY <2>1, <2>2 DEF Settled, Instances
  <2>. QED BY <1>1, <2>1, <2>3 DEF Orderly
<1>. QED
  BY <1>2, <1>3, <1>4 DEF Gateway

\* The steps of a command that do nothing but go on: what they must bring with them.
LEMMA OrderlyGoesOn ==
    ASSUME TypeOK, Orderly, NEW a \in Admins, cmd[a].at # "idle",
           \A b \in Admins : b # a => cmd'[b] = cmd[b],
           UNCHANGED gateway,
           UNCHANGED <<pidFile, writers>> \/ (Instances = {} /\ Unlink),
           \/ cmd'[a].at = "idle"
           \/ \A p \in Pids : pending'[p] \in {pending[p], "TERM", "KILL"},
           cmd'[a].at \in Following => Instances \subseteq {cmd'[a].pid},
           cmd'[a].at \in Alone => Instances = {},
           cmd'[a].at = "stopped" => pidFile' = Nobody
    PROVE  Orderly'
<1>1. Instances' = Instances
  BY DEF Instances
<1>2. Active = {a} /\ Active' \subseteq {a}
  BY DEF Orderly, Active
<1>3. Active' # {} => Settled'
  <2>1. SUFFICES ASSUME cmd'[a].at # "idle" PROVE Settled'
    BY <1>2 DEF Active
  <2>. QED BY <1>1, <1>2, <2>1 DEF Orderly, Settled, Instances
<1>4. \A b \in Admins : b # a => cmd'[b].at = "idle"
  BY <1>2 DEF Active
<1>5. \A p \in Pids : gateway'[p] \in {"up", "bare"} => pidFile' = p
  BY DEF Orderly, Instances
<1>6. \A p \in Pids : gateway'[p] = "writing" => p \in writers'
  BY DEF Orderly, Instances
<1>7. cmd'[a].at = "stopped" => pidFile' = Nobody
  OBVIOUS
<1>. QED
  BY <1>1, <1>2, <1>3, <1>4, <1>5, <1>6, <1>7 DEF Orderly, Following, Alone

\* Where a command goes on to, and that the other commands stay where they are.
LEMMA PlacesOfCommands ==
    ASSUME TypeOK, NEW a \in Admins
    PROVE  /\ \A place : Goes(a, place) =>
                 /\ cmd'[a].at = place
                 /\ cmd'[a].pid = cmd[a].pid
                 /\ \A b \in Admins : b # a => cmd'[b] = cmd[b]
           /\ \A op, place : GoesOn(a, op, place) =>
                 /\ cmd'[a].at = place
                 /\ \A b \in Admins : b # a => cmd'[b] = cmd[b]
           /\ Ends(a) =>
                 /\ cmd'[a].at = "idle"
                 /\ \A b \in Admins : b # a => cmd'[b] = cmd[b]
           /\ StopEnds(a) =>
                 /\ cmd'[a].at \in {"idle", "read"}
                 /\ \A b \in Admins : b # a => cmd'[b] = cmd[b]
BY DEF TypeOK, Goes, GoesOn, Ends, StopEnds, NoCommand

\* Every step of the one command that is given keeps the order.
LEMMA OrderlyCommand ==
    ASSUME TypeOK, Orderly, patient, NEW a \in Admins,
           Works(a) \/ \E op \in Operations : Command(a, op)
    PROVE  Orderly'
<1>. USE DEF TypeOK
<1>0. cmd[a].at \in Following => \A p \in Instances : cmd[a].pid = p
  BY DEF Orderly
<1>1. CASE \E op \in Operations : Command(a, op)
  <2>1. /\ \A b \in Admins : b # a => cmd'[b].at = "idle"
        /\ cmd'[a].at = "read"
        /\ Quiet
        /\ UNCHANGED <<pidFile, writers, gateway, pending>>
    BY <1>1 DEF Command, Quiet, GoesOn
  <2>2. Active' = {a} /\ Settled' /\ Instances' = Instances
    BY <2>1 DEF Active, Settled, Quiet, Instances
  <2>. QED BY <2>1, <2>2 DEF Orderly, Following, Alone
<1>2. CASE Read(a)
  <2>1. Instances \subseteq {pidFile}
    <3>1. Settled
      BY <1>2 DEF Read, Orderly, Active
    <3>. QED BY <3>1 DEF Settled, Orderly, Instances
  <2>. QED
    BY <1>2, <2>1, OrderlyGoesOn DEF Read, Following, Alone
<1>3. CASE StartChecks(a)
  <2>1. Running(cmd[a].pid) \/ Instances = {}
    BY <1>0, <1>3 DEF StartChecks, Finds, Following, Running
  <2>2. /\ \A b \in Admins : b # a => cmd'[b] = cmd[b]
        /\ cmd[a].at = "check"
        /\ cmd'[a].at \in {"idle", "unlink"}
        /\ cmd'[a].at = "unlink" => Instances = {}
        /\ UNCHANGED <<pidFile, writers, gateway, pending>>
    <3>1. /\ cmd[a].at = "check"
          /\ UNCHANGED <<pidFile, writers, gateway, pending>>
          /\ Ends(a) \/ (Instances = {} /\ GoesOn(a, "start", "unlink"))
      BY <1>3, <2>1 DEF StartChecks, Finds
    <3>. QED BY <3>1, PlacesOfCommands
  <2>. QED BY <2>2, OrderlyGoesOn DEF Following, Alone
<1>4. CASE StopChecks(a)
  <2>1. Running(cmd[a].pid) \/ Instances = {}
    BY <1>0, <1>4 DEF StopChecks, Finds, Following, Running
  <2>2. /\ \A b \in Admins : b # a => cmd'[b] = cmd[b]
        /\ cmd[a].at = "check"
        /\ cmd'[a].at \in {"idle", "read", "term", "stale"}
        /\ cmd'[a].at = "term" => cmd'[a].pid = cmd[a].pid
        /\ cmd'[a].at = "stale" => Instances = {}
        /\ UNCHANGED <<pidFile, writers, gateway, pending>>
    <3>1. /\ cmd[a].at = "check"
          /\ UNCHANGED <<pidFile, writers, gateway, pending>>
          /\ \/ Goes(a, "term")
             \/ Instances = {} /\ (StopEnds(a) \/ Goes(a, "stale"))
      BY <1>4, <2>1 DEF StopChecks, Finds
    <3>2. CASE Goes(a, "term")
      BY <3>1, <3>2, PlacesOfCommands
    <3>3. CASE Instances = {} /\ StopEnds(a)
      BY <3>1, <3>3, PlacesOfCommands
    <3>4. CASE Instances = {} /\ Goes(a, "stale")
      BY <3>1, <3>4, PlacesOfCommands
    <3>. QED BY <3>1, <3>2, <3>3, <3>4
  <2>. QED BY <1>0, <2>2, OrderlyGoesOn DEF Following, Alone
<1>5. CASE ReloadChecks(a) \/ StatusChecks(a)
  <2>1. /\ \A b \in Admins : b # a => cmd'[b] = cmd[b]
        /\ cmd[a].at = "check"
        /\ cmd'[a].at \in {"idle", "hup"}
        /\ cmd'[a].at = "hup" => cmd'[a].pid = cmd[a].pid
        /\ UNCHANGED <<pidFile, writers, gateway, pending>>
    BY <1>5, PlacesOfCommands DEF ReloadChecks, StatusChecks, Finds
  <2>. QED BY <1>0, <2>1, OrderlyGoesOn DEF Following, Alone
<1>6. CASE StartUnlinks(a) \/ Remove(a)
  <2>1. Instances = {}
    BY <1>6 DEF StartUnlinks, Remove, Orderly, Alone
  <2>. QED
    BY <1>6, <2>1, OrderlyGoesOn
    DEF StartUnlinks, Remove, Unlink, Goes, StopEnds, Ends, GoesOn, NoCommand,
        Following, Alone
<1>7. CASE Spawn(a)
  <2>1. Instances = {} /\ Active = {a}
    BY <1>7 DEF Spawn, Orderly, Alone, Active
  <2>2. PICK p \in Pids : Becomes(p, "starting")
    BY <1>7 DEF Spawn
  <2>3. \A b \in Admins : cmd'[b].at = "idle"
    BY <1>7, <2>1 DEF Spawn, Ends, NoCommand, Active
  <2>4. Instances' = {p} /\ Active' = {}
    BY <2>1, <2>2, <2>3 DEF Instances, Becomes, Active
  <2>5. \A q \in Pids : gateway'[q] \notin {"writing", "up", "bare"}
    BY <2>1, <2>2 DEF Instances, Becomes
  <2>. QED BY <2>3, <2>4, <2>5 DEF Orderly, Following, Alone
<1>8. CASE SpawnFails(a)
  BY <1>8, OrderlyGoesOn DEF SpawnFails, Ends, NoCommand, Following, Alone
<1>9. ASSUME NEW from \in {"hup", "term", "kill"}, NEW signal \in {"HUP", "TERM", "KILL"},
             NEW next \in {"idle", "wait", "waitKilled"},
             signal = "HUP" => next = "idle",
             Signal(a, from, signal, next)
      PROVE  Orderly'
  <2>1. /\ cmd[a].at \in Following
        /\ \A b \in Admins : b # a => cmd'[b] = cmd[b]
        /\ cmd'[a].at \in {"idle", next}
        /\ cmd'[a].at # "idle" => cmd'[a].pid = cmd[a].pid
        /\ UNCHANGED <<pidFile, writers, gateway>>
    BY <1>9 DEF Signal, Ends, Goes, NoCommand, Following
  <2>2. \A p \in Pids : pending'[p] \in {pending[p], signal}
    BY <1>9, SentTyped, RunningIsBorn DEF Signal
  <2>3. \/ cmd'[a].at = "idle"
        \/ \A p \in Pids : pending'[p] \in {pending[p], "TERM", "KILL"}
    BY <1>9, <2>1, <2>2
  <2>. QED BY <1>0, <2>1, <2>3, OrderlyGoesOn DEF Following, Alone
<1>10. CASE Hup(a) \/ Term(a) \/ Kill(a)
  BY <1>9, <1>10 DEF Hup, Term, Kill
<1>11. CASE Waited(a)
  <2>1. Instances = {}
    BY <1>0, <1>11 DEF Waited, Following, Running
  <2>. QED
    BY <1>11, <2>1, OrderlyGoesOn DEF Waited, Goes, Following, Alone
<1>12. CASE TimedOut(a)
  BY <1>0, <1>12, OrderlyGoesOn
  DEF TimedOut, Goes, StopEnds, Ends, GoesOn, NoCommand, Following, Alone
<1>13. CASE Stopped(a)
  BY <1>13, OrderlyGoesOn
  DEF Stopped, StopEnds, Ends, GoesOn, NoCommand, Following, Alone
<1>. QED
  BY <1>1, <1>2, <1>3, <1>4, <1>5, <1>6, <1>7, <1>8, <1>11, <1>12, <1>13, <1>10
  DEF Works

\* The invariant is inductive.
LEMMA NextInv == IInv /\ [Next]_vars => IInv'
<1>. SUFFICES ASSUME IInv, [Next]_vars PROVE IInv'
  OBVIOUS
<1>1. TypeOK' /\ Known'
  BY TypeStep, KnownStep DEF IInv
<1>2. UNCHANGED patient
  BY DEF Next, vars, Gateway, Works, Started, WriteFile, Reload, Leave, End,
         Interrupt, Command, Read, StartChecks, StopChecks, ReloadChecks,
         StatusChecks, Finds, StartUnlinks, Spawn, SpawnFails, Hup, Term, Kill,
         Signal, Waited, TimedOut, Remove, Stopped
<1>3. ASSUME patient, UNCHANGED vars
      PROVE  Orderly'
  BY <1>3 DEF IInv, Orderly, Active, Settled, Instances, vars
<1>4. ASSUME patient PROVE Orderly'
  BY <1>3, <1>4, OrderlyGateway, OrderlyCommand DEF IInv, Next
<1>. QED
  BY <1>1, <1>2, <1>4 DEF IInv

-----------------------------------------------------------------------------
(* What holds of the service. *)

\* The state of the service is typed, and its invariant holds, whatever processes
\* do: a pid that was read is that of a process, and patience keeps order.
THEOREM ServiceInvariant == Spec => []IInv
<1>. QED BY InitInv, NextInv, PTL DEF Spec

\* Administrators who wait until each command has worked never have two gateways,
\* for any number of administrators and of gateways that start, crash and hang.
THEOREM OneInstance == Spec => []SingleInstance
<1>1. IInv => SingleInstance
  BY DEF IInv, Orderly, SingleInstance
<1>. QED BY <1>1, ServiceInvariant, PTL

\* For them the pid file names the gateway that is up, as long as it is.
THEOREM FileIsTrue == Spec => []PidFileIsTrue
<1>1. IInv => PidFileIsTrue
  BY DEF IInv, Orderly, PidFileIsTrue
<1>. QED BY <1>1, ServiceInvariant, PTL

\* A stop() that reports success has seen the process end that it had read from
\* the file, and after a patient one neither gateway nor pid file is left.
THEOREM StopMeansStopped == Spec => []StopLeavesNothing
<1>1. IInv => StopLeavesNothing
  BY DEF IInv, Known, Orderly, Alone, StopLeavesNothing
<1>. QED BY <1>1, ServiceInvariant, PTL

=============================================================================
