------------------------------- MODULE Service -------------------------------
(***************************************************************************)
(* The service controller of the command line and the gateways it manages  *)
(* by one pid file and by signals (cli.py, app.py).                        *)
(*                                                                         *)
(* Every system call of a command is a step of its own: administrators and *)
(* gateways are processes that the scheduler interleaves as it likes.      *)
(* Process ids are not used again.  A pid file that is empty, because its  *)
(* writer has truncated and not yet written it, reads like one that is not *)
(* there; `writers` keeps which gateways have the present file open, since *)
(* what is written to a file that has been unlinked is lost.               *)
(***************************************************************************)
EXTENDS Naturals

CONSTANTS
    Admins,     \* whoever gives commands
    MaxPids     \* bound on the gateways started

ASSUME ServiceAssumption == MaxPids \in Nat

Pids == 1 .. MaxPids

Nobody == 0     \* _read_pid_file: no file, an empty one, or no number in it

VARIABLES
    patient,    \* one command at a time, each when the last has worked
    pidFile,    \* what the pid file says
    writers,    \* gateways that have this file open for writing
    gateway,    \* gateway[p]: where the gateway with pid p is
    pending,    \* pending[p]: the strongest signal p has still to deal with
    cmd         \* cmd[a]: the command that a gives, and the pid it has read

vars == <<patient, pidFile, writers, gateway, pending, cmd>>

None == "none"

Operations == {"start", "stop", "restart", "reload", "status"}

NoCommand == [op |-> None, at |-> "idle", pid |-> Nobody]

Init ==
    /\ patient \in BOOLEAN
    /\ pidFile = Nobody
    /\ writers = {}
    /\ gateway = [p \in Pids |-> "unborn"]
    /\ pending = [p \in Pids |-> None]
    /\ cmd = [a \in Admins |-> NoCommand]

\* Instances of the gateway: those that will have, have or had a runtime.
Instances == {p \in Pids : gateway[p] \in {"starting", "writing", "up", "bare"}}

\* _pid_is_running: so is one that only has to exit.
Running(pid) == pid \in Instances \cup {p \in Pids : gateway[p] = "exiting"}

\* The file is unlinked, whoever wrote it or is about to.
Unlink ==
    /\ pidFile' = Nobody
    /\ writers' = {}

-----------------------------------------------------------------------------
(* The gateways. *)

\* p has not been killed.
Runs(p) == pending[p] # "KILL"

Becomes(p, place) == gateway' = [gateway EXCEPT ![p] = place]

\* The runtime is up (or up again), and write_text opens and truncates the file.
OpenFile(p) ==
    /\ Becomes(p, "writing")
    /\ pidFile' = Nobody
    /\ writers' = writers \cup {p}

Started(p) ==
    /\ Runs(p)
    /\ gateway[p] = "starting"
    /\ OpenFile(p)
    /\ UNCHANGED <<patient, pending, cmd>>

\* Mutant: the file is written at the first start, and only truncated afterwards.
WriteFile_NotAgain(p) ==
    /\ Runs(p)
    /\ gateway[p] = "writing"
    /\ Becomes(p, "up")
    /\ pidFile' \in {pidFile, p}
    /\ writers' = writers \ {p}
    /\ UNCHANGED <<patient, pending, cmd>>

WriteFile(p) ==
    /\ Runs(p)
    /\ gateway[p] = "writing"
    /\ Becomes(p, "up")
    /\ pidFile' = IF p \in writers THEN p ELSE pidFile
    /\ writers' = writers \ {p}
    /\ UNCHANGED <<patient, pending, cmd>>

\* SIGHUP: the runtime is started anew and the file written again, or the
\* configuration does not load, or its runtime does not start and none is left.
Reload(p) ==
    /\ Runs(p)
    /\ gateway[p] = "up"
    /\ pending[p] = "HUP"
    /\ pending' = [pending EXCEPT ![p] = None]
    /\ \/ OpenFile(p)
       \/ UNCHANGED <<pidFile, writers, gateway>>
       \/ Becomes(p, "bare") /\ UNCHANGED <<pidFile, writers>>
    /\ UNCHANGED <<patient, cmd>>

\* SIGTERM or SIGINT: the runtime is stopped and the file removed.
Leave(p) ==
    /\ Runs(p)
    /\ gateway[p] \in {"up", "bare"}
    /\ pending[p] = "TERM"
    /\ Becomes(p, "exiting")
    /\ Unlink
    /\ pending' = [pending EXCEPT ![p] = None]
    /\ UNCHANGED <<patient, cmd>>

\* The process ends: at its end, because its first start fails, because an
\* exception leaves run(), or because it crashes or is killed.
End(p) ==
    /\ Running(p)
    /\ Becomes(p, "gone")
    /\ writers' = writers \ {p}
    /\ pending' = [pending EXCEPT ![p] = None]
    /\ UNCHANGED <<patient, pidFile, cmd>>

Weaker(signal) ==
    CASE signal = "HUP" -> {None, "HUP"}
      [] signal = "TERM" -> {None, "HUP", "TERM"}
      [] signal = "KILL" -> {None, "HUP", "TERM", "KILL"}

\* A signal to a process that runs.  SIGHUP and SIGTERM set events: of the two
\* run() heeds SIGTERM first, and neither when it is over, nor SIGHUP without a
\* runtime.
Sent(p, signal) ==
    LET heeded == CASE signal = "HUP" -> gateway[p] \notin {"bare", "exiting"}
                    [] signal = "TERM" -> gateway[p] # "exiting"
                    [] signal = "KILL" -> TRUE
    IN  pending' = IF heeded /\ pending[p] \in Weaker(signal)
                   THEN [pending EXCEPT ![p] = signal] ELSE pending

\* The terminal or the system asks it to end.
Interrupt(p) ==
    /\ p \in Instances
    /\ Sent(p, "TERM")
    /\ UNCHANGED <<patient, pidFile, writers, gateway, cmd>>

-----------------------------------------------------------------------------
(* The commands. *)

Goes(a, place) == cmd' = [cmd EXCEPT ![a].at = place]

GoesOn(a, op, place) == cmd' = [cmd EXCEPT ![a] = [op |-> op, at |-> place, pid |-> Nobody]]

\* The command ends, with an error or without.
Ends(a) == cmd' = [cmd EXCEPT ![a] = NoCommand]

\* stop() ends.  A restart takes its errors for success and goes on to start().
StopEnds(a) ==
    IF cmd[a].op = "restart"
    THEN GoesOn(a, "start", "read")
    ELSE Ends(a)

\* What a patient administrator waits for.
Quiet ==
    /\ \A a \in Admins : cmd[a].at = "idle"
    /\ \A p \in Instances :
          gateway[p] = "bare" \/ (gateway[p] = "up" /\ pending[p] # "HUP")

Command(a, op) ==
    /\ cmd[a].at = "idle"
    /\ patient => Quiet
    /\ GoesOn(a, op, "read")
    /\ UNCHANGED <<patient, pidFile, writers, gateway, pending>>

Read(a) ==
    /\ cmd[a].at = "read"
    /\ cmd' = [cmd EXCEPT ![a].pid = pidFile, ![a].at = "check"]
    /\ UNCHANGED <<patient, pidFile, writers, gateway, pending>>

\* A command of one of the operations ops finds its pid running, or not.
Finds(a, ops, running) ==
    /\ cmd[a].at = "check"
    /\ cmd[a].op \in ops
    /\ Running(cmd[a].pid) = running
    /\ UNCHANGED <<patient, pidFile, writers, gateway, pending>>

\* Mutant: start() asks only whether there is a pid file.
StartChecks_File(a) ==
    \/ Finds(a, {"start"}, TRUE) /\ Ends(a)
    \/ Finds(a, {"start"}, FALSE) /\ GoesOn(a, "start", "unlink")
    \/ Finds(a, {"start"}, TRUE) /\ GoesOn(a, "start", "unlink")

\* start() is refused while the gateway of the pid file runs.
StartChecks(a) ==
    \/ Finds(a, {"start"}, TRUE) /\ Ends(a)
    \/ Finds(a, {"start"}, FALSE) /\ GoesOn(a, "start", "unlink")

\* stop() fails without a pid, and with one that does not run, whose file goes.
StopChecks(a) ==
    \/ Finds(a, {"stop", "restart"}, TRUE) /\ Goes(a, "term")
    \/ /\ Finds(a, {"stop", "restart"}, FALSE)
       /\ IF cmd[a].pid = Nobody THEN StopEnds(a) ELSE Goes(a, "stale")

ReloadChecks(a) ==
    \/ Finds(a, {"reload"}, TRUE) /\ Goes(a, "hup")
    \/ Finds(a, {"reload"}, FALSE) /\ Ends(a)

StatusChecks(a) == \E running \in BOOLEAN : Finds(a, {"status"}, running) /\ Ends(a)

\* start(): what is left of a pid file goes, and the gateway is started in the
\* background or takes the place of the command.
StartUnlinks(a) ==
    /\ cmd[a].at = "unlink"
    /\ Unlink
    /\ Goes(a, "spawn")
    /\ UNCHANGED <<patient, gateway, pending>>

Spawn(a) ==
    /\ cmd[a].at = "spawn"
    /\ \E p \in Pids :
          /\ gateway[p] = "unborn" /\ \A q \in 1 .. p - 1 : gateway[q] # "unborn"
          /\ Becomes(p, "starting")
    /\ Ends(a)
    /\ UNCHANGED <<patient, pidFile, writers, pending>>

SpawnFails(a) ==
    /\ cmd[a].at = "spawn"
    /\ Ends(a)
    /\ UNCHANGED <<patient, pidFile, writers, gateway, pending>>

\* os.kill(): a process that has ended meanwhile is an error that nothing expects.
Signal(a, from, signal, next) ==
    /\ cmd[a].at = from
    /\ IF Running(cmd[a].pid)
       THEN /\ Sent(cmd[a].pid, signal)
            /\ IF next = "idle" THEN Ends(a) ELSE Goes(a, next)
       ELSE Ends(a) /\ UNCHANGED pending
    /\ UNCHANGED <<patient, pidFile, writers, gateway>>

Hup(a) == Signal(a, "hup", "HUP", "idle")
Term(a) == Signal(a, "term", "TERM", "wait")
Kill(a) == Signal(a, "kill", "KILL", "waitKilled")

\* Mutant: stop() does not wait.
Waited_Not(a) ==
    /\ cmd[a].at \in {"wait", "waitKilled"}
    /\ Goes(a, "remove")
    /\ UNCHANGED <<patient, pidFile, writers, gateway, pending>>

\* _wait_for_exit: the gateway has ended.
Waited(a) ==
    /\ cmd[a].at \in {"wait", "waitKilled"}
    /\ ~ Running(cmd[a].pid)
    /\ Goes(a, "remove")
    /\ UNCHANGED <<patient, pidFile, writers, gateway, pending>>

\* Mutant: the time a gateway has to end is not limited.
TimedOut_Never(a) ==
    /\ cmd[a].at = "waitKilled"
    /\ Running(cmd[a].pid)
    /\ StopEnds(a)
    /\ UNCHANGED <<patient, pidFile, writers, gateway, pending>>

\* The deadline is over.  A gateway that has not ended by then is killed; if that
\* takes long, too, stop() fails.
TimedOut(a) ==
    /\ cmd[a].at \in {"wait", "waitKilled"}
    /\ Running(cmd[a].pid)
    /\ IF cmd[a].at = "wait" THEN Goes(a, "kill") ELSE StopEnds(a)
    /\ UNCHANGED <<patient, pidFile, writers, gateway, pending>>

\* stop() removes the pid file, of a gateway it has stopped or found ended.
Remove(a) ==
    /\ cmd[a].at \in {"remove", "stale"}
    /\ Unlink
    /\ IF cmd[a].at = "remove" THEN Goes(a, "stopped") ELSE StopEnds(a)
    /\ UNCHANGED <<patient, gateway, pending>>

\* stop() is over: modbusgw stopped.
Stopped(a) ==
    /\ cmd[a].at = "stopped"
    /\ StopEnds(a)
    /\ UNCHANGED <<patient, pidFile, writers, gateway, pending>>

-----------------------------------------------------------------------------

Gateway(p) == Started(p) \/ WriteFile(p) \/ Reload(p) \/ Leave(p)

Works(a) ==
    \/ Read(a) \/ StartChecks(a) \/ StopChecks(a) \/ ReloadChecks(a)
    \/ StatusChecks(a) \/ StartUnlinks(a) \/ Spawn(a) \/ SpawnFails(a)
    \/ Hup(a) \/ Term(a) \/ Kill(a) \/ Waited(a) \/ TimedOut(a) \/ Remove(a)
    \/ Stopped(a)

Next ==
    \/ \E p \in Pids : Gateway(p) \/ End(p) \/ Interrupt(p)
    \/ \E a \in Admins : Works(a) \/ \E op \in Operations : Command(a, op)

Spec == Init /\ [][Next]_vars

\* Commands go on, and a process that is killed ends.  A gateway need not heed
\* SIGTERM, nor get through with its exit.
FairSpec ==
    /\ Spec
    /\ \A a \in Admins : WF_vars(Works(a))
    /\ \A p \in Pids : WF_vars(~ Runs(p) /\ End(p))

-----------------------------------------------------------------------------

TypeOK ==
    /\ patient \in BOOLEAN
    /\ pidFile \in Pids \cup {Nobody}
    /\ writers \subseteq {p \in Pids : gateway[p] = "writing"}
    /\ gateway \in [Pids -> {"unborn", "starting", "writing", "up", "bare",
                             "exiting", "gone"}]
    /\ pending \in [Pids -> {None, "HUP", "TERM", "KILL"}]
    /\ cmd \in [Admins -> [op : Operations \cup {None},
                           at : {"idle", "read", "check", "unlink", "spawn", "hup",
                                 "term", "wait", "kill", "waitKilled", "remove",
                                 "stale", "stopped"},
                           pid : Pids \cup {Nobody}]]

\* The pid file prevents multiple running instances (README.md:71) for those who
\* give one command at a time and wait until it has worked: whatever crashes, hangs
\* or is stopped behind their backs, a start never leads to a second gateway.
SingleInstance ==
    patient => \A p, q \in Instances : p = q

\* And then a gateway that is up can be reached: the pid file names it, and no
\* command and no other gateway removes or replaces it.
PidFileIsTrue ==
    patient => \A p \in Pids : gateway[p] \in {"up", "bare"} => pidFile = p

\* When stop() reports success the process it had read has ended, whoever else gives
\* commands, and after a patient one there is neither a gateway nor a pid file.
StopLeavesNothing ==
    \A a \in Admins : cmd[a].at = "stopped" =>
        /\ ~ Running(cmd[a].pid)
        /\ patient => Instances = {} /\ pidFile = Nobody

\* Under FairSpec a gateway that stop() has sent SIGTERM ends, even if it hangs and
\* whoever else stops or restarts it.
StopIsHonoured ==
    \A p \in Pids :
        (\E a \in Admins : cmd[a].at = "wait" /\ cmd[a].pid = p)
            ~> (gateway[p] = "gone")

=============================================================================
