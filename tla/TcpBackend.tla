----------------------------- MODULE TcpBackend -----------------------------
(***************************************************************************)
(* TcpModbusBackend: submit() over a pool of at most pool_size connections *)
(* to one Modbus/TCP device, one request at a time on each.                *)
(*                                                                         *)
(* Calls of submit() are numbered; sockets are numbered in the order in    *)
(* which they are opened.  A frame stands for the call whose request, or   *)
(* whose answer, it carries, and its transaction id.  The gateway calls    *)
(* submit() from its one dispatcher task; the class itself guards against  *)
(* any number of callers, so Tasks is a parameter.                         *)
(***************************************************************************)
EXTENDS Integers, FiniteSets, SequencesExt

CONSTANTS
    Tasks,      \* the tasks that call submit()
    PoolSize,   \* config.pool_size
    TxMod,      \* size of the transaction counter, 0x10000 in the code
    Copies,     \* how many times the device may send one answer
    MaxSubmits  \* bound on the calls of a run

ASSUME TcpBackendAssumption ==
    /\ PoolSize \in Nat \ {0}
    /\ TxMod \in Nat \ {0, 1}
    /\ Copies \in Nat \ {0}
    /\ MaxSubmits \in Nat

VARIABLES
    task,        \* where each task is in submit()
    available,   \* _available
    connections, \* _connections
    total,       \* _total_connections
    counter,     \* _tx_counter
    sock,        \* the sockets opened so far
    result,      \* what came of each call
    phase        \* "running", "stopping" once the dispatcher is cancelled, "closed"

vars == <<task, available, connections, total, counter, sock, result, phase>>

Frame == [tx : 0 .. TxMod - 1, n : DOMAIN result]
Socket == [open : BOOLEAN, inbox : Seq(Frame), wire : Seq(Frame)]
Idle == [at |-> "idle", n |-> 0, conn |-> 0, tx |-> 0]

\* "answer": returned the answer to the request of call "to".
Pending == [kind |-> "pending", to |-> 0]
Raised == [kind |-> "raised", to |-> 0]
AnswerTo(n) == [kind |-> "answer", to |-> n]

At(place) == {t \in Tasks : task[t].at = place}

\* _next_transaction_id: it wraps around and leaves 0 out.
NextTx ==
    LET k == (counter + 1) % TxMod IN IF k = 0 THEN 1 ELSE k

Shut == [open |-> FALSE, inbox |-> <<>>, wire |-> <<>>]

-----------------------------------------------------------------------------

Init ==
    /\ task = [t \in Tasks |-> Idle]
    /\ available = <<>>
    /\ connections = {}
    /\ total = 0
    /\ counter = 0
    /\ sock = <<>>
    /\ result = <<>>
    /\ phase = "running"

-----------------------------------------------------------------------------
(* submit(), up to the first byte of the answer. *)

\* A task calls submit().
Call(t) ==
    /\ phase = "running"
    /\ task[t].at = "idle"
    /\ Len(result) < MaxSubmits
    /\ result' = Append(result, Pending)

\* The request of call n is written to connection c.
Send(t, n, c) ==
    /\ counter' = NextTx
    /\ task' = [task EXCEPT ![t] =
                  [at |-> "exchanging", n |-> n, conn |-> c, tx |-> NextTx]]
    /\ sock' = [sock EXCEPT ![c].inbox = Append(@, [tx |-> NextTx, n |-> n])]

\* A pooled connection is taken.
SendPooled(t, n) ==
    /\ available # <<>>
    /\ Send(t, n, Head(available))
    /\ available' = Tail(available)
    /\ UNCHANGED <<connections, total, phase>>

\* The task waits at this place.
Pause(t, n, place) ==
    /\ task' = [task EXCEPT ![t] = [at |-> place, n |-> n, conn |-> 0, tx |-> 0]]
    /\ UNCHANGED <<available, connections, total, counter, sock, phase>>

\* Mutant: the check and the count are not under one lock.
Locked_Never == FALSE

\* A task that connects holds the lock; it is handed on in turn.
Locked == At("connecting") # {}

\* Past the lock: make a connection if there may be more, keeping the lock;
\* otherwise take one, or wait for one.
PastLock(t, n) ==
    \/ total < PoolSize /\ Pause(t, n, "connecting")
    \/ total >= PoolSize /\ SendPooled(t, n)
    \/ total >= PoolSize /\ available = <<>> /\ Pause(t, n, "waiting")

\* submit() finds a pooled connection.
SubmitPooled(t) ==
    /\ Call(t)
    /\ SendPooled(t, Len(result) + 1)

\* submit() finds the pool empty, and the lock taken or sought by others.
SubmitLocking(t) ==
    /\ Call(t)
    /\ available = <<>>
    /\ Locked \/ At("locking") # {}
    /\ Pause(t, Len(result) + 1, "locking")

\* submit() finds the pool empty and gets the lock.
SubmitUnlocked(t) ==
    /\ Call(t)
    /\ available = <<>>
    /\ ~ Locked /\ At("locking") = {}
    /\ PastLock(t, Len(result) + 1)

\* The lock is free: one of those that wait for it goes on.
GetLock(t) ==
    /\ task[t].at = "locking"
    /\ ~ Locked
    /\ PastLock(t, task[t].n)
    /\ UNCHANGED result

\* A connection came back to the pool.
GetReleased(t) ==
    /\ task[t].at = "waiting"
    /\ SendPooled(t, task[t].n)
    /\ UNCHANGED result

\* The connection is made, counted and used.
Connected(t) ==
    /\ task[t].at = "connecting"
    /\ LET c == Len(sock) + 1
           f == [tx |-> NextTx, n |-> task[t].n]
       IN  /\ sock' = Append(sock, [open |-> TRUE, inbox |-> <<f>>, wire |-> <<>>])
           /\ connections' = connections \cup {c}
           /\ task' = [task EXCEPT ![t] =
                  [at |-> "exchanging", n |-> @.n, conn |-> c, tx |-> NextTx]]
    /\ total' = total + 1
    /\ counter' = NextTx
    /\ UNCHANGED <<available, result, phase>>

-----------------------------------------------------------------------------
(* submit(), from the answer to the end. *)

\* The call of task t ends.
End(t, outcome) ==
    /\ task' = [task EXCEPT ![t] = Idle]
    /\ result' = [result EXCEPT ![task[t].n] = outcome]

\* The connection attempt fails or times out.
ConnectFails(t) ==
    /\ task[t].at = "connecting"
    /\ End(t, Raised)
    /\ UNCHANGED <<available, connections, total, counter, sock, phase>>

Matches_Any(t, f) == TRUE       \* mutant: the transaction id is not compared

Matches(t, f) == f.tx = task[t].tx

Release(c) == available' = Append(available, c)

\* The next frame carries the transaction id: it is the answer, and the
\* connection goes back to the pool.
Receive(t) ==
    /\ task[t].at = "exchanging"
    /\ LET c == task[t].conn IN
        /\ sock[c].wire # <<>>
        /\ Matches(t, Head(sock[c].wire))
        /\ End(t, AnswerTo(Head(sock[c].wire).n))
        /\ sock' = [sock EXCEPT ![c].wire = Tail(@)]
        /\ Release(c)
    /\ UNCHANGED <<connections, total, counter, phase>>

\* Mutant: the connection is put back in place of being retired.
Retire_Release(c) ==
    /\ available' = Append(available, c)
    /\ UNCHANGED <<connections, total, sock>>

\* Mutant: the connection is closed but still counted.
Retire_Counted(c) ==
    /\ connections' = connections \ {c}
    /\ sock' = [sock EXCEPT ![c] = Shut]
    /\ UNCHANGED <<available, total>>

Retire(c) ==
    /\ connections' = connections \ {c}
    /\ total' = IF c \in connections THEN total - 1 ELSE total
    /\ sock' = [sock EXCEPT ![c] = Shut]
    /\ UNCHANGED available

ExchangeFails_NoTimeout(t) ==   \* mutant: only a wrong frame ends the wait
    /\ task[t].at = "exchanging"
    /\ sock[task[t].conn].wire # <<>>
    /\ End(t, Raised)
    /\ Retire(task[t].conn)
    /\ UNCHANGED <<counter, phase>>

\* The exchange fails: no answer in time, a connection lost while it lay in the
\* pool or since, another transaction id, a length of 0, an undecodable PDU.
ExchangeFails(t) ==
    /\ task[t].at = "exchanging"
    /\ End(t, Raised)
    /\ Retire(task[t].conn)
    /\ UNCHANGED <<counter, phase>>

-----------------------------------------------------------------------------
(* The end of the backend, and the device. *)

\* Dispatcher.stop() begins: no more calls.
Stop ==
    /\ phase = "running"
    /\ phase' = "stopping"
    /\ UNCHANGED <<task, available, connections, total, counter, sock, result>>

\* CancelledError ends a call: it is no Exception, so the connection is neither
\* retired nor released.
Cancel(t) ==
    /\ phase = "stopping"
    /\ task[t].at # "idle"
    /\ End(t, Raised)
    /\ UNCHANGED <<available, connections, total, counter, sock, phase>>

ClosedBy_Pool == Range(available)       \* mutant: only what lies in the pool

\* What close() closes: the pool, then what else is known.
ClosedBy == Range(available) \cup connections

\* close(), once the tasks are over.
Close ==
    /\ phase = "stopping"
    /\ At("idle") = Tasks
    /\ sock' = [c \in DOMAIN sock |-> IF c \in ClosedBy THEN Shut ELSE sock[c]]
    /\ available' = <<>>
    /\ connections' = {}
    /\ total' = 0
    /\ phase' = "closed"
    /\ UNCHANGED <<task, counter, result>>

\* The device answers its oldest request on a connection, perhaps repeatedly.
Answer(c, k) ==
    /\ sock[c].inbox # <<>>
    /\ sock' = [sock EXCEPT ![c].inbox = Tail(@),
                            ![c].wire = @ \o [i \in 1 .. k |-> Head(sock[c].inbox)]]
    /\ UNCHANGED <<task, available, connections, total, counter, result, phase>>

-----------------------------------------------------------------------------

\* What a call does by itself; every wait for the device has a timeout.
Proceed(t) ==
    GetLock(t) \/ GetReleased(t) \/ Connected(t) \/ ConnectFails(t)
    \/ Receive(t) \/ ExchangeFails(t)

Submit(t) == SubmitPooled(t) \/ SubmitLocking(t) \/ SubmitUnlocked(t)

Device == \E c \in DOMAIN sock, k \in 1 .. Copies : Answer(c, k)

Next ==
    \/ \E t \in Tasks : Submit(t) \/ Proceed(t) \/ Cancel(t)
    \/ Stop \/ Close \/ Device

Spec == Init /\ [][Next]_vars

\* The loop runs every task that can run, stop() cancels what still runs, and
\* the device owes nothing.
FairSpec ==
    Spec /\ \A t \in Tasks : WF_vars(Proceed(t)) /\ WF_vars(Cancel(t))

-----------------------------------------------------------------------------
(* Safety. *)

TypeOK ==
    /\ task \in [Tasks -> [at : {"idle", "locking", "connecting", "waiting",
                                 "exchanging"},
                           n : 0 .. Len(result), conn : 0 .. Len(sock),
                           tx : 0 .. TxMod - 1]]
    /\ available \in Seq(DOMAIN sock)
    /\ connections \subseteq DOMAIN sock
    /\ total \in Nat
    /\ counter \in 0 .. TxMod - 1
    /\ sock \in Seq(Socket)
    /\ result \in Seq([kind : {"pending", "raised", "answer"},
                       to : 0 .. Len(result)])
    /\ phase \in {"running", "stopping", "closed"}

Opened == {c \in DOMAIN sock : sock[c].open}
InUse == {task[t].conn : t \in At("exchanging")}

\* However the calls interleave, no more than pool_size connections are open,
\* the count that decides it is exact, and every open socket is known.
PoolIsBounded ==
    /\ Opened = connections
    /\ Cardinality(connections) = total
    /\ total + Cardinality(At("connecting")) <= PoolSize

\* A connection belongs to one call, or to the pool, where it lies once and
\* with no request of an earlier call unanswered.
ConnectionsAreExclusive ==
    /\ \A t, u \in At("exchanging") : task[t].conn = task[u].conn => t = u
    /\ \A i, j \in DOMAIN available : available[i] = available[j] => i = j
    /\ \A i \in DOMAIN available :
          /\ available[i] \in connections \ InUse
          /\ sock[available[i]].inbox = <<>>

\* close() leaves no socket open, not even those of cancelled calls.
ClosedForGood == phase = "closed" => Opened = {}

\* Until calls are cancelled, one waits for a connection only while others use
\* all of the pool: the failures of earlier calls have given their places back.
WaitsOnlyForUsers ==
    [][\A t \in Tasks :
          phase = "running" /\ task'[t].at = "waiting" /\ task[t].at # "waiting"
             => Cardinality(InUse) = PoolSize]_vars

\* TcpModbusBackend implements BackendContract: in spite of connections that
\* are reused, transaction ids that wrap around and answers that come late or
\* twice, a call returns the answer to its own request.
\* What a transaction id cannot tell apart is an answer that comes twice, the
\* second time after the ids have come around: see the bounds of the runs.
Contract == INSTANCE BackendContract WITH
    calls    <- Len(result),
    running  <- {n \in DOMAIN result : result[n] = Pending},
    answered <- {n \in DOMAIN result : result[n] = AnswerTo(n)},
    raised   <- {n \in DOMAIN result : result[n] = Raised}

ContractIsKept == Contract!Spec

-----------------------------------------------------------------------------
(* Liveness, under FairSpec. *)

\* A call comes to its end, or to wait for a connection (for good if those it waits
\* for all fail: a connection that is retired wakes nobody).
CallsGetThrough ==
    \A t \in Tasks : (task[t].at \in {"locking", "connecting", "exchanging"})
                        ~> (task[t].at \in {"idle", "waiting"})

=============================================================================
