------------------------------ MODULE Gateway ------------------------------
(***************************************************************************)
(* The core of the gateway: the Modbus/TCP frontends (TCP and Unix         *)
(* sockets), the message bus, the dispatcher and the response router.      *)
(*                                                                         *)
(* All of it runs on one asyncio loop: code between two awaits that really *)
(* suspend is one atomic step, and every await that may suspend is a place *)
(* where other tasks run.  The tasks are one _handle_client per            *)
(* connection, one Dispatcher._run and one ResponseRouter._run.            *)
(*                                                                         *)
(* A connection stands for one client_id.  Requests are numbered in the    *)
(* order in which the frontends register them; reqs is the log of them and *)
(* a number stands for the request wherever the code passes its            *)
(* RoutedRequest along.  Backends are abstract here: submit returns the    *)
(* device's answer to the request it was given, or raises.                 *)
(***************************************************************************)
EXTENDS Router, FiniteSets

CONSTANTS
    Clients,        \* connections made during a run
    TcpFrontends,   \* TcpModbusFrontend instances
    UnixFrontends,  \* UnixModbusTCPFrontend instances
    FrontendOf,     \* the frontend a connection is made to
    Allowed,        \* TCP connections the CIDR and DN policy admits
    MaxClients,     \* max_clients of each Unix frontend
    Tids,           \* MBAP transaction ids
    Pdus,           \* decoded requests: what the router reads of them
    Asks,           \* the requests each client makes
    Rules,          \* the routing rules, in order
    Backends,       \* ids of the configured backends
    QueueSize,      \* capacity of each bus topic
    SockBuf,        \* unread reply frames that the system keeps for a peer
    HighWater,      \* those the transport keeps beyond that before drain() waits,
    LowWater,       \* and with which it goes on
    Prompt,         \* clients that keep reading their replies
    Careful,        \* clients that reuse no tid of an unanswered request
    MaxRequests     \* bound on the requests of a run

Frontends == TcpFrontends \cup UnixFrontends

ASSUME GatewayAssumption ==
    /\ FrontendOf \in [Clients -> Frontends]
    /\ TcpFrontends \cap UnixFrontends = {}
    /\ Asks \in [Clients -> SUBSET Pdus]
    /\ Allowed \subseteq Clients
    /\ MaxClients \in [UnixFrontends -> Nat]
    /\ None \notin Clients
    /\ Prompt \subseteq Clients
    /\ Careful \subseteq Clients
    /\ QueueSize \in Nat \ {0}
    /\ SockBuf \in Nat
    /\ HighWater \in Nat /\ LowWater \in 0 .. HighWater
    /\ MaxRequests \in Nat

\* The configuration is validated before the router is built from it.
ASSUME RulesAssumption ==
    /\ DOMAIN Rules \subseteq Nat
    /\ \A i \in DOMAIN Rules : Rules[i].unit_override \in Int \cup {None}
    /\ \A p \in Pdus : p.unit_id \in Int

VARIABLES
    client,     \* each peer's end of its connection
    handler,    \* where _handle_client of each connection is
    held,       \* the request a handler waits to put on the bus, or 0
    seats,      \* _current_clients of each Unix frontend
    pending,    \* _pending of the frontends: client_id:tid -> request, or 0
    reqs,       \* all requests registered so far
    requests,   \* bus topic 'requests'
    dispatcher, \* where the dispatcher task is
    task,       \* the request it works on and what came of it
    responses,  \* bus topic 'responses'
    responder,  \* the client whose drain() the response router awaits, or None
    sent,       \* reply frames written to each connection
    got         \* how many of them the client has read

envVars  == <<client, got>>
dispVars == <<dispatcher, task>>
vars == <<client, handler, held, seats, pending, reqs, requests, dispatcher,
          task, responses, responder, sent, got>>

Numbers == 1 .. Len(reqs)
Request == [client : Clients, tid : Tids, pdu : Pdus]

\* A RoutedResponse: the request it answers, the unit id of the PDU it carries
\* and whether it carries one ("pdu": a response or a Modbus exception).
Response == [n : Numbers, unit : Int, body : {"pdu", "error"}]

\* No request in the dispatcher's hands.
NoTask == [n |-> 0, unit |-> 0, body |-> "error"]

\* What the router sees of a request.
RouterView(c, p) ==
    [frontend      |-> FrontendOf[c],
     unit_id       |-> p.unit_id,
     function_code |-> p.function_code,
     operation     |-> p.operation,
     register      |-> p.register]

\* resolve() of every request there can be: the rules stay as they are while
\* the gateway runs.
Routes == [c \in Clients |-> [p \in Pdus |-> Resolve(Rules, RouterView(c, p))]]

Plan(n) == Routes[reqs[n].client][reqs[n].pdu]

\* GatewayBus.publish appends to its topic, and waits while that is full.
Publish_Lifo(topic, message) == <<message>> \o topic    \* mutant
HasRoom(topic) == Len(topic) < QueueSize
Publish(topic, message) == Append(topic, message)

\* Written to the connection and not read yet.
Backlog(c) == Len(sent[c]) - got[c]

\* With so many frames unread, the transport of a connection that is not lost keeps
\* more than `mark` of them.
Keeps(c, backlog, mark) == client[c] # "gone" /\ backlog > SockBuf + mark

-----------------------------------------------------------------------------

Init ==
    /\ client = [c \in Clients |-> "none"]
    /\ handler = [c \in Clients |-> "none"]
    /\ held = [c \in Clients |-> 0]
    /\ seats = [f \in UnixFrontends |-> 0]
    /\ pending = [c \in Clients |-> [t \in Tids |-> 0]]
    /\ reqs = <<>>
    /\ requests = <<>>
    /\ dispatcher = "idle"
    /\ task = NoTask
    /\ responses = <<>>
    /\ responder = None
    /\ sent = [c \in Clients |-> <<>>]
    /\ got = [c \in Clients |-> 0]

-----------------------------------------------------------------------------
(* The peers. *)

\* The peer shuts down its sending side; what it sent before has been read.
ClientEof(c) ==
    /\ client[c] = "up"
    /\ client' = [client EXCEPT ![c] = "eof"]
    /\ UNCHANGED <<handler, held, seats, pending, reqs, requests, dispVars,
                   responses, responder, sent, got>>

\* The peer closes the connection, or it is lost.
ClientGone(c) ==
    /\ client[c] \in {"up", "eof"}
    /\ client' = [client EXCEPT ![c] = "gone"]
    /\ UNCHANGED <<handler, held, seats, pending, reqs, requests, dispVars,
                   responses, responder, sent, got>>

\* The peer reads the next reply frame.
ClientRead(c) ==
    /\ client[c] \in {"up", "eof"}
    /\ got[c] < Len(sent[c])
    /\ got' = [got EXCEPT ![c] = @ + 1]
    /\ UNCHANGED <<client, handler, held, seats, pending, reqs, requests,
                   dispVars, responses, responder, sent>>

-----------------------------------------------------------------------------
(* _handle_client of the two frontends. *)

\* The admission checks at the head of _handle_client.
Admits(c) ==
    IF FrontendOf[c] \in TcpFrontends
    THEN c \in Allowed
    ELSE seats[FrontendOf[c]] < MaxClients[FrontendOf[c]]

\* Mutant: the count of clients never goes down.
Seat_NeverLeft(c, delta) ==
    IF FrontendOf[c] \in UnixFrontends /\ delta > 0
    THEN [seats EXCEPT ![FrontendOf[c]] = @ + delta]
    ELSE seats

\* Only the Unix frontend counts its clients.
Seat(c, delta) ==
    IF FrontendOf[c] \in UnixFrontends
    THEN [seats EXCEPT ![FrontendOf[c]] = @ + delta]
    ELSE seats

\* A connection is accepted and admitted: the handler awaits its first frame.
Connect(c) ==
    /\ client[c] = "none"
    /\ Admits(c)
    /\ client' = [client EXCEPT ![c] = "up"]
    /\ handler' = [handler EXCEPT ![c] = "reading"]
    /\ seats' = Seat(c, 1)
    /\ UNCHANGED <<held, pending, reqs, requests, dispVars, responses,
                   responder, sent, got>>

\* A connection is accepted and closed at once.
Refuse(c) ==
    /\ client[c] = "none"
    /\ ~ Admits(c)
    /\ client' = [client EXCEPT ![c] = "up"]
    /\ handler' = [handler EXCEPT ![c] = "refused"]
    /\ UNCHANGED <<held, seats, pending, reqs, requests, dispVars, responses,
                   responder, sent, got>>

\* Requests of c with this tid whose reply c has not read.
Unanswered(c, t) ==
    {n \in Numbers : /\ reqs[n].client = c
                     /\ reqs[n].tid = t
                     /\ \A i \in 1 .. got[c] : sent[c][i].n # n}

\* The handler has read a whole request frame and registers it as pending.
\* Frames it skips (a length below 1, another protocol id, a PDU that does not
\* decode) change nothing and are left out.
Register(c, t, p) ==
    /\ handler[c] = "reading"
    /\ client[c] = "up"
    /\ Len(reqs) < MaxRequests
    /\ c \in Careful => Unanswered(c, t) = {}
    /\ reqs' = Append(reqs, [client |-> c, tid |-> t, pdu |-> p])
    /\ pending' = [pending EXCEPT ![c][t] = Len(reqs) + 1]

\* publish() finds room on the bus: put() does not suspend and the handler
\* goes on to read the next frame.
ReadAndPublish(c, t, p) ==
    /\ Register(c, t, p)
    /\ HasRoom(requests)
    /\ requests' = Publish(requests, Len(reqs) + 1)
    /\ UNCHANGED <<client, handler, held, seats, dispVars, responses,
                   responder, sent, got>>

\* publish() finds the topic full: the handler waits in put().
ReadAndWait(c, t, p) ==
    /\ Register(c, t, p)
    /\ ~ HasRoom(requests)
    /\ handler' = [handler EXCEPT ![c] = "putting"]
    /\ held' = [held EXCEPT ![c] = Len(reqs) + 1]
    /\ UNCHANGED <<client, seats, requests, dispVars, responses, responder,
                   sent, got>>

\* A waiting put() finds room.  asyncio.Queue lets a put() that comes now pass
\* those that wait, so any of the waiting handlers may be next.
Put(c) ==
    /\ handler[c] = "putting"
    /\ HasRoom(requests)
    /\ requests' = Publish(requests, held[c])
    /\ held' = [held EXCEPT ![c] = 0]
    /\ handler' = [handler EXCEPT ![c] = "reading"]
    /\ UNCHANGED <<client, seats, pending, reqs, dispVars, responses,
                   responder, sent, got>>

Forget_Nothing(c) == pending' = pending     \* mutant

\* The entries of a client are removed from _pending.
Forget(c) == pending' = [pending EXCEPT ![c] = [t \in Tids |-> 0]]

\* readexactly() meets the end of the stream: the finally block forgets what
\* is pending for this client and closes the writer.
Cleanup(c) ==
    /\ handler[c] = "reading"
    /\ client[c] \in {"eof", "gone"}
    /\ Forget(c)
    /\ handler' = [handler EXCEPT ![c] = "closing"]
    /\ UNCHANGED <<client, held, seats, reqs, requests, dispVars, responses,
                   responder, sent, got>>

\* Mutant: the writer is waited for, and was not closed.
Closed_NeverClosed(c) ==
    /\ handler[c] = "closing"
    /\ client[c] = "gone"
    /\ handler' = [handler EXCEPT ![c] = "done"]
    /\ seats' = Seat(c, -1)
    /\ UNCHANGED <<client, held, pending, reqs, requests, dispVars, responses,
                   responder, sent, got>>

\* wait_closed() returns once the transport has nothing left to send, or has lost
\* its peer.
Closed(c) ==
    /\ handler[c] = "closing"
    /\ ~ Keeps(c, Backlog(c), 0)
    /\ handler' = [handler EXCEPT ![c] = "done"]
    /\ seats' = Seat(c, -1)
    /\ UNCHANGED <<client, held, pending, reqs, requests, dispVars, responses,
                   responder, sent, got>>

-----------------------------------------------------------------------------
(* Dispatcher._run. *)

\* The dispatcher takes the request at the head of the topic and resolves it.
Take(next, result) ==
    /\ dispatcher = "idle"
    /\ requests # <<>>
    /\ requests' = Tail(requests)
    /\ dispatcher' = next
    /\ task' = result
    /\ UNCHANGED <<client, handler, held, seats, pending, reqs, responses,
                   responder, sent, got>>

\* The request at the head of the topic, as the error response to it and as
\* what is submitted for it under a plan.
ErrorFor(n) == [n |-> n, unit |-> reqs[n].pdu.unit_id, body |-> "error"]
Routed(n) == [n |-> n, unit |-> Plan(n).unit_id, body |-> "pdu"]

\* A backend takes the request, under the unit id of the plan.
Submit ==
    /\ requests # <<>>
    /\ Plan(Head(requests)).kind = "plan"
    /\ Plan(Head(requests)).backend \in Backends
    /\ Take("submitting", Routed(Head(requests)))

\* No rule matches, or the rule names a backend that is not configured.
Unroutable ==
    /\ requests # <<>>
    /\ \/ Plan(Head(requests)).kind = "none"
       \/ /\ Plan(Head(requests)).kind = "plan"
          /\ Plan(Head(requests)).backend \notin Backends
    /\ Take("publishing", ErrorFor(Head(requests)))

\* resolve() raises outside the try block: the task ends, unobserved, with the
\* request in its hands.
Crash ==
    /\ requests # <<>>
    /\ Plan(Head(requests)).kind = "raised"
    /\ Take("dead", ErrorFor(Head(requests)))

\* submit() returns the device's answer.
BackendReturns ==
    /\ dispatcher = "submitting"
    /\ dispatcher' = "publishing"
    /\ UNCHANGED <<client, handler, held, seats, pending, reqs, requests, task,
                   responses, responder, sent, got>>

\* Mutant: the exception is caught and no response is published.
BackendRaises_Silent ==
    /\ dispatcher = "submitting"
    /\ dispatcher' = "idle"
    /\ task' = NoTask
    /\ UNCHANGED <<client, handler, held, seats, pending, reqs, requests,
                   responses, responder, sent, got>>

\* Mutant: the exception is not caught.
BackendRaises_Uncaught ==
    /\ dispatcher = "submitting"
    /\ dispatcher' = "dead"
    /\ UNCHANGED <<client, handler, held, seats, pending, reqs, requests, task,
                   responses, responder, sent, got>>

\* submit() raises and the exception becomes an error response.
BackendRaises ==
    /\ dispatcher = "submitting"
    /\ dispatcher' = "publishing"
    /\ task' = ErrorFor(task.n)
    /\ UNCHANGED <<client, handler, held, seats, pending, reqs, requests,
                   responses, responder, sent, got>>

\* The response is put on the bus, when the topic has room.
Respond ==
    /\ dispatcher = "publishing"
    /\ HasRoom(responses)
    /\ responses' = Publish(responses, task)
    /\ dispatcher' = "idle"
    /\ task' = NoTask
    /\ UNCHANGED <<client, handler, held, seats, pending, reqs, requests,
                   responder, sent, got>>

-----------------------------------------------------------------------------
(* ResponseRouter._run and handle_response of the frontends. *)

\* The connection and the tid that request_id names.
ClientOf(n) == reqs[n].client
TidOf(n) == reqs[n].tid

\* Mutant: the entry is looked up by tid alone.
Waiting_ByTid(m) ==
    LET found == {pending[c][TidOf(m.n)] : c \in Clients} \ {0}
    IN  IF found = {} THEN 0 ELSE CHOOSE n \in found : TRUE

\* The pending entry that a response finds, or 0.
Waiting(m) == pending[ClientOf(m.n)][TidOf(m.n)]

\* Nothing waits under this request_id: the response is dropped.
Discard ==
    /\ responder = None
    /\ responses # <<>>
    /\ Waiting(Head(responses)) = 0
    /\ responses' = Tail(responses)
    /\ UNCHANGED <<client, handler, held, seats, pending, reqs, requests,
                   dispVars, responder, sent, got>>

Pop_Keeps(m) == pending' = pending      \* mutant: get() in place of pop()

\* pending.pop().
Pop(m) == pending' = [pending EXCEPT ![ClientOf(m.n)][TidOf(m.n)] = 0]

\* An error response is popped, and nothing is written for it.
Swallow ==
    /\ responder = None
    /\ responses # <<>>
    /\ Waiting(Head(responses)) # 0
    /\ Head(responses).body = "error"
    /\ Pop(Head(responses))
    /\ responses' = Tail(responses)
    /\ UNCHANGED <<client, handler, held, seats, reqs, requests, dispVars,
                   responder, sent, got>>

\* The frame for a response: the MBAP header of the entry it was popped from,
\* the PDU, with its unit id, as the backend decoded it.
FrameFor(m) == [tid |-> TidOf(Waiting(m)), n |-> m.n, unit |-> m.unit]

\* A response is written to the connection of its pending entry.  Above the high-water
\* mark drain() holds the response router until the peer has read.
Write ==
    /\ responder = None
    /\ responses # <<>>
    /\ Waiting(Head(responses)) # 0
    /\ Head(responses).body = "pdu"
    /\ LET m == Head(responses)
           c == ClientOf(Waiting(m))
       IN  /\ sent' = [sent EXCEPT ![c] = Append(@, FrameFor(m))]
           /\ responder' = IF Keeps(c, Backlog(c) + 1, HighWater) THEN c ELSE None
           /\ Pop(m)
    /\ responses' = Tail(responses)
    /\ UNCHANGED <<client, handler, held, seats, reqs, requests, dispVars, got>>

\* drain() returns, or fails because the connection is lost.
Drained ==
    /\ responder # None
    /\ ~ Keeps(responder, Backlog(responder), LowWater)
    /\ responder' = None
    /\ UNCHANGED <<client, handler, held, seats, pending, reqs, requests,
                   dispVars, responses, sent, got>>

-----------------------------------------------------------------------------

\* All connections are over and the bus is empty.  The stuttering step tells
\* this end of a bounded run from a deadlock.
Finished ==
    /\ \A c \in Clients : handler[c] \in {"done", "refused"}
    /\ requests = <<>> /\ responses = <<>>
    /\ dispatcher = "idle" /\ responder = None
    /\ UNCHANGED vars

Peer(c) == ClientEof(c) \/ ClientGone(c) \/ ClientRead(c)

Handler(c) ==
    \/ Connect(c) \/ Refuse(c) \/ Put(c) \/ Cleanup(c) \/ Closed(c)
    \/ \E t \in Tids, p \in Asks[c] : ReadAndPublish(c, t, p) \/ ReadAndWait(c, t, p)

Dispatcher ==
    Submit \/ Unroutable \/ Crash \/ BackendReturns \/ BackendRaises \/ Respond

ResponseRouter == Discard \/ Swallow \/ Write \/ Drained

Next ==
    \/ \E c \in Clients : Peer(c) \/ Handler(c)
    \/ Dispatcher \/ ResponseRouter
    \/ Finished

Spec == Init /\ [][Next]_vars

(***************************************************************************)
(* The loop runs every task that can run.  A backend's submit() ends: all  *)
(* its waits for the device have timeouts.  Prompt clients read what they  *)
(* are sent.  Nobody has to connect, ask or leave.                         *)
(***************************************************************************)
Fairness ==
    /\ WF_vars(Dispatcher)
    /\ WF_vars(ResponseRouter)
    /\ \A c \in Clients : WF_vars(Put(c) \/ Cleanup(c) \/ Closed(c))
    /\ \A c \in Prompt : WF_vars(ClientRead(c))

FairSpec == Spec /\ Fairness

-----------------------------------------------------------------------------
(* Safety. *)

TypeOK ==
    /\ client \in [Clients -> {"none", "up", "eof", "gone"}]
    /\ handler \in [Clients -> {"none", "refused", "reading", "putting",
                                "closing", "done"}]
    /\ held \in [Clients -> 0 .. Len(reqs)]
    /\ seats \in [UnixFrontends -> Int]
    /\ pending \in [Clients -> [Tids -> 0 .. Len(reqs)]]
    /\ reqs \in Seq(Request)
    /\ requests \in Seq(Numbers)
    /\ dispatcher \in {"idle", "submitting", "publishing", "dead"}
    /\ task \in Response \cup {NoTask}
    /\ responses \in Seq(Response)
    /\ responder \in Clients \cup {None}
    /\ sent \in [Clients -> Seq([tid : Tids, n : Numbers, unit : Int])]
    /\ got \in [Clients -> Nat]

\* The requests on their way through the bus, the one to be answered first at
\* the head.
Answering == [i \in DOMAIN responses |-> responses[i].n]
InService == IF dispatcher = "idle" THEN <<>> ELSE <<task.n>>
Pipeline == Answering \o InService \o requests

InFlight == {Pipeline[i] : i \in DOMAIN Pipeline} \cup {held[c] : c \in Clients}

\* Whatever a frontend keeps as pending is still on its way: no entry of
\* _pending outlives the request it was made for (registration, put, cleanup
\* and pop happen in four different places of three tasks).
PendingIsInFlight ==
    \A c \in Clients, t \in Tids : pending[c][t] \in InFlight \cup {0}

\* The frontends are multiplexed onto one bus, and still every reply frame on a
\* connection answers a request made on that connection under that tid.
ReplyToOwnRequest ==
    \A c \in Clients : \A i \in DOMAIN sent[c] :
        /\ sent[c][i].n \in Numbers
        /\ reqs[sent[c][i].n].client = c
        /\ reqs[sent[c][i].n].tid = sent[c][i].tid

\* Replies on a connection come in the order of its requests, each at most
\* once, even when a tid is used again while its reply is outstanding.
RepliesInOrder ==
    \A c \in Clients : \A i, j \in DOMAIN sent[c] :
        i < j => sent[c][i].n < sent[c][j].n

\* Once a connection is cleaned up no entry of it is left behind that a late
\* response could find.
ClosedHasNoPending ==
    \A c \in Clients : handler[c] \in {"closing", "done"} =>
        \A t \in Tids : pending[c][t] = 0

\* _current_clients of a Unix frontend is the number of its connections whose
\* handler has not ended, and never more than max_clients.
Seated(f) == {c \in Clients : /\ FrontendOf[c] = f
                              /\ handler[c] \in {"reading", "putting", "closing"}}

SeatsAreTaken ==
    \A f \in UnixFrontends : /\ seats[f] = Cardinality(Seated(f))
                             /\ seats[f] <= MaxClients[f]

\* The dispatcher outlives whatever it is given to dispatch.
DispatcherLives == dispatcher # "dead"

\* The entry a reply pops is the very request it answers, for a client that
\* does not reuse an unanswered tid: no response, late or lost, leaves an entry
\* behind that the reply to a later use of the tid would find.
ReplyPopsItsRequest ==
    [][\A c \in Careful : sent'[c] # sent[c] =>
          LET f == sent'[c][Len(sent'[c])] IN pending[c][f.tid] = f.n]_vars

\* Nothing is written to a connection whose handler has cleaned up.
SilentAfterCleanup ==
    [][\A c \in Clients : handler[c] \in {"closing", "done", "refused"} =>
          sent'[c] = sent[c]]_vars

(***************************************************************************)
(* The promise of GatewayService, kept by three tasks, two bounded queues  *)
(* and a table: a request is outstanding while it is somewhere in flight,  *)
(* and a connection is open until its handler has cleaned up.              *)
(***************************************************************************)
Outstanding(c) == {n \in InFlight \ {0} : reqs[n].client = c}

Service == INSTANCE GatewayService WITH
    open        <- [c \in Clients |->
                      handler[c] \notin {"closing", "done", "refused"}],
    asked       <- [n \in DOMAIN reqs |->
                      [client |-> reqs[n].client, tid |-> reqs[n].tid]],
    outstanding <- [c \in Clients |-> Outstanding(c)],
    replies     <- [c \in Clients |-> [i \in DOMAIN sent[c] |->
                      [tid |-> sent[c][i].tid, n |-> sent[c][i].n]]]

\* Gateway implements GatewayService.
ServiceIsProvided == Service!Spec

-----------------------------------------------------------------------------
(* Liveness, under FairSpec. *)

\* The response router waits for a client that does not read (tcp_modbus.py:99).
Stalled ==
    /\ responder \in Clients \ Prompt
    /\ Keeps(responder, Backlog(responder), LowWater)

\* wait_closed() waits for a peer that has shut down its sending side, and neither
\* reads what it was sent nor goes (tcp_modbus.py:176).
HeldByItsPeer(c) ==
    /\ c \notin Prompt
    /\ handler[c] = "closing" /\ client[c] = "eof" /\ Keeps(c, Backlog(c), 0)

HeldByAnother(c) == handler[c] = "putting" /\ Stalled

\* What a prompt client waits for is settled, whatever the others do: answered,
\* refused with an error, or dropped with its connection.
PendingIsSettled ==
    \A c \in Prompt, t \in Tids : (pending[c][t] # 0) ~> (pending[c][t] = 0)

\* In the code what anybody waits for is settled, unless a client that never reads
\* again holds up the response router for good.  Nothing else does, and not a client
\* that leaves or reads late.
SettledUnlessStalled ==
    []<>~Stalled =>
        \A c \in Clients, t \in Tids : (pending[c][t] # 0) ~> (pending[c][t] = 0)

\* A handler held up by a full bus gets to read again, with the same exception.
PutSucceeds ==
    []<>~Stalled =>
        \A c \in Clients : (handler[c] = "putting") ~> (handler[c] = "reading")

\* A client that shuts down its sending side or leaves is noticed and its handler
\* ends, wherever its requests and replies are, unless it is held for good: by its
\* own peer, or in put() behind one that never reads.  Nothing else, and no client
\* that is gone, holds any.
HandlersEnd ==
    \A c \in Clients :
        []<>~HeldByItsPeer(c) /\ []<>~HeldByAnother(c)
            => (client[c] \in {"eof", "gone"}) ~> (handler[c] \in {"done", "refused"})

=============================================================================
