---------------------------- MODULE PtyFrontend ----------------------------
(***************************************************************************)
(* SerialRTUFrontend: a virtual serial port on which one application acts  *)
(* as Modbus RTU master.  Frames are found by silence: a timer, restarted  *)
(* by each read, hands what was read to _finalize_frame.                   *)
(*                                                                         *)
(* The application numbers its requests and writes each in one or in two   *)
(* halves; of the bytes nothing is kept but the request and the half.  It  *)
(* may be SerialClient of the client library, which flushes what it has    *)
(* not read before it asks, or one that does not.  The CRC holds for the   *)
(* two halves of one request, in order and alone.  From the bus on the     *)
(* gateway is abstract: it answers the requests one after the other, or    *)
(* drops one that ends in an error.  Room on the bus depends on the other  *)
(* frontends and comes and goes.                                           *)
(***************************************************************************)
EXTENDS Integers, Sequences

CONSTANT MaxRequests    \* bound on the requests of a run

ASSUME PtyFrontendAssumption == MaxRequests \in Nat

Requests == 1 .. MaxRequests
Half == [n : Requests, half : {1, 2}]

VARIABLES
    patient,    \* the application waits as long as an answer may come
    flushes,    \* it discards its input before it writes, as SerialClient does
    app,        \* the application: "idle", "writing", "waiting"
    asked,      \* the number of its last request
    clean,      \* history: nothing but that request's answer can reach it
    input,      \* bytes it has written and _read_loop has not got
    buffer,     \* _buffer
    timer,      \* _flush_handle is set
    flushing,   \* a _finalize_frame task is about to run
    putting,    \* requests whose publish() waits for room
    bus,        \* requests in the gateway
    output,     \* replies written to the pty and not read
    replies     \* each reply read, with the request it was taken to answer

vars == <<patient, flushes, app, asked, clean, input, buffer, timer, flushing,
          putting, bus, output, replies>>

\* What only the application changes.
habits == <<patient, flushes>>
exchange == <<app, asked, clean>>

Init ==
    /\ patient \in BOOLEAN
    /\ flushes \in BOOLEAN
    /\ app = "idle"
    /\ asked = 0
    /\ clean = TRUE
    /\ input = <<>>
    /\ buffer = <<>>
    /\ timer = FALSE
    /\ flushing = FALSE
    /\ putting = {}
    /\ bus = <<>>
    /\ output = <<>>
    /\ replies = <<>>

Halves(n) == <<[n |-> n, half |-> 1], [n |-> n, half |-> 2]>>

Elements(s) == {s[i] : i \in DOMAIN s}

\* Requests on their way through the gateway.
InGateway ==
    {h.n : h \in Elements(input \o buffer)} \cup putting \cup Elements(bus)

\* An answer to request n may still come.
Underway(n) == n \in InGateway \cup Elements(output)

-----------------------------------------------------------------------------
(* The application. *)

Kept_Always(replied) == replied    \* mutant: the input is not reset

\* What is left of unread replies when a request is written.
Kept(replied) == IF flushes THEN <<>> ELSE replied

\* It writes its next request, at once or the first half of it.
Ask ==
    /\ app = "idle"
    /\ asked < MaxRequests
    /\ asked' = asked + 1
    /\ output' = Kept(output)
    /\ clean' = (InGateway = {} /\ (flushes \/ output = <<>>))
    /\ \/ /\ input' = input \o Halves(asked + 1)
          /\ app' = "waiting"
       \/ /\ input' = Append(input, Halves(asked + 1)[1])
          /\ app' = "writing"
    /\ UNCHANGED <<habits, buffer, timer, flushing, putting, bus, replies>>

AskOn ==
    /\ app = "writing"
    /\ input' = Append(input, Halves(asked)[2])
    /\ app' = "waiting"
    /\ UNCHANGED <<habits, asked, clean, buffer, timer, flushing, putting, bus,
                   output, replies>>

\* It takes the next reply for the one to its request.
TakeReply ==
    /\ app = "waiting"
    /\ output # <<>>
    /\ output' = Tail(output)
    /\ replies' = Append(replies, [request |-> asked, reply |-> Head(output),
                                   clean |-> clean])
    /\ app' = "idle"
    /\ UNCHANGED <<habits, asked, clean, input, buffer, timer, flushing,
                   putting, bus>>

\* Its timeout is over; SerialClient stays connected.
GiveUp ==
    /\ app = "waiting"
    /\ patient => ~ Underway(asked)
    /\ app' = "idle"
    /\ UNCHANGED <<habits, asked, clean, input, buffer, timer, flushing,
                   putting, bus, output, replies>>

-----------------------------------------------------------------------------
(* The frontend. *)

Restart_Late == timer' = (timer = FALSE)    \* mutant: cancelled, not restarted

\* _schedule_flush.
Restart == timer' = TRUE

\* _read_loop gets some of what was written.
Read(k) ==
    /\ k <= Len(input)
    /\ buffer' = buffer \o SubSeq(input, 1, k)
    /\ input' = SubSeq(input, k + 1, Len(input))
    /\ Restart
    /\ UNCHANGED <<habits, exchange, flushing, putting, bus, output, replies>>

\* _trigger_flush.  The task it creates runs before the timer fires again.
Silence ==
    /\ timer /\ ~ flushing
    /\ timer' = FALSE
    /\ flushing' = TRUE
    /\ UNCHANGED <<habits, exchange, input, buffer, putting, bus, output,
                   replies>>

\* Mutant: a frame is not checked.
Decoded_Unchecked(frame) == {frame[i].n : i \in DOMAIN frame \cap {1}}

\* The request a frame decodes to, if its length and CRC are right.
Decoded(frame) == {n \in Requests : frame = Halves(n)}

\* _finalize_frame takes all there is, be it less or more than a frame.
Finalize ==
    /\ flushing
    /\ flushing' = FALSE
    /\ buffer' = <<>>
    /\ \/ /\ Decoded(buffer) = {}
          /\ UNCHANGED <<putting, bus>>
       \/ \E n \in Decoded(buffer) : bus' = Append(bus, n) /\ UNCHANGED putting
       \/ /\ Decoded(buffer) # {}
          /\ putting' = putting \cup Decoded(buffer)
          /\ UNCHANGED bus
    /\ UNCHANGED <<habits, exchange, input, timer, output, replies>>

\* A publish() that waited finds room; any of those that wait may be next.
Put(n) ==
    /\ n \in putting
    /\ putting' = putting \ {n}
    /\ bus' = Append(bus, n)
    /\ UNCHANGED <<habits, exchange, input, buffer, timer, flushing, output,
                   replies>>

\* handle_response writes whatever answer comes; a reply says nothing of the
\* request it belongs to.
Respond ==
    /\ bus # <<>>
    /\ bus' = Tail(bus)
    /\ output' = Append(output, Head(bus))
    /\ UNCHANGED <<habits, exchange, input, buffer, timer, flushing, putting,
                   replies>>

\* handle_response has nothing to write for an error.
Swallow ==
    /\ bus # <<>>
    /\ bus' = Tail(bus)
    /\ UNCHANGED <<habits, exchange, input, buffer, timer, flushing, putting,
                   output, replies>>

-----------------------------------------------------------------------------

Application == Ask \/ AskOn \/ TakeReply \/ GiveUp

ReadLoop == \E k \in 1 .. Len(input) : Read(k)

Gateway == Respond \/ Swallow

Next ==
    \/ Application \/ ReadLoop \/ Silence \/ Finalize
    \/ \E n \in putting : Put(n)
    \/ Gateway

Spec == Init /\ [][Next]_vars

\* The loop runs what can run, the bus has room now and then, the gateway deals
\* with each request, and the application reads its replies and gives up when
\* none will come.
FairSpec ==
    /\ Spec
    /\ WF_vars(ReadLoop) /\ WF_vars(Silence) /\ WF_vars(Finalize)
    /\ WF_vars(\E n \in putting : Put(n)) /\ WF_vars(Gateway)
    /\ WF_vars(AskOn) /\ WF_vars(TakeReply \/ GiveUp)

-----------------------------------------------------------------------------

TypeOK ==
    /\ patient \in BOOLEAN /\ flushes \in BOOLEAN /\ clean \in BOOLEAN
    /\ app \in {"idle", "writing", "waiting"}
    /\ asked \in 0 .. MaxRequests
    /\ input \in Seq(Half) /\ buffer \in Seq(Half)
    /\ timer \in BOOLEAN /\ flushing \in BOOLEAN
    /\ putting \subseteq Requests
    /\ bus \in Seq(Requests) /\ output \in Seq(Requests)
    /\ replies \in Seq([request : Requests, reply : Requests, clean : BOOLEAN])

\* Bytes in the buffer never wait for more bytes: the timer runs, or the task
\* that takes them is on its way, however reads and silences interleave.
BufferIsWatched == buffer # <<>> => timer \/ flushing

\* An application that outwaits the gateway takes each reply for what it is,
\* although replies are not told apart: of a request cut in two by a silence, or
\* run into another, nothing reaches the bus.  One that gives up early but
\* flushes, as SerialClient does, is right again with the first request it makes
\* while the gateway has nothing of its own in hand, whatever it left unread.
RepliesAreOwn ==
    \A i \in DOMAIN replies :
        patient \/ replies[i].clean => replies[i].request = replies[i].reply

\* Even one that gives up early gets no reply twice, nor one it has not asked
\* for: however its bytes are cut and joined, a request is decoded once.
RepliesComeOnce ==
    /\ \A i \in DOMAIN replies : replies[i].reply <= replies[i].request
    /\ \A i, j \in DOMAIN replies : replies[i].reply = replies[j].reply => i = j

\* Under FairSpec every exchange comes to its end.
ExchangesEnd == (app = "waiting") ~> (app = "idle")

=============================================================================
