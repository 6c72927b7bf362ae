---------------------------- MODULE GatewayProofs ----------------------------
(***************************************************************************)
(* What the router returns for every list of rules; and, for every number  *)
(* of clients, frontends, queue sizes, rules and requests: the types of    *)
(* Gateway, that replies reach the connection and the tid that asked, in   *)
(* the order of the requests, and none that is over, that what is pending  *)
(* is on its way, that seats are counted, and that Gateway implements      *)
(* GatewayService.                                                         *)
(***************************************************************************)
EXTENDS Gateway, SequenceTheorems, WellFoundedInduction, FiniteSetTheorems, TLAPS

-----------------------------------------------------------------------------
(* What Router.resolve returns, for every list of rules and every request. *)

\* Every non-empty set of natural numbers has a smallest element.
LEMMA SmallestNat ==
    ASSUME NEW T, T \subseteq Nat, T # {}
    PROVE  \E x \in T : \A y \in T : x <= y
<1> DEFINE Less == {ss \in Nat \X Nat : ss[1] < ss[2]}
<1>1. IsWellFoundedOn(Less, Nat)
  BY NatLessThanWellFounded, Zenon DEF OpToRel
<1> HIDE DEF Less
<1>2. \E x \in T : \A y \in T : ~ (<<y, x>> \in Less)
  BY <1>1, WFMin, Zenon
<1>3. PICK x \in T : \A y \in T : ~ (<<y, x>> \in Less)
  BY <1>2
<1>4. ASSUME NEW y \in T PROVE x <= y
  <2>1. <<y, x>> \in Nat \X Nat /\ <<y, x>>[1] = y /\ <<y, x>>[2] = x
    BY T \subseteq Nat
  <2>2. y < x => <<y, x>> \in Less
    BY <2>1 DEF Less
  <2>3. ~ (y < x)
    BY <1>3, <2>2
  <2>. QED
    BY <2>3, T \subseteq Nat
<1>. QED
  BY <1>4

\* Where the loop stops is a rule that matches or raises, and no rule before it
\* does.
LEMMA FirstStopIsFirst ==
    ASSUME NEW rules, NEW q, DOMAIN rules \subseteq Nat, Stops(rules, q) # {}
    PROVE  /\ FirstStop(rules, q) \in DOMAIN rules
           /\ Matches(rules[FirstStop(rules, q)], q) # "no"
           /\ \A j \in DOMAIN rules :
                 j < FirstStop(rules, q) => Matches(rules[j], q) = "no"
<1>1. Stops(rules, q) \subseteq Nat
  BY DEF Stops
<1>2. \E i \in Stops(rules, q) : \A j \in Stops(rules, q) : i <= j
  BY <1>1, SmallestNat
<1>3. /\ FirstStop(rules, q) \in Stops(rules, q)
      /\ \A j \in Stops(rules, q) : FirstStop(rules, q) <= j
  BY <1>2 DEF FirstStop
<1>. QED
  BY <1>1, <1>3 DEF Stops

\* A route is the plan of the first rule that matches, and every rule before it
\* was compared and did not match (README: the first match determines to which
\* backend a message is routed).
THEOREM FirstMatchRoutes ==
    ASSUME NEW rules, NEW q, DOMAIN rules \subseteq Nat,
           Resolve(rules, q).kind = "plan"
    PROVE  \E i \in DOMAIN rules :
              /\ Matches(rules[i], q) \notin {"no", "raises"}
              /\ Resolve(rules, q) = PlanOf(rules[i], q)
              /\ \A j \in DOMAIN rules : j < i => Matches(rules[j], q) = "no"
<1>1. Stops(rules, q) # {}
  BY DEF Resolve, NoRoute
<1>2. Matches(rules[FirstStop(rules, q)], q) # "raises"
  BY <1>1 DEF Resolve, Raised
<1>. QED
  BY <1>1, <1>2, FirstStopIsFirst DEF Resolve

\* A request finds no route exactly when every rule was compared with it and
\* none matched or raised.
THEOREM NoRouteMeansNoMatch ==
    ASSUME NEW rules, NEW q, DOMAIN rules \subseteq Nat
    PROVE  Resolve(rules, q).kind = "none" <=>
              \A i \in DOMAIN rules : Matches(rules[i], q) = "no"
<1>1. Stops(rules, q) = {} <=> \A i \in DOMAIN rules : Matches(rules[i], q) = "no"
  BY DEF Stops
<1>2. Stops(rules, q) = {} => Resolve(rules, q).kind = "none"
  BY DEF Resolve, NoRoute
<1>3. Stops(rules, q) # {} => Resolve(rules, q).kind # "none"
  BY DEF Resolve, Raised, PlanOf
<1>. QED
  BY <1>1, <1>2, <1>3

\* add_rule() takes no request away from the rules there are: what has a route,
\* or raises, does so still when a rule is appended.
THEOREM AddRuleKeepsRoutes ==
    ASSUME NEW S, NEW rules \in Seq(S), NEW rule \in S, NEW q,
           Resolve(rules, q).kind # "none"
    PROVE  Resolve(Append(rules, rule), q) = Resolve(rules, q)
<1> DEFINE more == Append(rules, rule)
<1>1. /\ DOMAIN rules = 1 .. Len(rules)
      /\ DOMAIN more = 1 .. Len(rules) + 1
      /\ \A i \in 1 .. Len(rules) : more[i] = rules[i]
      /\ Len(rules) \in Nat
  BY AppendProperties, LenProperties
<1>2. Stops(rules, q) # {}
  BY DEF Resolve, NoRoute
<1>3. /\ Stops(rules, q) \subseteq Stops(more, q)
      /\ \A i \in Stops(more, q) \ Stops(rules, q) : i = Len(rules) + 1
  <2>. HIDE DEF more
  <2>. QED BY <1>1 DEF Stops
<1>4. FirstStop(more, q) = FirstStop(rules, q)
  <2>1. /\ FirstStop(rules, q) \in DOMAIN rules
        /\ FirstStop(rules, q) \in Stops(rules, q)
        /\ \A j \in DOMAIN rules :
              j < FirstStop(rules, q) => Matches(rules[j], q) = "no"
    BY <1>1, <1>2, FirstStopIsFirst DEF Stops
  <2>2. /\ FirstStop(more, q) \in DOMAIN more
        /\ FirstStop(more, q) \in Stops(more, q)
        /\ \A j \in DOMAIN more :
              j < FirstStop(more, q) => Matches(more[j], q) = "no"
    <3>. HIDE DEF more
    <3>1. DOMAIN more \subseteq Nat /\ Stops(more, q) # {}
      BY <1>1, <1>2, <1>3
    <3>. QED BY <3>1, FirstStopIsFirst DEF Stops
  <2>3. ~ (FirstStop(more, q) < FirstStop(rules, q))
    BY <1>1, <1>3, <2>1, <2>2 DEF Stops
  <2>4. ~ (FirstStop(rules, q) < FirstStop(more, q))
    BY <1>1, <1>3, <2>1, <2>2 DEF Stops
  <2>. QED
    BY <1>1, <2>1, <2>2, <2>3, <2>4
<1>5. more[FirstStop(rules, q)] = rules[FirstStop(rules, q)]
  BY <1>1, <1>2, FirstStopIsFirst
<1>. QED
  BY <1>2, <1>3, <1>4, <1>5 DEF Resolve

-----------------------------------------------------------------------------
(* Type correctness. *)

\* A dispatcher that is not idle works on a request.
HasTask == dispatcher # "idle" => task \in Response

\* A handler that waits in put() holds a request, no other does, and a
\* connection that is made has a handler.
HasHeld ==
    \A c \in Clients : /\ handler[c] = "putting" <=> held[c] # 0
                       /\ client[c] = "none" <=> handler[c] = "none"

TypeInv == TypeOK /\ HasTask /\ HasHeld

\* A plan names a unit.
LEMMA PlanHasUnit ==
    ASSUME TypeOK, NEW n \in Numbers, Plan(n).kind = "plan"
    PROVE  Plan(n).unit_id \in Int
<1> DEFINE q == RouterView(reqs[n].client, reqs[n].pdu)
<1>1. reqs[n] \in Request
  BY ElementOfSeq DEF TypeOK, Numbers
<1>2. Plan(n) = Resolve(Rules, q)
  BY <1>1 DEF Plan, Routes, Request
<1>3. q.unit_id \in Int
  BY <1>1, RulesAssumption DEF RouterView, Request
<1>4. PICK i \in DOMAIN Rules : Resolve(Rules, q) = PlanOf(Rules[i], q)
  <2>. HIDE DEF q
  <2>. QED BY <1>2, RulesAssumption, FirstMatchRoutes
<1>. QED
  BY <1>2, <1>3, <1>4, RulesAssumption DEF PlanOf

\* What registering a request does to the log and to all that is typed by it.
LEMMA RegisterGrows ==
    ASSUME TypeOK, NEW c \in Clients, NEW t \in Tids, NEW p \in Asks[c],
           Register(c, t, p)
    PROVE  /\ reqs' \in Seq(Request)
           /\ Len(reqs') = Len(reqs) + 1
           /\ \A n \in Numbers : reqs'[n] = reqs[n]
           /\ reqs'[Len(reqs) + 1] = [client |-> c, tid |-> t, pdu |-> p]
           /\ Numbers \subseteq Numbers'
           /\ Len(reqs) \in Nat
           /\ Len(reqs) + 1 \in Numbers'
           /\ Response \subseteq Response'
           /\ pending' \in [Clients -> [Tids -> 0 .. Len(reqs')]]
<1>1. [client |-> c, tid |-> t, pdu |-> p] \in Request
  BY GatewayAssumption DEF Request
<1>2. /\ reqs' \in Seq(Request)
      /\ Len(reqs') = Len(reqs) + 1
      /\ Len(reqs) \in Nat
      /\ \A n \in 1 .. Len(reqs) : reqs'[n] = reqs[n]
      /\ reqs'[Len(reqs) + 1] = [client |-> c, tid |-> t, pdu |-> p]
  BY <1>1, AppendProperties, LenProperties DEF TypeOK, Register
<1>3. Numbers \subseteq Numbers' /\ Len(reqs) + 1 \in Numbers'
  BY <1>2 DEF Numbers
<1>4. Response \subseteq Response'
  BY <1>3 DEF Response
<1>5. pending' \in [Clients -> [Tids -> 0 .. Len(reqs')]]
  <2>. DEFINE R == 0 .. Len(reqs')
  <2>1. pending' = [pending EXCEPT ![c][t] = Len(reqs) + 1] /\ Len(reqs) + 1 \in R
    BY <1>2 DEF Register
  <2>2. pending \in [Clients -> [Tids -> 0 .. Len(reqs)]] /\ 0 .. Len(reqs) \subseteq R
    BY <1>2 DEF TypeOK
  <2>. HIDE DEF R
  <2>3. pending \in [Clients -> [Tids -> R]]
    BY <2>2
  <2>4. pending' \in [Clients -> [Tids -> R]]
    BY <2>1, <2>3
  <2>. QED BY <2>4 DEF R
<1>. QED
  BY <1>2, <1>3, <1>4, <1>5 DEF Numbers

\* An error response, and a response on its way to its connection, are typed.
LEMMA ErrorIsResponse ==
    ASSUME TypeOK, NEW n \in Numbers
    PROVE  ErrorFor(n) \in Response
<1>1. reqs[n] \in Request
  BY ElementOfSeq DEF TypeOK, Numbers
<1>2. reqs[n].pdu \in Pdus
  BY <1>1 DEF Request
<1>. QED
  BY <1>2, RulesAssumption DEF ErrorFor, Response

LEMMA ResponseHasKey ==
    ASSUME TypeOK, NEW m \in Response
    PROVE  /\ ClientOf(m.n) \in Clients
           /\ TidOf(m.n) \in Tids
           /\ Waiting(m) \in 0 .. Len(reqs)
<1>1. reqs[m.n] \in Request
  BY ElementOfSeq DEF TypeOK, Numbers, Response
<1>2. ClientOf(m.n) \in Clients /\ TidOf(m.n) \in Tids
  BY <1>1 DEF Request, ClientOf, TidOf
<1>. QED
  BY <1>2 DEF TypeOK, Waiting

\* The gateway starts typed.
LEMMA TypeInit == Init => TypeInv
<1>. SUFFICES ASSUME Init PROVE TypeInv
  OBVIOUS
<1>1. /\ <<>> \in Seq(Request) /\ <<>> \in Seq(Numbers) /\ <<>> \in Seq(Response)
      /\ <<>> \in Seq([tid : Tids, n : Numbers, unit : Int])
      /\ Len(reqs) = 0
  BY EmptySeq DEF Init
<1>2. TypeOK
  BY <1>1 DEF Init, TypeOK
<1>. QED
  BY <1>2 DEF Init, TypeInv, HasTask, HasHeld

\* A handler registers a request and puts it on the bus, or waits to.
LEMMA TypeRegister ==
    ASSUME TypeInv, NEW c \in Clients, NEW t \in Tids, NEW p \in Asks[c],
           ReadAndPublish(c, t, p) \/ ReadAndWait(c, t, p)
    PROVE  TypeOK'
<1>0. TypeOK /\ Register(c, t, p)
  BY DEF ReadAndPublish, ReadAndWait, TypeInv
<1>1. /\ reqs' \in Seq(Request)
      /\ Len(reqs') = Len(reqs) + 1
      /\ Len(reqs) \in Nat
      /\ Numbers \subseteq Numbers'
      /\ Len(reqs) + 1 \in Numbers'
      /\ Response \subseteq Response'
      /\ pending' \in [Clients -> [Tids -> 0 .. Len(reqs')]]
  BY <1>0, RegisterGrows
<1>2. /\ requests \in Seq(Numbers')
      /\ responses \in Seq(Response')
  BY <1>0, <1>1, SeqMonotonic DEF TypeOK
<1>3. sent \in [Clients -> Seq([tid : Tids, n : Numbers', unit : Int])]
  <2>1. [tid : Tids, n : Numbers, unit : Int]
           \subseteq [tid : Tids, n : Numbers', unit : Int]
    BY <1>1
  <2>2. ASSUME NEW d \in Clients
        PROVE  sent[d] \in Seq([tid : Tids, n : Numbers', unit : Int])
    <3>1. sent[d] \in Seq([tid : Tids, n : Numbers, unit : Int])
      BY <1>0 DEF TypeOK
    <3>. QED BY <2>1, <3>1, SeqMonotonic
  <2>. QED BY <1>0, <2>2 DEF TypeOK
<1>4. /\ held \in [Clients -> 0 .. Len(reqs')]
      /\ task \in Response' \cup {NoTask'}
  <2>1. 0 .. Len(reqs) \subseteq 0 .. Len(reqs') /\ NoTask' = NoTask
    BY <1>1 DEF NoTask
  <2>. QED BY <1>0, <1>1, <2>1 DEF TypeOK
<1>5. requests' \in Seq(Numbers') /\ held' \in [Clients -> 0 .. Len(reqs')]
  <2>1. CASE ReadAndPublish(c, t, p)
    BY <1>1, <1>2, <1>4, <2>1, AppendProperties DEF ReadAndPublish, Publish
  <2>2. CASE ReadAndWait(c, t, p)
    BY <1>1, <1>2, <1>4, <2>2 DEF ReadAndWait
  <2>. QED BY <2>1, <2>2
<1>6. /\ handler' \in [Clients -> {"none", "refused", "reading", "putting",
                                   "closing", "done"}]
      /\ UNCHANGED <<client, seats, dispVars, responses, responder, sent, got>>
  BY <1>0 DEF ReadAndPublish, ReadAndWait, TypeOK
<1>. QED
  BY <1>0, <1>1, <1>2, <1>3, <1>4, <1>5, <1>6 DEF TypeOK, dispVars

\* All other steps leave the log, and the types that depend on it, alone.
LEMMA TypeOther ==
    ASSUME TypeInv, [Next]_vars, UNCHANGED reqs
    PROVE  TypeOK'
<1>. USE DEF dispVars
<1>0. /\ TypeOK
      /\ Numbers' = Numbers /\ Response' = Response /\ NoTask' = NoTask
      /\ Len(reqs) \in Nat
  BY LenProperties DEF TypeInv, TypeOK, Numbers, Response, NoTask
<1>1. ASSUME NEW c \in Clients, Peer(c) PROVE TypeOK'
  <2>1. CASE ClientEof(c)
    BY <1>0, <2>1 DEF TypeOK, ClientEof
  <2>2. CASE ClientGone(c)
    BY <1>0, <2>2 DEF TypeOK, ClientGone
  <2>3. CASE ClientRead(c)
    <3>1. got' \in [Clients -> Nat]
      <4>1. got \in [Clients -> Nat] /\ got' = [got EXCEPT ![c] = got[c] + 1]
        BY <1>0, <2>3 DEF TypeOK, ClientRead
      <4>2. got[c] + 1 \in Nat
        BY <4>1
      <4>. QED BY <4>1, <4>2
    <3>. QED BY <1>0, <2>3, <3>1 DEF TypeOK, ClientRead
  <2>. QED BY <1>1, <2>1, <2>2, <2>3 DEF Peer
<1>2. ASSUME NEW c \in Clients, Connect(c) PROVE TypeOK'
  <2>1. seats' \in [UnixFrontends -> Int]
    BY <1>0, <1>2 DEF TypeOK, Connect, Seat
  <2>. QED BY <1>0, <1>2, <2>1 DEF TypeOK, Connect
<1>3. ASSUME NEW c \in Clients, Refuse(c) PROVE TypeOK'
  BY <1>0, <1>3 DEF TypeOK, Refuse
<1>4. ASSUME NEW c \in Clients, Put(c) PROVE TypeOK'
  <2>1. held[c] \in Numbers
    BY <1>0, <1>4 DEF TypeInv, TypeOK, HasHeld, Put, Numbers
  <2>2. requests' \in Seq(Numbers)
    BY <1>0, <1>4, <2>1, AppendProperties DEF TypeOK, Put, Publish
  <2>3. held' \in [Clients -> 0 .. Len(reqs)]
    BY <1>0, <1>4 DEF TypeOK, Put
  <2>4. handler' \in [Clients -> {"none", "refused", "reading", "putting",
                                 "closing", "done"}]
    BY <1>0, <1>4 DEF TypeOK, Put
  <2>. QED BY <1>0, <1>4, <2>2, <2>3, <2>4 DEF TypeOK, Put
<1>5. ASSUME NEW c \in Clients, Cleanup(c) PROVE TypeOK'
  <2>1. [t \in Tids |-> 0] \in [Tids -> 0 .. Len(reqs)]
    BY <1>0
  <2>2. pending' \in [Clients -> [Tids -> 0 .. Len(reqs)]]
    BY <1>0, <1>5, <2>1 DEF TypeOK, Cleanup, Forget
  <2>. QED BY <1>0, <1>5, <2>2 DEF TypeOK, Cleanup
<1>6. ASSUME NEW c \in Clients, Closed(c) PROVE TypeOK'
  <2>1. seats' \in [UnixFrontends -> Int]
    BY <1>0, <1>6 DEF TypeOK, Closed, Seat
  <2>. QED BY <1>0, <1>6, <2>1 DEF TypeOK, Closed
<1>7. CASE Dispatcher
  <2>1. ASSUME requests # <<>>
        PROVE  /\ Head(requests) \in Numbers
               /\ Tail(requests) \in Seq(Numbers)
               /\ ErrorFor(Head(requests)) \in Response
    <3>1. /\ Head(requests) \in Numbers
          /\ Tail(requests) \in Seq(Numbers)
      BY <1>0, <2>1, HeadTailProperties DEF TypeOK
    <3>. QED BY <1>0, <3>1, ErrorIsResponse
  <2>2. CASE Submit
    <3>1. Routed(Head(requests)) \in Response
      BY <1>0, <2>1, <2>2, PlanHasUnit DEF Submit, Routed, Response
    <3>. QED BY <1>0, <2>1, <2>2, <3>1 DEF TypeOK, Submit, Take
  <2>3. CASE Unroutable
    BY <1>0, <2>1, <2>3 DEF TypeOK, Unroutable, Take
  <2>4. CASE Crash
    BY <1>0, <2>1, <2>4 DEF TypeOK, Crash, Take
  <2>5. CASE BackendReturns
    BY <1>0, <2>5 DEF TypeOK, BackendReturns
  <2>6. CASE BackendRaises
    <3>1. task.n \in Numbers
      BY <2>6 DEF TypeInv, HasTask, BackendRaises, Response
    <3>2. ErrorFor(task.n) \in Response
      BY <1>0, <3>1, ErrorIsResponse
    <3>. QED BY <1>0, <2>6, <3>2 DEF TypeOK, BackendRaises
  <2>7. CASE Respond
    <3>1. responses' \in Seq(Response)
      BY <1>0, <2>7, AppendProperties DEF TypeInv, TypeOK, HasTask, Respond, Publish
    <3>. QED BY <1>0, <2>7, <3>1 DEF TypeOK, Respond
  <2>. QED BY <1>7, <2>2, <2>3, <2>4, <2>5, <2>6, <2>7 DEF Dispatcher
<1>8. CASE ResponseRouter
  <2>1. CASE Drained
    BY <1>0, <2>1 DEF TypeOK, Drained
  <2> DEFINE m == Head(responses)
  <2>2. ASSUME responses # <<>>
        PROVE  /\ m \in Response
               /\ Tail(responses) \in Seq(Response)
               /\ ClientOf(m.n) \in Clients /\ TidOf(m.n) \in Tids
               /\ Waiting(m) \in 0 .. Len(reqs)
    <3>1. m \in Response /\ Tail(responses) \in Seq(Response)
      BY <1>0, <2>2, HeadTailProperties DEF TypeOK
    <3>. QED BY <1>0, <3>1, ResponseHasKey
  <2>3. ASSUME responses # <<>>, Pop(m)
        PROVE  pending' \in [Clients -> [Tids -> 0 .. Len(reqs)]]
    BY <1>0, <2>2, <2>3 DEF TypeOK, Pop
  <2>. HIDE DEF m
  <2>4. CASE Discard
    BY <1>0, <2>2, <2>4 DEF TypeOK, Discard
  <2>5. CASE Swallow
    <3>1. pending' \in [Clients -> [Tids -> 0 .. Len(reqs)]]
      BY <2>3, <2>5 DEF Swallow, m
    <3>. QED BY <1>0, <2>2, <2>5, <3>1 DEF TypeOK, Swallow
  <2>6. CASE Write
    <3>1. /\ pending' \in [Clients -> [Tids -> 0 .. Len(reqs)]]
          /\ responses' \in Seq(Response)
      BY <2>2, <2>3, <2>6 DEF Write, m
    <3>2. Waiting(m) \in Numbers
      BY <1>0, <2>2, <2>6 DEF Write, m, Numbers
    <3>3. /\ ClientOf(Waiting(m)) \in Clients
          /\ FrameFor(m) \in [tid : Tids, n : Numbers, unit : Int]
      <4>1. reqs[Waiting(m)] \in Request
        BY <1>0, <3>2, ElementOfSeq DEF TypeOK, Numbers
      <4>. QED BY <2>2, <2>6, <4>1 DEF Write, FrameFor, ClientOf, TidOf, Request, Response
    <3>4. sent' \in [Clients -> Seq([tid : Tids, n : Numbers, unit : Int])]
      <4>1. Append(sent[ClientOf(Waiting(m))], FrameFor(m))
               \in Seq([tid : Tids, n : Numbers, unit : Int])
        BY <1>0, <3>3, AppendProperties DEF TypeOK
      <4>2. sent' = [sent EXCEPT ![ClientOf(Waiting(m))] = Append(@, FrameFor(m))]
        BY <2>6 DEF Write, m
      <4>. QED BY <1>0, <4>1, <4>2 DEF TypeOK
    <3>5. responder' \in Clients \cup {None}
      BY <2>6, <3>3 DEF Write, m
    <3>6. UNCHANGED <<client, handler, held, seats, reqs, requests, dispatcher,
                      task, got>>
      BY <2>6 DEF Write
    <3>. QED BY <1>0, <3>1, <3>4, <3>5, <3>6 DEF TypeOK
  <2>. QED BY <1>8, <2>1, <2>4, <2>5, <2>6 DEF ResponseRouter
<1>9. CASE Finished \/ UNCHANGED vars
  BY <1>0, <1>9 DEF TypeOK, Finished, vars
<1>10. ASSUME NEW c \in Clients, NEW t \in Tids, NEW p \in Asks[c],
              ReadAndPublish(c, t, p) \/ ReadAndWait(c, t, p)
       PROVE  TypeOK'
  BY <1>10, TypeRegister
<1>. QED
  BY <1>1, <1>2, <1>3, <1>4, <1>5, <1>6, <1>7, <1>8, <1>9, <1>10 DEF Next, Handler

\* The dispatcher holds a request while it is not idle.
LEMMA HasTaskStep ==
    ASSUME TypeInv, [Next]_vars
    PROVE  HasTask'
<1>. USE DEF TypeInv, HasTask, dispVars
<1>1. ASSUME NEW c \in Clients, NEW t \in Tids, NEW p \in Asks[c],
             ReadAndPublish(c, t, p) \/ ReadAndWait(c, t, p)
      PROVE  HasTask'
  <2>1. Response \subseteq Response'
    BY <1>1, RegisterGrows DEF ReadAndPublish, ReadAndWait
  <2>. QED BY <1>1, <2>1 DEF ReadAndPublish, ReadAndWait
<1>2. CASE UNCHANGED <<reqs, dispVars>>
  BY <1>2 DEF Response, Numbers
<1>3. CASE Dispatcher
  <2>1. Response' = Response
    BY <1>3 DEF Dispatcher, Submit, Unroutable, Crash, Take, BackendReturns,
                BackendRaises, Respond, Response, Numbers
  <2>2. ASSUME requests # <<>>
        PROVE  Head(requests) \in Numbers /\ ErrorFor(Head(requests)) \in Response
    <3>1. Head(requests) \in Numbers
      BY <2>2, HeadTailProperties DEF TypeOK
    <3>. QED BY <3>1, ErrorIsResponse
  <2>3. CASE Submit
    <3>1. Routed(Head(requests)) \in Response
      BY <2>2, <2>3, PlanHasUnit DEF Submit, Routed, Response
    <3>. QED BY <2>1, <2>3, <3>1 DEF Submit, Take
  <2>4. CASE Unroutable \/ Crash
    BY <2>1, <2>2, <2>4 DEF Unroutable, Crash, Take
  <2>5. CASE BackendReturns
    BY <2>1, <2>5 DEF BackendReturns
  <2>6. CASE BackendRaises
    <3>1. task.n \in Numbers
      BY <2>6 DEF BackendRaises, Response
    <3>. QED BY <2>1, <2>6, <3>1, ErrorIsResponse DEF BackendRaises
  <2>7. CASE Respond
    BY <2>7 DEF Respond
  <2>. QED BY <1>3, <2>3, <2>4, <2>5, <2>6, <2>7 DEF Dispatcher
<1>. QED
  BY <1>1, <1>2, <1>3
     DEF Next, vars, Peer, ClientEof, ClientGone, ClientRead, Handler, Connect,
         Refuse, Put, Cleanup, Closed, ResponseRouter, Discard, Swallow, Write,
         Drained, Finished

\* A handler holds a request while it waits in put().
LEMMA HasHeldStep ==
    ASSUME TypeInv, [Next]_vars
    PROVE  HasHeld'
<1>0. /\ HasHeld
      /\ client \in [Clients -> {"none", "up", "eof", "gone"}]
      /\ handler \in [Clients -> {"none", "refused", "reading", "putting",
                                  "closing", "done"}]
      /\ held \in [Clients -> 0 .. Len(reqs)]
      /\ Len(reqs) \in Nat
  BY LenProperties DEF TypeInv, TypeOK
<1>. SUFFICES ASSUME NEW d \in Clients
              PROVE  /\ handler'[d] = "putting" <=> held'[d] # 0
                     /\ client'[d] = "none" <=> handler'[d] = "none"
  BY DEF HasHeld
<1>1. CASE UNCHANGED <<client, handler, held>>
  BY <1>0, <1>1 DEF HasHeld
<1>2. ASSUME NEW c \in Clients, ClientEof(c) \/ ClientGone(c)
      PROVE  /\ handler'[d] = "putting" <=> held'[d] # 0
             /\ client'[d] = "none" <=> handler'[d] = "none"
  BY <1>0, <1>2 DEF HasHeld, ClientEof, ClientGone
<1>3. ASSUME NEW c \in Clients,
             Connect(c) \/ Refuse(c) \/ Put(c) \/ Cleanup(c) \/ Closed(c)
      PROVE  /\ handler'[d] = "putting" <=> held'[d] # 0
             /\ client'[d] = "none" <=> handler'[d] = "none"
  <2>1. CASE Connect(c)
    BY <1>0, <2>1 DEF HasHeld, Connect
  <2>2. CASE Refuse(c)
    BY <1>0, <2>2 DEF HasHeld, Refuse
  <2>3. CASE Put(c)
    BY <1>0, <2>3 DEF HasHeld, Put
  <2>4. CASE Cleanup(c)
    BY <1>0, <2>4 DEF HasHeld, Cleanup
  <2>5. CASE Closed(c)
    BY <1>0, <2>5 DEF HasHeld, Closed
  <2>. QED BY <1>3, <2>1, <2>2, <2>3, <2>4, <2>5
<1>4. ASSUME NEW c \in Clients, NEW t \in Tids, NEW p \in Asks[c],
             ReadAndWait(c, t, p)
      PROVE  /\ handler'[d] = "putting" <=> held'[d] # 0
             /\ client'[d] = "none" <=> handler'[d] = "none"
  BY <1>0, <1>4 DEF HasHeld, ReadAndWait, Register
<1>. QED
  BY <1>1, <1>2, <1>3, <1>4
     DEF Next, vars, dispVars, Peer, ClientRead, Handler, ReadAndPublish,
         Dispatcher, Submit, Unroutable, Crash, Take, BackendReturns,
         BackendRaises, Respond, ResponseRouter, Discard, Swallow, Write,
         Drained, Finished

\* Every step keeps the types.
LEMMA TypeStep == TypeInv /\ [Next]_vars => TypeInv'
<1>. SUFFICES ASSUME TypeInv, [Next]_vars PROVE TypeInv'
  OBVIOUS
<1>1. TypeOK'
  <2>1. ASSUME NEW c \in Clients, NEW t \in Tids, NEW p \in Asks[c],
               ReadAndPublish(c, t, p) \/ ReadAndWait(c, t, p)
        PROVE  TypeOK'
    BY <2>1, TypeRegister
  <2>2. CASE UNCHANGED reqs
    BY <2>2, TypeOther
  <2>3. CASE ~ UNCHANGED reqs
    BY <2>1, <2>3
       DEF Next, vars, dispVars, Peer, ClientEof, ClientGone, ClientRead, Handler,
           Connect, Refuse, Put, Cleanup, Closed, Dispatcher, Submit, Unroutable,
           Crash, Take, BackendReturns, BackendRaises, Respond, ResponseRouter,
           Discard, Swallow, Write, Drained, Finished
  <2>. QED BY <2>2, <2>3
<1>. QED
  BY <1>1, HasTaskStep, HasHeldStep DEF TypeInv

\* The state of the frontends, the bus, the dispatcher and the response router
\* is always of the kind their code expects.
THEOREM TypeCorrect == Spec => []TypeOK
<1>1. TypeInv => TypeOK
  BY DEF TypeInv
<1>. QED
  BY <1>1, TypeInit, TypeStep, PTL DEF Spec

-----------------------------------------------------------------------------
(* Replies and connections *)

\* An entry of _pending is kept under the client and the tid of its request.
KeyMatch ==
    \A c \in Clients, t \in Tids : pending[c][t] # 0 =>
        /\ reqs[pending[c][t]].client = c
        /\ reqs[pending[c][t]].tid = t

\* Only a connection whose handler is still at work has entries.
Serving == {"reading", "putting"}
OnlyServedPend ==
    \A c \in Clients : handler[c] \notin Serving => \A t \in Tids : pending[c][t] = 0

SafeInv == TypeInv /\ KeyMatch /\ OnlyServedPend /\ ReplyToOwnRequest

-----------------------------------------------------------------------------
(* What steps do to the table of pending requests. *)

\* The requests of the log are numbered from 1.
LEMMA PendingTyped ==
    ASSUME TypeOK, NEW c \in Clients, NEW t \in Tids
    PROVE  pending[c][t] \in Numbers \cup {0} /\ Len(reqs) \in Nat
BY LenProperties DEF TypeOK, Numbers

\* What pop() leaves in the table.
LEMMA PopKeepsOthers ==
    ASSUME TypeOK, NEW m, Pop(m), NEW c \in Clients, NEW t \in Tids
    PROVE  pending'[c][t] \in {0, pending[c][t]}
<1>1. pending \in [Clients -> [Tids -> 0 .. Len(reqs)]]
  BY DEF TypeOK
<1>. QED
  BY <1>1 DEF Pop

\* Registering adds one entry, and no other step adds any.
LEMMA RegisterOrShrink ==
    ASSUME TypeInv, [Next]_vars
    PROVE  \/ \E c \in Clients, t \in Tids : \E p \in Asks[c] :
                 ReadAndPublish(c, t, p) \/ ReadAndWait(c, t, p)
           \/ /\ UNCHANGED reqs
              /\ \A c \in Clients, t \in Tids : pending'[c][t] \in {0, pending[c][t]}
<1>0. TypeOK
  BY DEF TypeInv
<1>1. CASE UNCHANGED <<reqs, pending>>
  BY <1>1
<1>2. ASSUME NEW c \in Clients, Cleanup(c)
      PROVE  /\ UNCHANGED reqs
             /\ \A d \in Clients, t \in Tids : pending'[d][t] \in {0, pending[d][t]}
  BY <1>0, <1>2 DEF Cleanup, Forget, TypeOK
<1>3. CASE Swallow \/ Write
  <2>1. Pop(Head(responses)) /\ UNCHANGED reqs
    BY <1>3 DEF Swallow, Write
  <2>. QED BY <1>0, <2>1, PopKeepsOthers
<1>. QED
  BY <1>1, <1>2, <1>3
     DEF Next, vars, dispVars, Peer, ClientEof, ClientGone, ClientRead, Handler,
         Connect, Refuse, Put, Closed, Dispatcher, Submit, Unroutable, Crash, Take,
         BackendReturns, BackendRaises, Respond, ResponseRouter, Discard, Drained,
         Finished

\* A handler is done with its requests when it cleans up.
LEMMA OnlyCleanupStops ==
    ASSUME TypeInv, [Next]_vars, NEW d \in Clients,
           handler[d] \in Serving, handler'[d] \notin Serving
    PROVE  Cleanup(d)
<1>. USE DEF Serving
<1>0. handler \in [Clients -> {"none", "refused", "reading", "putting",
                               "closing", "done"}]
  BY DEF TypeInv, TypeOK
<1>1. ASSUME NEW c \in Clients, Connect(c) \/ Refuse(c) \/ Put(c) \/ Closed(c)
      PROVE  FALSE
  <2>1. client[c] # "none" \/ handler[c] = "none"
    BY DEF TypeInv, HasHeld
  <2>. QED BY <1>0, <1>1, <2>1 DEF Connect, Refuse, Put, Closed
<1>2. ASSUME NEW c \in Clients, Cleanup(c) PROVE c = d
  BY <1>0, <1>2 DEF Cleanup
<1>3. ASSUME NEW c \in Clients, NEW t \in Tids, NEW p \in Asks[c],
             ReadAndPublish(c, t, p) \/ ReadAndWait(c, t, p)
      PROVE  FALSE
  BY <1>0, <1>3 DEF ReadAndPublish, ReadAndWait
<1>. QED
  BY <1>1, <1>2, <1>3
     DEF Next, vars, dispVars, Peer, ClientEof, ClientGone, ClientRead, Handler,
         Dispatcher, Submit, Unroutable, Crash, Take, BackendReturns, BackendRaises,
         Respond, ResponseRouter, Discard, Swallow, Write, Drained, Finished

\* The router settles the response at the head of its topic.
Settles(m) ==
    /\ m \in Response /\ responses # <<>> /\ m = Head(responses)
    /\ Discard \/ Swallow \/ Write

\* Nothing is left under the key of a response that is settled; a reply goes to
\* the connection, and under the tid, of the entry that is found there.
ReplyFrame(m) == [tid |-> TidOf(m.n), n |-> m.n, unit |-> m.unit]

LEMMA SettlingReplies ==
    ASSUME SafeInv, NEW m, Settles(m)
    PROVE  /\ UNCHANGED reqs
           /\ ClientOf(m.n) \in Clients /\ TidOf(m.n) \in Tids /\ m.n \in Numbers
           /\ pending'[ClientOf(m.n)][TidOf(m.n)] = 0
           /\ \/ UNCHANGED sent
              \/ /\ pending[ClientOf(m.n)][TidOf(m.n)] # 0
                 /\ sent' = [sent EXCEPT ![ClientOf(m.n)] = Append(@, ReplyFrame(m))]
<1>1. TypeOK /\ KeyMatch /\ m \in Response /\ UNCHANGED reqs
  BY DEF SafeInv, TypeInv, Settles, Discard, Swallow, Write
<1>2. ClientOf(m.n) \in Clients /\ TidOf(m.n) \in Tids /\ m.n \in Numbers
  BY <1>1, ResponseHasKey DEF Response
<1>3. CASE Discard
  <2>1. UNCHANGED <<pending, sent>> /\ Waiting(m) = 0
    BY <1>3 DEF Settles, Discard
  <2>. QED BY <1>1, <1>2, <2>1 DEF Waiting
<1>4. CASE Swallow \/ Write
  <2>1. Pop(m)
    BY <1>4 DEF Settles, Swallow, Write
  <2>2. pending \in [Clients -> [Tids -> 0 .. Len(reqs)]]
    BY <1>1 DEF TypeOK
  <2>3. pending'[ClientOf(m.n)][TidOf(m.n)] = 0
    BY <1>2, <2>1, <2>2 DEF Pop
  <2>4. CASE Swallow
    BY <1>1, <1>2, <2>3, <2>4 DEF Swallow
  <2>5. CASE Write
    <3>1. /\ Waiting(m) # 0
          /\ sent' = [sent EXCEPT ![ClientOf(Waiting(m))] = Append(@, FrameFor(m))]
      <4>1. m = Head(responses)
        BY DEF Settles
      <4>2. /\ Waiting(Head(responses)) # 0
            /\ sent' = [sent EXCEPT ![ClientOf(Waiting(Head(responses)))] =
                          Append(@, FrameFor(Head(responses)))]
        BY <2>5, Zenon DEF Write
      <4>. QED BY <4>1, <4>2
    <3>2. ClientOf(Waiting(m)) = ClientOf(m.n) /\ TidOf(Waiting(m)) = TidOf(m.n)
      BY <1>1, <1>2, <3>1 DEF KeyMatch, Waiting, ClientOf, TidOf
    <3>3. FrameFor(m) = ReplyFrame(m)
      BY <3>2 DEF FrameFor, ReplyFrame
    <3>4. pending[ClientOf(m.n)][TidOf(m.n)] # 0
      BY <3>1 DEF Waiting
    <3>. QED BY <1>1, <1>2, <2>3, <3>1, <3>2, <3>3, <3>4
  <2>. QED BY <1>4, <2>4, <2>5
<1>. QED
  BY <1>3, <1>4 DEF Settles

\* Only the response router writes replies, one at a time.
LEMMA OnlyWriteReplies ==
    ASSUME SafeInv, [Next]_vars
    PROVE  UNCHANGED sent \/ \E m \in Response : Settles(m)
<1>1. ASSUME Write
      PROVE  Settles(Head(responses)) /\ Head(responses) \in Response
  <2>1. responses # <<>>
    BY <1>1 DEF Write
  <2>2. Head(responses) \in Response
    BY <2>1, HeadTailProperties DEF SafeInv, TypeInv, TypeOK
  <2>. QED BY <1>1, <2>1, <2>2 DEF Settles
<1>. QED
  BY <1>1
     DEF Next, vars, dispVars, Peer, ClientEof, ClientGone, ClientRead, Handler,
         Connect, Refuse, Put, Cleanup, Closed, ReadAndPublish, ReadAndWait,
         Dispatcher, Submit, Unroutable, Crash, Take, BackendReturns, BackendRaises,
         Respond, ResponseRouter, Discard, Swallow, Drained, Finished

-----------------------------------------------------------------------------
(* The steps preserve the invariant. *)

\* The table is keyed by client and tid at every step.
LEMMA KeyMatchStep ==
    ASSUME SafeInv, [Next]_vars
    PROVE  KeyMatch'
<1>0. TypeInv /\ TypeOK /\ KeyMatch
  BY DEF SafeInv, TypeInv
<1>1. ASSUME NEW c \in Clients, NEW t \in Tids, NEW p \in Asks[c],
             ReadAndPublish(c, t, p) \/ ReadAndWait(c, t, p)
      PROVE  KeyMatch'
  <2>1. Register(c, t, p)
    BY <1>1 DEF ReadAndPublish, ReadAndWait
  <2>2. /\ \A n \in Numbers : reqs'[n] = reqs[n]
        /\ reqs'[Len(reqs) + 1] = [client |-> c, tid |-> t, pdu |-> p]
    BY <1>0, <2>1, RegisterGrows
  <2>3. ASSUME NEW d \in Clients, NEW u \in Tids, pending'[d][u] # 0
        PROVE  reqs'[pending'[d][u]].client = d /\ reqs'[pending'[d][u]].tid = u
    <3>1. pending \in [Clients -> [Tids -> 0 .. Len(reqs)]]
      BY <1>0 DEF TypeOK
    <3>2. CASE d = c /\ u = t
      <4>1. pending'[d][u] = Len(reqs) + 1
        BY <2>1, <3>1, <3>2 DEF Register
      <4>. QED BY <2>2, <3>2, <4>1
    <3>3. CASE ~ (d = c /\ u = t)
      <4>1. pending'[d][u] = pending[d][u]
        BY <2>1, <3>1, <3>3 DEF Register
      <4>2. pending[d][u] \in Numbers
        BY <1>0, <2>3, <4>1, PendingTyped
      <4>. QED BY <1>0, <2>2, <2>3, <4>1, <4>2 DEF KeyMatch
    <3>. QED BY <3>2, <3>3
  <2>. QED BY <2>3 DEF KeyMatch
<1>2. CASE /\ UNCHANGED reqs
           /\ \A c \in Clients, t \in Tids : pending'[c][t] \in {0, pending[c][t]}
  BY <1>0, <1>2 DEF KeyMatch
<1>. QED
  BY <1>0, <1>1, <1>2, RegisterOrShrink

\* Cleanup leaves no entry of its connection behind, and none comes after it.
LEMMA OnlyServedPendStep ==
    ASSUME SafeInv, [Next]_vars
    PROVE  OnlyServedPend'
<1>0. /\ TypeInv /\ OnlyServedPend
      /\ pending \in [Clients -> [Tids -> 0 .. Len(reqs)]]
      /\ handler \in [Clients -> {"none", "refused", "reading", "putting",
                                  "closing", "done"}]
  BY DEF SafeInv, TypeInv, TypeOK
<1>. SUFFICES ASSUME NEW d \in Clients, handler'[d] \notin Serving, NEW u \in Tids
              PROVE  pending'[d][u] = 0
  BY DEF OnlyServedPend
<1>1. ASSUME NEW c \in Clients, NEW t \in Tids, NEW p \in Asks[c],
             ReadAndPublish(c, t, p) \/ ReadAndWait(c, t, p)
      PROVE  pending'[d][u] = 0
  <2>1. d # c /\ handler'[d] = handler[d]
    BY <1>0, <1>1 DEF ReadAndPublish, ReadAndWait, Register, Serving
  <2>2. pending'[d][u] = pending[d][u]
    BY <1>0, <1>1, <2>1 DEF ReadAndPublish, ReadAndWait, Register
  <2>. QED BY <1>0, <2>1, <2>2 DEF OnlyServedPend
<1>2. CASE \A c \in Clients, t \in Tids : pending'[c][t] \in {0, pending[c][t]}
  <2>1. CASE handler[d] \notin Serving
    BY <1>0, <1>2, <2>1 DEF OnlyServedPend
  <2>2. CASE handler[d] \in Serving
    <3>1. Cleanup(d)
      BY <1>0, <2>2, OnlyCleanupStops
    <3>. QED BY <1>0, <3>1 DEF Cleanup, Forget
  <2>. QED BY <2>1, <2>2
<1>. QED
  BY <1>0, <1>1, <1>2, RegisterOrShrink

\* Every reply is to a request of its connection.
LEMMA ReplyStep ==
    ASSUME SafeInv, [Next]_vars
    PROVE  ReplyToOwnRequest'
<1>0. /\ TypeInv /\ TypeOK /\ ReplyToOwnRequest
      /\ sent \in [Clients -> Seq([tid : Tids, n : Numbers, unit : Int])]
  BY DEF SafeInv, TypeInv, TypeOK
<1>1. CASE UNCHANGED sent
  <2>1. ASSUME NEW n \in Numbers
        PROVE  n \in Numbers' /\ reqs'[n] = reqs[n]
    <3>1. CASE UNCHANGED reqs
      BY <3>1 DEF Numbers
    <3>2. ASSUME NEW c \in Clients, NEW t \in Tids, NEW p \in Asks[c],
                 ReadAndPublish(c, t, p) \/ ReadAndWait(c, t, p)
          PROVE  n \in Numbers' /\ reqs'[n] = reqs[n]
      <4>1. Register(c, t, p)
        BY <3>2 DEF ReadAndPublish, ReadAndWait
      <4>. QED BY <1>0, <4>1, RegisterGrows
    <3>. QED BY <1>0, <3>1, <3>2, RegisterOrShrink
  <2>. QED BY <1>0, <1>1, <2>1 DEF ReplyToOwnRequest
<1>2. ASSUME NEW m \in Response,
             UNCHANGED reqs,
             ClientOf(m.n) \in Clients,
             sent' = [sent EXCEPT ![ClientOf(m.n)] = Append(@, ReplyFrame(m))]
      PROVE  ReplyToOwnRequest'
  <2>. DEFINE f == ReplyFrame(m)
  <2>1. Numbers' = Numbers /\ m.n \in Numbers
    BY <1>2 DEF Numbers, Response
  <2>2. ASSUME NEW c \in Clients, NEW i \in DOMAIN sent'[c]
        PROVE  /\ sent'[c][i].n \in Numbers
               /\ reqs[sent'[c][i].n].client = c
               /\ reqs[sent'[c][i].n].tid = sent'[c][i].tid
    <3>1. CASE c # ClientOf(m.n)
      <4>1. sent'[c] = sent[c]
        BY <1>0, <1>2, <3>1
      <4>. QED BY <1>0, <2>2, <4>1 DEF ReplyToOwnRequest
    <3>2. CASE c = ClientOf(m.n)
      <4>1. sent'[c] = Append(sent[c], f)
        BY <1>0, <1>2, <3>2
      <4>2. sent[c] \in Seq([tid : Tids, n : Numbers, unit : Int] \cup {f})
        <5>1. sent[c] \in Seq([tid : Tids, n : Numbers, unit : Int])
          BY <1>0
        <5>. HIDE DEF f
        <5>. QED BY <5>1, SeqMonotonic
      <4>3. \/ i \in DOMAIN sent[c] /\ sent'[c][i] = sent[c][i]
            \/ sent'[c][i] = f
        <5>. DEFINE F == [tid : Tids, n : Numbers, unit : Int] \cup {f}
        <5>. HIDE DEF f
        <5>1. f \in F
          OBVIOUS
        <5>. HIDE DEF F
        <5>2. /\ Len(sent'[c]) = Len(sent[c]) + 1
              /\ \A j \in 1 .. Len(sent[c]) : sent'[c][j] = sent[c][j]
              /\ sent'[c][Len(sent[c]) + 1] = f
              /\ sent'[c] \in Seq(F) /\ sent[c] \in Seq(F)
          BY <4>1, <4>2, <5>1, AppendProperties DEF F
        <5>3. /\ DOMAIN sent[c] = 1 .. Len(sent[c]) /\ Len(sent[c]) \in Nat
              /\ DOMAIN sent'[c] = 1 .. Len(sent'[c])
          BY <5>2, LenProperties
        <5>. QED BY <2>2, <5>2, <5>3
      <4>4. CASE sent'[c][i] = f
        BY <2>1, <3>2, <4>4 DEF ClientOf, TidOf, ReplyFrame
      <4>. QED BY <1>0, <4>3, <4>4 DEF ReplyToOwnRequest
    <3>. QED BY <3>1, <3>2
  <2>. QED BY <1>2, <2>1, <2>2 DEF ReplyToOwnRequest
<1>. QED
  BY <1>1, <1>2, OnlyWriteReplies, SettlingReplies

-----------------------------------------------------------------------------
(* The results. *)

\* The gateway starts with an empty table and no replies.
LEMMA SafeInit == Init => SafeInv
<1>. SUFFICES ASSUME Init PROVE SafeInv
  OBVIOUS
<1>1. \A c \in Clients : sent[c] = <<>> /\ \A t \in Tids : pending[c][t] = 0
  BY DEF Init
<1>2. DOMAIN <<>> = {}
  OBVIOUS
<1>. QED
  BY <1>1, <1>2, TypeInit DEF SafeInv, KeyMatch, OnlyServedPend, ReplyToOwnRequest

\* The table of pending requests is keyed by the requests in it, only served
\* connections have entries in it, and every reply is to a request of its
\* connection.
THEOREM SafeInvariant == Spec => []SafeInv
<1>1. SafeInv /\ [Next]_vars => SafeInv'
  BY TypeStep, KeyMatchStep, OnlyServedPendStep, ReplyStep DEF SafeInv
<1>. QED
  BY <1>1, SafeInit, PTL DEF Spec

\* Every reply frame on a connection answers a request that was made on that
\* connection under that tid, however many frontends and clients share the bus.
THEOREM RepliesGoHome == Spec => []ReplyToOwnRequest
<1>1. SafeInv => ReplyToOwnRequest
  BY DEF SafeInv
<1>. QED
  BY <1>1, SafeInvariant, PTL

\* A connection that has been cleaned up has no pending request, then or later.
THEOREM CleanupIsFinal == Spec => []ClosedHasNoPending
<1>1. SafeInv => ClosedHasNoPending
  BY DEF SafeInv, OnlyServedPend, Serving, ClosedHasNoPending
<1>. QED
  BY <1>1, SafeInvariant, PTL

\* The response router writes nothing to a connection whose handler has cleaned
\* up or that was refused.
THEOREM ClosedIsSilent == Spec => SilentAfterCleanup
<1>1. ASSUME SafeInv, [Next]_vars, NEW c \in Clients,
             handler[c] \in {"closing", "done", "refused"}
      PROVE  sent'[c] = sent[c]
  <2>1. \A t \in Tids : pending[c][t] = 0
    BY <1>1 DEF SafeInv, OnlyServedPend, Serving
  <2>2. sent \in [Clients -> Seq([tid : Tids, n : Numbers, unit : Int])]
    BY <1>1 DEF SafeInv, TypeInv, TypeOK
  <2>. QED BY <1>1, <2>1, <2>2, OnlyWriteReplies, SettlingReplies
<1>2. SafeInv /\ [Next]_vars =>
        [\A c \in Clients : handler[c] \in {"closing", "done", "refused"} =>
            sent'[c] = sent[c]]_vars
  BY <1>1
<1>. QED
  BY <1>2, SafeInvariant, PTL DEF Spec, SilentAfterCleanup

-----------------------------------------------------------------------------
(* The pipeline. *)

\* Sequences with an element more, or without the first.
LEMMA SeqAppends ==
    ASSUME NEW S, NEW s \in Seq(S), NEW e \in S
    PROVE  /\ Append(s, e) \in Seq(S)
           /\ DOMAIN s = 1 .. Len(s) /\ Len(s) \in Nat
           /\ DOMAIN Append(s, e) = 1 .. Len(s) + 1 /\ Len(Append(s, e)) = Len(s) + 1
           /\ \A i \in 1 .. Len(s) : Append(s, e)[i] = s[i]
           /\ Append(s, e)[Len(s) + 1] = e
           /\ Range(Append(s, e)) = Range(s) \cup {e}
<1>1. /\ DOMAIN s = 1 .. Len(s) /\ Len(s) \in Nat
      /\ DOMAIN Append(s, e) = 1 .. Len(s) + 1 /\ Len(Append(s, e)) = Len(s) + 1
      /\ Append(s, e) \in Seq(S)
      /\ \A i \in 1 .. Len(s) : Append(s, e)[i] = s[i]
      /\ Append(s, e)[Len(s) + 1] = e
  BY LenProperties, AppendProperties
<1>2. Range(Append(s, e)) = Range(s) \cup {e}
  BY <1>1 DEF Range
<1>. QED
  BY <1>1, <1>2

LEMMA SeqLosesHead ==
    ASSUME NEW S, NEW s \in Seq(S), s # <<>>
    PROVE  /\ Head(s) = s[1] /\ Head(s) \in S /\ Tail(s) \in Seq(S)
           /\ DOMAIN s = 1 .. Len(s) /\ Len(s) \in Nat \ {0}
           /\ DOMAIN Tail(s) = 1 .. Len(s) - 1 /\ Len(Tail(s)) = Len(s) - 1
           /\ \A i \in 1 .. Len(s) - 1 : Tail(s)[i] = s[i + 1]
           /\ Range(s) = {Head(s)} \cup Range(Tail(s))
<1>1. /\ DOMAIN s = 1 .. Len(s) /\ Len(s) \in Nat \ {0}
      /\ DOMAIN Tail(s) = 1 .. Len(s) - 1 /\ Len(Tail(s)) = Len(s) - 1
      /\ \A i \in 1 .. Len(s) - 1 : Tail(s)[i] = s[i + 1]
      /\ Head(s) = s[1]
      /\ Head(s) \in S /\ Tail(s) \in Seq(S)
  BY LenProperties, EmptySeq, HeadTailProperties
<1>2. ASSUME NEW i \in 1 .. Len(s)
      PROVE  s[i] \in {Head(s)} \cup Range(Tail(s))
  <2>1. CASE i = 1
    BY <1>1, <2>1
  <2>2. CASE i # 1
    <3>1. i - 1 \in 1 .. Len(s) - 1 /\ Tail(s)[i - 1] = s[i]
      BY <1>1, <2>2
    <3>. QED BY <1>1, <3>1 DEF Range
  <2>. QED BY <2>1, <2>2
<1>3. Range(s) \subseteq {Head(s)} \cup Range(Tail(s))
  BY <1>1, <1>2 DEF Range
<1>4. Range(Tail(s)) \subseteq Range(s) /\ Head(s) \in Range(s)
  BY <1>1 DEF Range
<1>. QED
  BY <1>1, <1>3, <1>4

\* The requests of responses.
NumbersOf(s) == [i \in DOMAIN s |-> s[i].n]
Answers == [n : Nat, unit : Int, body : {"pdu", "error"}]

LEMMA NumbersTyped ==
    ASSUME NEW s \in Seq(Answers)
    PROVE  /\ NumbersOf(s) \in Seq(Nat) /\ Len(NumbersOf(s)) = Len(s)
           /\ \A i \in 1 .. Len(s) : NumbersOf(s)[i] = s[i].n
<1>1. /\ DOMAIN s = 1 .. Len(s) /\ Len(s) \in Nat
      /\ \A i \in 1 .. Len(s) : s[i] \in Answers
  BY LenProperties, ElementOfSeq
<1>2. NumbersOf(s) \in [1 .. Len(s) -> Nat] /\ \A i \in 1 .. Len(s) : NumbersOf(s)[i] = s[i].n
  BY <1>1 DEF NumbersOf, Answers
<1>3. NumbersOf(s) \in Seq(Nat)
  BY <1>1, <1>2, SeqDef
<1>4. DOMAIN NumbersOf(s) = 1 .. Len(NumbersOf(s)) /\ Len(NumbersOf(s)) \in Nat
  BY <1>3, LenProperties
<1>. QED
  BY <1>1, <1>2, <1>3, <1>4

LEMMA NumbersAppend ==
    ASSUME NEW s \in Seq(Answers), NEW m \in Answers
    PROVE  NumbersOf(Append(s, m)) = Append(NumbersOf(s), m.n)
<1>. DEFINE u == Append(s, m)
<1>1. /\ Len(s) \in Nat /\ Len(u) = Len(s) + 1 /\ u \in Seq(Answers)
      /\ \A i \in 1 .. Len(s) : u[i] = s[i]
      /\ u[Len(s) + 1] = m
  BY SeqAppends
<1>. HIDE DEF u
<1>2. m.n \in Nat
  BY DEF Answers
<1>3. /\ NumbersOf(s) \in Seq(Nat) /\ Len(NumbersOf(s)) = Len(s)
      /\ \A i \in 1 .. Len(s) : NumbersOf(s)[i] = s[i].n
      /\ NumbersOf(u) \in Seq(Nat) /\ Len(NumbersOf(u)) = Len(s) + 1
      /\ \A i \in 1 .. Len(s) + 1 : NumbersOf(u)[i] = u[i].n
  BY <1>1, NumbersTyped
<1>4. /\ Append(NumbersOf(s), m.n) \in Seq(Nat)
      /\ Len(Append(NumbersOf(s), m.n)) = Len(s) + 1
      /\ \A i \in 1 .. Len(s) : Append(NumbersOf(s), m.n)[i] = NumbersOf(s)[i]
      /\ Append(NumbersOf(s), m.n)[Len(s) + 1] = m.n
  BY <1>2, <1>3, AppendProperties
<1>5. \A i \in 1 .. Len(s) + 1 : NumbersOf(u)[i] = Append(NumbersOf(s), m.n)[i]
  <2>1. ASSUME NEW i \in 1 .. Len(s) + 1
        PROVE  NumbersOf(u)[i] = Append(NumbersOf(s), m.n)[i]
    <3>1. CASE i = Len(s) + 1
      BY <1>1, <1>3, <1>4, <3>1
    <3>2. CASE i # Len(s) + 1
      <4>1. i \in 1 .. Len(s)
        BY <1>1, <3>2
      <4>. QED BY <1>1, <1>3, <1>4, <4>1
    <3>. QED BY <3>1, <3>2
  <2>. QED BY <2>1
<1>. QED
  BY <1>3, <1>4, <1>5, SeqEqual DEF u

LEMMA NumbersTail ==
    ASSUME NEW s \in Seq(Answers), s # <<>>
    PROVE  /\ NumbersOf(s) \in Seq(Nat) /\ NumbersOf(s) # <<>>
           /\ Head(NumbersOf(s)) = Head(s).n
           /\ NumbersOf(Tail(s)) = Tail(NumbersOf(s))
<1>1. /\ Head(s) = s[1] /\ Tail(s) \in Seq(Answers) /\ Head(s) \in Answers
      /\ Len(s) \in Nat \ {0} /\ Len(Tail(s)) = Len(s) - 1
      /\ \A i \in 1 .. Len(s) - 1 : Tail(s)[i] = s[i + 1]
  BY SeqLosesHead
<1>2. NumbersOf(s) \in Seq(Nat) /\ NumbersOf(Tail(s)) \in Seq(Nat)
  BY <1>1, NumbersTyped
<1>3. /\ \A i \in 1 .. Len(s) : NumbersOf(s)[i] = s[i].n
      /\ \A i \in 1 .. Len(s) - 1 : NumbersOf(Tail(s))[i] = s[i + 1].n
  <2>1. \A i \in 1 .. Len(s) - 1 : NumbersOf(Tail(s))[i] = Tail(s)[i].n
    BY <1>1, NumbersTyped
  <2>. QED BY <1>1, <2>1, NumbersTyped
<1>4. Len(NumbersOf(s)) = Len(s) /\ Len(NumbersOf(Tail(s))) = Len(s) - 1
  BY <1>1, NumbersTyped
<1>5. NumbersOf(s) # <<>>
  BY <1>1, <1>4, EmptySeq
<1>6. /\ Head(NumbersOf(s)) = NumbersOf(s)[1] /\ Tail(NumbersOf(s)) \in Seq(Nat)
      /\ Len(Tail(NumbersOf(s))) = Len(s) - 1
      /\ \A i \in 1 .. Len(s) - 1 : Tail(NumbersOf(s))[i] = NumbersOf(s)[i + 1]
  BY <1>2, <1>4, <1>5, SeqLosesHead, LenProperties, HeadTailProperties
<1>7. \A i \in 1 .. Len(s) - 1 : NumbersOf(Tail(s))[i] = Tail(NumbersOf(s))[i]
  BY <1>1, <1>3, <1>6
<1>8. NumbersOf(Tail(s)) = Tail(NumbersOf(s))
  BY <1>2, <1>4, <1>6, <1>7, SeqEqual
<1>. QED
  BY <1>1, <1>2, <1>3, <1>5, <1>6, <1>8

LEMMA ConcatLosesHead ==
    ASSUME NEW S, NEW s \in Seq(S), s # <<>>, NEW u \in Seq(S)
    PROVE  /\ s \o u \in Seq(S) /\ s \o u # <<>>
           /\ Head(s \o u) = Head(s) /\ Tail(s \o u) = Tail(s) \o u
<1>1. /\ Head(s) = s[1] /\ Tail(s) \in Seq(S) /\ Len(s) \in Nat \ {0}
      /\ Len(Tail(s)) = Len(s) - 1
      /\ \A i \in 1 .. Len(s) - 1 : Tail(s)[i] = s[i + 1]
  BY SeqLosesHead, HeadTailProperties
<1>2. /\ s \o u \in Seq(S) /\ Len(u) \in Nat /\ Len(s \o u) = Len(s) + Len(u)
      /\ \A i \in 1 .. Len(s) + Len(u) :
            (s \o u)[i] = IF i <= Len(s) THEN s[i] ELSE u[i - Len(s)]
  BY ConcatProperties, LenProperties
<1>3. s \o u # <<>>
  BY <1>1, <1>2, EmptySeq
<1>4. /\ Head(s \o u) = (s \o u)[1] /\ Tail(s \o u) \in Seq(S)
      /\ Len(Tail(s \o u)) = Len(s) + Len(u) - 1
      /\ \A i \in 1 .. Len(s) + Len(u) - 1 : Tail(s \o u)[i] = (s \o u)[i + 1]
  BY <1>2, <1>3, SeqLosesHead, HeadTailProperties
<1>5. /\ Tail(s) \o u \in Seq(S) /\ Len(Tail(s) \o u) = Len(s) + Len(u) - 1
      /\ \A i \in 1 .. Len(s) + Len(u) - 1 :
            (Tail(s) \o u)[i] = IF i <= Len(s) - 1 THEN Tail(s)[i] ELSE u[i - (Len(s) - 1)]
  <2>1. /\ Tail(s) \o u \in Seq(S) /\ Len(Tail(s) \o u) = Len(Tail(s)) + Len(u)
        /\ \A i \in 1 .. Len(Tail(s)) + Len(u) :
              (Tail(s) \o u)[i] = IF i <= Len(Tail(s)) THEN Tail(s)[i] ELSE u[i - Len(Tail(s))]
    BY <1>1, ConcatProperties
  <2>. QED BY <1>1, <1>2, <2>1
<1>6. \A i \in 1 .. Len(s) + Len(u) - 1 : Tail(s \o u)[i] = (Tail(s) \o u)[i]
  <2>1. ASSUME NEW i \in 1 .. Len(s) + Len(u) - 1
        PROVE  Tail(s \o u)[i] = (Tail(s) \o u)[i]
    <3>1. i + 1 \in 1 .. Len(s) + Len(u) /\ Tail(s \o u)[i] = (s \o u)[i + 1]
      BY <1>1, <1>2, <1>4
    <3>2. CASE i <= Len(s) - 1
      BY <1>1, <1>2, <1>5, <3>1, <3>2
    <3>3. CASE ~ i <= Len(s) - 1
      <4>1. ~ i + 1 <= Len(s) /\ i + 1 - Len(s) = i - (Len(s) - 1)
        BY <1>1, <3>3
      <4>. QED BY <1>2, <1>5, <3>1, <3>3, <4>1
    <3>. QED BY <3>2, <3>3
  <2>. QED BY <2>1
<1>7. Tail(s \o u) = Tail(s) \o u
  BY <1>4, <1>5, <1>6, SeqEqual
<1>. QED
  BY <1>1, <1>2, <1>3, <1>4, <1>7

\* What the pipeline is made of.
LEMMA PipelineTyped ==
    ASSUME TypeInv
    PROVE  /\ responses \in Seq(Answers) /\ Answering = NumbersOf(responses)
           /\ Answering \in Seq(Nat) /\ InService \in Seq(Nat) /\ requests \in Seq(Nat)
           /\ Pipeline \in Seq(Nat)
           /\ Numbers \subseteq Nat \ {0} /\ Range(Pipeline) \subseteq Numbers
           /\ dispatcher # "idle" => task \in Answers
<1>1. /\ Len(reqs) \in Nat /\ requests \in Seq(Numbers) /\ responses \in Seq(Response)
      /\ dispatcher # "idle" => task \in Response
  BY LenProperties DEF TypeInv, TypeOK, HasTask
<1>2. Numbers \subseteq Nat \ {0}
  BY <1>1 DEF Numbers
<1>3. Response \subseteq Answers
  BY <1>1, RulesAssumption DEF Numbers, Response, Answers
<1>4. requests \in Seq(Nat) /\ responses \in Seq(Answers)
  BY <1>1, <1>2, <1>3, SeqMonotonic
<1>5. Answering = NumbersOf(responses)
  BY DEF Answering, NumbersOf
<1>6. Answering \in Seq(Nat)
  BY <1>4, <1>5, NumbersTyped
<1>7. InService \in Seq(Nat) /\ Range(InService) \subseteq Numbers
  <2>1. CASE dispatcher = "idle"
    BY <2>1, EmptySeq DEF InService, Range
  <2>2. CASE dispatcher # "idle"
    <3>1. task.n \in Numbers
      BY <1>1, <2>2 DEF Response
    <3>2. \A n : Range(<<n>>) = {n}
      BY DEF Range
    <3>3. InService = <<task.n>>
      BY <2>2 DEF InService
    <3>4. InService \in Seq(Nat)
      <4>1. \A n \in Nat : <<n>> \in Seq(Nat)
        OBVIOUS
      <4>. QED BY <1>2, <3>1, <3>3, <4>1
    <3>5. Range(InService) = {task.n}
      BY <3>2, <3>3, Zenon
    <3>. QED BY <3>1, <3>4, <3>5
  <2>. QED BY <2>1, <2>2
<1>8. Range(Answering) \subseteq Numbers /\ Range(requests) \subseteq Numbers
  <2>1. Range(requests) \subseteq Numbers
    BY <1>1, RangeOfSeq
  <2>2. \A i \in DOMAIN responses : responses[i].n \in Numbers
    <3>1. ASSUME NEW i \in DOMAIN responses PROVE responses[i] \in Response
      BY <1>1, <3>1, LenProperties, ElementOfSeq
    <3>. QED BY <3>1 DEF Response
  <2>. QED BY <2>1, <2>2 DEF Answering, Range
<1>9. /\ Answering \o InService \in Seq(Nat)
      /\ Range(Answering \o InService) = Range(Answering) \cup Range(InService)
  BY <1>6, <1>7, ConcatProperties, RangeConcatenation
<1>10. /\ Pipeline \in Seq(Nat)
       /\ Range(Pipeline) = Range(Answering \o InService) \cup Range(requests)
  <2>. DEFINE u == Answering \o InService
  <2>1. Pipeline = u \o requests /\ u \in Seq(Nat)
    BY <1>9 DEF Pipeline
  <2>. HIDE DEF u
  <2>2. u \o requests \in Seq(Nat) /\ Range(u \o requests) = Range(u) \cup Range(requests)
    BY <1>4, <2>1, ConcatProperties, RangeConcatenation
  <2>. QED BY <2>1, <2>2 DEF u
<1>. QED
  BY <1>1, <1>2, <1>3, <1>4, <1>5, <1>6, <1>7, <1>8, <1>9, <1>10

\* A request goes in at the end.
LEMMA PipelineAppends ==
    ASSUME TypeInv, NEW n \in Nat, requests' = Append(requests, n),
           UNCHANGED <<responses, dispatcher, task>>
    PROVE  Pipeline' = Append(Pipeline, n)
<1>. DEFINE s == Answering \o InService
<1>1. s \in Seq(Nat) /\ requests \in Seq(Nat) /\ <<n>> \in Seq(Nat) /\ s \o requests \in Seq(Nat)
  BY PipelineTyped, ConcatProperties
<1>2. Answering' = Answering /\ InService' = InService
  BY DEF Answering, InService
<1>3. Pipeline' = s \o Append(requests, n) /\ Pipeline = s \o requests
  BY <1>2 DEF Pipeline
<1>. HIDE DEF s
<1>4. Append(requests, n) = requests \o <<n>>
  BY <1>1, AppendIsConcat
<1>5. s \o (requests \o <<n>>) = (s \o requests) \o <<n>>
  BY <1>1, ConcatAssociative
<1>6. Append(s \o requests, n) = (s \o requests) \o <<n>>
  BY <1>1, AppendIsConcat
<1>. QED
  BY <1>3, <1>4, <1>5, <1>6

\* The dispatcher takes a request, or publishes the response to it.
LEMMA PipelineTake ==
    ASSUME TypeInv, dispatcher = "idle", dispatcher' # "idle", requests # <<>>,
           requests' = Tail(requests), task'.n = Head(requests), UNCHANGED responses
    PROVE  Pipeline' = Pipeline
<1>. DEFINE h == Head(requests)
<1>1. /\ Answering \in Seq(Nat) /\ requests \in Seq(Nat)
      /\ h \in Nat /\ Tail(requests) \in Seq(Nat) /\ <<h>> \in Seq(Nat)
  BY PipelineTyped, HeadTailProperties
<1>2. Answering' = Answering /\ InService = <<>> /\ InService' = <<h>>
  BY DEF Answering, InService
<1>3. <<h>> \o Tail(requests) = requests
  <2>1. /\ Len(requests) \in Nat \ {0} /\ Len(Tail(requests)) = Len(requests) - 1
        /\ requests[1] = h
        /\ \A i \in 1 .. Len(requests) - 1 : Tail(requests)[i] = requests[i + 1]
    BY <1>1, EmptySeq, HeadTailProperties
  <2>2. /\ <<h>> \o Tail(requests) \in Seq(Nat)
        /\ Len(<<h>> \o Tail(requests)) = Len(requests)
        /\ \A i \in 1 .. Len(requests) :
              (<<h>> \o Tail(requests))[i] = IF i <= 1 THEN h ELSE Tail(requests)[i - 1]
    <3>1. Len(<<h>>) = 1 /\ <<h>>[1] = h
      OBVIOUS
    <3>2. \A i \in 1 .. Len(requests) : i <= 1 => i = 1
      BY <2>1
    <3>. HIDE DEF h
    <3>. QED BY <1>1, <2>1, <3>1, <3>2, ConcatProperties
  <2>3. \A i \in 1 .. Len(requests) : (<<h>> \o Tail(requests))[i] = requests[i]
    <3>1. ASSUME NEW i \in 1 .. Len(requests)
          PROVE  (<<h>> \o Tail(requests))[i] = requests[i]
      <4>1. CASE i = 1
        BY <2>1, <2>2, <4>1
      <4>2. CASE i # 1
        <5>1. i - 1 \in 1 .. Len(requests) - 1 /\ ~ i <= 1
          BY <2>1, <4>2
        <5>2. Tail(requests)[i - 1] = requests[i]
          BY <2>1, <5>1
        <5>. QED BY <2>2, <5>1, <5>2
      <4>. QED BY <4>1, <4>2
    <3>. QED BY <3>1
  <2>. QED BY <1>1, <2>2, <2>3, SeqEqual
<1>4. Pipeline = Answering \o requests
  BY <1>1, <1>2, ConcatEmptySeq DEF Pipeline
<1>5. Pipeline' = (Answering \o <<h>>) \o Tail(requests)
  BY <1>2 DEF Pipeline
<1>6. (Answering \o <<h>>) \o Tail(requests) = Answering \o (<<h>> \o Tail(requests))
  <2>. HIDE DEF h
  <2>. QED BY <1>1, ConcatAssociative
<1>. QED
  BY <1>3, <1>4, <1>5, <1>6

LEMMA PipelineRespond ==
    ASSUME TypeInv, dispatcher # "idle", dispatcher' = "idle",
           responses' = Append(responses, task), UNCHANGED requests
    PROVE  Pipeline' = Pipeline
<1>1. /\ responses \in Seq(Answers) /\ task \in Answers /\ Answering = NumbersOf(responses)
      /\ Answering \in Seq(Nat) /\ task.n \in Nat
  BY PipelineTyped DEF Answers
<1>2. Answering' = Append(Answering, task.n)
  <2>1. Answering' = NumbersOf(Append(responses, task))
    BY DEF Answering, NumbersOf
  <2>. QED BY <1>1, <2>1, NumbersAppend
<1>3. InService = <<task.n>> /\ InService' = <<>>
  BY DEF InService
<1>4. Append(Answering, task.n) = Answering \o <<task.n>> /\ Append(Answering, task.n) \in Seq(Nat)
  BY <1>1, AppendIsConcat, AppendProperties
<1>5. Append(Answering, task.n) \o <<>> = Append(Answering, task.n)
  BY <1>4, ConcatEmptySeq
<1>. QED
  BY <1>2, <1>3, <1>4, <1>5 DEF Pipeline

\* A response is taken off the bus.
LEMMA PipelineSettles ==
    ASSUME TypeInv, responses # <<>>, responses' = Tail(responses),
           UNCHANGED <<requests, dispatcher, task>>
    PROVE  /\ Pipeline # <<>> /\ Head(Pipeline) = Head(responses).n
           /\ Pipeline' = Tail(Pipeline)
<1>1. /\ responses \in Seq(Answers) /\ Answering = NumbersOf(responses)
      /\ Answering \in Seq(Nat) /\ InService \in Seq(Nat) /\ requests \in Seq(Nat)
  BY PipelineTyped
<1>2. /\ Answering # <<>> /\ Head(Answering) = Head(responses).n
      /\ Answering' = Tail(Answering) /\ InService' = InService
  <2>1. Answering' = NumbersOf(Tail(responses))
    BY DEF Answering, NumbersOf
  <2>. QED BY <1>1, <2>1, NumbersTail DEF InService
<1>. DEFINE u == Answering \o InService
<1>3. /\ u \in Seq(Nat) /\ u # <<>> /\ Head(u) = Head(Answering)
      /\ Tail(u) = Tail(Answering) \o InService /\ Pipeline = u \o requests
  BY <1>1, <1>2, ConcatLosesHead DEF Pipeline
<1>. HIDE DEF u
<1>4. /\ Pipeline # <<>> /\ Head(Pipeline) = Head(u)
      /\ Tail(Pipeline) = Tail(u) \o requests
  <2>1. u \in Seq(Nat) /\ u # <<>> /\ requests \in Seq(Nat)
    BY <1>1, <1>3
  <2>2. /\ u \o requests # <<>> /\ Head(u \o requests) = Head(u)
        /\ Tail(u \o requests) = Tail(u) \o requests
    BY <2>1, ConcatLosesHead
  <2>. QED BY <1>3, <2>2
<1>5. Pipeline' = (Tail(Answering) \o InService) \o requests
  BY <1>2 DEF Pipeline
<1>. QED
  BY <1>2, <1>3, <1>4, <1>5

-----------------------------------------------------------------------------
(* The order of requests. *)

\* The requests of a connection lie in the pipeline in the order they were made.
Sorted ==
    \A i, j \in DOMAIN Pipeline :
        i < j /\ ClientOf(Pipeline[i]) = ClientOf(Pipeline[j]) => Pipeline[i] < Pipeline[j]

\* What a handler waits to put is the last of its connection.
HeldLast ==
    \A c \in Clients : held[c] # 0 =>
        /\ ClientOf(held[c]) = c
        /\ \A n \in Range(Pipeline) : ClientOf(n) = c => n < held[c]

InOrder == Sorted /\ HeldLast

\* What is on its way for each connection.
Unsettled == [c \in Clients |-> Outstanding(c)]

LEMMA UnsettledIs ==
    TypeInv =>
        /\ InFlight = Range(Pipeline) \cup {held[c] : c \in Clients}
        /\ Len(reqs) \in Nat /\ Numbers = 1 .. Len(reqs)
        /\ InFlight \subseteq Numbers \cup {0}
        /\ \A c \in Clients : Unsettled[c] = {n \in InFlight \ {0} : reqs[n].client = c}
<1>. SUFFICES ASSUME TypeInv
              PROVE  /\ InFlight = Range(Pipeline) \cup {held[c] : c \in Clients}
                     /\ Len(reqs) \in Nat /\ Numbers = 1 .. Len(reqs)
                     /\ InFlight \subseteq Numbers \cup {0}
                     /\ \A c \in Clients :
                           Unsettled[c] = {n \in InFlight \ {0} : reqs[n].client = c}
  OBVIOUS
<1>1. InFlight = Range(Pipeline) \cup {held[c] : c \in Clients}
  BY DEF InFlight, Range
<1>2. Len(reqs) \in Nat /\ Numbers = 1 .. Len(reqs)
  BY LenProperties DEF TypeInv, TypeOK, Numbers
<1>3. InFlight \subseteq Numbers \cup {0}
  <2>1. \A c \in Clients : held[c] \in Numbers \cup {0}
    BY <1>2 DEF TypeInv, TypeOK
  <2>. QED BY <1>1, <2>1, PipelineTyped
<1>4. \A c \in Clients : Unsettled[c] = {n \in InFlight \ {0} : reqs[n].client = c}
  BY DEF Unsettled, Outstanding
<1>. QED
  BY <1>1, <1>2, <1>3, <1>4

\* A request goes in behind those of its connection.
LEMMA OrderAsk ==
    ASSUME TypeInv, InOrder, NEW c \in Clients, NEW t \in Tids, NEW p \in Asks[c],
           ReadAndPublish(c, t, p) \/ ReadAndWait(c, t, p)
    PROVE  /\ InOrder'
           /\ \A d \in Clients :
                 Unsettled'[d] = IF d = c THEN Unsettled[d] \cup {Len(reqs) + 1}
                                 ELSE Unsettled[d]
<1>. DEFINE n == Len(reqs) + 1
<1>0. TypeOK /\ Register(c, t, p) /\ handler[c] = "reading"
  BY DEF TypeInv, ReadAndPublish, ReadAndWait, Register
<1>1. /\ Len(reqs) \in Nat /\ n \in Nat /\ Len(reqs') = n
      /\ \A m \in Numbers : reqs'[m] = reqs[m] /\ m < n
      /\ reqs'[n].client = c /\ n \notin Numbers
      /\ Numbers' = Numbers \cup {n}
  <2>1. /\ Len(reqs) \in Nat /\ Len(reqs') = n
        /\ \A m \in Numbers : reqs'[m] = reqs[m]
        /\ reqs'[n] = [client |-> c, tid |-> t, pdu |-> p]
    BY <1>0, RegisterGrows
  <2>. QED BY <2>1 DEF Numbers
<1>2. held[c] = 0 /\ held \in [Clients -> 0 .. Len(reqs)]
  BY <1>0 DEF TypeInv, TypeOK, HasHeld
<1>3. Pipeline \in Seq(Nat) /\ Range(Pipeline) \subseteq Numbers /\ Numbers \subseteq Nat \ {0}
  BY PipelineTyped
<1>4. DOMAIN Pipeline = 1 .. Len(Pipeline) /\ Len(Pipeline) \in Nat
      /\ \A i \in DOMAIN Pipeline : Pipeline[i] \in Numbers
  BY <1>3, LenProperties DEF Range
<1>5. ASSUME ReadAndPublish(c, t, p)
      PROVE  InOrder' /\ InFlight' \ {0} = (InFlight \ {0}) \cup {n}
  <2>1. Pipeline' = Append(Pipeline, n) /\ held' = held
    BY <1>1, <1>5, PipelineAppends DEF ReadAndPublish, Publish, dispVars
  <2>2. /\ DOMAIN Pipeline' = 1 .. Len(Pipeline) + 1
        /\ \A i \in 1 .. Len(Pipeline) : Pipeline'[i] = Pipeline[i]
        /\ Pipeline'[Len(Pipeline) + 1] = n
        /\ Range(Pipeline') = Range(Pipeline) \cup {n}
    BY <1>1, <1>3, <2>1, SeqAppends
  <2>3. Sorted'
    <3>1. ASSUME NEW i \in DOMAIN Pipeline', NEW j \in DOMAIN Pipeline', i < j,
                 reqs'[Pipeline'[i]].client = reqs'[Pipeline'[j]].client
          PROVE  Pipeline'[i] < Pipeline'[j]
      <4>1. i \in DOMAIN Pipeline
        BY <1>4, <2>2, <3>1
      <4>2. CASE j \in DOMAIN Pipeline
        BY <1>1, <1>4, <2>2, <3>1, <4>1, <4>2 DEF InOrder, Sorted, ClientOf
      <4>3. CASE j \notin DOMAIN Pipeline
        <5>1. j = Len(Pipeline) + 1
          BY <1>4, <2>2, <4>3
        <5>. QED BY <1>1, <1>4, <2>2, <4>1, <5>1
      <4>. QED BY <4>2, <4>3
    <3>. QED BY <3>1 DEF Sorted, ClientOf
  <2>4. HeldLast'
    <3>1. ASSUME NEW d \in Clients, held'[d] # 0
          PROVE  /\ reqs'[held'[d]].client = d
                 /\ \A m \in Range(Pipeline') : reqs'[m].client = d => m < held'[d]
      <4>1. held[d] \in Numbers /\ d # c /\ held'[d] = held[d]
        BY <1>2, <2>1, <3>1 DEF Numbers
      <4>2. \A m \in Range(Pipeline') : reqs'[m].client = d => m \in Range(Pipeline)
        BY <1>1, <2>2, <4>1
      <4>. QED BY <1>1, <1>3, <4>1, <4>2 DEF InOrder, HeldLast, ClientOf
    <3>. QED BY <3>1 DEF HeldLast, ClientOf
  <2>5. InFlight' \ {0} = (InFlight \ {0}) \cup {n}
    <3>1. /\ InFlight = Range(Pipeline) \cup {held[d] : d \in Clients}
          /\ InFlight' = Range(Pipeline') \cup {held'[d] : d \in Clients}
      BY UnsettledIs DEF InFlight, Range
    <3>. QED BY <1>1, <2>1, <2>2, <3>1
  <2>. QED BY <2>3, <2>4, <2>5 DEF InOrder
<1>6. ASSUME ReadAndWait(c, t, p)
      PROVE  InOrder' /\ InFlight' \ {0} = (InFlight \ {0}) \cup {n}
  <2>1. Pipeline' = Pipeline /\ held' = [held EXCEPT ![c] = n]
    BY <1>6 DEF ReadAndWait, dispVars, Pipeline, Answering, InService
  <2>2. Sorted'
    <3>1. ASSUME NEW i \in DOMAIN Pipeline, NEW j \in DOMAIN Pipeline, i < j,
                 reqs'[Pipeline[i]].client = reqs'[Pipeline[j]].client
          PROVE  Pipeline[i] < Pipeline[j]
      BY <1>1, <1>4, <3>1 DEF InOrder, Sorted, ClientOf
    <3>. QED BY <2>1, <3>1 DEF Sorted, ClientOf
  <2>3. HeldLast'
    <3>1. ASSUME NEW d \in Clients, held'[d] # 0
          PROVE  /\ reqs'[held'[d]].client = d
                 /\ \A m \in Range(Pipeline) : reqs'[m].client = d => m < held'[d]
      <4>1. CASE d = c
        BY <1>1, <1>2, <1>3, <2>1, <4>1
      <4>2. CASE d # c
        <5>1. held[d] \in Numbers /\ held'[d] = held[d]
          BY <1>2, <2>1, <3>1, <4>2 DEF Numbers
        <5>. QED BY <1>1, <1>3, <5>1 DEF InOrder, HeldLast, ClientOf
      <4>. QED BY <4>1, <4>2
    <3>. QED BY <2>1, <3>1 DEF HeldLast, ClientOf
  <2>4. InFlight' \ {0} = (InFlight \ {0}) \cup {n}
    <3>1. /\ InFlight = Range(Pipeline) \cup {held[d] : d \in Clients}
          /\ InFlight' = Range(Pipeline) \cup {held'[d] : d \in Clients}
      BY <2>1, UnsettledIs DEF InFlight, Range
    <3>2. /\ held'[c] = n /\ held[c] = 0 /\ n # 0
          /\ \A d \in Clients : d # c => held'[d] = held[d]
      BY <1>1, <1>2, <2>1
    <3>. QED BY <3>1, <3>2
  <2>. QED BY <2>2, <2>3, <2>4 DEF InOrder
<1>7. \A d \in Clients :
        Unsettled'[d] = IF d = c THEN Unsettled[d] \cup {n} ELSE Unsettled[d]
  <2>1. ASSUME NEW d \in Clients
        PROVE  Unsettled'[d] = IF d = c THEN Unsettled[d] \cup {n} ELSE Unsettled[d]
    <3>1. /\ Unsettled[d] = {m \in InFlight \ {0} : reqs[m].client = d}
          /\ InFlight \subseteq Numbers \cup {0}
      BY UnsettledIs
    <3>2. Unsettled'[d] = {m \in InFlight' \ {0} : reqs'[m].client = d}
      BY DEF Unsettled, Outstanding
    <3>3. InFlight' \ {0} = (InFlight \ {0}) \cup {n}
      BY <1>5, <1>6
    <3>. HIDE DEF n
    <3>. QED BY <1>1, <3>1, <3>2, <3>3
  <2>. QED BY <2>1
<1>. QED
  BY <1>5, <1>6, <1>7

\* What a handler waited to put goes in behind the others of its connection.
LEMMA OrderPut ==
    ASSUME TypeInv, InOrder, NEW c \in Clients, Put(c)
    PROVE  InOrder' /\ \A d \in Clients : Unsettled'[d] = Unsettled[d]
<1>. DEFINE h == held[c]
<1>1. /\ h \in Numbers /\ held \in [Clients -> 0 .. Len(reqs)] /\ 0 \notin Numbers
      /\ held' = [held EXCEPT ![c] = 0] /\ reqs' = reqs
  <2>1. h # 0 /\ held \in [Clients -> 0 .. Len(reqs)]
    BY DEF TypeInv, TypeOK, HasHeld, Put
  <2>2. Len(reqs) \in Nat /\ Numbers = 1 .. Len(reqs)
    BY UnsettledIs
  <2>3. h \in Numbers /\ 0 \notin Numbers
    BY <2>1, <2>2
  <2>. QED BY <2>1, <2>3 DEF Put
<1>2. /\ Pipeline \in Seq(Nat) /\ Range(Pipeline) \subseteq Numbers
      /\ Numbers \subseteq Nat \ {0}
  BY PipelineTyped
<1>3. Pipeline' = Append(Pipeline, h)
  BY <1>1, <1>2, PipelineAppends DEF Put, Publish, dispVars
<1>4. /\ DOMAIN Pipeline = 1 .. Len(Pipeline) /\ Len(Pipeline) \in Nat
      /\ DOMAIN Pipeline' = 1 .. Len(Pipeline) + 1
      /\ \A i \in 1 .. Len(Pipeline) : Pipeline'[i] = Pipeline[i]
      /\ Pipeline'[Len(Pipeline) + 1] = h
      /\ Range(Pipeline') = Range(Pipeline) \cup {h}
  BY <1>1, <1>2, <1>3, SeqAppends
<1>5. /\ reqs[h].client = c
      /\ \A m \in Range(Pipeline) : reqs[m].client = c => m < h
      /\ \A i \in DOMAIN Pipeline : Pipeline[i] \in Range(Pipeline)
  BY <1>1 DEF InOrder, HeldLast, ClientOf, Range
<1>. HIDE DEF h
<1>6. Sorted'
  <2>1. ASSUME NEW i \in DOMAIN Pipeline', NEW j \in DOMAIN Pipeline', i < j,
               reqs[Pipeline'[i]].client = reqs[Pipeline'[j]].client
        PROVE  Pipeline'[i] < Pipeline'[j]
    <3>1. i \in DOMAIN Pipeline
      BY <1>4, <2>1
    <3>2. CASE j \in DOMAIN Pipeline
      BY <1>4, <2>1, <3>1, <3>2 DEF InOrder, Sorted, ClientOf
    <3>3. CASE j \notin DOMAIN Pipeline
      <4>1. j = Len(Pipeline) + 1
        BY <1>4, <3>3
      <4>. QED BY <1>4, <1>5, <2>1, <3>1, <4>1
    <3>. QED BY <3>2, <3>3
  <2>. QED BY <1>1, <2>1 DEF Sorted, ClientOf
<1>7. HeldLast'
  <2>1. ASSUME NEW d \in Clients, held'[d] # 0
        PROVE  /\ reqs[held'[d]].client = d
               /\ \A m \in Range(Pipeline') : reqs[m].client = d => m < held'[d]
    BY <1>1, <1>4, <1>5, <2>1 DEF InOrder, HeldLast, ClientOf
  <2>. QED BY <1>1, <2>1 DEF HeldLast, ClientOf
<1>8. InFlight' \ {0} = InFlight \ {0}
  <2>1. /\ InFlight = Range(Pipeline) \cup {held[d] : d \in Clients}
        /\ InFlight' = Range(Pipeline') \cup {held'[d] : d \in Clients}
    BY UnsettledIs DEF InFlight, Range
  <2>2. /\ held[c] = h /\ held'[c] = 0
        /\ \A d \in Clients : d # c => held'[d] = held[d]
    BY <1>1 DEF h
  <2>. QED BY <1>1, <1>4, <2>1, <2>2
<1>9. ASSUME NEW d \in Clients PROVE Unsettled'[d] = Unsettled[d]
  BY <1>1, <1>8 DEF Unsettled, Outstanding
<1>. QED
  BY <1>6, <1>7, <1>9 DEF InOrder

\* A request on its way through the dispatcher keeps its place.
LEMMA OrderSame ==
    ASSUME InOrder, Pipeline' = Pipeline, UNCHANGED <<reqs, held>>
    PROVE  InOrder' /\ \A d \in Clients : Unsettled'[d] = Unsettled[d]
<1>1. InOrder'
  BY DEF InOrder, Sorted, HeldLast, ClientOf, Range
<1>2. InFlight' = InFlight
  BY DEF InFlight
<1>. QED
  BY <1>1, <1>2 DEF Unsettled, Outstanding

\* The request at the head is the oldest on its way for its connection.
LEMMA OrderSettle ==
    ASSUME TypeInv, InOrder, Pipeline # <<>>, Pipeline' = Tail(Pipeline),
           UNCHANGED <<reqs, held>>, NEW n, n = Head(Pipeline)
    PROVE  /\ InOrder'
           /\ n \in Numbers /\ reqs[n].client \in Clients
           /\ n \in Unsettled[reqs[n].client]
           /\ \A k \in Unsettled[reqs[n].client] : n <= k
           /\ \A d \in Clients : Unsettled'[d] = Unsettled[d] \ {n}
<1>. DEFINE c == reqs[n].client
<1>1. /\ Pipeline \in Seq(Nat) /\ Range(Pipeline) \subseteq Numbers
      /\ Numbers \subseteq Nat \ {0}
  BY PipelineTyped
<1>2. /\ n = Pipeline[1] /\ DOMAIN Pipeline = 1 .. Len(Pipeline)
      /\ Len(Pipeline) \in Nat \ {0}
      /\ DOMAIN Pipeline' = 1 .. Len(Pipeline) - 1
      /\ \A i \in 1 .. Len(Pipeline) - 1 : Pipeline'[i] = Pipeline[i + 1]
      /\ Range(Pipeline) = {n} \cup Range(Pipeline')
  BY <1>1, SeqLosesHead
<1>3. n \in Numbers /\ n \in Range(Pipeline) /\ c \in Clients
  <2>1. n \in Numbers
    BY <1>1, <1>2
  <2>2. reqs[n] \in Request
    BY <2>1, ElementOfSeq DEF TypeInv, TypeOK, Numbers
  <2>. QED BY <1>2, <2>1, <2>2 DEF Request
<1>4. \A k \in Range(Pipeline') : reqs[k].client = c => n < k
  <2>1. ASSUME NEW i \in 1 .. Len(Pipeline) - 1, reqs[Pipeline[i + 1]].client = c
        PROVE  n < Pipeline[i + 1]
    <3>1. i + 1 \in DOMAIN Pipeline /\ 1 \in DOMAIN Pipeline /\ 1 < i + 1
      BY <1>2
    <3>. QED BY <1>2, <2>1, <3>1 DEF InOrder, Sorted, ClientOf
  <2>. QED BY <1>2, <2>1 DEF Range
<1>5. \A d \in Clients : held[d] # 0 /\ reqs[held[d]].client = c => n < held[d]
  BY <1>3 DEF InOrder, HeldLast, ClientOf
<1>6. Sorted'
  <2>1. ASSUME NEW i \in DOMAIN Pipeline', NEW j \in DOMAIN Pipeline', i < j,
               reqs[Pipeline'[i]].client = reqs[Pipeline'[j]].client
        PROVE  Pipeline'[i] < Pipeline'[j]
    <3>1. /\ i + 1 \in DOMAIN Pipeline /\ j + 1 \in DOMAIN Pipeline /\ i + 1 < j + 1
          /\ Pipeline'[i] = Pipeline[i + 1] /\ Pipeline'[j] = Pipeline[j + 1]
      BY <1>2, <2>1
    <3>. QED BY <2>1, <3>1 DEF InOrder, Sorted, ClientOf
  <2>. QED BY <2>1 DEF Sorted, ClientOf
<1>7. HeldLast'
  BY <1>2 DEF InOrder, HeldLast, ClientOf
<1>8. /\ InFlight = Range(Pipeline) \cup {held[d] : d \in Clients}
      /\ InFlight' = Range(Pipeline') \cup {held[d] : d \in Clients}
  BY UnsettledIs DEF InFlight, Range
<1>9. \A d \in Clients :
        /\ Unsettled[d] = {k \in InFlight \ {0} : reqs[k].client = d}
        /\ Unsettled'[d] = {k \in InFlight' \ {0} : reqs[k].client = d}
  BY DEF Unsettled, Outstanding
<1>. HIDE DEF c
<1>10. \A k \in InFlight' \ {0} : reqs[k].client = c => n < k
  BY <1>4, <1>5, <1>8
<1>11. n \in Nat \ {0} /\ InFlight = InFlight' \cup {n} /\ reqs[n].client = c
  BY <1>1, <1>2, <1>3, <1>8 DEF c
<1>12. n \in Unsettled[c] /\ \A k \in Unsettled[c] : n <= k
  <2>1. n \in Unsettled[c]
    BY <1>3, <1>9, <1>11
  <2>2. ASSUME NEW k \in Unsettled[c] PROVE n <= k
    <3>1. k \in InFlight \ {0} /\ reqs[k].client = c
      BY <1>3, <1>9, <2>2
    <3>2. k \in Nat
      BY <1>1, <3>1, UnsettledIs
    <3>. QED BY <1>10, <1>11, <3>1, <3>2
  <2>. QED BY <2>1, <2>2
<1>13. n \notin InFlight'
  BY <1>10, <1>11
<1>14. ASSUME NEW d \in Clients PROVE Unsettled'[d] = Unsettled[d] \ {n}
  BY <1>9, <1>11, <1>13
<1>. QED
  BY <1>3, <1>6, <1>7, <1>12, <1>14 DEF InOrder, c

\* What a step does to the requests on their way, the log and the table.
LEMMA Flow ==
    ASSUME TypeInv, InOrder, [Next]_vars
    PROVE  /\ InOrder'
           /\ \/ \E c \in Clients, t \in Tids : \E p \in Asks[c] :
                    /\ ReadAndPublish(c, t, p) \/ ReadAndWait(c, t, p)
                    /\ \A d \in Clients :
                          Unsettled'[d] = IF d = c THEN Unsettled[d] \cup {Len(reqs) + 1}
                                          ELSE Unsettled[d]
              \/ \E m \in Response :
                    /\ Settles(m)
                    /\ UNCHANGED reqs
                    /\ \A c \in Clients, t \in Tids : pending'[c][t] \in {0, pending[c][t]}
                    /\ ClientOf(m.n) \in Clients
                    /\ m.n \in Unsettled[ClientOf(m.n)]
                    /\ \A k \in Unsettled[ClientOf(m.n)] : m.n <= k
                    /\ \A d \in Clients : Unsettled'[d] = Unsettled[d] \ {m.n}
              \/ /\ UNCHANGED <<reqs, sent>>
                 /\ \A c \in Clients, t \in Tids : pending'[c][t] \in {0, pending[c][t]}
                 /\ \A d \in Clients : Unsettled'[d] = Unsettled[d]
<1>1. ASSUME NEW c \in Clients, NEW t \in Tids, NEW p \in Asks[c],
             ReadAndPublish(c, t, p) \/ ReadAndWait(c, t, p)
      PROVE  /\ InOrder'
             /\ \A d \in Clients :
                   Unsettled'[d] = IF d = c THEN Unsettled[d] \cup {Len(reqs) + 1}
                                   ELSE Unsettled[d]
  BY <1>1, OrderAsk
<1>2. ASSUME Discard \/ Swallow \/ Write
      PROVE  \E m \in Response :
                /\ InOrder'
                /\ Settles(m)
                /\ UNCHANGED reqs
                /\ ClientOf(m.n) \in Clients
                /\ m.n \in Unsettled[ClientOf(m.n)]
                /\ \A k \in Unsettled[ClientOf(m.n)] : m.n <= k
                /\ \A d \in Clients : Unsettled'[d] = Unsettled[d] \ {m.n}
  <2>. DEFINE m == Head(responses)
  <2>1. /\ responses # <<>> /\ responses' = Tail(responses)
        /\ UNCHANGED <<reqs, held, requests, dispatcher, task>>
    BY <1>2 DEF Discard, Swallow, Write, dispVars
  <2>2. m \in Response
    BY <2>1, HeadTailProperties DEF TypeInv, TypeOK
  <2>3. Pipeline # <<>> /\ Head(Pipeline) = m.n /\ Pipeline' = Tail(Pipeline)
    BY <2>1, PipelineSettles
  <2>4. Settles(m)
    BY <1>2, <2>1, <2>2 DEF Settles
  <2>. HIDE DEF m
  <2>. QED BY <2>1, <2>2, <2>3, <2>4, OrderSettle DEF ClientOf
<1>3. ASSUME NEW c \in Clients, Put(c)
      PROVE  /\ InOrder' /\ UNCHANGED <<reqs, sent, pending>>
             /\ \A d \in Clients : Unsettled'[d] = Unsettled[d]
  BY <1>3, OrderPut DEF Put
<1>4. ASSUME Pipeline' = Pipeline, UNCHANGED <<reqs, held, sent>>
      PROVE  /\ InOrder' /\ UNCHANGED <<reqs, sent>>
             /\ \A d \in Clients : Unsettled'[d] = Unsettled[d]
  BY <1>4, OrderSame
<1>5. ASSUME Submit \/ Unroutable \/ Crash
      PROVE  Pipeline' = Pipeline /\ UNCHANGED <<reqs, held, sent>>
  BY <1>5, PipelineTake
     DEF Submit, Unroutable, Crash, Take, Routed, ErrorFor
<1>6. ASSUME BackendReturns \/ BackendRaises
      PROVE  Pipeline' = Pipeline /\ UNCHANGED <<reqs, held, sent>>
  <2>1. UNCHANGED <<reqs, held, sent, responses, requests>>
        /\ dispatcher # "idle" /\ dispatcher' # "idle" /\ task'.n = task.n
    BY <1>6 DEF BackendReturns, BackendRaises, ErrorFor
  <2>. QED BY <2>1 DEF Pipeline, Answering, InService
<1>7. ASSUME Respond
      PROVE  Pipeline' = Pipeline /\ UNCHANGED <<reqs, held, sent>>
  BY <1>7, PipelineRespond DEF Respond, Publish
<1>8. ASSUME UNCHANGED <<responses, requests, dispatcher, task, reqs, held, sent>>
      PROVE  Pipeline' = Pipeline /\ UNCHANGED <<reqs, held, sent>>
  BY <1>8 DEF Pipeline, Answering, InService
<1>9. \/ \E c \in Clients, t \in Tids : \E p \in Asks[c] :
            ReadAndPublish(c, t, p) \/ ReadAndWait(c, t, p)
      \/ Discard \/ Swallow \/ Write
      \/ \E c \in Clients : Put(c)
      \/ Submit \/ Unroutable \/ Crash \/ BackendReturns \/ BackendRaises \/ Respond
      \/ UNCHANGED <<responses, requests, dispatcher, task, reqs, held, sent>>
  BY DEF Next, vars, dispVars, Peer, ClientEof, ClientGone, ClientRead, Handler,
         Connect, Refuse, Cleanup, Closed, Dispatcher, ResponseRouter, Drained,
         Finished
<1>10. \/ \E c \in Clients, t \in Tids : \E p \in Asks[c] :
             ReadAndPublish(c, t, p) \/ ReadAndWait(c, t, p)
       \/ \A c \in Clients, t \in Tids : pending'[c][t] \in {0, pending[c][t]}
  BY RegisterOrShrink
<1>. QED
  BY <1>1, <1>2, <1>3, <1>4, <1>5, <1>6, <1>7, <1>8, <1>9, <1>10

-----------------------------------------------------------------------------
(* Replies in the order of requests. *)

\* What has been answered was asked before all that is still on its way.
SentBefore ==
    \A c \in Clients : \A i \in DOMAIN sent[c] : \A n \in Unsettled[c] :
        sent[c][i].n < n

\* A client reads no more than it was sent.
GotSent == \A c \in Clients : got[c] <= Len(sent[c])

\* A careful client has one request of a tid on its way.
OnePerTid ==
    \A c \in Careful : \A m, n \in Unsettled[c] : reqs[m].tid = reqs[n].tid => m = n

FlowInv ==
    /\ SafeInv
    /\ InOrder
    /\ SentBefore
    /\ RepliesInOrder
    /\ PendingIsInFlight
    /\ GotSent
    /\ OnePerTid

\* A reply is written behind the others of its connection.
LEMMA SentGrows ==
    ASSUME TypeOK, NEW m \in Response, NEW c \in Clients, TidOf(m.n) \in Tids,
           sent' = [sent EXCEPT ![c] = Append(@, ReplyFrame(m))]
    PROVE  /\ \A d \in Clients : d # c => sent'[d] = sent[d]
           /\ DOMAIN sent[c] = 1 .. Len(sent[c]) /\ Len(sent[c]) \in Nat
           /\ DOMAIN sent'[c] = 1 .. Len(sent[c]) + 1 /\ Len(sent'[c]) = Len(sent[c]) + 1
           /\ sent'[c] = Append(sent[c], ReplyFrame(m))
           /\ \A i \in 1 .. Len(sent[c]) : sent'[c][i] = sent[c][i]
           /\ sent'[c][Len(sent[c]) + 1] = ReplyFrame(m)
<1>. DEFINE S == [tid : Tids, n : Numbers, unit : Int]
<1>1. /\ sent[c] \in Seq(S) /\ sent'[c] = Append(sent[c], ReplyFrame(m))
      /\ \A d \in Clients : d # c => sent'[d] = sent[d]
  BY DEF TypeOK
<1>2. ReplyFrame(m) \in S
  BY DEF ReplyFrame, Response
<1>. HIDE DEF S
<1>. QED
  BY <1>1, <1>2, SeqAppends

\* The requests on their way, and those that were answered, are in the log.
LEMMA UnsettledTyped ==
    ASSUME TypeInv, NEW c \in Clients
    PROVE  /\ Unsettled[c] \subseteq Numbers
           /\ \A n \in Unsettled[c] : reqs[n].client = c
           /\ Numbers = 1 .. Len(reqs) /\ Len(reqs) \in Nat
           /\ DOMAIN sent[c] = 1 .. Len(sent[c]) /\ Len(sent[c]) \in Nat
           /\ \A i \in DOMAIN sent[c] : sent[c][i].n \in Numbers
<1>1. sent[c] \in Seq([tid : Tids, n : Numbers, unit : Int])
  BY DEF TypeInv, TypeOK
<1>2. \A i \in DOMAIN sent[c] : sent[c][i].n \in Numbers
  <2>. DEFINE S == [tid : Tids, n : Numbers, unit : Int]
  <2>1. \A f \in S : f.n \in Numbers
    OBVIOUS
  <2>2. sent[c] \in Seq(S)
    BY <1>1
  <2>. HIDE DEF S
  <2>3. \A i \in DOMAIN sent[c] : sent[c][i] \in S
    BY <2>2, LenProperties, ElementOfSeq
  <2>. QED BY <2>1, <2>3
<1>. QED
  BY <1>1, <1>2, LenProperties, UnsettledIs

\* An entry of _pending is on its way for the connection it is kept for.
LEMMA PendingIsUnsettled ==
    ASSUME TypeInv, KeyMatch, PendingIsInFlight, NEW c \in Clients, NEW t \in Tids,
           pending[c][t] # 0
    PROVE  pending[c][t] \in Unsettled[c]
BY UnsettledIs DEF KeyMatch, PendingIsInFlight

\* Nothing that is pending gets lost on its way.
LEMMA PendingStep ==
    ASSUME FlowInv, [Next]_vars
    PROVE  PendingIsInFlight'
<1>0. /\ TypeInv /\ TypeOK /\ KeyMatch /\ InOrder /\ SafeInv
      /\ pending \in [Clients -> [Tids -> 0 .. Len(reqs)]]
  BY DEF FlowInv, SafeInv, TypeInv, TypeOK
<1>1. ASSUME NEW c \in Clients, NEW t \in Tids, pending[c][t] # 0
      PROVE  pending[c][t] \in Unsettled[c]
  BY <1>0, <1>1, PendingIsUnsettled DEF FlowInv
<1>. SUFFICES ASSUME NEW c \in Clients, NEW t \in Tids, pending'[c][t] # 0
              PROVE  pending'[c][t] \in Unsettled'[c]
  BY DEF PendingIsInFlight, Unsettled, Outstanding
<1>2. ASSUME NEW d \in Clients, NEW u \in Tids, NEW p \in Asks[d],
             ReadAndPublish(d, u, p) \/ ReadAndWait(d, u, p),
             \A e \in Clients :
                Unsettled'[e] = IF e = d THEN Unsettled[e] \cup {Len(reqs) + 1}
                                ELSE Unsettled[e]
      PROVE  pending'[c][t] \in Unsettled'[c]
  <2>1. pending' = [pending EXCEPT ![d][u] = Len(reqs) + 1]
    BY <1>2 DEF ReadAndPublish, ReadAndWait, Register
  <2>2. CASE c = d /\ t = u
    BY <1>0, <1>2, <2>1, <2>2
  <2>3. CASE ~ (c = d /\ t = u)
    <3>1. pending'[c][t] = pending[c][t]
      BY <1>0, <2>1, <2>3
    <3>. QED BY <1>1, <1>2, <3>1
  <2>. QED BY <2>2, <2>3
<1>3. ASSUME NEW m \in Response, Settles(m),
             \A d \in Clients, u \in Tids : pending'[d][u] \in {0, pending[d][u]},
             \A d \in Clients : Unsettled'[d] = Unsettled[d] \ {m.n}
      PROVE  pending'[c][t] \in Unsettled'[c]
  <2>1. pending'[c][t] = pending[c][t] /\ pending[c][t] \in Unsettled[c]
    BY <1>1, <1>3
  <2>2. CASE pending[c][t] = m.n
    <3>1. c = ClientOf(m.n) /\ t = TidOf(m.n)
      BY <1>0, <2>1, <2>2 DEF KeyMatch, ClientOf, TidOf
    <3>2. pending'[c][t] = 0
      BY <1>0, <1>3, <3>1, SettlingReplies
    <3>. QED BY <3>2
  <2>. QED BY <1>3, <2>1, <2>2
<1>4. ASSUME \A d \in Clients, u \in Tids : pending'[d][u] \in {0, pending[d][u]},
             \A d \in Clients : Unsettled'[d] = Unsettled[d]
      PROVE  pending'[c][t] \in Unsettled'[c]
  BY <1>1, <1>4
<1>. QED
  BY <1>0, <1>2, <1>3, <1>4, Flow

\* A reply is to the oldest request on its way, and younger than all before it.
LEMMA RepliesStep ==
    ASSUME FlowInv, [Next]_vars
    PROVE  SentBefore' /\ RepliesInOrder'
<1>0. TypeInv /\ TypeOK /\ InOrder /\ SafeInv /\ SentBefore /\ RepliesInOrder
  BY DEF FlowInv, SafeInv, TypeInv
<1>1. ASSUME NEW c \in Clients, NEW t \in Tids, NEW p \in Asks[c],
             ReadAndPublish(c, t, p) \/ ReadAndWait(c, t, p),
             \A d \in Clients :
                Unsettled'[d] = IF d = c THEN Unsettled[d] \cup {Len(reqs) + 1}
                                ELSE Unsettled[d]
      PROVE  SentBefore' /\ RepliesInOrder'
  <2>1. UNCHANGED sent
    BY <1>1 DEF ReadAndPublish, ReadAndWait
  <2>2. ASSUME NEW d \in Clients, NEW i \in DOMAIN sent[d], NEW n \in Unsettled'[d]
        PROVE  sent[d][i].n < n
    <3>1. sent[d][i].n \in 1 .. Len(reqs) /\ Len(reqs) \in Nat
      BY <1>0, UnsettledTyped
    <3>2. n \in Unsettled[d] \/ n = Len(reqs) + 1
      BY <1>1, <2>2
    <3>. QED BY <1>0, <3>1, <3>2 DEF SentBefore
  <2>. QED BY <1>0, <2>1, <2>2 DEF SentBefore, RepliesInOrder
<1>2. ASSUME NEW m \in Response, Settles(m), ClientOf(m.n) \in Clients,
             m.n \in Unsettled[ClientOf(m.n)],
             \A k \in Unsettled[ClientOf(m.n)] : m.n <= k,
             \A d \in Clients : Unsettled'[d] = Unsettled[d] \ {m.n}
      PROVE  SentBefore' /\ RepliesInOrder'
  <2>. DEFINE c == ClientOf(m.n)
  <2>1. CASE UNCHANGED sent
    BY <1>0, <1>2, <2>1 DEF SentBefore, RepliesInOrder
  <2>2. CASE sent' = [sent EXCEPT ![c] = Append(@, ReplyFrame(m))]
    <3>1. /\ \A d \in Clients : d # c => sent'[d] = sent[d]
          /\ DOMAIN sent[c] = 1 .. Len(sent[c]) /\ Len(sent[c]) \in Nat
          /\ DOMAIN sent'[c] = 1 .. Len(sent[c]) + 1
          /\ \A i \in 1 .. Len(sent[c]) : sent'[c][i] = sent[c][i]
          /\ sent'[c][Len(sent[c]) + 1].n = m.n
      <4>1. c \in Clients /\ TidOf(m.n) \in Tids /\ ReplyFrame(m).n = m.n
        BY <1>0, <1>2, SettlingReplies DEF ReplyFrame
      <4>. HIDE DEF c
      <4>. QED BY <1>0, <2>2, <4>1, SentGrows
    <3>2. /\ Unsettled[c] \subseteq Nat /\ m.n \in Nat
          /\ \A i \in DOMAIN sent[c] : sent[c][i].n \in Nat /\ sent[c][i].n < m.n
      BY <1>0, <1>2, UnsettledTyped DEF SentBefore
    <3>. HIDE DEF c
    <3>3. ASSUME NEW d \in Clients, NEW i \in DOMAIN sent'[d], NEW n \in Unsettled'[d]
          PROVE  sent'[d][i].n < n
      <4>1. CASE d # c
        BY <1>0, <1>2, <3>1, <3>3, <4>1 DEF SentBefore
      <4>2. CASE d = c
        <5>1. n \in Unsettled[c] /\ n # m.n
          BY <1>2, <3>3, <4>2
        <5>2. m.n <= n
          BY <1>2, <5>1 DEF c
        <5>3. i = Len(sent[c]) + 1 \/ i \in DOMAIN sent[c]
          BY <3>1, <3>3, <4>2
        <5>. QED BY <1>0, <3>1, <3>2, <4>2, <5>1, <5>2, <5>3 DEF SentBefore
      <4>. QED BY <4>1, <4>2
    <3>4. ASSUME NEW d \in Clients, NEW i \in DOMAIN sent'[d], NEW j \in DOMAIN sent'[d], i < j
          PROVE  sent'[d][i].n < sent'[d][j].n
      <4>1. CASE d # c
        BY <1>0, <3>1, <3>4, <4>1 DEF RepliesInOrder
      <4>2. CASE d = c
        <5>1. /\ i \in DOMAIN sent[c]
              /\ j \in DOMAIN sent[c] \/ j = Len(sent[c]) + 1
          BY <3>1, <3>4, <4>2
        <5>. QED BY <1>0, <3>1, <3>2, <3>4, <4>2, <5>1 DEF RepliesInOrder
      <4>. QED BY <4>1, <4>2
    <3>. QED BY <3>3, <3>4 DEF SentBefore, RepliesInOrder
  <2>. QED BY <1>0, <1>2, <2>1, <2>2, SettlingReplies
<1>3. ASSUME UNCHANGED sent, \A d \in Clients : Unsettled'[d] = Unsettled[d]
      PROVE  SentBefore' /\ RepliesInOrder'
  BY <1>0, <1>3 DEF SentBefore, RepliesInOrder
<1>. QED
  BY <1>0, <1>1, <1>2, <1>3, Flow

\* Replies are read after they were written.
LEMMA GotSentStep ==
    ASSUME FlowInv, [Next]_vars
    PROVE  GotSent'
<1>0. TypeInv /\ TypeOK /\ SafeInv /\ GotSent /\ got \in [Clients -> Nat]
  BY DEF FlowInv, SafeInv, TypeInv, TypeOK
<1>. SUFFICES ASSUME NEW c \in Clients PROVE got'[c] <= Len(sent'[c])
  BY DEF GotSent
<1>1. \A d \in Clients : Len(sent[d]) \in Nat
  BY <1>0, UnsettledTyped
<1>2. ASSUME NEW m \in Response, Settles(m) PROVE got'[c] <= Len(sent'[c])
  <2>1. got' = got
    BY <1>2 DEF Settles, Discard, Swallow, Write
  <2>2. ClientOf(m.n) \in Clients /\ TidOf(m.n) \in Tids
    BY <1>0, <1>2, SettlingReplies
  <2>3. CASE UNCHANGED sent
    BY <1>0, <2>1, <2>3 DEF GotSent
  <2>4. CASE sent' = [sent EXCEPT ![ClientOf(m.n)] = Append(@, ReplyFrame(m))]
    <3>. DEFINE d == ClientOf(m.n)
    <3>1. sent' = [sent EXCEPT ![d] = Append(@, ReplyFrame(m))] /\ d \in Clients
      BY <2>2, <2>4
    <3>. HIDE DEF d
    <3>2. /\ \A e \in Clients : e # d => sent'[e] = sent[e]
          /\ Len(sent'[d]) = Len(sent[d]) + 1
      BY <1>0, <2>2, <3>1, SentGrows
    <3>. QED BY <1>0, <1>1, <2>1, <3>1, <3>2 DEF GotSent
  <2>. QED BY <1>0, <1>2, <2>3, <2>4, SettlingReplies
<1>3. ASSUME UNCHANGED sent PROVE got'[c] <= Len(sent'[c])
  <2>1. CASE UNCHANGED got
    BY <1>0, <1>3, <2>1 DEF GotSent
  <2>2. ASSUME NEW d \in Clients, ClientRead(d) PROVE got'[c] <= Len(sent'[c])
    BY <1>0, <1>1, <1>3, <2>2 DEF GotSent, ClientRead
  <2>. QED
    BY <2>1, <2>2
       DEF Next, vars, dispVars, Peer, ClientEof, ClientGone, Handler, Connect, Refuse,
           Put, Cleanup, Closed, ReadAndPublish, ReadAndWait, Dispatcher, Submit,
           Unroutable, Crash, Take, BackendReturns, BackendRaises, Respond,
           ResponseRouter, Discard, Swallow, Write, Drained, Finished
<1>. QED
  BY <1>0, <1>2, <1>3, OnlyWriteReplies

\* A careful client has read the reply before it uses a tid again.
LEMMA OnePerTidStep ==
    ASSUME FlowInv, [Next]_vars
    PROVE  OnePerTid'
<1>0. TypeInv /\ TypeOK /\ SafeInv /\ InOrder /\ SentBefore /\ GotSent /\ OnePerTid
  BY DEF FlowInv, SafeInv, TypeInv
<1>1. ASSUME NEW c \in Clients, NEW t \in Tids, NEW p \in Asks[c],
             ReadAndPublish(c, t, p) \/ ReadAndWait(c, t, p),
             \A d \in Clients :
                Unsettled'[d] = IF d = c THEN Unsettled[d] \cup {Len(reqs) + 1}
                                ELSE Unsettled[d]
      PROVE  OnePerTid'
  <2>. DEFINE new == Len(reqs) + 1
  <2>1. Register(c, t, p)
    BY <1>1 DEF ReadAndPublish, ReadAndWait
  <2>2. /\ \A n \in Numbers : reqs'[n] = reqs[n]
        /\ reqs'[new].tid = t
    <3>1. /\ \A n \in Numbers : reqs'[n] = reqs[n]
          /\ reqs'[new] = [client |-> c, tid |-> t, pdu |-> p]
      BY <1>0, <2>1, RegisterGrows
    <3>. HIDE DEF new
    <3>. QED BY <3>1
  <2>3. ASSUME c \in Careful, NEW n \in Unsettled[c] PROVE reqs[n].tid # t
    <3>1. n \in Numbers /\ reqs[n].client = c
      BY <1>0, UnsettledTyped
    <3>2. Unanswered(c, t) = {}
      BY <2>1, <2>3 DEF Register
    <3>3. ASSUME NEW i \in 1 .. got[c], sent[c][i].n = n PROVE FALSE
      <4>1. /\ got[c] \in Nat /\ got[c] <= Len(sent[c]) /\ Len(sent[c]) \in Nat
            /\ DOMAIN sent[c] = 1 .. Len(sent[c])
        BY <1>0, UnsettledTyped DEF TypeOK, GotSent
      <4>2. i \in DOMAIN sent[c]
        BY <4>1
      <4>3. n < n /\ n \in Nat
        BY <1>0, <2>3, <3>1, <3>3, <4>2, UnsettledIs DEF SentBefore
      <4>. QED BY <4>3
    <3>. QED BY <3>1, <3>2, <3>3 DEF Unanswered
  <2>. HIDE DEF new
  <2>4. ASSUME NEW d \in Careful, NEW m \in Unsettled'[d], NEW n \in Unsettled'[d],
               reqs'[m].tid = reqs'[n].tid
        PROVE  m = n
    <3>0. d \in Clients /\ Unsettled[d] \subseteq Numbers
      BY <1>0, GatewayAssumption, UnsettledTyped
    <3>1. CASE d # c
      BY <1>0, <1>1, <2>2, <2>4, <3>0, <3>1 DEF OnePerTid
    <3>2. CASE d = c
      <4>1. m \in Unsettled[c] \cup {new} /\ n \in Unsettled[c] \cup {new}
        BY <1>1, <2>4, <3>2 DEF new
      <4>. QED BY <1>0, <2>2, <2>3, <2>4, <3>0, <3>2, <4>1 DEF OnePerTid
    <3>. QED BY <3>1, <3>2
  <2>. QED BY <2>4 DEF OnePerTid
<1>2. ASSUME UNCHANGED reqs, \A d \in Clients : Unsettled'[d] \subseteq Unsettled[d]
      PROVE  OnePerTid'
  BY <1>0, <1>2, GatewayAssumption DEF OnePerTid
<1>. QED
  BY <1>0, <1>1, <1>2, Flow

\* Nothing is on its way at first.
LEMMA FlowInit == Init => FlowInv
<1>. SUFFICES ASSUME Init PROVE FlowInv
  OBVIOUS
<1>1. Answering = <<>> /\ InService = <<>> /\ requests = <<>>
  BY DEF Init, Answering, InService
<1>2. Pipeline = <<>> /\ DOMAIN Pipeline = {}
  BY <1>1 DEF Pipeline
<1>3. \A c \in Clients : /\ sent[c] = <<>> /\ held[c] = 0 /\ got[c] = 0
                         /\ \A t \in Tids : pending[c][t] = 0
  BY DEF Init
<1>4. \A c \in Clients : Unsettled[c] = {}
  <2>1. InFlight \subseteq {0}
    BY <1>2, <1>3 DEF InFlight
  <2>. QED BY <2>1 DEF Unsettled, Outstanding
<1>5. InOrder
  BY <1>2, <1>3 DEF InOrder, Sorted, HeldLast, Range
<1>6. SentBefore /\ RepliesInOrder
  BY <1>3 DEF SentBefore, RepliesInOrder
<1>7. PendingIsInFlight /\ GotSent
  BY <1>3 DEF PendingIsInFlight, GotSent
<1>8. OnePerTid
  BY <1>4, GatewayAssumption DEF OnePerTid
<1>. QED
  BY <1>5, <1>6, <1>7, <1>8, SafeInit DEF FlowInv

\* The requests of a connection go through the gateway in the order they were
\* made, and what has been answered on it was asked before all that is still on
\* its way; with it, everything the theorems below state.
THEOREM FlowInvariant == Spec => []FlowInv
<1>1. FlowInv /\ [Next]_vars => FlowInv'
  <2>1. ASSUME FlowInv, [Next]_vars PROVE SafeInv' /\ InOrder'
    BY <2>1, TypeStep, KeyMatchStep, OnlyServedPendStep, ReplyStep, Flow
       DEF SafeInv, FlowInv
  <2>. QED
    BY <2>1, PendingStep, RepliesStep, GotSentStep, OnePerTidStep DEF FlowInv
<1>. QED
  BY <1>1, FlowInit, PTL DEF Spec

\* No entry of _pending outlives the request it was made for: what a frontend
\* keeps as pending is in a queue, with the dispatcher, or held by a handler.
THEOREM PendingLives == Spec => []PendingIsInFlight
<1>1. FlowInv => PendingIsInFlight
  BY DEF FlowInv
<1>. QED
  BY <1>1, FlowInvariant, PTL

\* The replies on a connection are in the order of its requests, and none comes
\* twice, whatever its client does with its tids.
THEOREM RepliesKeepOrder == Spec => []RepliesInOrder
<1>1. FlowInv => RepliesInOrder
  BY DEF FlowInv
<1>. QED
  BY <1>1, FlowInvariant, PTL

\* A client that does not reuse the tid of an unanswered request is answered
\* from the entry of the very request the reply is to.
THEOREM ReplyIsToItsEntry == Spec => ReplyPopsItsRequest
<1>1. ASSUME FlowInv, [Next]_vars, NEW c \in Careful, sent'[c] # sent[c]
      PROVE  LET f == sent'[c][Len(sent'[c])] IN pending[c][f.tid] = f.n
  <2>0. /\ TypeInv /\ TypeOK /\ SafeInv /\ KeyMatch /\ InOrder /\ OnePerTid
        /\ PendingIsInFlight /\ c \in Clients
    BY <1>1, GatewayAssumption DEF FlowInv, SafeInv, TypeInv
  <2>1. PICK m \in Response : /\ Settles(m)
                              /\ m.n \in Unsettled[ClientOf(m.n)]
    <3>1. ~ \E d \in Clients, t \in Tids : \E p \in Asks[d] :
               ReadAndPublish(d, t, p) \/ ReadAndWait(d, t, p)
      BY <1>1 DEF ReadAndPublish, ReadAndWait
    <3>. QED BY <1>1, <2>0, <3>1, Flow
  <2>2. /\ ClientOf(m.n) \in Clients /\ TidOf(m.n) \in Tids
        /\ pending[ClientOf(m.n)][TidOf(m.n)] # 0
        /\ sent' = [sent EXCEPT ![ClientOf(m.n)] = Append(@, ReplyFrame(m))]
    BY <1>1, <2>0, <2>1, SettlingReplies
  <2>3. ClientOf(m.n) = c
    BY <1>1, <2>0, <2>2 DEF TypeOK
  <2>4. sent'[c][Len(sent'[c])] = ReplyFrame(m)
    <3>1. sent' = [sent EXCEPT ![c] = Append(@, ReplyFrame(m))]
      BY <2>2, <2>3
    <3>2. /\ TypeOK /\ m \in Response /\ c \in Clients /\ TidOf(m.n) \in Tids
          /\ sent' = [sent EXCEPT ![c] = Append(@, ReplyFrame(m))]
      BY <2>0, <2>1, <2>2, <3>1
    <3>3. Len(sent'[c]) = Len(sent[c]) + 1 /\ sent'[c][Len(sent[c]) + 1] = ReplyFrame(m)
      BY <3>2, SentGrows
    <3>. QED BY <3>3
  <2>. DEFINE w == pending[c][TidOf(m.n)]
  <2>5. w \in Unsettled[c] /\ reqs[w].tid = reqs[m.n].tid
    BY <2>0, <2>2, <2>3, PendingIsUnsettled DEF KeyMatch, TidOf
  <2>6. w = m.n
    BY <1>1, <2>0, <2>1, <2>3, <2>5 DEF OnePerTid
  <2>. QED BY <2>4, <2>6 DEF ReplyFrame
<1>2. FlowInv /\ [Next]_vars =>
        [\A c \in Careful : sent'[c] # sent[c] =>
            LET f == sent'[c][Len(sent'[c])] IN pending[c][f.tid] = f.n]_vars
  BY <1>1
<1>. QED
  BY <1>2, FlowInvariant, PTL DEF Spec, ReplyPopsItsRequest

-----------------------------------------------------------------------------
(* The gateway implements GatewayService: what its variables stand for there. *)

AsOpen == [c \in Clients |-> handler[c] \notin {"closing", "done", "refused"}]
KeysOf(s) == [n \in DOMAIN s |-> [client |-> s[n].client, tid |-> s[n].tid]]
FramesOf(s) == [i \in DOMAIN s |-> [tid |-> s[i].tid, n |-> s[i].n]]
AsAsked == KeysOf(reqs)
AsReplies == [c \in Clients |-> FramesOf(sent[c])]

Keys == [client : Clients, tid : Tids]
Frames == [tid : Tids, n : Numbers, unit : Int]
Replies == [tid : Tids, n : Numbers]

LEMMA KeysAppend ==
    ASSUME NEW s \in Seq(Request), NEW r \in Request
    PROVE  /\ KeysOf(Append(s, r)) = Append(KeysOf(s), [client |-> r.client, tid |-> r.tid])
           /\ Len(KeysOf(s)) = Len(s)
<1>. DEFINE u == Append(s, r)
            x == [client |-> r.client, tid |-> r.tid]
<1>1. /\ Len(s) \in Nat /\ Len(u) = Len(s) + 1 /\ u \in Seq(Request)
      /\ DOMAIN s = 1 .. Len(s) /\ DOMAIN u = 1 .. Len(s) + 1
      /\ \A i \in 1 .. Len(s) : u[i] = s[i]
      /\ u[Len(s) + 1] = r
  BY SeqAppends
<1>. HIDE DEF u
<1>2. x \in Keys
  BY DEF Request, Keys
<1>3. \A i \in 1 .. Len(s) : s[i] \in Request
  BY <1>1, ElementOfSeq
<1>4. KeysOf(s) \in [1 .. Len(s) -> Keys] /\ KeysOf(u) \in [1 .. Len(s) + 1 -> Keys]
  <2>1. \A i \in 1 .. Len(s) + 1 : u[i] \in Request
    BY <1>1, ElementOfSeq
  <2>2. \A q \in Request : [client |-> q.client, tid |-> q.tid] \in Keys
    BY DEF Request, Keys
  <2>. QED BY <1>1, <1>3, <2>1, <2>2 DEF KeysOf
<1>5. /\ KeysOf(s) \in Seq(Keys) /\ Len(KeysOf(s)) = Len(s)
      /\ KeysOf(u) \in Seq(Keys) /\ Len(KeysOf(u)) = Len(s) + 1
  <2>0. Len(s) \in Nat /\ Len(s) + 1 \in Nat
    BY LenProperties
  <2>1. KeysOf(s) \in Seq(Keys) /\ KeysOf(u) \in Seq(Keys)
    BY <1>4, <2>0, SeqDef
  <2>. QED BY <1>1, <1>4, <2>1, LenProperties
<1>6. /\ \A i \in 1 .. Len(s) : KeysOf(u)[i] = KeysOf(s)[i]
      /\ KeysOf(u)[Len(s) + 1] = x
  BY <1>1 DEF KeysOf
<1>. HIDE DEF x
<1>7. /\ Append(KeysOf(s), x) \in Seq(Keys) /\ Len(Append(KeysOf(s), x)) = Len(s) + 1
      /\ \A i \in 1 .. Len(s) : Append(KeysOf(s), x)[i] = KeysOf(s)[i]
      /\ Append(KeysOf(s), x)[Len(s) + 1] = x
  BY <1>2, <1>5, SeqAppends
<1>8. \A i \in 1 .. Len(s) + 1 : KeysOf(u)[i] = Append(KeysOf(s), x)[i]
  <2>1. \A i \in 1 .. Len(s) + 1 : i \in 1 .. Len(s) \/ i = Len(s) + 1
    BY <1>1
  <2>. QED BY <1>6, <1>7, <2>1
<1>9. KeysOf(u) = Append(KeysOf(s), x)
  BY <1>5, <1>7, <1>8, SeqEqual
<1>. QED
  BY <1>5, <1>9 DEF u, x

LEMMA FramesAppend ==
    ASSUME NEW s \in Seq(Frames), NEW f \in Frames
    PROVE  FramesOf(Append(s, f)) = Append(FramesOf(s), [tid |-> f.tid, n |-> f.n])
<1>. DEFINE u == Append(s, f)
            x == [tid |-> f.tid, n |-> f.n]
<1>1. /\ Len(s) \in Nat /\ Len(u) = Len(s) + 1 /\ u \in Seq(Frames)
      /\ DOMAIN s = 1 .. Len(s) /\ DOMAIN u = 1 .. Len(s) + 1
      /\ \A i \in 1 .. Len(s) : u[i] = s[i]
      /\ u[Len(s) + 1] = f
  BY SeqAppends
<1>. HIDE DEF u
<1>2. x \in Replies
  BY DEF Frames, Replies
<1>3. \A i \in 1 .. Len(s) : s[i] \in Frames
  BY <1>1, ElementOfSeq
<1>4. FramesOf(s) \in [1 .. Len(s) -> Replies] /\ FramesOf(u) \in [1 .. Len(s) + 1 -> Replies]
  <2>1. \A i \in 1 .. Len(s) + 1 : u[i] \in Frames
    BY <1>1, ElementOfSeq
  <2>2. \A g \in Frames : [tid |-> g.tid, n |-> g.n] \in Replies
    BY DEF Frames, Replies
  <2>. QED BY <1>1, <1>3, <2>1, <2>2 DEF FramesOf
<1>5. /\ FramesOf(s) \in Seq(Replies) /\ Len(FramesOf(s)) = Len(s)
      /\ FramesOf(u) \in Seq(Replies) /\ Len(FramesOf(u)) = Len(s) + 1
  <2>0. Len(s) \in Nat /\ Len(s) + 1 \in Nat
    BY LenProperties
  <2>1. FramesOf(s) \in Seq(Replies) /\ FramesOf(u) \in Seq(Replies)
    BY <1>4, <2>0, SeqDef
  <2>. QED BY <1>1, <1>4, <2>1, LenProperties
<1>6. /\ \A i \in 1 .. Len(s) : FramesOf(u)[i] = FramesOf(s)[i]
      /\ FramesOf(u)[Len(s) + 1] = x
  BY <1>1 DEF FramesOf
<1>. HIDE DEF x
<1>7. /\ Append(FramesOf(s), x) \in Seq(Replies) /\ Len(Append(FramesOf(s), x)) = Len(s) + 1
      /\ \A i \in 1 .. Len(s) : Append(FramesOf(s), x)[i] = FramesOf(s)[i]
      /\ Append(FramesOf(s), x)[Len(s) + 1] = x
  BY <1>2, <1>5, SeqAppends
<1>8. \A i \in 1 .. Len(s) + 1 : FramesOf(u)[i] = Append(FramesOf(s), x)[i]
  <2>1. \A i \in 1 .. Len(s) + 1 : i \in 1 .. Len(s) \/ i = Len(s) + 1
    BY <1>1
  <2>. QED BY <1>6, <1>7, <2>1
<1>9. FramesOf(u) = Append(FramesOf(s), x)
  BY <1>5, <1>7, <1>8, SeqEqual
<1>. QED
  BY <1>9 DEF u, x

\* The actions of GatewayService, in terms of the gateway.
LEMMA ServiceActions ==
    /\ Service!Init <=> /\ AsOpen = [c \in Clients |-> TRUE]
                        /\ AsAsked = <<>>
                        /\ Unsettled = [c \in Clients |-> {}]
                        /\ AsReplies = [c \in Clients |-> <<>>]
    /\ \A c \in Clients, t \in Tids :
          Service!Ask(c, t) <=>
             /\ AsOpen[c]
             /\ AsAsked' = Append(AsAsked, [client |-> c, tid |-> t])
             /\ Unsettled' = [Unsettled EXCEPT ![c] = @ \cup {Len(AsAsked) + 1}]
             /\ AsOpen' = AsOpen /\ AsReplies' = AsReplies
    /\ \A c \in Clients : \A n \in Unsettled[c] :
          /\ Service!Settle(c, n) <=>
                /\ \A k \in Unsettled[c] : n <= k
                /\ Unsettled' = [Unsettled EXCEPT ![c] = @ \ {n}]
                /\ AsOpen' = AsOpen /\ AsAsked' = AsAsked
          /\ Service!Reply(c, n) <=>
                /\ AsOpen[c]
                /\ Service!Settle(c, n)
                /\ AsReplies' = [AsReplies EXCEPT ![c] =
                                    Append(@, [tid |-> AsAsked[n].tid, n |-> n])]
          /\ Service!Drop(c, n) <=> Service!Settle(c, n) /\ AsReplies' = AsReplies
    /\ \A c \in Clients :
          Service!Close(c) <=>
             /\ AsOpen[c]
             /\ AsOpen' = [AsOpen EXCEPT ![c] = FALSE]
             /\ AsAsked' = AsAsked /\ Unsettled' = Unsettled /\ AsReplies' = AsReplies
    /\ Service!Next <=>
          \E c \in Clients :
             \/ \E t \in Tids : Service!Ask(c, t)
             \/ \E n \in Unsettled[c] : Service!Reply(c, n) \/ Service!Drop(c, n)
             \/ Service!Close(c)
    /\ UNCHANGED Service!vars <=>
          /\ AsOpen' = AsOpen /\ AsAsked' = AsAsked
          /\ Unsettled' = Unsettled /\ AsReplies' = AsReplies
BY DEF Service!Init, Service!Ask, Service!Settle, Service!Reply, Service!Drop,
       Service!Close, Service!Next, Service!vars, AsOpen, AsAsked, AsReplies,
       KeysOf, FramesOf, Unsettled

\* Registering a request is asking.
LEMMA RegisterAsks ==
    ASSUME FlowInv, NEW c \in Clients, NEW t \in Tids, NEW p \in Asks[c],
           ReadAndPublish(c, t, p) \/ ReadAndWait(c, t, p),
           \A d \in Clients :
              Unsettled'[d] = IF d = c THEN Unsettled[d] \cup {Len(reqs) + 1}
                              ELSE Unsettled[d]
    PROVE  Service!Ask(c, t)
<1>0. TypeOK /\ Register(c, t, p) /\ UNCHANGED sent
  BY DEF FlowInv, SafeInv, TypeInv, ReadAndPublish, ReadAndWait
<1>1. AsOpen[c] /\ AsOpen' = AsOpen
  <2>1. handler \in [Clients -> {"none", "refused", "reading", "putting", "closing", "done"}]
        /\ handler[c] = "reading"
    BY <1>0 DEF TypeOK, Register
  <2>2. handler' = handler \/ handler' = [handler EXCEPT ![c] = "putting"]
    BY DEF ReadAndPublish, ReadAndWait
  <2>. QED BY <2>1, <2>2 DEF AsOpen
<1>2. /\ AsAsked' = Append(AsAsked, [client |-> c, tid |-> t])
      /\ Len(AsAsked) = Len(reqs)
  <2>. DEFINE r == [client |-> c, tid |-> t, pdu |-> p]
  <2>1. reqs \in Seq(Request) /\ r \in Request /\ reqs' = Append(reqs, r)
    BY <1>0, GatewayAssumption DEF TypeOK, Register, Request
  <2>2. r.client = c /\ r.tid = t
    OBVIOUS
  <2>3. AsAsked' = KeysOf(Append(reqs, r))
    BY <2>1 DEF AsAsked, KeysOf
  <2>. HIDE DEF r
  <2>4. /\ KeysOf(Append(reqs, r)) = Append(KeysOf(reqs), [client |-> r.client, tid |-> r.tid])
        /\ Len(KeysOf(reqs)) = Len(reqs)
    BY <2>1, KeysAppend
  <2>. QED BY <2>2, <2>3, <2>4 DEF AsAsked
<1>3. Unsettled' = [Unsettled EXCEPT ![c] = @ \cup {Len(AsAsked) + 1}]
  <2>1. /\ Unsettled = [d \in Clients |-> Unsettled[d]]
        /\ Unsettled' = [d \in Clients |-> Unsettled'[d]]
    BY DEF Unsettled
  <2>. QED BY <1>2, <2>1
<1>4. AsReplies' = AsReplies
  BY <1>0 DEF AsReplies, FramesOf
<1>. QED
  BY <1>1, <1>2, <1>3, <1>4, ServiceActions

\* Settling a response is replying or dropping.
LEMMA SettlingSettles ==
    ASSUME FlowInv, NEW m \in Response, Settles(m), NEW c \in Clients,
           c = ClientOf(m.n), m.n \in Unsettled[c], \A k \in Unsettled[c] : m.n <= k,
           \A d \in Clients : Unsettled'[d] = Unsettled[d] \ {m.n}
    PROVE  Service!Reply(c, m.n) \/ Service!Drop(c, m.n)
<1>. DEFINE n == m.n
<1>0. TypeInv /\ TypeOK /\ SafeInv /\ UNCHANGED <<reqs, handler>>
  BY DEF FlowInv, SafeInv, TypeInv, Settles, Discard, Swallow, Write
<1>1. /\ TidOf(n) \in Tids /\ n \in Numbers
      /\ \/ UNCHANGED sent
         \/ /\ pending[c][TidOf(n)] # 0
            /\ sent' = [sent EXCEPT ![c] = Append(@, ReplyFrame(m))]
  BY <1>0, SettlingReplies
<1>2. AsOpen' = AsOpen /\ AsAsked' = AsAsked
  BY <1>0 DEF AsOpen, AsAsked, KeysOf
<1>3. Unsettled' = [Unsettled EXCEPT ![c] = @ \ {n}]
  <2>1. /\ Unsettled = [d \in Clients |-> Unsettled[d]]
        /\ Unsettled' = [d \in Clients |-> Unsettled'[d]]
    BY DEF Unsettled
  <2>2. \A d \in Clients : d # c => n \notin Unsettled[d]
    BY <1>0, UnsettledTyped DEF ClientOf
  <2>3. \A d \in Clients : Unsettled'[d] = IF d = c THEN Unsettled[d] \ {n} ELSE Unsettled[d]
    BY <2>2
  <2>. HIDE DEF n
  <2>. QED BY <2>1, <2>3
<1>4. Service!Settle(c, n)
  BY <1>2, <1>3, ServiceActions
<1>5. CASE UNCHANGED sent
  <2>1. AsReplies' = AsReplies
    BY <1>5 DEF AsReplies, FramesOf
  <2>. QED BY <1>4, <2>1, ServiceActions
<1>6. CASE /\ pending[c][TidOf(n)] # 0
           /\ sent' = [sent EXCEPT ![c] = Append(@, ReplyFrame(m))]
  <2>1. AsOpen[c]
    BY <1>0, <1>1, <1>6 DEF SafeInv, OnlyServedPend, Serving, AsOpen
  <2>2. sent[c] \in Seq(Frames) /\ ReplyFrame(m) \in Frames
    BY <1>0, <1>1 DEF TypeOK, Frames, ReplyFrame, Response
  <2>3. FramesOf(Append(sent[c], ReplyFrame(m)))
           = Append(FramesOf(sent[c]), [tid |-> TidOf(n), n |-> n])
    <3>1. ReplyFrame(m).tid = TidOf(n) /\ ReplyFrame(m).n = n
      BY DEF ReplyFrame
    <3>. HIDE DEF n
    <3>. QED BY <2>2, <3>1, FramesAppend
  <2>4. AsAsked[n].tid = TidOf(n)
    <3>1. DOMAIN reqs = Numbers
      BY <1>0, LenProperties DEF TypeOK, Numbers
    <3>. QED BY <1>1, <3>1 DEF AsAsked, KeysOf, TidOf
  <2>5. AsReplies' = [AsReplies EXCEPT ![c] = Append(@, [tid |-> AsAsked[n].tid, n |-> n])]
    <3>1. /\ AsReplies = [d \in Clients |-> FramesOf(sent[d])]
          /\ AsReplies' = [d \in Clients |-> FramesOf(sent'[d])]
      BY DEF AsReplies, FramesOf
    <3>2. /\ sent'[c] = Append(sent[c], ReplyFrame(m))
          /\ \A d \in Clients : d # c => sent'[d] = sent[d]
      BY <1>0, <1>6 DEF TypeOK
    <3>. HIDE DEF n
    <3>. QED BY <2>3, <2>4, <3>1, <3>2
  <2>. HIDE DEF n
  <2>6. n \in Unsettled[c]
    BY DEF n
  <2>7. Service!Reply(c, n)
    <3>1. \A d \in Clients : \A k \in Unsettled[d] :
            Service!Reply(d, k) <=>
               /\ AsOpen[d]
               /\ Service!Settle(d, k)
               /\ AsReplies' = [AsReplies EXCEPT ![d] =
                                   Append(@, [tid |-> AsAsked[k].tid, n |-> k])]
      BY ServiceActions, Zenon
    <3>. QED BY <1>4, <2>1, <2>5, <2>6, <3>1, Zenon
  <2>. QED BY <2>7 DEF n
<1>. QED
  BY <1>1, <1>5, <1>6

\* The other steps close a connection, or do nothing a client is promised.
LEMMA OtherSteps ==
    ASSUME TypeInv, [Next]_vars, UNCHANGED <<reqs, sent>>,
           \A d \in Clients : Unsettled'[d] = Unsettled[d]
    PROVE  (\E c \in Clients : Service!Close(c)) \/ UNCHANGED Service!vars
<1>1. AsAsked' = AsAsked /\ AsReplies' = AsReplies
  BY DEF AsAsked, AsReplies, KeysOf, FramesOf
<1>2. Unsettled' = Unsettled
  <2>1. /\ Unsettled = [d \in Clients |-> Unsettled[d]]
        /\ Unsettled' = [d \in Clients |-> Unsettled'[d]]
    BY DEF Unsettled
  <2>. QED BY <2>1
<1>3. handler \in [Clients -> {"none", "refused", "reading", "putting", "closing", "done"}]
  BY DEF TypeInv, TypeOK
<1>4. ASSUME NEW c \in Clients, Cleanup(c) \/ Refuse(c) PROVE Service!Close(c)
  <2>1. /\ handler[c] \in {"none", "reading"}
        /\ \/ handler' = [handler EXCEPT ![c] = "closing"]
           \/ handler' = [handler EXCEPT ![c] = "refused"]
    BY <1>4 DEF TypeInv, HasHeld, Cleanup, Refuse
  <2>2. AsOpen[c] /\ AsOpen' = [AsOpen EXCEPT ![c] = FALSE]
    BY <1>3, <2>1 DEF AsOpen
  <2>. QED BY <1>1, <1>2, <2>2, ServiceActions
<1>5. ASSUME NEW c \in Clients, Connect(c) \/ Put(c) \/ Closed(c) PROVE AsOpen' = AsOpen
  <2>1. \/ /\ handler[c] \in {"none", "putting"}
           /\ handler' = [handler EXCEPT ![c] = "reading"]
        \/ /\ handler[c] = "closing"
           /\ handler' = [handler EXCEPT ![c] = "done"]
    BY <1>5 DEF TypeInv, HasHeld, Connect, Put, Closed
  <2>. QED BY <1>3, <2>1 DEF AsOpen
<1>6. ASSUME UNCHANGED handler PROVE AsOpen' = AsOpen
  BY <1>6 DEF AsOpen
<1>7. ASSUME NEW c \in Clients, NEW t \in Tids, NEW p \in Asks[c],
             ReadAndPublish(c, t, p) \/ ReadAndWait(c, t, p)
      PROVE  FALSE
  <2>1. TypeOK /\ Register(c, t, p)
    BY <1>7 DEF TypeInv, ReadAndPublish, ReadAndWait
  <2>2. Len(reqs') = Len(reqs) + 1 /\ Len(reqs) \in Nat
    BY <2>1, RegisterGrows
  <2>. QED BY <2>2
<1>8. (\E c \in Clients : Service!Close(c)) \/ AsOpen' = AsOpen
  BY <1>4, <1>5, <1>6, <1>7
     DEF Next, vars, dispVars, Peer, ClientEof, ClientGone, ClientRead, Handler,
         Dispatcher, Submit, Unroutable, Crash, Take, BackendReturns, BackendRaises,
         Respond, ResponseRouter, Discard, Swallow, Write, Drained, Finished
<1>. QED
  BY <1>1, <1>2, <1>8, ServiceActions

\* The gateway keeps the promise of GatewayService: every step of its tasks
\* asks, replies to or drops the oldest request of a connection, closes a
\* connection, or does nothing that a client is promised.
THEOREM GatewayImplementsService == Spec => ServiceIsProvided
<1>1. Init => Service!Init
  <2>. SUFFICES ASSUME Init PROVE Service!Init
    OBVIOUS
  <2>1. AsOpen = [c \in Clients |-> TRUE]
    BY DEF Init, AsOpen
  <2>2. AsAsked = <<>> /\ AsReplies = [c \in Clients |-> <<>>]
    <3>1. reqs = <<>> /\ \A c \in Clients : sent[c] = <<>>
      BY DEF Init
    <3>2. KeysOf(<<>>) = <<>> /\ FramesOf(<<>>) = <<>>
      BY DEF KeysOf, FramesOf
    <3>. QED BY <3>1, <3>2 DEF AsAsked, AsReplies
  <2>3. Unsettled = [c \in Clients |-> {}]
    <3>1. InFlight \subseteq {0}
      <4>1. Answering = <<>> /\ InService = <<>> /\ requests = <<>>
            /\ \A c \in Clients : held[c] = 0
        BY DEF Init, Answering, InService
      <4>2. DOMAIN Pipeline = {}
        BY <4>1 DEF Pipeline
      <4>. QED BY <4>1, <4>2 DEF InFlight
    <3>. QED BY <3>1 DEF Unsettled, Outstanding
  <2>. QED BY <2>1, <2>2, <2>3, ServiceActions
<1>2. FlowInv /\ [Next]_vars => [Service!Next]_(Service!vars)
  <2>. SUFFICES ASSUME FlowInv, [Next]_vars
                PROVE  Service!Next \/ UNCHANGED Service!vars
    OBVIOUS
  <2>0. TypeInv /\ InOrder
    BY DEF FlowInv, SafeInv
  <2>1. ASSUME NEW c \in Clients, NEW t \in Tids, NEW p \in Asks[c],
               ReadAndPublish(c, t, p) \/ ReadAndWait(c, t, p),
               \A d \in Clients :
                  Unsettled'[d] = IF d = c THEN Unsettled[d] \cup {Len(reqs) + 1}
                                  ELSE Unsettled[d]
        PROVE  Service!Next
    BY <2>1, RegisterAsks, ServiceActions
  <2>2. ASSUME NEW m \in Response, Settles(m), ClientOf(m.n) \in Clients,
               m.n \in Unsettled[ClientOf(m.n)],
               \A k \in Unsettled[ClientOf(m.n)] : m.n <= k,
               \A d \in Clients : Unsettled'[d] = Unsettled[d] \ {m.n}
        PROVE  Service!Next
    <3>. PICK c \in Clients : c = ClientOf(m.n)
      BY <2>2
    <3>1. Service!Reply(c, m.n) \/ Service!Drop(c, m.n)
      BY <2>2, SettlingSettles
    <3>2. (\E b \in Clients : \E n \in Unsettled[b] :
              Service!Reply(b, n) \/ Service!Drop(b, n)) => Service!Next
      BY ServiceActions, Zenon
    <3>. QED BY <2>2, <3>1, <3>2, Zenon
  <2>3. ASSUME UNCHANGED <<reqs, sent>>, \A d \in Clients : Unsettled'[d] = Unsettled[d]
        PROVE  Service!Next \/ UNCHANGED Service!vars
    BY <2>0, <2>3, OtherSteps, ServiceActions
  <2>. QED BY <2>0, <2>1, <2>2, <2>3, Flow
<1>. QED
  BY <1>1, <1>2, FlowInvariant, PTL DEF Spec, ServiceIsProvided, Service!Spec

-----------------------------------------------------------------------------
(* The clients of a Unix frontend. *)

Seating == [f \in UnixFrontends |-> Seated(f)]

SeatInv ==
    /\ TypeInv
    /\ \A f \in UnixFrontends : /\ IsFiniteSet(Seating[f])
                                /\ seats[f] = Cardinality(Seating[f])
                                /\ seats[f] <= MaxClients[f]

\* A step seats one more client, lets one go, or leaves the counts alone.
LEMMA SeatingChanges ==
    ASSUME TypeInv, [Next]_vars
    PROVE  \/ \E c \in Clients :
                 /\ FrontendOf[c] \in UnixFrontends /\ c \notin Seating[FrontendOf[c]]
                 /\ seats[FrontendOf[c]] < MaxClients[FrontendOf[c]]
                 /\ seats' = [seats EXCEPT ![FrontendOf[c]] = @ + 1]
                 /\ \A f \in UnixFrontends :
                       Seating'[f] = IF f = FrontendOf[c] THEN Seating[f] \cup {c}
                                     ELSE Seating[f]
           \/ \E c \in Clients :
                 /\ FrontendOf[c] \in UnixFrontends /\ c \in Seating[FrontendOf[c]]
                 /\ seats' = [seats EXCEPT ![FrontendOf[c]] = @ + (-1)]
                 /\ \A f \in UnixFrontends :
                       Seating'[f] = IF f = FrontendOf[c] THEN Seating[f] \ {c}
                                     ELSE Seating[f]
           \/ /\ UNCHANGED seats
              /\ \A f \in UnixFrontends : Seating'[f] = Seating[f]
<1>. DEFINE In == {"reading", "putting", "closing"}
<1>0. handler \in [Clients -> {"none", "refused", "reading", "putting", "closing", "done"}]
  BY DEF TypeInv, TypeOK
<1>1. \A f \in UnixFrontends :
        /\ Seating[f] = {c \in Clients : FrontendOf[c] = f /\ handler[c] \in In}
        /\ Seating'[f] = {c \in Clients : FrontendOf[c] = f /\ handler'[c] \in In}
  BY DEF Seating, Seated
<1>2. ASSUME NEW c \in Clients, Connect(c), FrontendOf[c] \in UnixFrontends
      PROVE  /\ c \notin Seating[FrontendOf[c]]
             /\ seats[FrontendOf[c]] < MaxClients[FrontendOf[c]]
             /\ seats' = [seats EXCEPT ![FrontendOf[c]] = @ + 1]
             /\ \A f \in UnixFrontends :
                   Seating'[f] = IF f = FrontendOf[c] THEN Seating[f] \cup {c}
                                 ELSE Seating[f]
  <2>1. /\ handler[c] = "none" /\ handler' = [handler EXCEPT ![c] = "reading"]
        /\ seats[FrontendOf[c]] < MaxClients[FrontendOf[c]]
        /\ seats' = [seats EXCEPT ![FrontendOf[c]] = @ + 1]
    BY <1>2, GatewayAssumption DEF TypeInv, HasHeld, Connect, Admits, Seat
  <2>2. /\ handler[c] \notin In /\ handler'[c] \in In
        /\ \A d \in Clients : d # c => handler'[d] = handler[d]
    BY <1>0, <2>1
  <2>. HIDE DEF In
  <2>3. ASSUME NEW f \in UnixFrontends
        PROVE  Seating'[f] = IF f = FrontendOf[c] THEN Seating[f] \cup {c} ELSE Seating[f]
    <3>1. \A d \in Clients :
            FrontendOf[d] = f /\ handler'[d] \in In
               <=> IF f = FrontendOf[c] /\ d = c THEN TRUE
                   ELSE FrontendOf[d] = f /\ handler[d] \in In
      BY <2>2
    <3>2. /\ Seating[f] = {d \in Clients : FrontendOf[d] = f /\ handler[d] \in In}
          /\ Seating'[f] = {d \in Clients : FrontendOf[d] = f /\ handler'[d] \in In}
      BY <1>1
    <3>3. CASE f = FrontendOf[c]
      <4>1. Seating'[f] = Seating[f] \cup {c}
        BY <3>1, <3>2, <3>3
      <4>. QED BY <3>3, <4>1
    <3>4. CASE f # FrontendOf[c]
      <4>1. Seating'[f] = Seating[f]
        BY <3>1, <3>2, <3>4
      <4>. QED BY <3>4, <4>1
    <3>. QED BY <3>3, <3>4
  <2>4. c \notin Seating[FrontendOf[c]]
    BY <1>1, <1>2, <2>2
  <2>. QED BY <1>2, <2>1, <2>3, <2>4
<1>3. ASSUME NEW c \in Clients, Closed(c), FrontendOf[c] \in UnixFrontends
      PROVE  /\ c \in Seating[FrontendOf[c]]
             /\ seats' = [seats EXCEPT ![FrontendOf[c]] = @ + (-1)]
             /\ \A f \in UnixFrontends :
                   Seating'[f] = IF f = FrontendOf[c] THEN Seating[f] \ {c}
                                 ELSE Seating[f]
  <2>1. /\ handler[c] = "closing" /\ handler' = [handler EXCEPT ![c] = "done"]
        /\ seats' = [seats EXCEPT ![FrontendOf[c]] = @ + (-1)]
    BY <1>3 DEF Closed, Seat
  <2>2. /\ handler[c] \in In /\ handler'[c] \notin In
        /\ \A d \in Clients : d # c => handler'[d] = handler[d]
    BY <1>0, <2>1
  <2>. HIDE DEF In
  <2>3. ASSUME NEW f \in UnixFrontends
        PROVE  Seating'[f] = IF f = FrontendOf[c] THEN Seating[f] \ {c} ELSE Seating[f]
    <3>1. \A d \in Clients :
            FrontendOf[d] = f /\ handler'[d] \in In
               <=> IF f = FrontendOf[c] /\ d = c THEN FALSE
                   ELSE FrontendOf[d] = f /\ handler[d] \in In
      BY <2>2
    <3>2. /\ Seating[f] = {d \in Clients : FrontendOf[d] = f /\ handler[d] \in In}
          /\ Seating'[f] = {d \in Clients : FrontendOf[d] = f /\ handler'[d] \in In}
      BY <1>1
    <3>3. CASE f = FrontendOf[c]
      <4>1. Seating'[f] = Seating[f] \ {c}
        BY <3>1, <3>2, <3>3
      <4>. QED BY <3>3, <4>1
    <3>4. CASE f # FrontendOf[c]
      <4>1. Seating'[f] = Seating[f]
        BY <3>1, <3>2, <3>4
      <4>. QED BY <3>4, <4>1
    <3>. QED BY <3>3, <3>4
  <2>4. c \in Seating[FrontendOf[c]]
    BY <1>1, <1>3, <2>2
  <2>. QED BY <1>3, <2>1, <2>3, <2>4
<1>4. ASSUME UNCHANGED seats,
             \A c \in Clients : FrontendOf[c] \in UnixFrontends =>
                                   (handler'[c] \in In <=> handler[c] \in In)
      PROVE  UNCHANGED seats /\ \A f \in UnixFrontends : Seating'[f] = Seating[f]
  <2>. HIDE DEF In
  <2>1. ASSUME NEW f \in UnixFrontends PROVE Seating'[f] = Seating[f]
    <3>1. /\ Seating[f] = {d \in Clients : FrontendOf[d] = f /\ handler[d] \in In}
          /\ Seating'[f] = {d \in Clients : FrontendOf[d] = f /\ handler'[d] \in In}
      BY <1>1
    <3>2. \A d \in Clients : FrontendOf[d] = f => (handler'[d] \in In <=> handler[d] \in In)
      BY <1>4
    <3>. QED BY <3>1, <3>2
  <2>. QED BY <1>4, <2>1
<1>5. ASSUME NEW c \in Clients,
             \/ (Connect(c) \/ Closed(c)) /\ FrontendOf[c] \notin UnixFrontends
             \/ Refuse(c) \/ Put(c) \/ Cleanup(c)
             \/ \E t \in Tids, p \in Asks[c] : ReadAndPublish(c, t, p) \/ ReadAndWait(c, t, p)
      PROVE  /\ UNCHANGED seats
             /\ \A d \in Clients : FrontendOf[d] \in UnixFrontends =>
                                      (handler'[d] \in In <=> handler[d] \in In)
  <2>1. CASE (Connect(c) \/ Closed(c)) /\ FrontendOf[c] \notin UnixFrontends
    BY <1>0, <2>1 DEF Connect, Closed, Seat
  <2>2. CASE Refuse(c) \/ Put(c) \/ Cleanup(c)
    <3>1. client[c] = "none" => handler[c] = "none"
      BY DEF TypeInv, HasHeld
    <3>. QED BY <1>0, <2>2, <3>1 DEF Refuse, Put, Cleanup
  <2>3. CASE \E t \in Tids, p \in Asks[c] : ReadAndPublish(c, t, p) \/ ReadAndWait(c, t, p)
    BY <1>0, <2>3 DEF ReadAndPublish, ReadAndWait, Register
  <2>. QED BY <1>5, <2>1, <2>2, <2>3
<1>6. \/ \E c \in Clients : Connect(c) \/ Closed(c)
      \/ \E c \in Clients :
            \/ Refuse(c) \/ Put(c) \/ Cleanup(c)
            \/ \E t \in Tids, p \in Asks[c] : ReadAndPublish(c, t, p) \/ ReadAndWait(c, t, p)
      \/ UNCHANGED <<handler, seats>>
  BY DEF Next, vars, dispVars, Peer, ClientEof, ClientGone, ClientRead, Handler,
         Dispatcher, Submit, Unroutable, Crash, Take, BackendReturns, BackendRaises,
         Respond, ResponseRouter, Discard, Swallow, Write, Drained, Finished
<1>7. CASE UNCHANGED <<handler, seats>>
  BY <1>4, <1>7
<1>. QED
  BY <1>2, <1>3, <1>4, <1>5, <1>6, <1>7

\* A Unix frontend counts exactly the connections whose handler has not ended,
\* and never seats more than max_clients, over any number of connections.
THEOREM SeatsAreCounted == Spec => []SeatsAreTaken
<1>1. Init => SeatInv
  <2>. SUFFICES ASSUME Init PROVE SeatInv
    OBVIOUS
  <2>1. \A f \in UnixFrontends : Seating[f] = {} /\ seats[f] = 0
    BY DEF Init, Seating, Seated
  <2>. QED BY <2>1, TypeInit, FS_EmptySet, GatewayAssumption DEF SeatInv
<1>2. SeatInv /\ [Next]_vars => SeatInv'
  <2>. SUFFICES ASSUME SeatInv, [Next]_vars PROVE SeatInv'
    OBVIOUS
  <2>0. TypeInv /\ TypeInv' /\ seats \in [UnixFrontends -> Int]
    BY TypeStep DEF SeatInv, TypeInv, TypeOK
  <2>1. \A f \in UnixFrontends :
           /\ IsFiniteSet(Seating[f]) /\ seats[f] = Cardinality(Seating[f])
           /\ seats[f] <= MaxClients[f] /\ MaxClients[f] \in Nat /\ seats[f] \in Int
    BY <2>0, GatewayAssumption DEF SeatInv
  <2>2. ASSUME NEW c \in Clients, NEW g \in UnixFrontends, c \notin Seating[g],
               seats[g] < MaxClients[g],
               seats' = [seats EXCEPT ![g] = @ + 1],
               \A f \in UnixFrontends :
                  Seating'[f] = IF f = g THEN Seating[f] \cup {c} ELSE Seating[f]
        PROVE  SeatInv'
    <3>1. /\ IsFiniteSet(Seating[g] \cup {c})
          /\ Cardinality(Seating[g] \cup {c}) = Cardinality(Seating[g]) + 1
      BY <2>1, <2>2, FS_AddElement
    <3>2. seats'[g] = seats[g] + 1 /\ \A f \in UnixFrontends : f # g => seats'[f] = seats[f]
      BY <2>0, <2>2
    <3>3. ASSUME NEW f \in UnixFrontends
          PROVE  /\ IsFiniteSet(Seating'[f]) /\ seats'[f] = Cardinality(Seating'[f])
                 /\ seats'[f] <= MaxClients[f]
      <4>1. CASE f = g
        <5>1. Seating'[f] = Seating[g] \cup {c}
          BY <2>2, <4>1
        <5>2. seats[g] + 1 <= MaxClients[g]
          BY <2>1, <2>2
        <5>. QED BY <2>1, <2>2, <3>1, <3>2, <4>1, <5>1, <5>2
      <4>2. CASE f # g
        BY <2>1, <2>2, <3>2, <4>2
      <4>. QED BY <4>1, <4>2
    <3>. QED BY <2>0, <3>3 DEF SeatInv
  <2>3. ASSUME NEW c \in Clients, NEW g \in UnixFrontends, c \in Seating[g],
               seats' = [seats EXCEPT ![g] = @ + (-1)],
               \A f \in UnixFrontends :
                  Seating'[f] = IF f = g THEN Seating[f] \ {c} ELSE Seating[f]
        PROVE  SeatInv'
    <3>1. /\ IsFiniteSet(Seating[g] \ {c})
          /\ Cardinality(Seating[g] \ {c}) = Cardinality(Seating[g]) - 1
      BY <2>1, <2>3, FS_RemoveElement
    <3>2. seats'[g] = seats[g] - 1 /\ \A f \in UnixFrontends : f # g => seats'[f] = seats[f]
      BY <2>0, <2>1, <2>3
    <3>3. ASSUME NEW f \in UnixFrontends
          PROVE  /\ IsFiniteSet(Seating'[f]) /\ seats'[f] = Cardinality(Seating'[f])
                 /\ seats'[f] <= MaxClients[f]
      <4>1. CASE f = g
        <5>1. Seating'[f] = Seating[g] \ {c}
          BY <2>3, <4>1
        <5>2. seats[g] - 1 <= MaxClients[g]
          BY <2>1, <2>3
        <5>. QED BY <2>1, <2>3, <3>1, <3>2, <4>1, <5>1, <5>2
      <4>2. CASE f # g
        BY <2>1, <2>3, <3>2, <4>2
      <4>. QED BY <4>1, <4>2
    <3>. QED BY <2>0, <3>3 DEF SeatInv
  <2>4. ASSUME UNCHANGED seats, \A f \in UnixFrontends : Seating'[f] = Seating[f]
        PROVE  SeatInv'
    BY <2>0, <2>1, <2>4 DEF SeatInv
  <2>5. ASSUME NEW c \in Clients, FrontendOf[c] \in UnixFrontends,
               c \notin Seating[FrontendOf[c]],
               seats[FrontendOf[c]] < MaxClients[FrontendOf[c]],
               seats' = [seats EXCEPT ![FrontendOf[c]] = @ + 1],
               \A f \in UnixFrontends :
                  Seating'[f] = IF f = FrontendOf[c] THEN Seating[f] \cup {c} ELSE Seating[f]
        PROVE  SeatInv'
    BY <2>2, <2>5
  <2>6. ASSUME NEW c \in Clients, FrontendOf[c] \in UnixFrontends,
               c \in Seating[FrontendOf[c]],
               seats' = [seats EXCEPT ![FrontendOf[c]] = @ + (-1)],
               \A f \in UnixFrontends :
                  Seating'[f] = IF f = FrontendOf[c] THEN Seating[f] \ {c} ELSE Seating[f]
        PROVE  SeatInv'
    BY <2>3, <2>6
  <2>. QED BY <2>0, <2>4, <2>5, <2>6, SeatingChanges
<1>3. SeatInv => SeatsAreTaken
  BY DEF SeatInv, SeatsAreTaken, Seating
<1>. QED
  BY <1>1, <1>2, <1>3, PTL DEF Spec

=============================================================================
