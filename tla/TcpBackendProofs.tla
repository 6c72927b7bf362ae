-------------------------- MODULE TcpBackendProofs --------------------------
(***************************************************************************)
(* The pool of a TCP backend: never more than pool_size connections, each  *)
(* with one call or in the pool, for any number of callers.                *)
(* BackendContract is kept for one caller, as the dispatcher is, although  *)
(* transaction ids come around, and for many callers while they do not.    *)
(***************************************************************************)
EXTENDS TcpBackend, SequenceTheorems, FiniteSetTheorems, TLAPS

Busy == {t \in Tasks : task[t].at # "idle"}

\* A call that has not ended is that of one task.
Calls ==
    /\ \A t \in Busy : task[t].n \in DOMAIN result /\ result[task[t].n] = Pending
    /\ \A t, u \in Busy : task[t].n = task[u].n => t = u

\* The lock lets one task connect at a time.
OneConnects == \A t, u \in At("connecting") : t = u

\* Connections are in use, or in the pool; only a cancelled call leaves one that
\* is neither.
Accounted ==
    /\ InUse \subseteq connections
    /\ \A t, u \in At("exchanging") : task[t].conn = task[u].conn => t = u
    /\ IsInjective(available)
    /\ Range(available) \subseteq connections \ InUse
    /\ phase = "running" => connections = InUse \cup Range(available)

PoolInv ==
    /\ PoolIsBounded /\ IsFiniteSet(connections) /\ OneConnects
    /\ Accounted
    /\ phase = "closed" => connections = {} /\ Busy = {}

IInv == TypeOK /\ Calls /\ PoolInv

\* One caller: what the connection it may use can still bring.
Current(t) == [tx |-> task[t].tx, n |-> task[t].n]

\* Nothing is asked, and what may have come twice has the last id.
Spent(c) ==
    /\ sock[c].inbox = <<>>
    /\ \A i \in DOMAIN sock[c].wire : sock[c].wire[i].tx = counter

\* The request is not answered, or only answers to it are there, or an older one
\* comes first, which does not match.
Awaiting(t, c) ==
    \/ /\ sock[c].inbox = <<Current(t)>>
       /\ \A i \in DOMAIN sock[c].wire : sock[c].wire[i].tx # task[t].tx
    \/ /\ sock[c].inbox = <<>>
       /\ \A i \in DOMAIN sock[c].wire : sock[c].wire[i] = Current(t)
    \/ /\ sock[c].inbox = <<>> /\ sock[c].wire # <<>>
       /\ sock[c].wire[1].tx # task[t].tx

Alone(t) ==
    /\ task[t].at \in {"idle", "connecting", "exchanging"}
    /\ task[t].at = "idle" => Len(available) <= 1
    /\ task[t].at # "idle" => available = <<>>
    /\ task[t].at = "exchanging" => task[t].tx = counter /\ Awaiting(t, task[t].conn)
    /\ \A i \in DOMAIN available : Spent(available[i])

OneCall == \A t \in Tasks : Alone(t)

\* The dispatcher is the one task that calls submit(), and ids are many.
OneCaller == (\E t : Tasks = {t}) /\ TxMod # 2

\* Types, for a log of k calls.
Frames(k) == [tx : 0 .. TxMod - 1, n : 1 .. k]
Sockets(k) == [open : BOOLEAN, inbox : Seq(Frames(k)), wire : Seq(Frames(k))]
Outcomes(k) == [kind : {"pending", "raised", "answer"}, to : 0 .. k]

TypedFor(k) ==
    /\ task \in [Tasks -> [at : {"idle", "locking", "connecting", "waiting", "exchanging"},
                           n : 0 .. k, conn : 0 .. Len(sock), tx : 0 .. TxMod - 1]]
    /\ available \in Seq(1 .. Len(sock))
    /\ connections \subseteq 1 .. Len(sock)
    /\ total \in Nat
    /\ counter \in 0 .. TxMod - 1
    /\ sock \in Seq(Sockets(k))
    /\ phase \in {"running", "stopping", "closed"}

-----------------------------------------------------------------------------
(* Types. *)

LEMMA TypeOKIs ==
    TypeOK <=> result \in Seq(Outcomes(Len(result))) /\ TypedFor(Len(result))
<1>1. ASSUME NEW S, result \in Seq(S)
      PROVE  DOMAIN result = 1 .. Len(result)
  BY <1>1, LenProperties
<1>2. ASSUME NEW S, sock \in Seq(S)
      PROVE  DOMAIN sock = 1 .. Len(sock)
  BY <1>2, LenProperties
<1>3. ASSUME TypeOK PROVE result \in Seq(Outcomes(Len(result))) /\ TypedFor(Len(result))
  <2>1. DOMAIN result = 1 .. Len(result) /\ DOMAIN sock = 1 .. Len(sock)
    BY <1>1, <1>2, <1>3 DEF TypeOK
  <2>. QED
    BY <1>3, <2>1 DEF TypeOK, TypedFor, Outcomes, Sockets, Frames, Socket, Frame
<1>4. ASSUME result \in Seq(Outcomes(Len(result))), TypedFor(Len(result)) PROVE TypeOK
  <2>1. DOMAIN result = 1 .. Len(result) /\ DOMAIN sock = 1 .. Len(sock)
    BY <1>1, <1>2, <1>4 DEF TypedFor
  <2>. QED
    BY <1>4, <2>1 DEF TypeOK, TypedFor, Outcomes, Sockets, Frames, Socket, Frame
<1>. QED
  BY <1>3, <1>4

\* Lengths and domains.
LEMMA LogAndSockets ==
    ASSUME TypeOK
    PROVE  /\ Len(result) \in Nat /\ DOMAIN result = 1 .. Len(result)
           /\ Len(sock) \in Nat /\ DOMAIN sock = 1 .. Len(sock)
           /\ result \in Seq(Outcomes(Len(result))) /\ TypedFor(Len(result))
BY TypeOKIs, LenProperties DEF TypedFor

\* What was typed before a call still is.
LEMMA CallTyped ==
    ASSUME TypeOK, NEW t \in Tasks, Call(t)
    PROVE  /\ Len(result') = Len(result) + 1
           /\ result' \in Seq(Outcomes(Len(result) + 1))
           /\ TypedFor(Len(result) + 1)
           /\ DOMAIN result' = DOMAIN result \cup {Len(result) + 1}
           /\ Len(result) + 1 \notin DOMAIN result
           /\ result'[Len(result) + 1] = Pending
           /\ \A n \in DOMAIN result : result'[n] = result[n]
<1>. DEFINE k == Len(result)
<1>1. k \in Nat /\ DOMAIN result = 1 .. k /\ result \in Seq(Outcomes(k)) /\ TypedFor(k)
  BY LogAndSockets
<1>2. Outcomes(k) \subseteq Outcomes(k + 1) /\ Frames(k) \subseteq Frames(k + 1)
      /\ Pending \in Outcomes(k + 1)
  BY <1>1 DEF Outcomes, Frames, Pending
<1>3. result \in Seq(Outcomes(k + 1))
  BY <1>1, <1>2, SeqMonotonic
<1>4. result' = Append(result, Pending)
  BY DEF Call
<1>5. Sockets(k) \subseteq Sockets(k + 1)
  <2>1. Seq(Frames(k)) \subseteq Seq(Frames(k + 1))
    BY <1>2, SeqMonotonic
  <2>. QED BY <2>1 DEF Sockets
<1>6. sock \in Seq(Sockets(k + 1))
  BY <1>1, <1>5, SeqMonotonic DEF TypedFor
<1>7. 0 .. k \subseteq 0 .. k + 1
  BY <1>1
<1>8. TypedFor(k + 1)
  BY <1>1, <1>6, <1>7 DEF TypedFor
<1>. QED
  BY <1>1, <1>2, <1>3, <1>4, <1>8, AppendProperties

\* An id is not the one before it, unless there are but two.
LEMMA NextTxTyped ==
    ASSUME counter \in 0 .. TxMod - 1
    PROVE  NextTx \in 0 .. TxMod - 1 /\ (TxMod # 2 => NextTx # counter)
BY TcpBackendAssumption DEF NextTx

\* A socket may be replaced by another.
LEMMA SocketReplaced ==
    ASSUME NEW k \in Nat, sock \in Seq(Sockets(k)), NEW c \in 1 .. Len(sock),
           NEW x \in Sockets(k), sock' = [sock EXCEPT ![c] = x]
    PROVE  /\ sock' \in Seq(Sockets(k)) /\ Len(sock') = Len(sock)
           /\ DOMAIN sock = 1 .. Len(sock) /\ DOMAIN sock' = DOMAIN sock
           /\ \A d \in DOMAIN sock : sock'[d] = IF d = c THEN x ELSE sock[d]
           /\ Opened' = IF x.open THEN Opened \cup {c} ELSE Opened \ {c}
<1>1. /\ sock' \in Seq(Sockets(k)) /\ Len(sock') = Len(sock)
      /\ DOMAIN sock = 1 .. Len(sock) /\ DOMAIN sock' = 1 .. Len(sock')
      /\ \A d \in 1 .. Len(sock) : sock'[d] = IF d = c THEN x ELSE sock[d]
  BY ExceptSeq, LenProperties
<1>. QED
  BY <1>1 DEF Opened

\* A socket with another inbox, or another wire.
LEMMA SocketFields ==
    ASSUME NEW k \in Nat, NEW s \in Sockets(k), NEW v
    PROVE  /\ [s EXCEPT !.inbox = v] = [open |-> s.open, inbox |-> v, wire |-> s.wire]
           /\ [s EXCEPT !.wire = v] = [open |-> s.open, inbox |-> s.inbox, wire |-> v]
BY DEF Sockets

\* The frames and flags of a socket.
LEMMA SocketTyped ==
    ASSUME NEW k \in Nat, sock \in Seq(Sockets(k)), NEW c \in 1 .. Len(sock)
    PROVE  /\ sock[c].inbox \in Seq(Frames(k)) /\ sock[c].wire \in Seq(Frames(k))
           /\ sock[c].open \in BOOLEAN
           /\ sock[c] = [open |-> sock[c].open, inbox |-> sock[c].inbox,
                         wire |-> sock[c].wire]
<1>1. sock[c] \in Sockets(k)
  BY ElementOfSeq
<1>. QED
  BY <1>1 DEF Sockets

\* The pool, when a connection is taken and when one is put back.
LEMMA PoolTaken ==
    ASSUME NEW S, available \in Seq(S), available # <<>>, available' = Tail(available)
    PROVE  /\ Head(available) \in S /\ available' \in Seq(S)
           /\ Len(available) \in Nat \ {0} /\ Len(available') = Len(available) - 1
           /\ Range(available) = {Head(available)} \cup Range(available')
           /\ IsInjective(available) =>
                 IsInjective(available') /\ Head(available) \notin Range(available')
<1>1. /\ DOMAIN available = 1 .. Len(available) /\ Len(available) \in Nat \ {0}
      /\ DOMAIN available' = 1 .. Len(available) - 1
      /\ \A i \in 1 .. Len(available) - 1 : available'[i] = available[i + 1]
      /\ Head(available) = available[1]
      /\ Head(available) \in S /\ available' \in Seq(S)
      /\ Len(available') = Len(available) - 1
  BY LenProperties, EmptySeq, HeadTailProperties
<1>2. ASSUME NEW i \in 1 .. Len(available)
      PROVE  available[i] \in {Head(available)} \cup Range(available')
  <2>1. CASE i = 1
    BY <1>1, <2>1
  <2>2. CASE i # 1
    <3>1. i - 1 \in 1 .. Len(available) - 1 /\ available'[i - 1] = available[i]
      BY <1>1, <2>2
    <3>. QED BY <1>1, <3>1 DEF Range
  <2>. QED BY <2>1, <2>2
<1>3. Range(available) \subseteq {Head(available)} \cup Range(available')
  BY <1>1, <1>2 DEF Range
<1>4. Range(available') \subseteq Range(available) /\ Head(available) \in Range(available)
  BY <1>1 DEF Range
<1>5. IsInjective(available) =>
         IsInjective(available') /\ Head(available) \notin Range(available')
  BY <1>1 DEF Range, IsInjective
<1>. QED
  BY <1>1, <1>3, <1>4, <1>5

LEMMA PoolReleased ==
    ASSUME NEW S, available \in Seq(S), NEW c \in S, Release(c)
    PROVE  /\ available' \in Seq(S) /\ Len(available') = Len(available) + 1
           /\ available'[Len(available) + 1] = c
           /\ Range(available') = Range(available) \cup {c}
           /\ IsInjective(available) /\ c \notin Range(available) => IsInjective(available')
<1>1. /\ DOMAIN available = 1 .. Len(available) /\ Len(available) \in Nat
      /\ DOMAIN available' = 1 .. Len(available) + 1
      /\ \A i \in 1 .. Len(available) : available'[i] = available[i]
      /\ available'[Len(available) + 1] = c
      /\ available' \in Seq(S) /\ Len(available') = Len(available) + 1
  BY LenProperties, AppendProperties DEF Release
<1>2. Range(available') = Range(available) \cup {c}
  BY <1>1 DEF Range
<1>3. IsInjective(available) /\ c \notin Range(available) => IsInjective(available')
  BY <1>1 DEF Range, IsInjective
<1>. QED
  BY <1>1, <1>2, <1>3

-----------------------------------------------------------------------------
(* The ways a call goes on, for a log of k calls. *)

Took(t, n, c, f) ==
    /\ task' = [task EXCEPT ![t] = [at |-> "exchanging", n |-> n, conn |-> c, tx |-> f.tx]]
    /\ f = [tx |-> NextTx, n |-> n] /\ counter' = NextTx
    /\ DOMAIN sock' = DOMAIN sock /\ c \in DOMAIN sock
    /\ sock'[c] = [open |-> sock[c].open, inbox |-> Append(sock[c].inbox, f),
                   wire |-> sock[c].wire]
    /\ \A d \in DOMAIN sock : d # c => sock'[d] = sock[d]

\* A pooled connection is taken, and the request written to it.
LEMMA SendTyped ==
    ASSUME NEW k \in Nat, TypedFor(k), NEW t \in Tasks, NEW n \in 1 .. k,
           SendPooled(t, n)
    PROVE  /\ TypedFor(k)' /\ Opened' = Opened
           /\ Took(t, n, Head(available), [tx |-> NextTx, n |-> n])
<1>. DEFINE c == Head(available)
            f == [tx |-> NextTx, n |-> n]
            x == [open |-> sock[c].open, inbox |-> Append(sock[c].inbox, f),
                  wire |-> sock[c].wire]
<1>1. /\ available # <<>> /\ available' = Tail(available)
      /\ UNCHANGED <<connections, total, phase>>
      /\ counter' = NextTx
      /\ task' = [task EXCEPT ![t] =
                    [at |-> "exchanging", n |-> n, conn |-> c, tx |-> NextTx]]
      /\ sock' = [sock EXCEPT ![c].inbox = Append(@, f)]
  BY DEF SendPooled, Send
<1>2. c \in 1 .. Len(sock) /\ available' \in Seq(1 .. Len(sock))
  BY <1>1, HeadTailProperties DEF TypedFor
<1>3. NextTx \in 0 .. TxMod - 1
  BY NextTxTyped DEF TypedFor
<1>4. f \in Frames(k)
  BY <1>3 DEF Frames
<1>5. x \in Sockets(k)
  <2>1. Append(sock[c].inbox, f) \in Seq(Frames(k))
    BY <1>2, <1>4, SocketTyped, AppendProperties DEF TypedFor
  <2>. QED BY <1>2, <2>1, SocketTyped DEF TypedFor, Sockets
<1>6. sock' = [sock EXCEPT ![c] = x]
  <2>1. sock[c] \in Sockets(k)
    BY <1>2, ElementOfSeq DEF TypedFor
  <2>2. [sock[c] EXCEPT !.inbox = Append(sock[c].inbox, f)] = x
    BY <2>1, SocketFields
  <2>. QED BY <1>1, <2>2
<1>7. /\ sock' \in Seq(Sockets(k)) /\ Len(sock') = Len(sock)
      /\ DOMAIN sock = 1 .. Len(sock) /\ DOMAIN sock' = DOMAIN sock
      /\ \A d \in DOMAIN sock : sock'[d] = IF d = c THEN x ELSE sock[d]
      /\ Opened' = IF x.open THEN Opened \cup {c} ELSE Opened \ {c}
  BY <1>2, <1>5, <1>6, SocketReplaced DEF TypedFor
<1>8. Opened' = Opened
  BY <1>2, <1>7 DEF Opened
<1>9. task' \in [Tasks -> [at : {"idle", "locking", "connecting", "waiting", "exchanging"},
                           n : 0 .. k, conn : 0 .. Len(sock'), tx : 0 .. TxMod - 1]]
  BY <1>1, <1>2, <1>3, <1>7 DEF TypedFor
<1>10. TypedFor(k)'
  BY <1>1, <1>2, <1>3, <1>7, <1>9 DEF TypedFor
<1>. QED
  BY <1>1, <1>2, <1>7, <1>8, <1>10 DEF Took

LEMMA PauseTyped ==
    ASSUME NEW k \in Nat, TypedFor(k), NEW t \in Tasks, NEW n \in 1 .. k,
           NEW place \in {"locking", "connecting", "waiting"}, Pause(t, n, place)
    PROVE  TypedFor(k)'
<1>1. 0 \in 0 .. TxMod - 1 /\ 0 \in 0 .. Len(sock) /\ Len(sock) \in Nat
  BY TcpBackendAssumption, LenProperties DEF TypedFor
<1>2. task' \in [Tasks -> [at : {"idle", "locking", "connecting", "waiting", "exchanging"},
                           n : 0 .. k, conn : 0 .. Len(sock), tx : 0 .. TxMod - 1]]
  BY <1>1 DEF TypedFor, Pause
<1>. QED
  BY <1>2 DEF TypedFor, Pause

\* A task that ends its call.
LEMMA IdleTyped ==
    ASSUME NEW k \in Nat, TypedFor(k), NEW t \in Tasks,
           task' = [task EXCEPT ![t] = Idle]
    PROVE  task' \in [Tasks -> [at : {"idle", "locking", "connecting", "waiting",
                                      "exchanging"},
                                n : 0 .. k, conn : 0 .. Len(sock), tx : 0 .. TxMod - 1]]
<1>1. 0 \in 0 .. TxMod - 1 /\ 0 \in 0 .. Len(sock)
  BY TcpBackendAssumption, LenProperties DEF TypedFor
<1>. QED
  BY <1>1 DEF TypedFor, Idle

\* Where the other tasks are.
LEMMA OthersStay ==
    ASSUME NEW t \in Tasks, \A u \in Tasks : u # t => task'[u] = task[u]
    PROVE  /\ At("connecting")' = IF task'[t].at = "connecting" THEN At("connecting") \cup {t}
                                  ELSE At("connecting") \ {t}
           /\ At("exchanging")' = IF task'[t].at = "exchanging" THEN At("exchanging") \cup {t}
                                  ELSE At("exchanging") \ {t}
BY DEF At

LEMMA TypeOKNext ==
    ASSUME NEW k \in Nat, Len(result') = k, result' \in Seq(Outcomes(k)), TypedFor(k)'
    PROVE  TypeOK'
<1>1. (result \in Seq(Outcomes(Len(result))) /\ TypedFor(Len(result)))'
  BY DEF TypedFor
<1>2. (TypeOK <=> result \in Seq(Outcomes(Len(result))) /\ TypedFor(Len(result)))'
  BY TypeOKIs, PTL
<1>. QED
  BY <1>1, <1>2

\* A call ends, or none does.
LEMMA EndTyped ==
    ASSUME NEW k \in Nat, Len(result) = k, result \in Seq(Outcomes(k)),
           NEW n \in 1 .. k, NEW outcome \in Outcomes(k),
           result' = [result EXCEPT ![n] = outcome]
    PROVE  /\ result' \in Seq(Outcomes(k)) /\ Len(result') = k
           /\ DOMAIN result' = 1 .. k /\ DOMAIN result = 1 .. k
           /\ \A m \in 1 .. k : result'[m] = IF m = n THEN outcome ELSE result[m]
BY ExceptSeq, LenProperties

\* The ways to go past the lock, for a log of k calls.
LEMMA PastLockTyped ==
    ASSUME NEW k \in Nat, TypedFor(k), NEW t \in Tasks, NEW n \in 1 .. k,
           \/ SendPooled(t, n) \/ PastLock(t, n)
           \/ \E place \in {"locking", "connecting", "waiting"} : Pause(t, n, place)
    PROVE  TypedFor(k)'
BY SendTyped, PauseTyped DEF PastLock

\* A connection is made.
LEMMA ConnectedTyped ==
    ASSUME NEW k \in Nat, TypedFor(k), NEW t \in Tasks, task[t].n \in 1 .. k,
           Connected(t)
    PROVE  LET c == Len(sock) + 1
               f == [tx |-> NextTx, n |-> task[t].n]
           IN  /\ TypedFor(k)'
               /\ c \notin DOMAIN sock /\ DOMAIN sock' = DOMAIN sock \cup {c}
               /\ sock'[c] = [open |-> TRUE, inbox |-> <<f>>, wire |-> <<>>]
               /\ \A d \in DOMAIN sock : sock'[d] = sock[d]
               /\ Opened' = Opened \cup {c}
               /\ connections \subseteq DOMAIN sock
<1>. DEFINE c == Len(sock) + 1
            f == [tx |-> NextTx, n |-> task[t].n]
            x == [open |-> TRUE, inbox |-> <<f>>, wire |-> <<>>]
<1>1. /\ sock' = Append(sock, x)
      /\ connections' = connections \cup {c}
      /\ task' = [task EXCEPT ![t] =
                    [at |-> "exchanging", n |-> task[t].n, conn |-> c, tx |-> NextTx]]
      /\ total' = total + 1 /\ counter' = NextTx /\ UNCHANGED <<available, phase>>
  BY DEF Connected, TypedFor
<1>2. NextTx \in 0 .. TxMod - 1 /\ f \in Frames(k)
  BY NextTxTyped DEF TypedFor, Frames
<1>3. x \in Sockets(k)
  <2>1. <<f>> \in Seq(Frames(k)) /\ <<>> \in Seq(Frames(k))
    BY <1>2, EmptySeq
  <2>. QED BY <2>1 DEF Sockets
<1>4. /\ Len(sock) \in Nat /\ DOMAIN sock = 1 .. Len(sock)
      /\ sock' \in Seq(Sockets(k)) /\ Len(sock') = c
      /\ DOMAIN sock' = 1 .. c
      /\ \A d \in 1 .. Len(sock) : sock'[d] = sock[d]
      /\ sock'[c] = x
  BY <1>1, <1>3, LenProperties, AppendProperties DEF TypedFor
<1>5. Opened' = Opened \cup {c}
  BY <1>4 DEF Opened
<1>6. 1 .. Len(sock) \subseteq 1 .. c /\ 0 .. Len(sock) \subseteq 0 .. c /\ c \in 1 .. c
  BY <1>4
<1>7. available' \in Seq(1 .. Len(sock'))
  BY <1>1, <1>4, <1>6, SeqMonotonic DEF TypedFor
<1>8. task' \in [Tasks -> [at : {"idle", "locking", "connecting", "waiting", "exchanging"},
                           n : 0 .. k, conn : 0 .. Len(sock'), tx : 0 .. TxMod - 1]]
  BY <1>1, <1>2, <1>4, <1>6 DEF TypedFor
<1>9. TypedFor(k)'
  <2>1. connections' \subseteq 1 .. Len(sock')
    BY <1>1, <1>4, <1>6 DEF TypedFor
  <2>2. /\ total' \in Nat /\ counter' \in 0 .. TxMod - 1
        /\ phase' \in {"running", "stopping", "closed"}
    BY <1>1, <1>2 DEF TypedFor
  <2>. QED BY <1>4, <1>7, <1>8, <2>1, <2>2 DEF TypedFor
<1>10. connections \subseteq DOMAIN sock
  BY <1>4 DEF TypedFor
<1>11. c \notin DOMAIN sock /\ DOMAIN sock' = DOMAIN sock \cup {c}
  BY <1>4
<1>12. \A d \in DOMAIN sock : sock'[d] = sock[d]
  BY <1>4
<1>. QED
  BY <1>4, <1>5, <1>9, <1>10, <1>11, <1>12

\* A connection that an exchange uses is closed, or keeps all but its first frame.
LEMMA RetireTyped ==
    ASSUME NEW k \in Nat, TypedFor(k), IsFiniteSet(connections),
           Cardinality(connections) = total, NEW c \in connections, Retire(c)
    PROVE  /\ sock' \in Seq(Sockets(k)) /\ Len(sock') = Len(sock)
           /\ \A d \in DOMAIN sock : d # c => sock'[d] = sock[d]
           /\ Opened' = Opened \ {c} /\ connections' = connections \ {c}
           /\ IsFiniteSet(connections') /\ Cardinality(connections') = total'
           /\ total' = total - 1 /\ total' \in Nat /\ available' = available
<1>1. Shut \in Sockets(k)
  BY EmptySeq DEF Shut, Sockets
<1>2. /\ sock' = [sock EXCEPT ![c] = Shut] /\ c \in 1 .. Len(sock)
      /\ connections' = connections \ {c} /\ total' = total - 1 /\ available' = available
  BY DEF Retire, TypedFor
<1>3. IsFiniteSet(connections') /\ Cardinality(connections') = Cardinality(connections) - 1
  BY <1>2, FS_RemoveElement
<1>4. Cardinality(connections') \in Nat
  BY <1>3, FS_CardinalityType
<1>5. Shut.open = FALSE
  BY DEF Shut
<1>. QED
  BY <1>1, <1>2, <1>3, <1>4, <1>5, SocketReplaced DEF TypedFor

LEMMA ReceiveTyped ==
    ASSUME NEW k \in Nat, TypedFor(k), NEW c \in 1 .. Len(sock), sock[c].wire # <<>>,
           sock' = [sock EXCEPT ![c].wire = Tail(@)]
    PROVE  LET x == [open |-> sock[c].open, inbox |-> sock[c].inbox,
                     wire |-> Tail(sock[c].wire)]
           IN  /\ sock' \in Seq(Sockets(k)) /\ Len(sock') = Len(sock)
               /\ DOMAIN sock = 1 .. Len(sock) /\ DOMAIN sock' = DOMAIN sock
               /\ \A d \in DOMAIN sock : sock'[d] = IF d = c THEN x ELSE sock[d]
               /\ Opened' = Opened
               /\ Head(sock[c].wire) \in Frames(k)
<1>. DEFINE x == [open |-> sock[c].open, inbox |-> sock[c].inbox,
                  wire |-> Tail(sock[c].wire)]
<1>1. Head(sock[c].wire) \in Frames(k) /\ Tail(sock[c].wire) \in Seq(Frames(k))
  BY SocketTyped, HeadTailProperties DEF TypedFor
<1>2. x \in Sockets(k)
  BY <1>1, SocketTyped DEF TypedFor, Sockets
<1>3. sock' = [sock EXCEPT ![c] = x]
  <2>1. sock[c] \in Sockets(k)
    BY ElementOfSeq DEF TypedFor
  <2>2. [sock[c] EXCEPT !.wire = Tail(sock[c].wire)] = x
    BY <2>1, SocketFields
  <2>. QED BY <2>2
<1>4. /\ sock' \in Seq(Sockets(k)) /\ Len(sock') = Len(sock)
      /\ DOMAIN sock = 1 .. Len(sock) /\ DOMAIN sock' = DOMAIN sock
      /\ \A d \in DOMAIN sock : sock'[d] = IF d = c THEN x ELSE sock[d]
      /\ Opened' = IF x.open THEN Opened \cup {c} ELSE Opened \ {c}
  <2>1. sock \in Seq(Sockets(k))
    BY DEF TypedFor
  <2>. HIDE DEF x
  <2>. QED BY <1>2, <1>3, <2>1, SocketReplaced
<1>5. Opened' = Opened
  BY <1>4 DEF Opened
<1>. QED
  BY <1>1, <1>4, <1>5

\* The device answers: a request goes from the inbox, and copies of it to the wire.
LEMMA AnswerTyped ==
    ASSUME NEW k \in Nat, TypedFor(k), NEW c \in DOMAIN sock, NEW m \in 1 .. Copies,
           Answer(c, m)
    PROVE  LET f == Head(sock[c].inbox)
               copies == [i \in 1 .. m |-> f]
               x == [open |-> sock[c].open, inbox |-> Tail(sock[c].inbox),
                     wire |-> sock[c].wire \o copies]
           IN  /\ TypedFor(k)'
               /\ f \in Frames(k) /\ copies \in Seq(Frames(k)) /\ Len(copies) = m
               /\ DOMAIN sock = 1 .. Len(sock) /\ DOMAIN sock' = DOMAIN sock
               /\ \A d \in DOMAIN sock : sock'[d] = IF d = c THEN x ELSE sock[d]
               /\ Opened' = Opened
<1>. DEFINE f == Head(sock[c].inbox)
            copies == [i \in 1 .. m |-> f]
            x == [open |-> sock[c].open, inbox |-> Tail(sock[c].inbox),
                  wire |-> sock[c].wire \o copies]
<1>1. c \in 1 .. Len(sock)
  BY LenProperties DEF TypedFor
<1>2. f \in Frames(k) /\ Tail(sock[c].inbox) \in Seq(Frames(k))
  BY <1>1, SocketTyped, HeadTailProperties DEF TypedFor, Answer
<1>3. copies \in Seq(Frames(k)) /\ Len(copies) = m
  BY <1>2, TcpBackendAssumption
<1>4. x \in Sockets(k)
  <2>1. sock[c].wire \o copies \in Seq(Frames(k))
    BY <1>1, <1>3, SocketTyped, ConcatProperties DEF TypedFor
  <2>. QED BY <1>1, <1>2, <2>1, SocketTyped DEF TypedFor, Sockets
<1>5. sock'[c] = x /\ sock' = [sock EXCEPT ![c] = sock'[c]]
  <2>1. sock \in [1 .. Len(sock) -> Sockets(k)]
    BY LenProperties DEF TypedFor
  <2>2. sock' = [sock EXCEPT ![c].inbox = Tail(@), ![c].wire = @ \o copies]
    BY DEF Answer
  <2>3. sock'[c] = x
    BY <1>1, <2>1, <2>2 DEF Sockets
  <2>. QED BY <1>1, <2>1, <2>2, <2>3
<1>6. /\ sock' \in Seq(Sockets(k)) /\ Len(sock') = Len(sock)
      /\ DOMAIN sock = 1 .. Len(sock) /\ DOMAIN sock' = DOMAIN sock
      /\ \A d \in DOMAIN sock : sock'[d] = IF d = c THEN x ELSE sock[d]
      /\ Opened' = IF x.open THEN Opened \cup {c} ELSE Opened \ {c}
  BY <1>1, <1>4, <1>5, SocketReplaced DEF TypedFor
<1>7. Opened' = Opened
  BY <1>6 DEF Opened
<1>8. TypedFor(k)'
  BY <1>6 DEF Answer, TypedFor
<1>. QED
  BY <1>2, <1>3, <1>6, <1>7, <1>8

\* close() shuts what it knows and leaves the other sockets as they are.
LEMMA CloseTyped ==
    ASSUME NEW k \in Nat, TypedFor(k), Close
    PROVE  /\ TypedFor(k)'
           /\ DOMAIN sock' = DOMAIN sock
           /\ \A c \in DOMAIN sock : sock'[c] = IF c \in ClosedBy THEN Shut ELSE sock[c]
<1>1. Len(sock) \in Nat /\ sock \in [1 .. Len(sock) -> Sockets(k)]
      /\ DOMAIN sock = 1 .. Len(sock)
  BY LenProperties DEF TypedFor
<1>2. Shut \in Sockets(k)
  BY EmptySeq DEF Shut, Sockets
<1>3. sock' = [c \in 1 .. Len(sock) |-> IF c \in ClosedBy THEN Shut ELSE sock[c]]
  BY <1>1 DEF Close
<1>4. sock' \in [1 .. Len(sock) -> Sockets(k)]
  BY <1>1, <1>2, <1>3
<1>5. sock' \in Seq(Sockets(k)) /\ Len(sock') = Len(sock)
  <2>1. sock' \in Seq(Sockets(k))
    BY <1>1, <1>4, SeqDef
  <2>2. DOMAIN sock' = 1 .. Len(sock') /\ Len(sock') \in Nat
    BY <2>1, LenProperties
  <2>. QED BY <1>1, <1>4, <2>1, <2>2
<1>6. /\ available' = <<>> /\ connections' = {} /\ total' = 0 /\ phase' = "closed"
      /\ UNCHANGED <<task, counter>>
  BY DEF Close
<1>7. available' \in Seq(1 .. Len(sock'))
  BY <1>6, EmptySeq
<1>8. TypedFor(k)'
  BY <1>5, <1>6, <1>7 DEF TypedFor
<1>. QED
  BY <1>1, <1>3, <1>8

\* Every step keeps the types.
LEMMA TypeStep ==
    ASSUME IInv, [Next]_vars
    PROVE  TypeOK'
<1>0. PICK k \in Nat :
          /\ k = Len(result) /\ result \in Seq(Outcomes(k)) /\ TypedFor(k)
          /\ DOMAIN result = 1 .. k /\ DOMAIN sock = 1 .. Len(sock)
          /\ \A t \in Busy : task[t].n \in 1 .. k
  BY LogAndSockets DEF IInv, Calls
<1>1. ASSUME TypedFor(k)', UNCHANGED result PROVE TypeOK'
  BY <1>0, <1>1, TypeOKNext
<1>2. ASSUME NEW t \in Tasks, Submit(t) PROVE TypeOK'
  <2>1. Call(t)
    BY <1>2 DEF Submit, SubmitPooled, SubmitLocking, SubmitUnlocked
  <2>2. PICK l \in Nat :
            l = k + 1 /\ Len(result') = l /\ result' \in Seq(Outcomes(l)) /\ TypedFor(l)
    BY <1>0, <2>1, CallTyped DEF IInv
  <2>3. TypedFor(l)'
    BY <1>0, <1>2, <2>2, PastLockTyped
    DEF Submit, SubmitPooled, SubmitLocking, SubmitUnlocked
  <2>. QED BY <2>2, <2>3, TypeOKNext
<1>3. ASSUME NEW t \in Tasks, GetLock(t) \/ GetReleased(t) PROVE TypeOK'
  BY <1>0, <1>1, <1>3, PastLockTyped DEF GetLock, GetReleased, Busy
<1>4. ASSUME NEW t \in Tasks, Connected(t) PROVE TypeOK'
  <2>1. task[t].n \in 1 .. k /\ UNCHANGED result
    BY <1>0, <1>4 DEF Connected, Busy
  <2>. QED BY <1>0, <1>1, <1>4, <2>1, ConnectedTyped
<1>5. ASSUME NEW t \in Tasks, NEW outcome \in Outcomes(k), End(t, outcome), t \in Busy,
             /\ available' \in Seq(1 .. Len(sock)) /\ connections' \subseteq 1 .. Len(sock)
             /\ total' \in Nat /\ sock' \in Seq(Sockets(k)) /\ Len(sock') = Len(sock)
             /\ UNCHANGED <<counter, phase>>
      PROVE  TypeOK'
  <2>1. TypedFor(k)'
    BY <1>0, <1>5, IdleTyped DEF End, TypedFor
  <2>2. result' \in Seq(Outcomes(k)) /\ Len(result') = k
    BY <1>0, <1>5, EndTyped DEF End
  <2>. QED BY <2>1, <2>2, TypeOKNext
<1>6. Raised \in Outcomes(k) /\ \A f \in Frames(k) : AnswerTo(f.n) \in Outcomes(k)
  BY <1>0 DEF Raised, AnswerTo, Outcomes, Frames
<1>7. ASSUME NEW t \in Tasks, ConnectFails(t) \/ Cancel(t) PROVE TypeOK'
  BY <1>0, <1>5, <1>6, <1>7 DEF ConnectFails, Cancel, Busy, TypedFor
<1>8. ASSUME NEW t \in Tasks, task[t].at = "exchanging"
      PROVE  task[t].conn \in connections /\ task[t].conn \in 1 .. Len(sock)
  BY <1>0, <1>8 DEF IInv, PoolInv, Accounted, InUse, At, TypedFor
<1>9. ASSUME NEW t \in Tasks, Receive(t) PROVE TypeOK'
  <2>. DEFINE c == task[t].conn
  <2>1. /\ c \in 1 .. Len(sock) /\ sock[c].wire # <<>> /\ t \in Busy
        /\ End(t, AnswerTo(Head(sock[c].wire).n))
        /\ sock' = [sock EXCEPT ![c].wire = Tail(@)]
        /\ Release(c) /\ UNCHANGED <<connections, total, counter, phase>>
    <3>1. task[t].at = "exchanging"
      BY <1>9 DEF Receive
    <3>2. c \in 1 .. Len(sock) /\ t \in Busy
      BY <1>8, <3>1, Zenon DEF Busy
    <3>. QED BY <1>9, <3>2, Zenon DEF Receive
  <2>2. /\ sock' \in Seq(Sockets(k)) /\ Len(sock') = Len(sock)
        /\ Head(sock[c].wire) \in Frames(k)
    BY <1>0, <2>1, ReceiveTyped
  <2>3. available' \in Seq(1 .. Len(sock))
    BY <1>0, <2>1, PoolReleased DEF TypedFor
  <2>. QED BY <1>0, <1>5, <1>6, <2>1, <2>2, <2>3 DEF TypedFor
<1>10. ASSUME NEW t \in Tasks, ExchangeFails(t) PROVE TypeOK'
  <2>1. /\ task[t].conn \in connections /\ t \in Busy
        /\ End(t, Raised) /\ Retire(task[t].conn) /\ UNCHANGED <<counter, phase>>
    BY <1>8, <1>10 DEF ExchangeFails, Busy
  <2>2. /\ sock' \in Seq(Sockets(k)) /\ Len(sock') = Len(sock)
        /\ connections' \subseteq connections /\ total' \in Nat /\ available' = available
    BY <1>0, <2>1, RetireTyped DEF IInv, PoolInv, PoolIsBounded
  <2>. QED BY <1>0, <1>5, <1>6, <2>1, <2>2 DEF TypedFor
<1>11. ASSUME NEW c \in DOMAIN sock, NEW m \in 1 .. Copies, Answer(c, m) PROVE TypeOK'
  BY <1>0, <1>1, <1>11, AnswerTyped DEF Answer
<1>12. CASE Stop
  BY <1>0, <1>1, <1>12 DEF Stop, TypedFor
<1>13. CASE Close
  BY <1>0, <1>1, <1>13, CloseTyped DEF Close
<1>14. CASE UNCHANGED vars
  BY <1>0, <1>1, <1>14 DEF TypedFor, vars
<1>15. ASSUME NEW t \in Tasks, Submit(t) \/ Proceed(t) \/ Cancel(t) PROVE TypeOK'
  BY <1>2, <1>3, <1>4, <1>7, <1>9, <1>10, <1>15 DEF Proceed
<1>16. CASE Device
  BY <1>11, <1>16 DEF Device
<1>. QED
  BY <1>12, <1>13, <1>14, <1>15, <1>16, Zenon DEF Next

-----------------------------------------------------------------------------
(* The pool. *)

\* A task takes a connection of the pool.
LEMMA PoolSend ==
    ASSUME NEW k \in Nat, TypedFor(k), PoolInv, phase # "closed", NEW t \in Tasks,
           NEW n \in 1 .. k, task[t].at \notin {"connecting", "exchanging"},
           SendPooled(t, n)
    PROVE  PoolInv'
<1>. DEFINE c == Head(available)
<1>1. /\ UNCHANGED <<connections, total, phase>> /\ Opened' = Opened
      /\ task' = [task EXCEPT ![t] =
                    [at |-> "exchanging", n |-> n, conn |-> c, tx |-> NextTx]]
      /\ available # <<>> /\ available' = Tail(available)
      /\ DOMAIN sock' = DOMAIN sock /\ c \in DOMAIN sock
      /\ sock'[c] = [open |-> sock[c].open,
                     inbox |-> Append(sock[c].inbox, [tx |-> NextTx, n |-> n]),
                     wire |-> sock[c].wire]
      /\ \A d \in DOMAIN sock : d # c => sock'[d] = sock[d]
  BY SendTyped DEF SendPooled, Took, Send
<1>2. /\ task'[t].at = "exchanging" /\ task'[t].conn = c
      /\ \A u \in Tasks : u # t => task'[u] = task[u]
      /\ At("exchanging")' = At("exchanging") \cup {t}
      /\ At("connecting")' = At("connecting")
      /\ t \notin At("exchanging")
  <2>1. t \notin At("connecting") /\ t \notin At("exchanging")
    BY DEF At
  <2>2. task'[t].at = "exchanging" /\ task'[t].conn = c /\ \A u \in Tasks : u # t => task'[u] = task[u]
    BY <1>1 DEF TypedFor
  <2>. QED BY <2>1, <2>2, OthersStay
<1>3. /\ Range(available) = {c} \cup Range(available')
      /\ IsInjective(available') /\ c \notin Range(available')
  BY <1>1, PoolTaken DEF TypedFor, PoolInv, Accounted
<1>4. InUse' = InUse \cup {c}
  BY <1>2 DEF InUse, At
<1>5. c \in connections \ InUse
  BY <1>3 DEF PoolInv, Accounted
<1>6. \A u, v \in At("exchanging")' : task'[u].conn = task'[v].conn => u = v
  BY <1>2, <1>5 DEF PoolInv, Accounted, InUse, At
<1>7. Accounted'
  BY <1>1, <1>3, <1>4, <1>5, <1>6 DEF PoolInv, Accounted
<1>8. PoolIsBounded' /\ OneConnects' /\ IsFiniteSet(connections')
  BY <1>1, <1>2 DEF PoolInv, PoolIsBounded, OneConnects
<1>. QED
  BY <1>1, <1>7, <1>8 DEF PoolInv

\* A task waits: for the lock, for its turn to connect, or for a connection.
LEMMA PoolPause ==
    ASSUME NEW k \in Nat, TypedFor(k), PoolInv, phase # "closed", NEW t \in Tasks,
           NEW n \in 1 .. k, task[t].at \notin {"connecting", "exchanging"},
           NEW place \in {"locking", "connecting", "waiting"}, Pause(t, n, place),
           place = "connecting" => ~ Locked /\ total < PoolSize
    PROVE  PoolInv'
<1>1. /\ task' = [task EXCEPT ![t] = [at |-> place, n |-> n, conn |-> 0, tx |-> 0]]
      /\ UNCHANGED <<available, connections, total, counter, sock, phase>>
  BY DEF Pause
<1>2. /\ \A u \in Tasks : u # t => task'[u] = task[u]
      /\ At("exchanging")' = At("exchanging")
      /\ At("connecting")' = IF place = "connecting" THEN {t} ELSE At("connecting")
      /\ t \notin At("exchanging")
  <2>1. t \notin At("connecting") /\ t \notin At("exchanging")
    BY DEF At
  <2>2. place = "connecting" => At("connecting") = {}
    BY DEF Locked
  <2>3. task'[t].at = place /\ \A u \in Tasks : u # t => task'[u] = task[u]
    BY <1>1 DEF TypedFor
  <2>4. CASE place = "connecting"
    BY <2>1, <2>2, <2>3, <2>4, OthersStay
  <2>5. CASE place # "connecting"
    <3>1. At("connecting")' = At("connecting") \ {t}
      BY <2>3, <2>5, OthersStay
    <3>2. At("exchanging")' = At("exchanging") \ {t}
      BY <2>3, OthersStay
    <3>. QED BY <2>1, <2>3, <2>5, <3>1, <3>2
  <2>. QED BY <2>4, <2>5
<1>3. InUse' = InUse
  BY <1>2 DEF InUse, At
<1>4. Accounted'
  BY <1>1, <1>2, <1>3 DEF PoolInv, Accounted, At
<1>5. Cardinality({t}) = 1 /\ total \in Nat /\ PoolSize \in Nat
  BY FS_Singleton, TcpBackendAssumption DEF TypedFor
<1>6. total' + Cardinality(At("connecting")') <= PoolSize
  <2>1. CASE place = "connecting"
    <3>1. At("connecting")' = {t} /\ total' = total /\ total < PoolSize
      BY <1>1, <1>2, <2>1
    <3>. QED BY <1>5, <3>1
  <2>2. CASE place # "connecting"
    BY <1>1, <1>2, <2>2 DEF PoolInv, PoolIsBounded
  <2>. QED BY <2>1, <2>2
<1>7. PoolIsBounded'
  BY <1>1, <1>6 DEF PoolInv, PoolIsBounded, Opened
<1>8. OneConnects' /\ IsFiniteSet(connections')
  BY <1>1, <1>2 DEF PoolInv, OneConnects
<1>. QED
  BY <1>1, <1>4, <1>7, <1>8 DEF PoolInv

\* The connection that is made takes the place that was kept for it.
LEMMA PoolConnected ==
    ASSUME NEW k \in Nat, TypedFor(k), PoolInv, phase # "closed", NEW t \in Tasks,
           task[t].n \in 1 .. k, Connected(t)
    PROVE  PoolInv'
<1>. DEFINE c == Len(sock) + 1
<1>1. /\ task[t].at = "connecting"
      /\ task' = [task EXCEPT ![t] =
                    [at |-> "exchanging", n |-> task[t].n, conn |-> c, tx |-> NextTx]]
      /\ connections' = connections \cup {c} /\ total' = total + 1
      /\ UNCHANGED <<available, phase>>
  BY DEF Connected, TypedFor
<1>2. /\ c \notin DOMAIN sock /\ connections \subseteq DOMAIN sock
      /\ Opened' = Opened \cup {c}
      /\ DOMAIN sock' = DOMAIN sock \cup {c}
      /\ \A d \in DOMAIN sock : sock'[d] = sock[d]
  BY ConnectedTyped
<1>3. /\ \A u \in Tasks : u # t => task'[u] = task[u]
      /\ task'[t].conn = c
      /\ At("exchanging")' = At("exchanging") \cup {t}
      /\ At("connecting") = {t} /\ At("connecting")' = {}
      /\ t \notin At("exchanging")
  <2>1. At("connecting") = {t} /\ t \notin At("exchanging")
    BY <1>1 DEF PoolInv, OneConnects, At
  <2>2. task'[t].at = "exchanging" /\ task'[t].conn = c /\ \A u \in Tasks : u # t => task'[u] = task[u]
    BY <1>1 DEF TypedFor
  <2>. QED BY <2>1, <2>2, OthersStay
<1>4. InUse' = InUse \cup {c} /\ c \notin InUse /\ c \notin Range(available)
  <2>1. c \notin connections
    BY <1>2
  <2>2. InUse' = InUse \cup {c}
    BY <1>3 DEF InUse, At
  <2>. QED BY <2>1, <2>2 DEF PoolInv, Accounted
<1>5. \A u, v \in At("exchanging")' : task'[u].conn = task'[v].conn => u = v
  BY <1>3, <1>4 DEF PoolInv, Accounted, InUse, At
<1>6. Accounted'
  BY <1>1, <1>4, <1>5 DEF PoolInv, Accounted
<1>7. Cardinality({t}) = 1 /\ Cardinality({}) = 0 /\ total \in Nat /\ PoolSize \in Nat
  BY FS_Singleton, FS_EmptySet, TcpBackendAssumption DEF TypedFor
<1>8. IsFiniteSet(connections') /\ Cardinality(connections') = Cardinality(connections) + 1
  BY <1>1, <1>2, FS_AddElement DEF PoolInv
<1>9. PoolIsBounded'
  <2>1. total' + Cardinality(At("connecting")') <= PoolSize
    <3>1. total + 1 <= PoolSize
      BY <1>3, <1>7 DEF PoolInv, PoolIsBounded
    <3>2. Cardinality(At("connecting")') = 0
      BY <1>3, <1>7
    <3>. QED BY <1>1, <1>7, <3>1, <3>2
  <2>. QED BY <1>1, <1>2, <1>8, <2>1 DEF PoolInv, PoolIsBounded
<1>10. OneConnects'
  BY <1>3 DEF OneConnects
<1>. QED
  BY <1>1, <1>6, <1>8, <1>9, <1>10 DEF PoolInv

\* A call ends: its task no longer connects, nor uses a connection.
LEMMA Leaves ==
    ASSUME NEW k \in Nat, TypedFor(k), PoolInv, NEW t \in Tasks,
           task' = [task EXCEPT ![t] = Idle]
    PROVE  /\ At("connecting")' = At("connecting") \ {t}
           /\ InUse' = IF task[t].at = "exchanging" THEN InUse \ {task[t].conn} ELSE InUse
           /\ \A u, v \in At("exchanging")' : task'[u].conn = task'[v].conn => u = v
           /\ Busy' = Busy \ {t}
<1>1. /\ task'[t] = Idle /\ Idle.at = "idle"
      /\ \A u \in Tasks : u # t => task'[u] = task[u]
  BY DEF TypedFor, Idle
<1>2. /\ At("connecting")' = At("connecting") \ {t}
      /\ At("exchanging")' = At("exchanging") \ {t}
  BY <1>1, OthersStay
<1>3. \A u, v \in At("exchanging") : task[u].conn = task[v].conn => u = v
  BY DEF PoolInv, Accounted
<1>4. InUse' = IF task[t].at = "exchanging" THEN InUse \ {task[t].conn} ELSE InUse
  <2>1. InUse' = {task[u].conn : u \in At("exchanging") \ {t}}
    BY <1>1, <1>2 DEF InUse, At
  <2>. QED BY <1>3, <2>1 DEF InUse, At
<1>5. \A u, v \in At("exchanging")' : task'[u].conn = task'[v].conn => u = v
  BY <1>1, <1>2, <1>3 DEF At
<1>6. Busy' = Busy \ {t}
  BY <1>1 DEF Busy
<1>. QED
  BY <1>2, <1>4, <1>5, <1>6

\* At most one task connects, and it gives its place back.
LEMMA PlaceGivenBack ==
    ASSUME OneConnects, NEW t \in Tasks, At("connecting")' = At("connecting") \ {t},
           NEW m \in Nat, m + Cardinality(At("connecting")) <= PoolSize
    PROVE  OneConnects' /\ m + Cardinality(At("connecting")') <= PoolSize
<1>1. Cardinality({}) = 0 /\ Cardinality({t}) = 1 /\ PoolSize \in Nat
  BY FS_EmptySet, FS_Singleton, TcpBackendAssumption
<1>2. CASE t \in At("connecting")
  <2>1. At("connecting") = {t} /\ At("connecting")' = {}
    BY <1>2 DEF OneConnects
  <2>. QED BY <1>1, <2>1 DEF OneConnects
<1>3. CASE t \notin At("connecting")
  BY <1>3 DEF OneConnects
<1>. QED
  BY <1>2, <1>3

\* A call ends without touching the pool.
LEMMA PoolLeft ==
    ASSUME NEW k \in Nat, TypedFor(k), PoolInv, NEW t \in Tasks,
           ConnectFails(t) \/ Cancel(t)
    PROVE  PoolInv'
<1>1. /\ task' = [task EXCEPT ![t] = Idle]
      /\ UNCHANGED <<available, connections, total, sock, phase>>
      /\ t \in Busy
      /\ task[t].at = "exchanging" => phase # "running"
  BY DEF ConnectFails, Cancel, End, Busy
<1>2. /\ At("connecting")' = At("connecting") \ {t}
      /\ InUse' = IF task[t].at = "exchanging" THEN InUse \ {task[t].conn} ELSE InUse
      /\ \A u, v \in At("exchanging")' : task'[u].conn = task'[v].conn => u = v
  BY <1>1, Leaves
<1>3. Accounted'
  BY <1>1, <1>2 DEF PoolInv, Accounted
<1>4. OneConnects' /\ total + Cardinality(At("connecting")') <= PoolSize
  BY <1>2, PlaceGivenBack DEF PoolInv, PoolIsBounded, TypedFor
<1>5. PoolIsBounded'
  BY <1>1, <1>4 DEF PoolInv, PoolIsBounded, Opened
<1>6. phase' # "closed" /\ IsFiniteSet(connections')
  BY <1>1 DEF PoolInv
<1>. QED
  BY <1>3, <1>4, <1>5, <1>6 DEF PoolInv

\* The answer comes, and the connection goes back to the pool.
LEMMA PoolReceive ==
    ASSUME NEW k \in Nat, TypedFor(k), PoolInv, NEW t \in Tasks, Receive(t)
    PROVE  PoolInv'
<1>. DEFINE c == task[t].conn
<1>1. /\ task' = [task EXCEPT ![t] = Idle] /\ task[t].at = "exchanging"
      /\ sock' = [sock EXCEPT ![c].wire = Tail(@)] /\ sock[c].wire # <<>>
      /\ Release(c) /\ UNCHANGED <<connections, total, phase>> /\ t \in Busy
  BY DEF Receive, End, Busy
<1>2. /\ At("connecting")' = At("connecting") \ {t} /\ InUse' = InUse \ {c}
      /\ \A u, v \in At("exchanging")' : task'[u].conn = task'[v].conn => u = v
  BY <1>1, Leaves
<1>3. c \in InUse /\ c \in connections /\ c \in 1 .. Len(sock)
  BY <1>1 DEF InUse, At, PoolInv, Accounted, TypedFor
<1>4. c \notin Range(available)
  BY <1>3 DEF PoolInv, Accounted
<1>5. Range(available') = Range(available) \cup {c} /\ IsInjective(available')
  BY <1>1, <1>3, <1>4, PoolReleased DEF TypedFor, PoolInv, Accounted
<1>6. Accounted'
  BY <1>1, <1>2, <1>3, <1>4, <1>5 DEF PoolInv, Accounted
<1>7. OneConnects' /\ total + Cardinality(At("connecting")') <= PoolSize
  BY <1>2, PlaceGivenBack DEF PoolInv, PoolIsBounded, TypedFor
<1>8. Opened' = Opened
  BY <1>1, <1>3, ReceiveTyped
<1>9. PoolIsBounded'
  BY <1>1, <1>7, <1>8 DEF PoolInv, PoolIsBounded
<1>10. phase' # "closed" /\ IsFiniteSet(connections')
  BY <1>1 DEF PoolInv
<1>. QED
  BY <1>6, <1>7, <1>9, <1>10 DEF PoolInv

\* At most one task connects.
LEMMA FewConnect ==
    OneConnects => IsFiniteSet(At("connecting")) /\ Cardinality(At("connecting")) \in Nat
<1>. SUFFICES ASSUME OneConnects PROVE IsFiniteSet(At("connecting"))
  BY FS_CardinalityType
<1>1. CASE At("connecting") = {}
  BY <1>1, FS_EmptySet
<1>2. ASSUME NEW t \in At("connecting") PROVE IsFiniteSet(At("connecting"))
  <2>1. At("connecting") = {t}
    BY <1>2 DEF OneConnects
  <2>2. IsFiniteSet({t})
    BY FS_Singleton
  <2>. QED BY <2>1, <2>2
<1>. QED
  BY <1>1, <1>2

\* The exchange fails, and the connection is closed and no longer counted.
LEMMA PoolRetire ==
    ASSUME NEW k \in Nat, TypedFor(k), PoolInv, NEW t \in Tasks, ExchangeFails(t)
    PROVE  PoolInv'
<1>. DEFINE c == task[t].conn
<1>1. /\ task' = [task EXCEPT ![t] = Idle] /\ task[t].at = "exchanging"
      /\ Retire(c) /\ UNCHANGED phase /\ t \in Busy
  BY DEF ExchangeFails, End, Busy
<1>2. /\ At("connecting")' = At("connecting") \ {t} /\ InUse' = InUse \ {c}
      /\ \A u, v \in At("exchanging")' : task'[u].conn = task'[v].conn => u = v
  BY <1>1, Leaves
<1>3. c \in InUse /\ c \in connections /\ c \notin Range(available)
  BY <1>1 DEF InUse, At, PoolInv, Accounted
<1>4. /\ Opened' = Opened \ {c} /\ connections' = connections \ {c}
      /\ IsFiniteSet(connections') /\ Cardinality(connections') = total'
      /\ total' = total - 1 /\ total' \in Nat /\ available' = available
  BY <1>1, <1>3, RetireTyped DEF PoolInv, PoolIsBounded
<1>5. Accounted'
  BY <1>1, <1>2, <1>3, <1>4 DEF PoolInv, Accounted
<1>6. OneConnects' /\ total + Cardinality(At("connecting")') <= PoolSize
  BY <1>2, PlaceGivenBack DEF PoolInv, PoolIsBounded, TypedFor
<1>7. total' + Cardinality(At("connecting")') <= PoolSize
  <2>1. (OneConnects => Cardinality(At("connecting")) \in Nat)'
    BY FewConnect, PTL
  <2>2. Cardinality(At("connecting")') \in Nat
    BY <1>6, <2>1
  <2>. QED BY <1>4, <1>6, <2>2, TcpBackendAssumption DEF TypedFor
<1>8. PoolIsBounded'
  BY <1>4, <1>7 DEF PoolInv, PoolIsBounded
<1>9. phase' # "closed"
  BY <1>1 DEF PoolInv
<1>. QED
  BY <1>4, <1>5, <1>6, <1>8, <1>9 DEF PoolInv

\* close() knows every open socket.
LEMMA PoolClose ==
    ASSUME NEW k \in Nat, TypedFor(k), PoolInv, Close
    PROVE  PoolInv'
<1>1. /\ available' = <<>> /\ connections' = {} /\ total' = 0 /\ phase' = "closed"
      /\ task' = task /\ At("idle") = Tasks
  BY DEF Close
<1>2. Opened \subseteq ClosedBy
  BY DEF ClosedBy, PoolInv, PoolIsBounded
<1>3. Opened' = {}
  BY <1>2, CloseTyped DEF Opened, Shut
<1>4. At("connecting") = {} /\ At("exchanging") = {} /\ Busy = {} /\ InUse = {}
  BY <1>1 DEF At, Busy, InUse
<1>5. At("connecting")' = {} /\ At("exchanging")' = {} /\ Busy' = {} /\ InUse' = {}
  BY <1>1, <1>4 DEF At, Busy, InUse
<1>6. Range(available') = {} /\ IsInjective(available')
  BY <1>1, EmptySeq, LenProperties DEF Range, IsInjective
<1>7. Accounted' /\ OneConnects'
  BY <1>1, <1>5, <1>6 DEF Accounted, OneConnects
<1>8. PoolIsBounded' /\ IsFiniteSet(connections')
  BY <1>1, <1>3, <1>5, FS_EmptySet, TcpBackendAssumption DEF PoolIsBounded
<1>. QED
  BY <1>1, <1>5, <1>7, <1>8 DEF PoolInv

\* Every step keeps the pool.
LEMMA PoolStep ==
    ASSUME IInv, [Next]_vars
    PROVE  PoolInv'
<1>0. PICK k \in Nat :
          /\ k = Len(result) /\ result \in Seq(Outcomes(k)) /\ TypedFor(k)
          /\ \A t \in Busy : task[t].n \in 1 .. k
  BY LogAndSockets DEF IInv, Calls
<1>1. PoolInv
  BY DEF IInv
<1>2. ASSUME NEW t \in Tasks, NEW n \in Nat, NEW l \in Nat, TypedFor(l), n \in 1 .. l,
             PastLock(t, n), ~ Locked, phase # "closed",
             task[t].at \notin {"connecting", "exchanging"}
      PROVE  PoolInv'
  BY <1>1, <1>2, PoolSend, PoolPause DEF PastLock
<1>3. ASSUME NEW t \in Tasks, Submit(t) PROVE PoolInv'
  <2>1. Call(t) /\ phase # "closed" /\ task[t].at \notin {"connecting", "exchanging"}
    BY <1>3 DEF Submit, SubmitPooled, SubmitLocking, SubmitUnlocked, Call
  <2>2. PICK l \in Nat : l = Len(result) + 1 /\ l \in 1 .. l /\ TypedFor(l)
    BY <1>0, <2>1, CallTyped DEF IInv
  <2>3. CASE SubmitPooled(t)
    BY <1>1, <2>1, <2>2, <2>3, PoolSend DEF SubmitPooled
  <2>4. CASE SubmitLocking(t)
    BY <1>1, <2>1, <2>2, <2>4, PoolPause DEF SubmitLocking
  <2>5. CASE SubmitUnlocked(t)
    BY <1>2, <2>1, <2>2, <2>5 DEF SubmitUnlocked
  <2>. QED BY <1>3, <2>3, <2>4, <2>5 DEF Submit
<1>4. ASSUME NEW t \in Busy PROVE t \in Tasks /\ task[t].n \in 1 .. k /\ phase # "closed"
  BY <1>0, <1>1, <1>4 DEF Busy, PoolInv
<1>5. ASSUME NEW t \in Tasks, GetLock(t) PROVE PoolInv'
  <2>1. /\ t \in Busy /\ task[t].at \notin {"connecting", "exchanging"}
        /\ ~ Locked /\ PastLock(t, task[t].n)
    BY <1>5 DEF GetLock, Busy
  <2>2. task[t].n \in 1 .. k /\ phase # "closed"
    BY <1>4, <2>1
  <2>. QED BY <1>0, <1>2, <2>1, <2>2
<1>6. ASSUME NEW t \in Tasks, GetReleased(t) PROVE PoolInv'
  <2>1. t \in Busy /\ task[t].at \notin {"connecting", "exchanging"}
        /\ SendPooled(t, task[t].n)
    BY <1>6 DEF GetReleased, Busy
  <2>2. task[t].n \in 1 .. k /\ phase # "closed"
    BY <1>4, <2>1
  <2>. QED BY <1>0, <1>1, <2>1, <2>2, PoolSend
<1>7. ASSUME NEW t \in Tasks, Connected(t) PROVE PoolInv'
  <2>1. task[t].n \in 1 .. k /\ phase # "closed"
    BY <1>4, <1>7 DEF Connected, Busy
  <2>. QED BY <1>0, <1>1, <1>7, <2>1, PoolConnected
<1>8. ASSUME NEW t \in Tasks,
             ConnectFails(t) \/ Cancel(t) \/ Receive(t) \/ ExchangeFails(t)
      PROVE  PoolInv'
  BY <1>0, <1>1, <1>8, PoolLeft, PoolReceive, PoolRetire
<1>9. ASSUME UNCHANGED <<task, available, connections, total>>, Opened' = Opened,
             phase' = phase \/ phase' = "stopping"
      PROVE  PoolInv'
  <2>1. At("connecting")' = At("connecting") /\ At("exchanging")' = At("exchanging")
        /\ InUse' = InUse /\ Busy' = Busy
    BY <1>9 DEF At, InUse, Busy
  <2>2. Accounted'
    BY <1>1, <1>9, <2>1 DEF PoolInv, Accounted
  <2>3. PoolIsBounded' /\ OneConnects' /\ IsFiniteSet(connections')
    BY <1>1, <1>9, <2>1 DEF PoolInv, PoolIsBounded, OneConnects
  <2>4. phase' = "closed" => connections' = {} /\ Busy' = {}
    BY <1>1, <1>9, <2>1 DEF PoolInv
  <2>. QED BY <2>2, <2>3, <2>4 DEF PoolInv
<1>10. CASE Stop
  BY <1>9, <1>10 DEF Stop, Opened
<1>11. CASE Close
  BY <1>0, <1>1, <1>11, PoolClose
<1>12. ASSUME NEW c \in DOMAIN sock, NEW m \in 1 .. Copies, Answer(c, m) PROVE PoolInv'
  BY <1>0, <1>9, <1>12, AnswerTyped DEF Answer
<1>13. CASE UNCHANGED vars
  BY <1>9, <1>13 DEF vars, Opened
<1>14. ASSUME NEW t \in Tasks, Submit(t) \/ Proceed(t) \/ Cancel(t) PROVE PoolInv'
  BY <1>3, <1>5, <1>6, <1>7, <1>8, <1>14 DEF Proceed
<1>15. CASE Device
  BY <1>12, <1>15 DEF Device
<1>. QED
  BY <1>10, <1>11, <1>13, <1>14, <1>15, Zenon DEF Next

-----------------------------------------------------------------------------
(* The calls. *)

\* A call begins, and is that of one task.
LEMMA CallBegins ==
    ASSUME TypeOK, Calls, NEW t \in Tasks, Call(t),
           task'[t].n = Len(result) + 1, task'[t].at # "idle",
           \A u \in Tasks : u # t => task'[u] = task[u]
    PROVE  Calls'
<1>1. /\ result'[Len(result) + 1] = Pending
      /\ DOMAIN result' = DOMAIN result \cup {Len(result) + 1}
      /\ Len(result) + 1 \notin DOMAIN result
      /\ \A n \in DOMAIN result : result'[n] = result[n]
  BY CallTyped
<1>2. Busy' = Busy \cup {t} /\ t \notin Busy
  BY DEF Busy, Call
<1>3. \A u \in Busy : task'[u] = task[u] /\ task[u].n \in DOMAIN result
  BY <1>2 DEF Busy, Calls
<1>4. \A u \in Busy' : task'[u].n \in DOMAIN result' /\ result'[task'[u].n] = Pending
  BY <1>1, <1>2, <1>3 DEF Calls
<1>5. \A u, v \in Busy' : task'[u].n = task'[v].n => u = v
  BY <1>1, <1>2, <1>3 DEF Calls
<1>. QED
  BY <1>4, <1>5 DEF Calls

\* A call goes on, and remains that of its task.
LEMMA CallGoesOn ==
    ASSUME Calls, UNCHANGED result, NEW t \in Busy,
           task'[t].n = task[t].n, task'[t].at # "idle",
           \A u \in Tasks : u # t => task'[u] = task[u]
    PROVE  Calls'
<1>1. Busy' = Busy /\ \A u \in Busy : task'[u].n = task[u].n
  BY DEF Busy
<1>. QED
  BY <1>1 DEF Calls

\* A call ends, and the others do not.
LEMMA CallEnds ==
    ASSUME NEW k \in Nat, TypedFor(k), Len(result) = k, result \in Seq(Outcomes(k)), Calls,
           NEW t \in Busy, NEW outcome \in Outcomes(k), End(t, outcome)
    PROVE  /\ Calls' /\ Busy' = Busy \ {t}
           /\ DOMAIN result' = DOMAIN result /\ task[t].n \in DOMAIN result
           /\ \A m \in DOMAIN result :
                 result'[m] = IF m = task[t].n THEN outcome ELSE result[m]
<1>1. t \in Tasks /\ task[t].n \in DOMAIN result /\ DOMAIN result = 1 .. k
  BY LenProperties DEF Busy, Calls
<1>2. /\ DOMAIN result' = DOMAIN result
      /\ \A m \in DOMAIN result :
            result'[m] = IF m = task[t].n THEN outcome ELSE result[m]
  BY <1>1, EndTyped DEF End
<1>3. /\ task'[t].at = "idle" /\ \A u \in Tasks : u # t => task'[u] = task[u]
  BY <1>1 DEF End, TypedFor, Idle
<1>4. Busy' = Busy \ {t} /\ \A u \in Busy' : task'[u] = task[u] /\ u # t
  BY <1>3 DEF Busy
<1>5. \A u \in Busy' : u \in Busy /\ u # t /\ task'[u].n = task[u].n
  BY <1>4
<1>6. ASSUME NEW u \in Busy'
      PROVE  task'[u].n \in DOMAIN result' /\ result'[task'[u].n] = Pending
  <2>1. /\ task[u].n \in DOMAIN result /\ result[task[u].n] = Pending
        /\ task[u].n # task[t].n
    BY <1>5 DEF Calls
  <2>. QED BY <1>2, <1>5, <2>1
<1>7. \A u, v \in Busy' : task'[u].n = task'[v].n => u = v
  BY <1>5 DEF Calls
<1>8. Calls'
  BY <1>6, <1>7 DEF Calls
<1>. QED
  BY <1>1, <1>2, <1>4, <1>8

\* Every step keeps the calls apart.
LEMMA CallsStep ==
    ASSUME IInv, [Next]_vars
    PROVE  Calls'
<1>0. PICK k \in Nat :
          /\ k = Len(result) /\ result \in Seq(Outcomes(k)) /\ TypedFor(k)
          /\ DOMAIN result = 1 .. k /\ DOMAIN sock = 1 .. Len(sock)
  BY LogAndSockets DEF IInv
<1>1. TypeOK /\ Calls /\ Busy \subseteq Tasks
  BY DEF IInv, Busy
<1>2. ASSUME NEW t \in Tasks, NEW n, NEW l \in Nat, TypedFor(l),
             \/ SendPooled(t, n) \/ PastLock(t, n)
             \/ \E place \in {"locking", "connecting", "waiting"} : Pause(t, n, place)
      PROVE  /\ task'[t].n = n /\ task'[t].at # "idle"
             /\ \A u \in Tasks : u # t => task'[u] = task[u]
  BY <1>2 DEF SendPooled, Send, PastLock, Pause, TypedFor
<1>3. ASSUME NEW t \in Tasks, Submit(t) PROVE Calls'
  <2>1. Call(t)
    BY <1>3 DEF Submit, SubmitPooled, SubmitLocking, SubmitUnlocked
  <2>2. /\ task'[t].n = Len(result) + 1 /\ task'[t].at # "idle"
        /\ \A u \in Tasks : u # t => task'[u] = task[u]
    BY <1>0, <1>2, <1>3 DEF Submit, SubmitPooled, SubmitLocking, SubmitUnlocked
  <2>. QED BY <1>1, <2>1, <2>2, CallBegins
<1>4. ASSUME NEW t \in Tasks, GetLock(t) \/ GetReleased(t) PROVE Calls'
  <2>1. t \in Busy /\ UNCHANGED result
    BY <1>4 DEF GetLock, GetReleased, Busy
  <2>2. /\ task'[t].n = task[t].n /\ task'[t].at # "idle"
        /\ \A u \in Tasks : u # t => task'[u] = task[u]
    BY <1>0, <1>2, <1>4 DEF GetLock, GetReleased
  <2>. QED BY <1>1, <2>1, <2>2, CallGoesOn
<1>5. ASSUME NEW t \in Tasks, Connected(t) PROVE Calls'
  <2>1. t \in Busy /\ UNCHANGED result
    BY <1>5 DEF Connected, Busy
  <2>2. /\ task'[t].n = task[t].n /\ task'[t].at # "idle"
        /\ \A u \in Tasks : u # t => task'[u] = task[u]
    BY <1>0, <1>5 DEF Connected, TypedFor
  <2>. QED BY <1>1, <2>1, <2>2, CallGoesOn
<1>6. ASSUME NEW t \in Tasks, ConnectFails(t) \/ Cancel(t) \/ Receive(t) \/ ExchangeFails(t)
      PROVE  Calls'
  <2>1. t \in Busy
    BY <1>6 DEF ConnectFails, Cancel, Receive, ExchangeFails, Busy
  <2>2. PICK outcome : End(t, outcome) /\ outcome \in Outcomes(k)
    <3>1. Raised \in Outcomes(k)
      BY <1>0 DEF Raised, Outcomes
    <3>2. CASE ConnectFails(t) \/ Cancel(t) \/ ExchangeFails(t)
      BY <3>1, <3>2 DEF ConnectFails, Cancel, ExchangeFails
    <3>3. CASE Receive(t)
      <4>1. task[t].conn \in 1 .. Len(sock)
        <5>1. task[t].conn \in connections
          <6>1. t \in At("exchanging")
            BY <3>3 DEF Receive, At
          <6>2. task[t].conn \in InUse
            BY <6>1, Zenon DEF InUse
          <6>. QED BY <6>2 DEF IInv, PoolInv, Accounted
        <5>. QED BY <1>0, <5>1 DEF TypedFor
      <4>2. Head(sock[task[t].conn].wire) \in Frames(k)
        BY <1>0, <3>3, <4>1, ReceiveTyped DEF Receive
      <4>3. AnswerTo(Head(sock[task[t].conn].wire).n) \in Outcomes(k)
        BY <1>0, <4>2 DEF AnswerTo, Outcomes, Frames
      <4>. QED BY <3>3, <4>3 DEF Receive
    <3>. QED BY <1>6, <3>2, <3>3
  <2>. QED BY <1>0, <1>1, <2>1, <2>2, CallEnds
<1>7. ASSUME UNCHANGED <<task, result>> PROVE Calls'
  BY <1>1, <1>7 DEF Calls, Busy
<1>8. CASE Stop \/ Close \/ Device \/ UNCHANGED vars
  BY <1>7, <1>8 DEF Stop, Close, Device, Answer, vars
<1>. QED
  BY <1>3, <1>4, <1>5, <1>6, <1>8 DEF Next, Proceed

-----------------------------------------------------------------------------
(* The theorems, for any number of callers. *)

LEMMA InitInv == Init => IInv
<1>. SUFFICES ASSUME Init PROVE IInv
  OBVIOUS
<1>1. Len(<<>>) = 0 /\ DOMAIN <<>> = {} /\ \A S : <<>> \in Seq(S)
  BY EmptySeq
<1>2. TypedFor(0) /\ result \in Seq(Outcomes(0)) /\ Len(result) = 0
  BY <1>1, TcpBackendAssumption DEF Init, TypedFor, Idle
<1>3. TypeOK
  BY <1>2, TypeOKIs
<1>4. At("connecting") = {} /\ At("exchanging") = {} /\ Busy = {} /\ InUse = {} /\ Opened = {}
  BY <1>1 DEF Init, At, Busy, InUse, Opened, Idle
<1>5. Accounted
  BY <1>1, <1>4 DEF Init, Accounted, Range, IsInjective
<1>6. PoolIsBounded /\ IsFiniteSet(connections)
  BY <1>4, FS_EmptySet, TcpBackendAssumption DEF Init, PoolIsBounded
<1>. QED
  BY <1>3, <1>4, <1>5, <1>6 DEF Init, IInv, Calls, PoolInv, OneConnects

LEMMA NextInv == IInv /\ [Next]_vars => IInv'
BY TypeStep, CallsStep, PoolStep DEF IInv

\* Types; every unfinished call is that of one task; and every connection known
\* to TcpModbusBackend is that of one call or lies in the pool.
THEOREM PoolInvariant == Spec => []IInv
BY InitInv, NextInv, PTL DEF Spec

\* _acquire_connection() and _discard_connection(): for any number of tasks that
\* call submit(), no more than pool_size connections are open or being made,
\* _total_connections is exact, and every open socket is known.
THEOREM PoolBounded == Spec => []PoolIsBounded
<1>1. IInv => PoolIsBounded
  BY DEF IInv, PoolInv
<1>. QED
  BY <1>1, PoolInvariant, PTL

\* After close() no socket is open, not even one a cancelled call left behind.
THEOREM ClosedStays == Spec => []ClosedForGood
<1>1. IInv => ClosedForGood
  BY DEF IInv, PoolInv, PoolIsBounded, ClosedForGood
<1>. QED
  BY <1>1, PoolInvariant, PTL

\* submit() waits for a connection only while others use all pool_size of them:
\* no earlier call, however it ended, has kept a place in the pool.
THEOREM WaitsForUsers == Spec => WaitsOnlyForUsers
<1>1. ASSUME IInv, [Next]_vars, NEW t \in Tasks, phase = "running",
             task'[t].at = "waiting", task[t].at # "waiting"
      PROVE  Cardinality(InUse) = PoolSize
  <2>0. PICK k \in Nat : k = Len(result) /\ TypedFor(k)
    BY <1>1, LogAndSockets DEF IInv
  <2>. DEFINE Waits == total >= PoolSize /\ available = <<>>
  <2>1. ASSUME NEW u \in Tasks, NEW n, SendPooled(u, n) PROVE FALSE
    BY <1>1, <2>0, <2>1 DEF SendPooled, Send, TypedFor
  <2>2. ASSUME NEW u \in Tasks, NEW n, NEW place \in {"locking", "connecting"},
               Pause(u, n, place)
        PROVE  FALSE
    BY <1>1, <2>0, <2>2 DEF Pause, TypedFor
  <2>3. ASSUME NEW u \in Tasks, NEW n, PastLock(u, n) PROVE Waits
    BY <2>1, <2>2, <2>3 DEF PastLock
  <2>4. ASSUME NEW u \in Tasks, Submit(u) \/ GetLock(u) \/ GetReleased(u) PROVE Waits
    BY <2>1, <2>2, <2>3, <2>4
    DEF Submit, SubmitPooled, SubmitLocking, SubmitUnlocked, GetLock, GetReleased
  <2>5. ASSUME NEW u \in Tasks, Connected(u) PROVE FALSE
    BY <1>1, <2>0, <2>5 DEF Connected, TypedFor
  <2>6. ASSUME NEW u \in Tasks, ConnectFails(u) \/ Cancel(u) \/ Receive(u) \/ ExchangeFails(u)
        PROVE  FALSE
    <3>1. task' = [task EXCEPT ![u] = Idle]
      BY <2>6 DEF ConnectFails, Cancel, Receive, ExchangeFails, End
    <3>. QED BY <1>1, <2>0, <3>1 DEF TypedFor, Idle
  <2>7. UNCHANGED task => FALSE
    BY <1>1
  <2>8. Waits
    <3>1. CASE Stop \/ Close \/ Device \/ UNCHANGED vars
      BY <2>7, <3>1 DEF Stop, Close, Device, Answer, vars
    <3>2. ASSUME NEW u \in Tasks, Submit(u) \/ Proceed(u) \/ Cancel(u) PROVE Waits
      BY <2>4, <2>5, <2>6, <3>2 DEF Proceed
    <3>. QED BY <1>1, <3>1, <3>2 DEF Next
  <2>9. /\ connections = InUse \cup Range(available) /\ Cardinality(connections) = total
        /\ total + Cardinality(At("connecting")) <= PoolSize
    BY <1>1 DEF IInv, PoolInv, Accounted, PoolIsBounded
  <2>10. connections = InUse
    BY <2>8, <2>9, EmptySeq DEF Range
  <2>11. Cardinality(At("connecting")) \in Nat
    BY <1>1, FewConnect DEF IInv, PoolInv
  <2>12. total = PoolSize
    <3>1. total \in Nat /\ PoolSize \in Nat
      BY <2>0, TcpBackendAssumption DEF TypedFor
    <3>. QED BY <2>8, <2>9, <2>11, <3>1
  <2>. QED
    BY <2>9, <2>10, <2>12
<1>2. IInv /\ [Next]_vars =>
         \A t \in Tasks :
            phase = "running" /\ task'[t].at = "waiting" /\ task[t].at # "waiting"
               => Cardinality(InUse) = PoolSize
  BY <1>1
<1>. QED
  BY <1>2, PoolInvariant, PTL DEF Spec, WaitsOnlyForUsers

-----------------------------------------------------------------------------
(* One caller. *)

\* The request is written to a connection from the pool, or to a new one, and
\* nothing that comes before its answer carries its id.
LEMMA AloneSends ==
    ASSUME NEW k \in Nat, TypedFor(k), OneCaller, NEW t \in Tasks, NEW n \in 1 .. k,
           \/ /\ task[t].at = "idle" /\ Alone(t) /\ SendPooled(t, n)
           \/ /\ task[t].at = "connecting" /\ Alone(t) /\ Connected(t) /\ n = task[t].n
    PROVE  Alone(t)'
<1>1. CASE /\ task[t].at = "idle" /\ Alone(t) /\ SendPooled(t, n)
  <2>. DEFINE c == Head(available)
              f == [tx |-> NextTx, n |-> n]
  <2>1. /\ task' = [task EXCEPT ![t] =
                      [at |-> "exchanging", n |-> n, conn |-> c, tx |-> NextTx]]
        /\ counter' = NextTx /\ available # <<>> /\ available' = Tail(available)
        /\ sock'[c] = [open |-> sock[c].open, inbox |-> Append(sock[c].inbox, f),
                       wire |-> sock[c].wire]
    BY <1>1, SendTyped DEF SendPooled, Send, Took
  <2>2. /\ c = available[1] /\ 1 \in DOMAIN available /\ available' = <<>>
    <3>1. /\ DOMAIN available = 1 .. Len(available) /\ Len(available) \in Nat \ {0}
          /\ available' \in Seq(1 .. Len(sock)) /\ Len(available') = Len(available) - 1
          /\ c = available[1]
      BY <2>1, LenProperties, EmptySeq, HeadTailProperties DEF TypedFor
    <3>2. Len(available) = 1
      BY <1>1, <3>1 DEF Alone
    <3>. QED BY <3>1, <3>2, EmptySeq
  <2>3. Spent(c)
    BY <1>1, <2>2 DEF Alone
  <2>4. task'[t] = [at |-> "exchanging", n |-> n, conn |-> c, tx |-> NextTx]
    BY <2>1 DEF TypedFor
  <2>5. sock'[c].inbox = <<f>> /\ sock'[c].wire = sock[c].wire
    <3>1. Append(<<>>, f) = <<f>>
      OBVIOUS
    <3>. QED BY <2>1, <2>3, <3>1 DEF Spent
  <2>6. \A i \in DOMAIN sock'[c].wire : sock'[c].wire[i].tx # NextTx
    <3>1. NextTx # counter
      BY NextTxTyped DEF TypedFor, OneCaller
    <3>. QED BY <2>3, <2>5, <3>1 DEF Spent
  <2>7. Awaiting(t, task[t].conn)'
    BY <2>4, <2>5, <2>6 DEF Awaiting, Current
  <2>. QED
    BY <2>1, <2>2, <2>4, <2>7, EmptySeq DEF Alone
<1>2. CASE /\ task[t].at = "connecting" /\ Alone(t) /\ Connected(t) /\ n = task[t].n
  <2>. DEFINE c == Len(sock) + 1
              f == [tx |-> NextTx, n |-> n]
  <2>1. /\ task'[t] = [at |-> "exchanging", n |-> n, conn |-> c, tx |-> NextTx]
        /\ counter' = NextTx /\ available' = available
    BY <1>2 DEF Connected, TypedFor
  <2>2. sock'[c] = [open |-> TRUE, inbox |-> <<f>>, wire |-> <<>>]
    BY <1>2, ConnectedTyped
  <2>3. sock'[c].inbox = <<f>> /\ DOMAIN sock'[c].wire = {}
    BY <2>2, EmptySeq
  <2>4. Awaiting(t, task[t].conn)'
    BY <2>1, <2>3 DEF Awaiting, Current
  <2>5. available' = <<>>
    BY <1>2, <2>1 DEF Alone
  <2>. QED
    BY <2>1, <2>4, <2>5, EmptySeq DEF Alone
<1>. QED
  BY <1>1, <1>2

\* The answer that matches is that to the call's own request, and what is left on
\* the connection carries the id that was used last.
LEMMA AloneReceives ==
    ASSUME NEW k \in Nat, TypedFor(k), PoolInv, NEW t \in Tasks, Alone(t), Receive(t)
    PROVE  Alone(t)' /\ Head(sock[task[t].conn].wire).n = task[t].n
<1>. DEFINE c == task[t].conn
            w == sock[c].wire
            x == [open |-> sock[c].open, inbox |-> sock[c].inbox, wire |-> Tail(w)]
<1>1. /\ task[t].at = "exchanging" /\ w # <<>> /\ Head(w).tx = task[t].tx
      /\ task' = [task EXCEPT ![t] = Idle]
      /\ sock' = [sock EXCEPT ![c].wire = Tail(@)]
      /\ Release(c) /\ counter' = counter
  BY DEF Receive, End, Matches
<1>2. c \in 1 .. Len(sock)
  <2>1. c \in connections
    BY <1>1 DEF PoolInv, Accounted, InUse, At
  <2>. QED BY <2>1 DEF TypedFor
<1>3. /\ Head(w) = w[1] /\ DOMAIN w = 1 .. Len(w) /\ Len(w) \in Nat \ {0}
      /\ DOMAIN Tail(w) = 1 .. Len(w) - 1
      /\ \A i \in 1 .. Len(w) - 1 : Tail(w)[i] = w[i + 1]
  <2>1. w \in Seq(Frames(k))
    BY <1>2, SocketTyped DEF TypedFor
  <2>. QED BY <1>1, <2>1, LenProperties, EmptySeq, HeadTailProperties
<1>4. task[t].tx = counter /\ Awaiting(t, c)
  BY <1>1 DEF Alone
<1>5. sock[c].inbox = <<>> /\ \A i \in DOMAIN w : w[i] = Current(t)
  <2>1. 1 \in DOMAIN w
    BY <1>3
  <2>2. w[1].tx = task[t].tx
    BY <1>1, <1>3
  <2>. QED BY <1>4, <2>1, <2>2 DEF Awaiting
<1>6. Head(w).n = task[t].n
  BY <1>3, <1>5 DEF Current
<1>7. sock'[c] = x /\ DOMAIN sock' = 1 .. Len(sock)
  BY <1>1, <1>2, ReceiveTyped
<1>8. /\ sock'[c].inbox = <<>>
      /\ \A i \in DOMAIN sock'[c].wire : sock'[c].wire[i].tx = counter'
  <2>1. sock'[c].inbox = <<>> /\ sock'[c].wire = Tail(w)
    BY <1>5, <1>7
  <2>2. \A i \in DOMAIN Tail(w) : Tail(w)[i].tx = counter'
    <3>1. ASSUME NEW i \in 1 .. Len(w) - 1 PROVE Tail(w)[i] = Current(t)
      BY <1>3, <1>5, <3>1
    <3>. QED BY <1>1, <1>3, <1>4, <3>1 DEF Current
  <2>. QED BY <2>1, <2>2
<1>9. available' = <<c>>
  <2>1. available = <<>> /\ available' = Append(available, c)
    BY <1>1 DEF Alone, Release
  <2>. QED BY <2>1
<1>10. task'[t].at = "idle"
  BY <1>1 DEF TypedFor, Idle
<1>11. Len(available') = 1 /\ DOMAIN available' = {1} /\ available'[1] = c
  BY <1>9
<1>12. \A i \in DOMAIN available' : Spent(available[i])'
  BY <1>8, <1>11 DEF Spent
<1>13. Alone(t)'
  BY <1>10, <1>11, <1>12 DEF Alone
<1>. QED
  BY <1>6, <1>13

\* The device answers the call's own request, or nothing that a call may use.
LEMMA AloneAnswered ==
    ASSUME NEW k \in Nat, TypedFor(k), PoolInv, NEW t \in Tasks, Alone(t), OneCaller,
           NEW d \in DOMAIN sock, NEW m \in 1 .. Copies, Answer(d, m)
    PROVE  Alone(t)'
<1>. DEFINE c == task[t].conn
            f == Head(sock[d].inbox)
            w == sock[d].wire
            copies == [i \in 1 .. m |-> f]
            x == [open |-> sock[d].open, inbox |-> Tail(sock[d].inbox), wire |-> w \o copies]
<1>1. /\ UNCHANGED <<task, available, counter>> /\ sock[d].inbox # <<>>
      /\ DOMAIN sock' = DOMAIN sock
      /\ \A e \in DOMAIN sock : sock'[e] = IF e = d THEN x ELSE sock[e]
  BY AnswerTyped DEF Answer
<1>2. Range(available) \subseteq DOMAIN sock
  <2>1. Range(available) \subseteq connections
    BY DEF PoolInv, Accounted
  <2>2. connections \subseteq DOMAIN sock
    BY LenProperties DEF TypedFor
  <2>. QED BY <2>1, <2>2
<1>3. \A i \in DOMAIN available : Spent(available[i])'
  <2>1. ASSUME NEW i \in DOMAIN available PROVE available[i] # d /\ available[i] \in DOMAIN sock
    BY <1>1, <1>2 DEF Alone, Spent, Range
  <2>2. ASSUME NEW i \in DOMAIN available PROVE sock'[available[i]] = sock[available[i]]
    BY <1>1, <2>1
  <2>. QED BY <1>1, <2>2 DEF Alone, Spent
<1>4. CASE task[t].at = "exchanging" /\ c = d
  <2>1. sock[c].inbox = <<Current(t)>>
    BY <1>1, <1>4 DEF Alone, Awaiting
  <2>2. f = Current(t) /\ Tail(sock[c].inbox) = <<>>
    BY <1>4, <2>1
  <2>3. /\ w \in Seq(Frames(k)) /\ DOMAIN w = 1 .. Len(w) /\ Len(w) \in Nat
        /\ copies \in Seq(Frames(k)) /\ Len(copies) = m /\ m \in Nat \ {0}
    <3>1. w \in Seq(Frames(k))
      BY SocketTyped, LenProperties DEF TypedFor
    <3>2. f \in Frames(k)
      BY AnswerTyped
    <3>3. copies \in Seq(Frames(k)) /\ Len(copies) = m /\ m \in Nat \ {0}
      BY <3>2, TcpBackendAssumption
    <3>. QED BY <3>1, <3>3, LenProperties
  <2>4. /\ DOMAIN (w \o copies) = 1 .. Len(w) + m
        /\ \A i \in 1 .. Len(w) + m :
              (w \o copies)[i] = IF i <= Len(w) THEN w[i] ELSE copies[i - Len(w)]
    BY <2>3, ConcatProperties, LenProperties
  <2>5. sock'[c].inbox = <<>> /\ sock'[c].wire = w \o copies
    <3>1. sock'[c] = x
      BY <1>1, <1>4
    <3>2. x.inbox = <<>> /\ x.wire = w \o copies
      BY <1>4, <2>2
    <3>. QED BY <3>1, <3>2
  <2>6. CASE w = <<>>
    <3>1. Len(w) = 0
      BY <2>6
    <3>2. \A i \in 1 .. m : (w \o copies)[i] = f
      BY <2>3, <2>4, <3>1
    <3>3. \A i \in DOMAIN sock'[c].wire : sock'[c].wire[i] = Current(t)
      BY <2>2, <2>3, <2>4, <2>5, <3>1, <3>2
    <3>4. Awaiting(t, task[t].conn)'
      BY <1>1, <2>5, <3>3 DEF Awaiting, Current
    <3>. QED BY <1>1, <1>3, <3>4 DEF Alone
  <2>7. CASE w # <<>>
    <3>1. 1 \in DOMAIN w /\ (w \o copies)[1] = w[1] /\ w \o copies # <<>>
      <4>1. Len(w) # 0
        BY <2>3, <2>7, EmptySeq
      <4>2. Len(w \o copies) = Len(w) + m
        BY <2>3, ConcatProperties
      <4>. QED BY <2>3, <2>4, <4>1, <4>2, EmptySeq
    <3>2. w[1].tx # task[t].tx
      BY <1>1, <1>4, <3>1 DEF Alone, Awaiting
    <3>3. Awaiting(t, task[t].conn)'
      BY <1>1, <2>5, <3>1, <3>2 DEF Awaiting
    <3>. QED BY <1>1, <1>3, <3>3 DEF Alone
  <2>. QED BY <2>6, <2>7
<1>5. CASE task[t].at = "exchanging" /\ c # d
  <2>1. c \in DOMAIN sock
    <3>1. c \in connections
      BY <1>5 DEF PoolInv, Accounted, InUse, At
    <3>. QED BY <3>1, LenProperties DEF TypedFor
  <2>2. sock'[c] = sock[c]
    <3>1. \A e \in DOMAIN sock : e # d => sock'[e] = sock[e]
      BY <1>1, Zenon
    <3>. QED BY <1>5, <2>1, <3>1
  <2>3. Awaiting(t, task[t].conn)'
    <3>1. Awaiting(t, c) /\ task' = task
      BY <1>1, <1>5 DEF Alone
    <3>. QED BY <2>2, <3>1 DEF Awaiting, Current
  <2>. QED BY <1>1, <1>3, <2>3 DEF Alone
<1>6. CASE task[t].at # "exchanging"
  BY <1>1, <1>3, <1>6 DEF Alone
<1>. QED
  BY <1>4, <1>5, <1>6

\* Every step of one caller, and of the device, keeps to it.
LEMMA OneCallStep ==
    ASSUME IInv, OneCaller, OneCall, [Next]_vars
    PROVE  OneCall'
<1>0. PICK k \in Nat :
          /\ k = Len(result) /\ TypedFor(k) /\ \A t \in Busy : task[t].n \in 1 .. k
  BY LogAndSockets DEF IInv, Calls
<1>. SUFFICES ASSUME NEW t \in Tasks PROVE Alone(t)'
  BY DEF OneCall
<1>1. Alone(t) /\ PoolInv /\ \A u \in Tasks : u = t
  BY DEF OneCall, OneCaller, IInv
<1>2. At("locking") = {} /\ At("waiting") = {}
  BY <1>1 DEF At, Alone
<1>3. task[t].at = "idle" => At("connecting") = {} /\ InUse = {}
  BY <1>1 DEF At, InUse
<1>4. ASSUME Submit(t) PROVE Alone(t)'
  <2>1. Call(t) /\ task[t].at = "idle" /\ phase = "running" /\ ~ SubmitLocking(t)
    BY <1>2, <1>3, <1>4
    DEF Submit, SubmitPooled, SubmitLocking, SubmitUnlocked, Call, Locked
  <2>2. PICK l \in Nat : l = Len(result) + 1 /\ l \in 1 .. l /\ TypedFor(l)
    BY <1>0, <2>1, CallTyped DEF IInv
  <2>3. CASE SendPooled(t, l)
    BY <1>1, <2>1, <2>2, <2>3, AloneSends
  <2>4. CASE available = <<>> /\ PastLock(t, l)
    <3>1. total < PoolSize
      <4>1. connections = {}
        BY <1>1, <1>3, <2>1, <2>4, EmptySeq DEF PoolInv, Accounted, Range
      <4>2. total = 0
        BY <1>1, <4>1, FS_EmptySet DEF PoolInv, PoolIsBounded
      <4>. QED BY <4>2, TcpBackendAssumption
    <3>2. Pause(t, l, "connecting")
      BY <1>0, <2>4, <3>1, TcpBackendAssumption DEF PastLock, TypedFor
    <3>3. task'[t].at = "connecting" /\ available' = <<>>
      BY <1>0, <2>4, <3>2 DEF Pause, TypedFor
    <3>. QED BY <3>3, EmptySeq DEF Alone
  <2>. QED BY <1>4, <2>1, <2>2, <2>3, <2>4 DEF Submit, SubmitPooled, SubmitUnlocked
<1>5. ASSUME GetLock(t) \/ GetReleased(t) PROVE FALSE
  BY <1>1, <1>5 DEF GetLock, GetReleased, Alone
<1>6. ASSUME Connected(t) PROVE Alone(t)'
  <2>1. task[t].at = "connecting" /\ task[t].n \in 1 .. k
    BY <1>0, <1>6 DEF Connected, Busy
  <2>. QED BY <1>0, <1>1, <1>6, <2>1, AloneSends
<1>7. ASSUME Receive(t) PROVE Alone(t)'
  BY <1>0, <1>1, <1>7, AloneReceives
<1>8. ASSUME ConnectFails(t) \/ Cancel(t) \/ ExchangeFails(t) PROVE Alone(t)'
  <2>1. task[t].at # "idle" /\ task' = [task EXCEPT ![t] = Idle] /\ available' = available
    BY <1>8 DEF ConnectFails, Cancel, ExchangeFails, End, Retire
  <2>2. available' = <<>> /\ task'[t].at = "idle"
    BY <1>0, <1>1, <2>1 DEF Alone, TypedFor, Idle
  <2>. QED BY <2>2, EmptySeq DEF Alone
<1>9. ASSUME UNCHANGED <<task, available, counter, sock>> PROVE Alone(t)'
  BY <1>1, <1>9 DEF Alone, Awaiting, Spent, Current
<1>10. CASE Close
  <2>1. available' = <<>> /\ task'[t].at = "idle"
    BY <1>10 DEF Close, At
  <2>. QED BY <2>1, EmptySeq DEF Alone
<1>11. CASE Device
  BY <1>0, <1>1, <1>11, AloneAnswered DEF Device
<1>12. CASE Stop \/ UNCHANGED vars
  BY <1>9, <1>12 DEF Stop, vars
<1>. QED
  BY <1>1, <1>4, <1>5, <1>6, <1>7, <1>8, <1>10, <1>11, <1>12 DEF Next, Proceed

LEMMA OneCallInit == Init => OneCall
<1>. SUFFICES ASSUME Init, NEW t \in Tasks PROVE Alone(t)
  BY DEF OneCall
<1>1. Len(<<>>) = 0 /\ DOMAIN <<>> = {}
  BY EmptySeq
<1>. QED
  BY <1>1 DEF Init, Alone, Idle

\* With one caller, as the dispatcher is, what is left on a connection that is
\* used again does not match the next request.
THEOREM OneCallInvariant == ASSUME OneCaller PROVE Spec => [](IInv /\ OneCall)
<1>1. Init => IInv /\ OneCall
  BY InitInv, OneCallInit
<1>2. IInv /\ OneCall /\ [Next]_vars => (IInv /\ OneCall)'
  BY NextInv, OneCallStep
<1>. QED
  BY <1>1, <1>2, PTL DEF Spec

\* A connection belongs to one call, or lies in the pool, once, and with no
\* request of an earlier call unanswered.
THEOREM Exclusive == ASSUME OneCaller PROVE Spec => []ConnectionsAreExclusive
<1>1. ASSUME IInv, OneCall PROVE ConnectionsAreExclusive
  <2>1. Accounted
    BY <1>1 DEF IInv, PoolInv
  <2>2. \A i, j \in DOMAIN available : available[i] = available[j] => i = j
    BY <2>1 DEF Accounted, IsInjective
  <2>3. ASSUME NEW i \in DOMAIN available PROVE sock[available[i]].inbox = <<>>
    <3>1. PICK t : t \in Tasks
      BY DEF OneCaller
    <3>. QED BY <1>1, <3>1 DEF OneCall, Alone, Spent
  <2>. QED
    BY <2>1, <2>2, <2>3 DEF ConnectionsAreExclusive, Accounted, Range
<1>2. IInv /\ OneCall => ConnectionsAreExclusive
  BY <1>1
<1>. QED
  BY <1>2, OneCallInvariant, PTL

-----------------------------------------------------------------------------
(* Many callers, and calls that are fewer than the transaction ids. *)

\* The ids do not come around.
FewCalls == MaxSubmits < TxMod

\* The calls that have not sent their request.
Unsent == {t \in Tasks : task[t].at \in {"locking", "connecting", "waiting"}}

\* A call takes one id, and takes it when it sends its request.
Counted ==
    /\ IsFiniteSet(Unsent) /\ counter + Cardinality(Unsent) <= Len(result)
    /\ Len(result) <= MaxSubmits

\* What is on the wire of a connection carries ids that were given out.
Given(c) == \A i \in DOMAIN sock[c].wire : sock[c].wire[i].tx \in 0 .. counter

\* The request of a task is not answered yet, or what carries its id is its answer.
Owes(t, c) ==
    /\ task[t].tx \in 0 .. counter /\ Given(c)
    /\ \/ /\ sock[c].inbox = <<Current(t)>>
          /\ \A i \in DOMAIN sock[c].wire : sock[c].wire[i].tx # task[t].tx
       \/ /\ sock[c].inbox = <<>>
          /\ \A i \in DOMAIN sock[c].wire :
                sock[c].wire[i].tx = task[t].tx => sock[c].wire[i] = Current(t)

Owing ==
    /\ \A t \in At("exchanging") : Owes(t, task[t].conn)
    /\ \A c \in Range(available) : sock[c].inbox = <<>> /\ Given(c)

\* A call that begins, or has sent nothing, gets an id that was never given out.
LEMMA IdIsNew ==
    ASSUME TypeOK, Counted, FewCalls, NEW t \in Tasks, Call(t) \/ t \in Unsent
    PROVE  counter \in Nat /\ NextTx = counter + 1
<1>1. counter \in Nat /\ Len(result) \in Nat /\ MaxSubmits \in Nat /\ TxMod \in Nat \ {0, 1}
  BY LogAndSockets, TcpBackendAssumption DEF TypedFor
<1>2. Cardinality(Unsent) \in Nat
  BY FS_CardinalityType DEF Counted
<1>3. counter + 1 <= MaxSubmits
  <2>1. CASE Call(t)
    BY <1>1, <1>2, <2>1 DEF Call, Counted
  <2>2. CASE t \in Unsent
    <3>1. Cardinality(Unsent) # 0
      BY <2>2, FS_EmptySet DEF Counted
    <3>. QED BY <1>1, <1>2, <3>1 DEF Counted
  <2>. QED BY <2>1, <2>2
<1>4. ASSUME NEW x \in Nat, NEW b \in Nat, 0 < x, x < b PROVE x % b = x
  BY <1>4
<1>5. (counter + 1) % TxMod = counter + 1
  BY <1>1, <1>3, <1>4 DEF FewCalls
<1>. QED
  BY <1>1, <1>5 DEF NextTx

\* One task moves; the log, the ids and the calls without one go together.
LEMMA StillCounted ==
    ASSUME Counted, NEW t \in Tasks, \A u \in Tasks : u # t => task'[u] = task[u],
           counter \in Nat, counter' \in Nat, Len(result) \in Nat, Len(result') \in Nat,
           Len(result') <= MaxSubmits,
           counter' + (IF t \in Unsent' THEN 1 ELSE 0) + Len(result)
              <= counter + (IF t \in Unsent THEN 1 ELSE 0) + Len(result')
    PROVE  Counted'
<1>1. IsFiniteSet(Unsent) /\ Cardinality(Unsent) \in Nat
  BY FS_CardinalityType DEF Counted
<1>2. counter + Cardinality(Unsent) <= Len(result)
  BY DEF Counted
<1>3. Unsent' = IF t \in Unsent' THEN Unsent \cup {t} ELSE Unsent \ {t}
  BY DEF Unsent
<1>4. CASE t \in Unsent'
  <2>1. /\ IsFiniteSet(Unsent')
        /\ Cardinality(Unsent') = IF t \in Unsent THEN Cardinality(Unsent)
                                  ELSE Cardinality(Unsent) + 1
    BY <1>1, <1>3, <1>4, FS_AddElement
  <2>2. CASE t \in Unsent
    BY <1>1, <1>2, <1>4, <2>1, <2>2 DEF Counted
  <2>3. CASE t \notin Unsent
    BY <1>1, <1>2, <1>4, <2>1, <2>3 DEF Counted
  <2>. QED BY <2>2, <2>3
<1>5. CASE t \notin Unsent'
  <2>1. /\ IsFiniteSet(Unsent')
        /\ Cardinality(Unsent') = IF t \in Unsent THEN Cardinality(Unsent) - 1
                                  ELSE Cardinality(Unsent)
    BY <1>1, <1>3, <1>5, FS_RemoveElement
  <2>2. CASE t \in Unsent
    BY <1>1, <1>2, <1>5, <2>1, <2>2 DEF Counted
  <2>3. CASE t \notin Unsent
    BY <1>1, <1>2, <1>5, <2>1, <2>3 DEF Counted
  <2>. QED BY <2>2, <2>3
<1>. QED
  BY <1>4, <1>5

\* Every step keeps the count.
LEMMA CountStep ==
    ASSUME IInv, Counted, FewCalls, [Next]_vars
    PROVE  Counted'
<1>0. PICK k \in Nat :
          /\ k = Len(result) /\ result \in Seq(Outcomes(k)) /\ TypedFor(k)
          /\ DOMAIN result = 1 .. k
          /\ \A t \in Busy : task[t].n \in 1 .. k
  BY LogAndSockets DEF IInv, Calls
<1>1. TypeOK /\ counter \in Nat /\ k <= MaxSubmits /\ MaxSubmits \in Nat
  BY <1>0, TcpBackendAssumption DEF IInv, TypedFor, Counted
<1>2. ASSUME NEW t \in Tasks, NEW n, NEW l \in Nat, TypedFor(l),
             Call(t) \/ t \in Unsent, SendPooled(t, n) \/ PastLock(t, n)
                \/ \E place \in {"locking", "connecting", "waiting"} : Pause(t, n, place)
      PROVE  /\ \A u \in Tasks : u # t => task'[u] = task[u]
             /\ counter' \in Nat
             /\ counter' + (IF t \in Unsent' THEN 1 ELSE 0) = counter + 1
  <2>1. NextTx = counter + 1
    BY <1>1, <1>2, IdIsNew
  <2>2. \/ counter' = NextTx /\ task'[t].at = "exchanging"
        \/ counter' = counter /\ task'[t].at \in {"locking", "connecting", "waiting"}
    BY <1>2 DEF SendPooled, Send, PastLock, Pause, TypedFor
  <2>3. \A u \in Tasks : u # t => task'[u] = task[u]
    BY <1>2 DEF SendPooled, Send, PastLock, Pause, TypedFor
  <2>4. CASE counter' = NextTx /\ task'[t].at = "exchanging"
    <3>1. t \notin Unsent'
      BY <2>4 DEF Unsent
    <3>. QED BY <1>1, <2>1, <2>3, <2>4, <3>1
  <2>5. CASE counter' = counter /\ task'[t].at \in {"locking", "connecting", "waiting"}
    <3>1. t \in Unsent'
      BY <2>5 DEF Unsent
    <3>. QED BY <1>1, <2>3, <2>5, <3>1
  <2>. QED BY <2>2, <2>4, <2>5
<1>3. ASSUME NEW t \in Tasks, Submit(t) PROVE Counted'
  <2>1. Call(t) /\ t \notin Unsent
    BY <1>3 DEF Submit, SubmitPooled, SubmitLocking, SubmitUnlocked, Call, Unsent
  <2>2. /\ Len(result') = k + 1 /\ TypedFor(k + 1) /\ k + 1 \in Nat /\ k + 1 <= MaxSubmits
    BY <1>0, <1>1, <2>1, CallTyped DEF Call
  <2>3. \/ SendPooled(t, k + 1) \/ PastLock(t, k + 1)
        \/ \E place \in {"locking", "connecting", "waiting"} : Pause(t, k + 1, place)
    BY <1>0, <1>3 DEF Submit, SubmitPooled, SubmitLocking, SubmitUnlocked
  <2>4. /\ \A u \in Tasks : u # t => task'[u] = task[u]
        /\ counter' \in Nat
        /\ counter' + (IF t \in Unsent' THEN 1 ELSE 0) = counter + 1
    BY <1>2, <2>1, <2>2, <2>3
  <2>5. counter' + (IF t \in Unsent' THEN 1 ELSE 0) + Len(result)
           <= counter + (IF t \in Unsent THEN 1 ELSE 0) + Len(result')
    BY <1>0, <1>1, <2>1, <2>2, <2>4
  <2>. QED BY <1>0, <1>1, <2>2, <2>4, <2>5, StillCounted
<1>4. ASSUME NEW t \in Tasks, GetLock(t) \/ GetReleased(t) PROVE Counted'
  <2>1. t \in Unsent /\ UNCHANGED result
    BY <1>4 DEF GetLock, GetReleased, Unsent
  <2>2. SendPooled(t, task[t].n) \/ PastLock(t, task[t].n)
    BY <1>4 DEF GetLock, GetReleased
  <2>3. /\ \A u \in Tasks : u # t => task'[u] = task[u]
        /\ counter' \in Nat
        /\ counter' + (IF t \in Unsent' THEN 1 ELSE 0) = counter + 1
    BY <1>0, <1>2, <2>1, <2>2
  <2>4. counter' + (IF t \in Unsent' THEN 1 ELSE 0) + Len(result)
           <= counter + (IF t \in Unsent THEN 1 ELSE 0) + Len(result')
    <3>1. Len(result') = k /\ Len(result) = k
      BY <1>0, <2>1
    <3>2. ASSUME NEW a, a + k = counter + 1 + k
          PROVE  a + Len(result) <= counter + 1 + Len(result')
      BY <1>0, <1>1, <3>1, <3>2
    <3>3. counter' + (IF t \in Unsent' THEN 1 ELSE 0) + k = counter + 1 + k
      BY <2>3
    <3>. QED BY <2>1, <3>2, <3>3
  <2>. QED BY <1>0, <1>1, <2>1, <2>3, <2>4, StillCounted
<1>5. ASSUME NEW t \in Tasks, Connected(t) PROVE Counted'
  <2>1. t \in Unsent /\ UNCHANGED result /\ counter' = NextTx
    BY <1>5 DEF Connected, Unsent
  <2>2. /\ \A u \in Tasks : u # t => task'[u] = task[u]
        /\ t \notin Unsent'
    BY <1>0, <1>5 DEF Connected, TypedFor, Unsent
  <2>3. counter' = counter + 1
    BY <1>1, <2>1, IdIsNew
  <2>. QED BY <1>0, <1>1, <2>1, <2>2, <2>3, StillCounted
<1>6. ASSUME NEW t \in Tasks, ConnectFails(t) \/ Cancel(t) \/ Receive(t) \/ ExchangeFails(t)
      PROVE  Counted'
  <2>1. /\ t \in Busy /\ counter' = counter /\ task' = [task EXCEPT ![t] = Idle]
        /\ \E outcome : result' = [result EXCEPT ![task[t].n] = outcome]
    BY <1>6 DEF ConnectFails, Cancel, Receive, ExchangeFails, End, Busy
  <2>2. /\ \A u \in Tasks : u # t => task'[u] = task[u]
        /\ t \notin Unsent'
    BY <1>0, <2>1 DEF TypedFor, Unsent, Idle
  <2>3. Len(result') = Len(result)
    <3>1. PICK outcome : result' = [result EXCEPT ![task[t].n] = outcome]
      BY <2>1
    <3>2. result \in Seq(Outcomes(k) \cup {outcome}) /\ task[t].n \in 1 .. Len(result)
      BY <1>0, <2>1, SeqMonotonic
    <3>. QED BY <3>1, <3>2, ExceptSeq
  <2>. QED BY <1>0, <1>1, <2>1, <2>2, <2>3, StillCounted
<1>7. ASSUME UNCHANGED <<task, counter, result>> PROVE Counted'
  BY <1>7 DEF Counted, Unsent
<1>8. CASE Stop \/ Close \/ Device \/ UNCHANGED vars
  <2>1. UNCHANGED <<task, counter, result>>
    BY <1>8 DEF Stop, Close, Device, Answer, vars
  <2>. QED BY <1>7, <2>1
<1>9. ASSUME NEW t \in Tasks, Submit(t) \/ Proceed(t) \/ Cancel(t) PROVE Counted'
  BY <1>3, <1>4, <1>5, <1>6, <1>9 DEF Proceed
<1>. QED
  BY <1>8, <1>9 DEF Next

\* What is in the pool or in use are sockets.
LEMMA SocketsOfPool ==
    ASSUME NEW k \in Nat, TypedFor(k), PoolInv
    PROVE  Range(available) \subseteq DOMAIN sock /\ InUse \subseteq DOMAIN sock
<1>1. Range(available) \subseteq connections /\ InUse \subseteq connections
  BY DEF PoolInv, Accounted
<1>2. sock \in Seq(Sockets(k)) /\ connections \subseteq 1 .. Len(sock)
  BY DEF TypedFor
<1>3. DOMAIN sock = 1 .. Len(sock)
  BY <1>2, LenProperties
<1>. QED
  BY <1>1, <1>2, <1>3

\* What one task does leaves the exchange of another on its own connection alone.
LEMMA StillOwes ==
    ASSUME NEW u \in Tasks, Owes(u, task[u].conn), task'[u] = task[u],
           sock'[task[u].conn] = sock[task[u].conn],
           counter \in Nat, counter' \in Nat, counter <= counter'
    PROVE  Owes(u, task[u].conn)'
<1>1. \A x \in 0 .. counter : x \in 0 .. counter'
  OBVIOUS
<1>. QED
  BY <1>1 DEF Owes, Given, Current

\* A connection of the pool that no step touches.
LEMMA StillPooled ==
    ASSUME NEW c, sock[c].inbox = <<>>, Given(c), sock'[c] = sock[c],
           counter \in Nat, counter' \in Nat, counter <= counter'
    PROVE  sock'[c].inbox = <<>> /\ \A i \in DOMAIN sock'[c].wire : sock'[c].wire[i].tx \in 0 .. counter'
<1>1. \A x \in 0 .. counter : x \in 0 .. counter'
  OBVIOUS
<1>. QED
  BY <1>1 DEF Given

\* Nothing that comes before the answer to a request carries its id: the request is
\* written to a connection whose ids are older, or to a new one.
LEMMA OwingSent ==
    ASSUME NEW k \in Nat, TypedFor(k), PoolInv, Owing, NEW t \in Tasks, NEW n \in 1 .. k,
           counter \in Nat, NextTx = counter + 1,
           \/ task[t].at # "exchanging" /\ SendPooled(t, n)
           \/ Connected(t) /\ n = task[t].n
    PROVE  Owing'
<1>. DEFINE f == [tx |-> NextTx, n |-> n]
<1>1. PICK c :
        /\ task'[t] = [at |-> "exchanging", n |-> n, conn |-> c, tx |-> NextTx]
        /\ \A u \in Tasks : u # t => task'[u] = task[u]
        /\ t \notin At("exchanging") /\ c \notin InUse /\ c \notin Range(available')
        /\ Range(available') \subseteq Range(available)
        /\ counter' = counter + 1
        /\ sock'[c].inbox = <<f>>
        /\ \A i \in DOMAIN sock'[c].wire : sock'[c].wire[i].tx \in 0 .. counter
        /\ \A d \in DOMAIN sock : d # c => sock'[d] = sock[d]
  <2>1. CASE task[t].at # "exchanging" /\ SendPooled(t, n)
    <3>. DEFINE c == Head(available)
    <3>1. /\ available # <<>> /\ available' = Tail(available) /\ counter' = NextTx
          /\ task' = [task EXCEPT ![t] =
                        [at |-> "exchanging", n |-> n, conn |-> c, tx |-> NextTx]]
          /\ sock'[c] = [open |-> sock[c].open, inbox |-> Append(sock[c].inbox, f),
                         wire |-> sock[c].wire]
          /\ \A d \in DOMAIN sock : d # c => sock'[d] = sock[d]
      BY <2>1, SendTyped DEF SendPooled, Send, Took
    <3>2. /\ Range(available) = {c} \cup Range(available') /\ c \notin Range(available')
      BY <3>1, PoolTaken DEF TypedFor, PoolInv, Accounted
    <3>3. c \notin InUse
      BY <3>2 DEF PoolInv, Accounted
    <3>4. sock[c].inbox = <<>> /\ Given(c)
      BY <3>2 DEF Owing
    <3>5. /\ sock'[c].inbox = Append(<<>>, f) /\ sock'[c].wire = sock[c].wire
      BY <3>1, <3>4
    <3>6. Append(<<>>, f) = <<f>>
      OBVIOUS
    <3>7. t \notin At("exchanging")
      BY <2>1 DEF At
    <3>8. /\ task'[t] = [at |-> "exchanging", n |-> n, conn |-> c, tx |-> NextTx]
          /\ \A u \in Tasks : u # t => task'[u] = task[u]
      BY <3>1 DEF TypedFor
    <3>9. \A i \in DOMAIN sock'[c].wire : sock'[c].wire[i].tx \in 0 .. counter
      BY <3>4, <3>5 DEF Given
    <3>10. sock'[c].inbox = <<f>>
      BY <3>5, <3>6
    <3>. QED BY <3>1, <3>2, <3>3, <3>7, <3>8, <3>9, <3>10
  <2>2. CASE Connected(t) /\ n = task[t].n
    <3>. DEFINE c == Len(sock) + 1
    <3>1. /\ task[t].at = "connecting" /\ available' = available /\ counter' = NextTx
          /\ task'[t] = [at |-> "exchanging", n |-> n, conn |-> c, tx |-> NextTx]
          /\ \A u \in Tasks : u # t => task'[u] = task[u]
      BY <2>2 DEF Connected, TypedFor
    <3>2. /\ c \notin DOMAIN sock /\ connections \subseteq DOMAIN sock
          /\ sock'[c] = [open |-> TRUE, inbox |-> <<f>>, wire |-> <<>>]
          /\ \A d \in DOMAIN sock : sock'[d] = sock[d]
      BY <2>2, ConnectedTyped
    <3>3. c \notin InUse /\ c \notin Range(available')
      BY <3>1, <3>2 DEF PoolInv, Accounted
    <3>4. t \notin At("exchanging")
      BY <3>1 DEF At
    <3>5. sock'[c].inbox = <<f>> /\ DOMAIN sock'[c].wire = {}
      BY <3>2, EmptySeq
    <3>6. \A i \in DOMAIN sock'[c].wire : sock'[c].wire[i].tx \in 0 .. counter
      BY <3>5
    <3>. QED BY <3>1, <3>2, <3>3, <3>4, <3>5, <3>6
  <2>. QED BY <2>1, <2>2
<1>2. counter' \in Nat /\ counter <= counter'
  BY <1>1
<1>3. Range(available) \subseteq DOMAIN sock /\ InUse \subseteq DOMAIN sock
  BY SocketsOfPool
<1>4. ASSUME NEW u \in At("exchanging")' PROVE Owes(u, task[u].conn)'
  <2>1. CASE u = t
    <3>1. task'[t].tx = counter + 1 /\ task'[t].n = n /\ task'[t].conn = c
      BY <1>1
    <3>2. sock'[c].inbox = <<Current(t)>>'
      BY <1>1, <3>1 DEF Current
    <3>3. \A i \in DOMAIN sock'[c].wire :
             sock'[c].wire[i].tx \in 0 .. counter' /\ sock'[c].wire[i].tx # task'[t].tx
      BY <1>1, <3>1
    <3>4. task'[t].tx \in 0 .. counter'
      BY <1>1, <3>1
    <3>. QED BY <2>1, <3>1, <3>2, <3>3, <3>4 DEF Owes, Given
  <2>2. CASE u # t
    <3>1. u \in At("exchanging") /\ u \in Tasks /\ task'[u] = task[u]
      BY <1>1, <2>2 DEF At
    <3>2. task[u].conn \in InUse
      BY <3>1, Zenon DEF InUse
    <3>3. sock'[task[u].conn] = sock[task[u].conn]
      BY <1>1, <1>3, <3>2
    <3>. QED BY <1>2, <3>1, <3>3, StillOwes DEF Owing
  <2>. QED BY <2>1, <2>2
<1>5. ASSUME NEW d \in Range(available')
      PROVE  sock'[d].inbox = <<>> /\ \A i \in DOMAIN sock'[d].wire : sock'[d].wire[i].tx \in 0 .. counter'
  <2>1. sock'[d] = sock[d] /\ d \in Range(available)
    BY <1>1, <1>3
  <2>. QED BY <1>2, <2>1, StillPooled DEF Owing
<1>. QED
  BY <1>4, <1>5 DEF Owing, Given

\* The frame that matches is the answer to the call's own request; what is left on the
\* connection matches no request to come.
LEMMA OwingReceived ==
    ASSUME NEW k \in Nat, TypedFor(k), PoolInv, Owing, NEW t \in Tasks, Receive(t)
    PROVE  Owing' /\ Head(sock[task[t].conn].wire).n = task[t].n
<1>. DEFINE c == task[t].conn
            w == sock[c].wire
            x == [open |-> sock[c].open, inbox |-> sock[c].inbox, wire |-> Tail(w)]
<1>1. /\ task[t].at = "exchanging" /\ w # <<>> /\ Head(w).tx = task[t].tx
      /\ task' = [task EXCEPT ![t] = Idle]
      /\ sock' = [sock EXCEPT ![c].wire = Tail(@)]
      /\ Release(c) /\ counter' = counter
  BY DEF Receive, End, Matches
<1>2. t \in At("exchanging") /\ c \in InUse
  <2>1. t \in At("exchanging")
    BY <1>1 DEF At
  <2>. QED BY <2>1, Zenon DEF InUse
<1>3. c \in 1 .. Len(sock) /\ c \notin Range(available) /\ counter \in Nat
  BY <1>2, TcpBackendAssumption DEF PoolInv, Accounted, TypedFor
<1>4. /\ Head(w) = w[1] /\ DOMAIN w = 1 .. Len(w) /\ Len(w) \in Nat \ {0}
      /\ DOMAIN Tail(w) = 1 .. Len(w) - 1
      /\ \A i \in 1 .. Len(w) - 1 : Tail(w)[i] = w[i + 1]
  <2>1. w \in Seq(Frames(k))
    BY <1>3, SocketTyped DEF TypedFor
  <2>. QED BY <1>1, <2>1, LenProperties, EmptySeq, HeadTailProperties
<1>5. Owes(t, c)
  BY <1>2 DEF Owing
<1>6. 1 \in DOMAIN w /\ w[1].tx = task[t].tx
  BY <1>1, <1>4
<1>7. sock[c].inbox = <<>> /\ w[1] = Current(t)
  BY <1>5, <1>6 DEF Owes
<1>8. Head(w).n = task[t].n
  BY <1>4, <1>7 DEF Current
<1>9. /\ DOMAIN sock = 1 .. Len(sock)
      /\ \A d \in DOMAIN sock : sock'[d] = IF d = c THEN x ELSE sock[d]
  BY <1>1, <1>3, ReceiveTyped
<1>10. sock'[c].inbox = <<>> /\ \A i \in DOMAIN sock'[c].wire : sock'[c].wire[i].tx \in 0 .. counter'
  <2>1. sock'[c].inbox = <<>> /\ sock'[c].wire = Tail(w)
    <3>1. sock'[c] = x
      BY <1>3, <1>9
    <3>2. x.inbox = <<>> /\ x.wire = Tail(w)
      BY <1>7
    <3>. QED BY <3>1, <3>2
  <2>2. ASSUME NEW i \in 1 .. Len(w) - 1 PROVE Tail(w)[i].tx \in 0 .. counter'
    <3>1. i + 1 \in DOMAIN w /\ Tail(w)[i] = w[i + 1]
      BY <1>4
    <3>. QED BY <1>1, <1>5, <3>1 DEF Owes, Given
  <2>. QED BY <1>4, <2>1, <2>2
<1>11. Range(available') = Range(available) \cup {c}
  BY <1>1, <1>3, PoolReleased DEF TypedFor
<1>12. /\ \A u \in Tasks : u # t => task'[u] = task[u]
       /\ task'[t].at = "idle"
  BY <1>1 DEF TypedFor, Idle
<1>13. Range(available) \subseteq DOMAIN sock /\ InUse \subseteq DOMAIN sock
  BY SocketsOfPool
<1>14. ASSUME NEW u \in At("exchanging")' PROVE Owes(u, task[u].conn)'
  <2>1. u \in At("exchanging") /\ u \in Tasks /\ u # t /\ task'[u] = task[u]
    BY <1>12 DEF At
  <2>2. task[u].conn \in InUse /\ task[u].conn # c
    <3>1. task[u].conn \in InUse
      BY <2>1, Zenon DEF InUse
    <3>. QED BY <1>2, <2>1, <3>1 DEF PoolInv, Accounted
  <2>3. sock'[task[u].conn] = sock[task[u].conn]
    BY <1>9, <1>13, <2>2
  <2>. QED BY <1>1, <1>3, <2>1, <2>3, StillOwes DEF Owing
<1>15. ASSUME NEW d \in Range(available')
       PROVE  sock'[d].inbox = <<>> /\ \A i \in DOMAIN sock'[d].wire : sock'[d].wire[i].tx \in 0 .. counter'
  <2>1. CASE d = c
    BY <1>10, <2>1
  <2>2. CASE d # c
    <3>1. d \in Range(available) /\ sock'[d] = sock[d]
      BY <1>9, <1>11, <1>13, <2>2
    <3>2. sock[d].inbox = <<>> /\ Given(d)
      BY <3>1 DEF Owing
    <3>3. counter' \in Nat /\ counter <= counter'
      BY <1>1, <1>3
    <3>. QED BY <1>3, <3>1, <3>2, <3>3, StillPooled
  <2>. QED BY <2>1, <2>2
<1>. QED
  BY <1>8, <1>14, <1>15 DEF Owing, Given

\* The device answers a request that is not answered: that of the task that uses the
\* connection, or of one that was cancelled.
LEMMA OwingAnswered ==
    ASSUME NEW k \in Nat, TypedFor(k), PoolInv, Owing,
           NEW d \in DOMAIN sock, NEW m \in 1 .. Copies, Answer(d, m)
    PROVE  Owing'
<1>. DEFINE f == Head(sock[d].inbox)
            w == sock[d].wire
            copies == [i \in 1 .. m |-> f]
            x == [open |-> sock[d].open, inbox |-> Tail(sock[d].inbox), wire |-> w \o copies]
<1>1. /\ UNCHANGED <<task, available, counter>> /\ sock[d].inbox # <<>>
      /\ DOMAIN sock' = DOMAIN sock
      /\ \A e \in DOMAIN sock : sock'[e] = IF e = d THEN x ELSE sock[e]
  BY AnswerTyped DEF Answer
<1>2. Range(available) \subseteq DOMAIN sock /\ InUse \subseteq DOMAIN sock
  BY SocketsOfPool
<1>3. counter \in Nat /\ counter' \in Nat /\ counter <= counter'
  BY <1>1, TcpBackendAssumption DEF TypedFor
<1>4. ASSUME NEW c \in Range(available')
      PROVE  sock'[c].inbox = <<>> /\ \A i \in DOMAIN sock'[c].wire : sock'[c].wire[i].tx \in 0 .. counter'
  <2>1. c \in Range(available) /\ c # d
    BY <1>1 DEF Owing
  <2>2. sock'[c] = sock[c]
    BY <1>1, <1>2, <2>1
  <2>. QED BY <1>3, <2>1, <2>2, StillPooled DEF Owing
<1>5. ASSUME NEW t \in At("exchanging")' PROVE Owes(t, task[t].conn)'
  <2>. DEFINE c == task[t].conn
  <2>1. t \in At("exchanging") /\ t \in Tasks /\ task'[t] = task[t]
    BY <1>1 DEF At
  <2>2. c \in DOMAIN sock /\ Owes(t, c)
    <3>1. c \in InUse
      BY <2>1, Zenon DEF InUse
    <3>. QED BY <1>2, <2>1, <3>1 DEF Owing
  <2>3. CASE c # d
    <3>1. sock'[c] = sock[c]
      BY <1>1, <2>2, <2>3
    <3>. QED BY <1>3, <2>1, <2>2, <3>1, StillOwes
  <2>4. CASE c = d
    <3>1. sock[c].inbox = <<Current(t)>> /\ \A i \in DOMAIN w : w[i].tx # task[t].tx
      BY <1>1, <2>2, <2>4 DEF Owes
    <3>2. f = Current(t) /\ Tail(sock[d].inbox) = <<>>
      BY <2>4, <3>1
    <3>3. /\ w \in Seq(Frames(k)) /\ DOMAIN w = 1 .. Len(w) /\ Len(w) \in Nat
          /\ copies \in Seq(Frames(k)) /\ Len(copies) = m /\ m \in Nat \ {0}
          /\ DOMAIN copies = 1 .. m
      <4>1. w \in Seq(Frames(k))
        BY SocketTyped, LenProperties DEF TypedFor
      <4>2. f \in Frames(k)
        BY AnswerTyped
      <4>3. copies \in Seq(Frames(k)) /\ Len(copies) = m /\ m \in Nat \ {0}
        BY <4>2, TcpBackendAssumption
      <4>. QED BY <4>1, <4>3, LenProperties
    <3>4. /\ DOMAIN (w \o copies) = 1 .. Len(w) + m
          /\ \A i \in 1 .. Len(w) + m :
                (w \o copies)[i] = IF i <= Len(w) THEN w[i] ELSE copies[i - Len(w)]
      BY <3>3, ConcatProperties, LenProperties
    <3>5. \A i \in 1 .. Len(w) + m :
             (w \o copies)[i].tx \in 0 .. counter
             /\ ((w \o copies)[i].tx = task[t].tx => (w \o copies)[i] = Current(t))
      <4>. TAKE i \in 1 .. Len(w) + m
      <4>1. CASE i <= Len(w)
        <5>1. i \in DOMAIN w /\ (w \o copies)[i] = w[i]
          BY <3>3, <3>4, <4>1
        <5>. QED BY <2>2, <2>4, <3>1, <5>1 DEF Owes, Given
      <4>2. CASE ~ (i <= Len(w))
        <5>1. i - Len(w) \in 1 .. m
          BY <3>3, <4>2
        <5>2. (w \o copies)[i] = Current(t)
          BY <3>2, <3>4, <4>2, <5>1
        <5>3. Current(t).tx \in 0 .. counter
          BY <2>2 DEF Owes, Current
        <5>. QED BY <5>2, <5>3
      <4>. QED BY <4>1, <4>2
    <3>6. sock'[c].inbox = <<>> /\ sock'[c].wire = w \o copies
      <4>1. sock'[c] = x
        BY <1>1, <2>4
      <4>2. x.inbox = <<>> /\ x.wire = w \o copies
        BY <3>2
      <4>. QED BY <4>1, <4>2
    <3>7. task'[t].tx \in 0 .. counter'
      BY <1>1, <2>2 DEF Owes
    <3>8. \A i \in DOMAIN sock'[c].wire :
             /\ sock'[c].wire[i].tx \in 0 .. counter'
             /\ sock'[c].wire[i].tx = task'[t].tx => sock'[c].wire[i] = Current(t)'
      BY <1>1, <3>4, <3>5, <3>6 DEF Current
    <3>. QED BY <1>1, <3>6, <3>7, <3>8 DEF Owes, Given
  <2>. QED BY <2>3, <2>4
<1>. QED
  BY <1>4, <1>5 DEF Owing, Given

\* Every step keeps what is owed.
LEMMA OwingStep ==
    ASSUME IInv, Counted, Owing, FewCalls, [Next]_vars
    PROVE  Owing'
<1>0. PICK k \in Nat :
          /\ k = Len(result) /\ TypedFor(k) /\ counter \in Nat
          /\ DOMAIN result = 1 .. k /\ DOMAIN sock = 1 .. Len(sock)
          /\ \A t \in Busy : task[t].n \in 1 .. k
  <2>1. TypedFor(Len(result)) => counter \in Nat
    BY TcpBackendAssumption DEF TypedFor
  <2>. QED BY <2>1, LogAndSockets DEF IInv, Calls
<1>1. PoolInv /\ TypeOK
  BY DEF IInv
<1>2. Range(available) \subseteq DOMAIN sock /\ InUse \subseteq DOMAIN sock
  BY <1>0, <1>1, SocketsOfPool
\* Calls that wait send nothing, and those that end without an answer use nothing.
<1>3. ASSUME At("exchanging")' \subseteq At("exchanging"),
             \A u \in At("exchanging")' : task'[u] = task[u],
             Range(available') \subseteq Range(available), counter' = counter,
             \A u \in At("exchanging")' : sock'[task[u].conn] = sock[task[u].conn],
             \A c \in Range(available) : sock'[c] = sock[c]
      PROVE  Owing'
  <2>1. ASSUME NEW u \in At("exchanging")' PROVE Owes(u, task[u].conn)'
    <3>1. u \in At("exchanging") /\ u \in Tasks /\ task'[u] = task[u]
          /\ sock'[task[u].conn] = sock[task[u].conn]
      BY <1>3 DEF At
    <3>. QED BY <1>0, <1>3, <3>1, StillOwes DEF Owing
  <2>2. ASSUME NEW c \in Range(available')
        PROVE  sock'[c].inbox = <<>> /\ \A i \in DOMAIN sock'[c].wire : sock'[c].wire[i].tx \in 0 .. counter'
    <3>1. c \in Range(available) /\ sock'[c] = sock[c]
      BY <1>3
    <3>2. sock[c].inbox = <<>> /\ Given(c)
      BY <3>1 DEF Owing
    <3>. QED BY <1>0, <1>3, <3>1, <3>2, StillPooled
  <2>. QED BY <2>1, <2>2 DEF Owing, Given
<1>4. ASSUME NEW t \in Tasks, NEW n, NEW place \in {"locking", "connecting", "waiting"},
             Pause(t, n, place), task[t].at # "exchanging"
      PROVE  Owing'
  <2>1. /\ task' = [task EXCEPT ![t] = [at |-> place, n |-> n, conn |-> 0, tx |-> 0]]
        /\ UNCHANGED <<available, counter, sock>>
    BY <1>4 DEF Pause
  <2>2. \A u \in Tasks : u # t => task'[u] = task[u]
    BY <1>0, <2>1 DEF TypedFor
  <2>3. task'[t].at # "exchanging"
    BY <1>0, <2>1 DEF TypedFor
  <2>4. At("exchanging")' \subseteq At("exchanging") \ {t}
    BY <2>2, <2>3 DEF At
  <2>5. \A u \in At("exchanging")' : task'[u] = task[u]
    BY <2>2, <2>4 DEF At
  <2>. QED BY <1>3, <2>1, <2>4, <2>5
<1>5. ASSUME NEW t \in Tasks, NEW n, NEW l \in Nat, TypedFor(l), n \in 1 .. l,
             Call(t) \/ t \in Unsent, SendPooled(t, n) \/ PastLock(t, n)
                \/ \E place \in {"locking", "connecting", "waiting"} : Pause(t, n, place)
      PROVE  Owing'
  <2>1. NextTx = counter + 1
    BY <1>1, <1>5, IdIsNew
  <2>2. task[t].at # "exchanging"
    BY <1>5 DEF Call, Unsent
  <2>3. CASE SendPooled(t, n)
    BY <1>0, <1>1, <1>5, <2>1, <2>2, <2>3, OwingSent
  <2>4. CASE \E place \in {"locking", "connecting", "waiting"} : Pause(t, n, place)
    BY <1>4, <2>2, <2>4
  <2>. QED BY <1>5, <2>3, <2>4 DEF PastLock
<1>6. ASSUME NEW t \in Tasks, Submit(t) PROVE Owing'
  <2>1. Call(t)
    BY <1>6 DEF Submit, SubmitPooled, SubmitLocking, SubmitUnlocked
  <2>2. PICK l \in Nat : l = Len(result) + 1 /\ l \in 1 .. l /\ TypedFor(l)
    BY <1>0, <1>1, <2>1, CallTyped
  <2>3. \/ SendPooled(t, l) \/ PastLock(t, l)
        \/ \E place \in {"locking", "connecting", "waiting"} : Pause(t, l, place)
    BY <1>6, <2>2 DEF Submit, SubmitPooled, SubmitLocking, SubmitUnlocked
  <2>. QED BY <1>5, <2>1, <2>2, <2>3
<1>7. ASSUME NEW t \in Tasks, GetLock(t) \/ GetReleased(t) PROVE Owing'
  <2>1. t \in Unsent /\ t \in Busy
    BY <1>7 DEF GetLock, GetReleased, Unsent, Busy
  <2>2. task[t].n \in 1 .. k
    BY <1>0, <2>1
  <2>3. SendPooled(t, task[t].n) \/ PastLock(t, task[t].n)
    BY <1>7 DEF GetLock, GetReleased
  <2>. QED BY <1>0, <1>5, <2>1, <2>2, <2>3
<1>8. ASSUME NEW t \in Tasks, Connected(t) PROVE Owing'
  <2>1. t \in Unsent /\ t \in Busy
    BY <1>8 DEF Connected, Unsent, Busy
  <2>2. task[t].n \in 1 .. k /\ NextTx = counter + 1
    BY <1>0, <1>1, <2>1, IdIsNew
  <2>. QED BY <1>0, <1>1, <1>8, <2>2, OwingSent
<1>9. ASSUME NEW t \in Tasks, ConnectFails(t) \/ Cancel(t) \/ ExchangeFails(t)
      PROVE  Owing'
  <2>. DEFINE c == task[t].conn
  <2>1. /\ task' = [task EXCEPT ![t] = Idle] /\ counter' = counter /\ available' = available
        /\ \/ sock' = sock
           \/ task[t].at = "exchanging" /\ sock' = [sock EXCEPT ![c] = Shut]
    BY <1>9 DEF ConnectFails, Cancel, ExchangeFails, End, Retire
  <2>2. /\ \A u \in Tasks : u # t => task'[u] = task[u]
        /\ task'[t].at # "exchanging"
    BY <1>0, <2>1 DEF TypedFor, Idle
  <2>3. At("exchanging")' \subseteq At("exchanging") \ {t}
    BY <2>2 DEF At
  <2>4. \A u \in At("exchanging")' : task'[u] = task[u]
    BY <2>2, <2>3 DEF At
  <2>5. CASE sock' = sock
    BY <1>3, <2>1, <2>3, <2>4, <2>5
  <2>6. CASE task[t].at = "exchanging" /\ sock' = [sock EXCEPT ![c] = Shut]
    <3>1. t \in At("exchanging")
      BY <2>6 DEF At
    <3>2. c \in InUse
      BY <3>1, Zenon DEF InUse
    <3>3. \A d : d \in DOMAIN sock /\ d # c => sock'[d] = sock[d]
      BY <2>6
    <3>4. c \notin Range(available)
      BY <1>1, <3>2 DEF PoolInv, Accounted
    <3>5. \A e \in Range(available) : sock'[e] = sock[e]
      BY <1>2, <3>3, <3>4
    <3>6. ASSUME NEW u \in At("exchanging")' PROVE sock'[task[u].conn] = sock[task[u].conn]
      <4>1. u \in At("exchanging") /\ u # t
        BY <2>3
      <4>2. task[u].conn \in InUse /\ task[u].conn # c
        <5>1. task[u].conn \in InUse
          BY <4>1, Zenon DEF InUse
        <5>. QED BY <1>1, <3>1, <4>1, <5>1 DEF PoolInv, Accounted
      <4>. QED BY <1>2, <3>3, <4>2
    <3>. QED BY <1>3, <2>1, <2>3, <2>4, <3>5, <3>6
  <2>. QED BY <2>1, <2>5, <2>6
<1>10. ASSUME NEW t \in Tasks, Receive(t) PROVE Owing'
  BY <1>0, <1>1, <1>10, OwingReceived
<1>11. CASE Close
  <2>1. /\ At("exchanging")' = {} /\ Range(available') = {} /\ counter' = counter
    BY <1>11, EmptySeq DEF Close, At, Range
  <2>. QED BY <2>1 DEF Owing
<1>12. CASE Device
  BY <1>0, <1>1, <1>12, OwingAnswered DEF Device
<1>13. CASE Stop \/ UNCHANGED vars
  <2>1. UNCHANGED <<task, available, counter, sock>>
    BY <1>13 DEF Stop, vars
  <2>2. At("exchanging")' = At("exchanging")
    BY <2>1 DEF At
  <2>. QED BY <1>3, <2>1, <2>2
<1>14. ASSUME NEW t \in Tasks, Submit(t) \/ Proceed(t) \/ Cancel(t) PROVE Owing'
  BY <1>6, <1>7, <1>8, <1>9, <1>10, <1>14 DEF Proceed
<1>. QED
  BY <1>11, <1>12, <1>13, <1>14 DEF Next

LEMMA ManyInit == Init => Counted /\ Owing
<1>. SUFFICES ASSUME Init PROVE Counted /\ Owing
  OBVIOUS
<1>1. Unsent = {} /\ At("exchanging") = {}
  BY DEF Init, Unsent, At, Idle
<1>2. Range(available) = {} /\ Len(result) = 0 /\ counter = 0
  BY EmptySeq DEF Init, Range
<1>3. Counted
  BY <1>1, <1>2, FS_EmptySet, TcpBackendAssumption DEF Counted
<1>. QED
  BY <1>1, <1>2, <1>3 DEF Owing

\* _next_transaction_id(): as long as the ids do not come around, what is left on a
\* connection by earlier calls matches none of those to come, for any number of callers.
THEOREM ManyInvariant == ASSUME FewCalls PROVE Spec => [](IInv /\ Counted /\ Owing)
<1>1. Init => IInv /\ Counted /\ Owing
  BY InitInv, ManyInit
<1>2. IInv /\ Counted /\ Owing /\ [Next]_vars => (IInv /\ Counted /\ Owing)'
  BY NextInv, CountStep, OwingStep
<1>. QED
  BY <1>1, <1>2, PTL DEF Spec

\* However many tasks call submit(), a connection belongs to one call, or lies in the
\* pool, once, and with no request of an earlier call unanswered.
THEOREM ExclusiveForAll == ASSUME FewCalls PROVE Spec => []ConnectionsAreExclusive
<1>1. ASSUME IInv, Owing PROVE ConnectionsAreExclusive
  <2>1. Accounted
    BY <1>1 DEF IInv, PoolInv
  <2>2. \A i, j \in DOMAIN available : available[i] = available[j] => i = j
    BY <2>1 DEF Accounted, IsInjective
  <2>3. \A i \in DOMAIN available : sock[available[i]].inbox = <<>>
    BY <1>1 DEF Owing, Range
  <2>. QED
    BY <2>1, <2>2, <2>3 DEF ConnectionsAreExclusive, Accounted, Range
<1>2. IInv /\ Owing => ConnectionsAreExclusive
  BY <1>1
<1>. QED
  BY <1>2, ManyInvariant, PTL

-----------------------------------------------------------------------------
(* The refinement. *)

\* Before the first call nothing has been promised.
LEMMA ContractInit == Init => Contract!Init
<1>. SUFFICES ASSUME Init PROVE Contract!Init
  OBVIOUS
<1>1. Len(result) = 0 /\ DOMAIN result = {}
  BY EmptySeq DEF Init
<1>. QED
  BY <1>1 DEF Contract!Init

\* The frame that a call takes for its answer is that.
OwnAnswers == \A t \in Tasks : Receive(t) => Head(sock[task[t].conn].wire).n = task[t].n

\* A step leaves the log alone, begins a call, or ends that of one task: with an
\* exception or with the answer to its own request.
LEMMA ResultStep ==
    ASSUME OwnAnswers, [Next]_vars
    PROVE  \/ UNCHANGED result
           \/ \E t \in Tasks : Call(t)
           \/ \E t \in Busy : End(t, Raised) \/ End(t, AnswerTo(task[t].n))
<1>1. ASSUME NEW t \in Tasks, Submit(t) PROVE Call(t)
  BY <1>1 DEF Submit, SubmitPooled, SubmitLocking, SubmitUnlocked
<1>2. ASSUME NEW t \in Tasks, GetLock(t) \/ GetReleased(t) \/ Connected(t)
      PROVE  UNCHANGED result
  BY <1>2 DEF GetLock, GetReleased, Connected
<1>3. ASSUME NEW t \in Tasks, ConnectFails(t) \/ ExchangeFails(t) \/ Cancel(t)
      PROVE  t \in Busy /\ End(t, Raised)
  BY <1>3 DEF ConnectFails, ExchangeFails, Cancel, Busy
<1>4. ASSUME NEW t \in Tasks, Receive(t)
      PROVE  t \in Busy /\ End(t, AnswerTo(task[t].n))
  <2>1. Head(sock[task[t].conn].wire).n = task[t].n
    BY <1>4 DEF OwnAnswers
  <2>. QED BY <1>4, <2>1 DEF Receive, Busy
<1>5. Stop \/ Close \/ Device \/ UNCHANGED vars => UNCHANGED result
  BY DEF Stop, Close, Device, Answer, vars
<1>6. ASSUME NEW t \in Tasks, Proceed(t)
      PROVE  \/ UNCHANGED result
             \/ t \in Busy /\ (End(t, Raised) \/ End(t, AnswerTo(task[t].n)))
  BY <1>2, <1>3, <1>4, <1>6 DEF Proceed
<1>7. ASSUME NEW t \in Tasks, Cancel(t) PROVE t \in Busy /\ End(t, Raised)
  BY <1>3, <1>7
<1>. QED
  BY <1>1, <1>5, <1>6, <1>7, Zenon DEF Next

\* submit() begins a call of the contract, what ends it ends that call, and
\* everything between is a stutter.
LEMMA ContractStep ==
    ASSUME IInv, OwnAnswers, [Next]_vars
    PROVE  [Contract!Next]_Contract!vars
<1>. DEFINE With(o) == {n \in DOMAIN result : result[n] = o}
            Own == {n \in DOMAIN result : result[n] = AnswerTo(n)}
<1>0. PICK k \in Nat :
          /\ k = Len(result) /\ result \in Seq(Outcomes(k)) /\ TypedFor(k)
          /\ DOMAIN result = 1 .. k
  BY LogAndSockets DEF IInv
<1>1. Pending # Raised /\ \A n : AnswerTo(n) # Pending /\ AnswerTo(n) # Raised
  BY DEF Pending, Raised, AnswerTo
<1>2. CASE UNCHANGED result
  BY <1>2 DEF Contract!vars
<1>3. ASSUME NEW t \in Tasks, Call(t) PROVE Contract!Next
  <2>1. /\ Len(result') = Len(result) + 1
        /\ DOMAIN result' = DOMAIN result \cup {Len(result) + 1}
        /\ Len(result) + 1 \notin DOMAIN result
        /\ result'[Len(result) + 1] = Pending
        /\ \A n \in DOMAIN result : result'[n] = result[n]
    BY <1>3, CallTyped DEF IInv
  <2>2. With(Pending)' = With(Pending) \cup {Len(result) + 1}
    BY <2>1
  <2>3. With(Raised)' = With(Raised)
    BY <1>1, <2>1
  <2>4. Own' = Own
    BY <1>1, <2>1
  <2>. QED BY <2>1, <2>2, <2>3, <2>4 DEF Contract!Next, Contract!Submit, Pending, Raised
<1>4. ASSUME NEW t \in Busy, NEW o \in {Raised, AnswerTo(task[t].n)}, End(t, o)
      PROVE  Contract!Next
  <2>. DEFINE n == task[t].n
  <2>1. o \in Outcomes(k)
    <3>1. n \in 1 .. k
      BY <1>0 DEF IInv, Calls
    <3>. QED BY <1>0, <3>1 DEF Raised, AnswerTo, Outcomes
  <2>2. /\ DOMAIN result' = DOMAIN result /\ n \in DOMAIN result /\ result[n] = Pending
        /\ \A m \in DOMAIN result : result'[m] = IF m = n THEN o ELSE result[m]
    <3>1. Calls
      BY DEF IInv
    <3>. QED BY <1>0, <1>4, <2>1, <3>1, CallEnds DEF Calls
  <2>3. Len(result') = Len(result)
    BY <1>0, <1>4, <2>1, <2>2, EndTyped DEF End
  <2>4. With(Pending)' = With(Pending) \ {n} /\ n \in With(Pending)
    BY <1>1, <2>2
  <2>5. CASE o = Raised
    <3>1. With(Raised)' = With(Raised) \cup {n} /\ Own' = Own
      BY <1>1, <2>2, <2>5
    <3>. QED BY <2>3, <2>4, <3>1 DEF Contract!Next, Contract!Raise, Contract!End
  <2>6. CASE o = AnswerTo(n)
    <3>1. With(Raised)' = With(Raised) /\ Own' = Own \cup {n}
      BY <1>1, <2>2, <2>6
    <3>. QED BY <2>3, <2>4, <3>1 DEF Contract!Next, Contract!Return, Contract!End
  <2>. QED BY <2>5, <2>6
<1>5. CASE \E t \in Busy : End(t, Raised) \/ End(t, AnswerTo(task[t].n))
  BY <1>4, <1>5
<1>6. \/ UNCHANGED result
      \/ \E t \in Tasks : Call(t)
      \/ \E t \in Busy : End(t, Raised) \/ End(t, AnswerTo(task[t].n))
  BY ResultStep
<1>. QED
  BY <1>2, <1>3, <1>5, <1>6, Zenon

\* TcpModbusBackend keeps BackendContract for one caller, as the gateway has:
\* however often connections are reused, answers come twice and transaction ids
\* come around, a call returns the answer to its own request or raises.
THEOREM OneCallerContract == ASSUME OneCaller PROVE Spec => ContractIsKept
<1>1. ASSUME IInv, OneCall PROVE OwnAnswers
  <2>1. PICK k \in Nat : TypedFor(k)
    BY <1>1, LogAndSockets DEF IInv
  <2>. QED BY <1>1, <2>1, AloneReceives DEF OwnAnswers, IInv, OneCall
<1>2. IInv /\ OneCall /\ [Next]_vars => [Contract!Next]_Contract!vars
  BY <1>1, ContractStep
<1>. QED
  BY <1>2, ContractInit, OneCallInvariant, PTL DEF Spec, ContractIsKept, Contract!Spec

\* It keeps BackendContract for any number of callers whose calls overlap and wait for
\* each other, while there are fewer of them than transaction ids.
THEOREM ManyCallersContract == ASSUME FewCalls PROVE Spec => ContractIsKept
<1>1. ASSUME IInv, Owing PROVE OwnAnswers
  <2>1. PICK k \in Nat : TypedFor(k)
    BY <1>1, LogAndSockets DEF IInv
  <2>. QED BY <1>1, <2>1, OwingReceived DEF OwnAnswers, IInv
<1>2. IInv /\ Owing /\ [Next]_vars => [Contract!Next]_Contract!vars
  BY <1>1, ContractStep
<1>. QED
  BY <1>2, ContractInit, ManyInvariant, PTL DEF Spec, ContractIsKept, Contract!Spec

=============================================================================
