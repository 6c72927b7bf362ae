-------------------------- MODULE PtyFrontendProofs --------------------------
(***************************************************************************)
(* The virtual serial port gives each reply once, and an application that  *)
(* waits, or flushes and asks anew, its own: for any number of requests,   *)
(* however reads and silences cut what it has written.                     *)
(***************************************************************************)
EXTENDS PtyFrontend, SequenceTheorems, TLAPS

\* What the application has written and no frame was taken from, oldest first.
Written == buffer \o input

\* Halves in the order in which they are written.
Rank(h) == 2 * h.n + h.half

Increasing(s) == \A i, j \in DOMAIN s : i < j => Rank(s[i]) < Rank(s[j])
Once(s) == \A i, j \in DOMAIN s : s[i] = s[j] => i = j

\* Requests with a half among the bytes, and requests past _finalize_frame.
Numbers == {h.n : h \in Elements(Written)}
Taken == {replies[i].reply : i \in DOMAIN replies}
Framed == putting \cup Elements(bus) \cup Elements(output) \cup Taken

\* The second half of a request that is being written is still to come.
Order ==
    /\ Increasing(Written)
    /\ \A h \in Elements(Written) :
          /\ h.n <= asked
          /\ app = "writing" /\ h.n = asked => h.half = 1

\* A request is in one place, and once: bytes of it among the bytes, or all of it
\* on its way through the gateway and back.
Apart ==
    /\ Once(bus) /\ Once(output)
    /\ \A n \in Framed : n <= asked /\ n \notin Numbers /\ ~ (app = "writing" /\ n = asked)
    /\ putting \cap (Elements(bus) \cup Elements(output) \cup Taken) = {}
    /\ Elements(bus) \cap (Elements(output) \cup Taken) = {}
    /\ Elements(output) \cap Taken = {}

\* What an application that waits, or has asked in peace, can get.
Due ==
    /\ app # "idle" /\ (patient \/ clean) 
          => \A n \in Requests : Underway(n) => n = asked
    /\ app = "idle" /\ patient => \A n \in Requests : ~ Underway(n)
    /\ app # "idle" => asked # 0

IInv == TypeOK /\ Order /\ Apart /\ Due /\ RepliesComeOnce /\ RepliesAreOwn

-----------------------------------------------------------------------------
(* Sequences. *)

LEMMA AppendElements ==
    ASSUME NEW S, NEW s \in Seq(S), NEW e \in S
    PROVE  /\ Append(s, e) \in Seq(S)
           /\ Elements(Append(s, e)) = Elements(s) \cup {e}
           /\ Once(s) /\ e \notin Elements(s) => Once(Append(s, e))
<1>1. /\ DOMAIN s = 1 .. Len(s) /\ Len(s) \in Nat
      /\ DOMAIN Append(s, e) = 1 .. Len(s) + 1
      /\ Append(s, e) \in Seq(S)
      /\ \A i \in 1 .. Len(s) : Append(s, e)[i] = s[i]
      /\ Append(s, e)[Len(s) + 1] = e
  BY LenProperties, AppendProperties
<1>2. Elements(Append(s, e)) = Elements(s) \cup {e}
  BY <1>1 DEF Elements
<1>3. ASSUME Once(s), e \notin Elements(s)
      PROVE  Once(Append(s, e))
  BY <1>1, <1>3 DEF Elements, Once
<1>. QED
  BY <1>1, <1>2, <1>3

LEMMA TailElements ==
    ASSUME NEW S, NEW s \in Seq(S), s # <<>>
    PROVE  /\ Head(s) \in S /\ Tail(s) \in Seq(S)
           /\ Elements(s) = {Head(s)} \cup Elements(Tail(s))
           /\ Once(s) => Once(Tail(s)) /\ Head(s) \notin Elements(Tail(s))
<1>1. /\ DOMAIN s = 1 .. Len(s) /\ Len(s) \in Nat \ {0}
      /\ DOMAIN Tail(s) = 1 .. Len(s) - 1
      /\ \A i \in 1 .. Len(s) - 1 : Tail(s)[i] = s[i + 1]
      /\ Head(s) = s[1]
      /\ Head(s) \in S /\ Tail(s) \in Seq(S)
  BY LenProperties, EmptySeq, HeadTailProperties
<1>2. ASSUME NEW i \in 1 .. Len(s)
      PROVE  s[i] \in {Head(s)} \cup Elements(Tail(s))
  <2>1. CASE i = 1
    BY <1>1, <2>1
  <2>2. CASE i # 1
    <3>1. i - 1 \in 1 .. Len(s) - 1 /\ Tail(s)[i - 1] = s[i]
      BY <1>1, <2>2
    <3>. QED BY <1>1, <3>1 DEF Elements
  <2>. QED BY <2>1, <2>2
<1>3. Elements(s) = {Head(s)} \cup Elements(Tail(s))
  <2>1. Elements(s) \subseteq {Head(s)} \cup Elements(Tail(s))
    BY <1>1, <1>2 DEF Elements
  <2>2. Elements(Tail(s)) \subseteq Elements(s) /\ Head(s) \in Elements(s)
    BY <1>1 DEF Elements
  <2>. QED BY <2>1, <2>2
<1>4. Once(s) => Once(Tail(s)) /\ Head(s) \notin Elements(Tail(s))
  BY <1>1 DEF Elements, Once
<1>. QED
  BY <1>1, <1>3, <1>4

LEMMA ConcatElements ==
    ASSUME NEW S, NEW s \in Seq(S), NEW t \in Seq(S)
    PROVE  /\ s \o t \in Seq(S)
           /\ Elements(s \o t) = Elements(s) \cup Elements(t)
<1>1. /\ DOMAIN s = 1 .. Len(s) /\ Len(s) \in Nat
      /\ DOMAIN t = 1 .. Len(t) /\ Len(t) \in Nat
      /\ s \o t \in Seq(S)
      /\ DOMAIN (s \o t) = 1 .. Len(s) + Len(t)
      /\ \A i \in 1 .. Len(s) + Len(t) :
            (s \o t)[i] = IF i <= Len(s) THEN s[i] ELSE t[i - Len(s)]
  BY LenProperties, ConcatProperties
<1>2. Elements(s \o t) \subseteq Elements(s) \cup Elements(t)
  <2>1. ASSUME NEW i \in 1 .. Len(s) + Len(t)
        PROVE  (s \o t)[i] \in Elements(s) \cup Elements(t)
    <3>1. CASE i <= Len(s)
      BY <1>1, <3>1 DEF Elements
    <3>2. CASE i > Len(s)
      <4>1. i - Len(s) \in 1 .. Len(t) /\ (s \o t)[i] = t[i - Len(s)]
        BY <1>1, <3>2
      <4>. QED BY <1>1, <4>1 DEF Elements
    <3>. QED BY <1>1, <3>1, <3>2
  <2>. QED BY <1>1, <2>1 DEF Elements
<1>3. ASSUME NEW i \in 1 .. Len(s) PROVE s[i] \in Elements(s \o t)
  BY <1>1 DEF Elements
<1>4. ASSUME NEW i \in 1 .. Len(t) PROVE t[i] \in Elements(s \o t)
  <2>1. Len(s) + i \in 1 .. Len(s) + Len(t) /\ (s \o t)[Len(s) + i] = t[i]
    BY <1>1
  <2>. QED BY <1>1, <2>1 DEF Elements
<1>5. Elements(s) \cup Elements(t) \subseteq Elements(s \o t)
  BY <1>1, <1>3, <1>4 DEF Elements
<1>. QED
  BY <1>1, <1>2, <1>5

\* What a concatenation in the order of ranks says of its parts, and conversely.
LEMMA ConcatIncreasing ==
    ASSUME NEW s \in Seq(Half), NEW t \in Seq(Half)
    PROVE  Increasing(s \o t) <=>
              /\ Increasing(s) /\ Increasing(t)
              /\ \A g \in Elements(s), h \in Elements(t) : Rank(g) < Rank(h)
<1>1. /\ DOMAIN s = 1 .. Len(s) /\ Len(s) \in Nat
      /\ DOMAIN t = 1 .. Len(t) /\ Len(t) \in Nat
      /\ DOMAIN (s \o t) = 1 .. Len(s) + Len(t)
      /\ \A i \in 1 .. Len(s) + Len(t) :
            (s \o t)[i] = IF i <= Len(s) THEN s[i] ELSE t[i - Len(s)]
  BY LenProperties, ConcatProperties
<1>2. ASSUME Increasing(s \o t)
      PROVE  /\ Increasing(s) /\ Increasing(t)
             /\ \A g \in Elements(s), h \in Elements(t) : Rank(g) < Rank(h)
  <2>1. Increasing(s)
    BY <1>1, <1>2 DEF Increasing
  <2>2. \A i \in 1 .. Len(t) : Len(s) + i \in 1 .. Len(s) + Len(t)
                                  /\ (s \o t)[Len(s) + i] = t[i]
    BY <1>1
  <2>3. Increasing(t)
    <3>1. SUFFICES ASSUME NEW i \in 1 .. Len(t), NEW j \in 1 .. Len(t), i < j
                   PROVE  Rank(t[i]) < Rank(t[j])
      BY <1>1 DEF Increasing
    <3>2. /\ Len(s) + i < Len(s) + j
          /\ Len(s) + i \in DOMAIN (s \o t) /\ Len(s) + j \in DOMAIN (s \o t)
      BY <1>1, <3>1
    <3>3. Rank((s \o t)[Len(s) + i]) < Rank((s \o t)[Len(s) + j])
      BY <1>2, <3>2 DEF Increasing
    <3>. QED BY <2>2, <3>3
  <2>4. ASSUME NEW i \in 1 .. Len(s), NEW j \in 1 .. Len(t)
        PROVE  Rank(s[i]) < Rank(t[j])
    <3>1. /\ i < Len(s) + j /\ (s \o t)[i] = s[i]
          /\ i \in DOMAIN (s \o t) /\ Len(s) + j \in DOMAIN (s \o t)
      BY <1>1
    <3>2. Rank((s \o t)[i]) < Rank((s \o t)[Len(s) + j])
      BY <1>2, <3>1 DEF Increasing
    <3>. QED BY <2>2, <3>1, <3>2
  <2>. QED BY <1>1, <2>1, <2>3, <2>4 DEF Elements
<1>3. ASSUME Increasing(s), Increasing(t),
             \A g \in Elements(s), h \in Elements(t) : Rank(g) < Rank(h)
      PROVE  Increasing(s \o t)
  <2>1. \A i \in 1 .. Len(s), j \in 1 .. Len(t) : Rank(s[i]) < Rank(t[j])
    BY <1>1, <1>3 DEF Elements
  <2>2. SUFFICES ASSUME NEW i \in 1 .. Len(s) + Len(t), NEW j \in 1 .. Len(s) + Len(t),
                        i < j
                 PROVE  Rank((s \o t)[i]) < Rank((s \o t)[j])
    BY <1>1 DEF Increasing
  <2>3. CASE j <= Len(s)
    BY <1>1, <1>3, <2>2, <2>3 DEF Increasing
  <2>4. CASE i <= Len(s) /\ j > Len(s)
    <3>1. j - Len(s) \in 1 .. Len(t) /\ (s \o t)[j] = t[j - Len(s)] /\ (s \o t)[i] = s[i]
      BY <1>1, <2>4
    <3>. QED BY <1>1, <2>1, <2>4, <3>1
  <2>5. CASE i > Len(s)
    <3>1. /\ i - Len(s) \in 1 .. Len(t) /\ (s \o t)[i] = t[i - Len(s)]
          /\ j - Len(s) \in 1 .. Len(t) /\ (s \o t)[j] = t[j - Len(s)]
          /\ i - Len(s) < j - Len(s)
      BY <1>1, <2>2, <2>5
    <3>. QED BY <1>1, <1>3, <3>1 DEF Increasing
  <2>. QED BY <1>1, <2>3, <2>4, <2>5
<1>. QED
  BY <1>2, <1>3

\* The two halves of a request, in order.
LEMMA HalvesInOrder ==
    ASSUME NEW n \in Requests
    PROVE  /\ Halves(n) \in Seq(Half)
           /\ Elements(Halves(n)) = {[n |-> n, half |-> 1], [n |-> n, half |-> 2]}
           /\ Increasing(Halves(n))
<1>1. n \in Nat
  BY DEF Requests
<1>. QED
  BY <1>1 DEF Halves, Half, Elements, Increasing, Rank

-----------------------------------------------------------------------------
(* Types. *)

\* An application that has asked nothing satisfies the invariant.
LEMMA InitInv == Init => IInv
<1>. SUFFICES ASSUME Init PROVE IInv
  OBVIOUS
<1>. USE PtyFrontendAssumption
<1>1. TypeOK
  <2>1. /\ <<>> \in Seq(Half) /\ <<>> \in Seq(Requests)
        /\ <<>> \in Seq([request : Requests, reply : Requests, clean : BOOLEAN])
    BY EmptySeq
  <2>2. /\ input \in Seq(Half) /\ buffer \in Seq(Half)
        /\ bus \in Seq(Requests) /\ output \in Seq(Requests)
        /\ replies \in Seq([request : Requests, reply : Requests, clean : BOOLEAN])
    BY <2>1 DEF Init
  <2>3. /\ asked \in 0 .. MaxRequests /\ putting \subseteq Requests
    BY DEF Init
  <2>4. /\ app = "idle" /\ clean \in BOOLEAN /\ timer \in BOOLEAN /\ flushing \in BOOLEAN
        /\ patient \in BOOLEAN /\ flushes \in BOOLEAN
    BY Zenon DEF Init
  <2>. QED BY <2>2, <2>3, <2>4 DEF TypeOK
<1>2. Written = <<>>
  BY EmptySeq, ConcatEmptySeq DEF Init, Written
<1>3. DOMAIN <<>> = {} /\ Elements(<<>>) = {} /\ Once(<<>>) /\ Increasing(<<>>)
  BY DEF Elements, Once, Increasing
<1>4. Elements(input \o buffer) = {}
  BY <1>3, EmptySeq, ConcatEmptySeq DEF Init
<1>5. Framed = {} /\ Numbers = {}
  BY <1>2, <1>3 DEF Init, Framed, Taken, Numbers
<1>6. Order /\ Apart
  BY <1>2, <1>3, <1>5 DEF Init, Order, Apart, Framed
<1>7. Due
  BY <1>3, <1>4 DEF Init, Due, Underway, InGateway
<1>. QED
  BY <1>1, <1>3, <1>6, <1>7 DEF Init, IInv, RepliesComeOnce, RepliesAreOwn

\* A read moves bytes, in order.
LEMMA ReadKeepsWritten ==
    ASSUME TypeOK, NEW k \in 1 .. Len(input), Read(k)
    PROVE  /\ Written' = Written
           /\ buffer' \in Seq(Half) /\ input' \in Seq(Half)
<1>1. input \in Seq(Half) /\ buffer \in Seq(Half) /\ Len(input) \in Nat
  BY LenProperties DEF TypeOK
<1>2. /\ SubSeq(input, 1, k) \in Seq(Half)
      /\ SubSeq(input, k + 1, Len(input)) \in Seq(Half)
  BY <1>1, ElementOfSeq, SubSeqProperties
<1>3. SubSeq(input, 1, k) \o SubSeq(input, k + 1, Len(input)) = input
  BY <1>1, ConcatAdjacentSubSeq, SubSeqFull
<1>4. /\ buffer' = buffer \o SubSeq(input, 1, k)
      /\ input' = SubSeq(input, k + 1, Len(input))
  BY DEF Read
<1>5. (buffer \o SubSeq(input, 1, k)) \o SubSeq(input, k + 1, Len(input))
         = buffer \o (SubSeq(input, 1, k) \o SubSeq(input, k + 1, Len(input)))
  <2>1. \A s, t, u \in Seq(Half) : (s \o t) \o u = s \o (t \o u)
    BY ConcatAssociative
  <2>. QED BY <1>1, <1>2, <2>1, Zenon
<1>6. buffer \o SubSeq(input, 1, k) \in Seq(Half)
  BY <1>1, <1>2, ConcatProperties
<1>. QED
  BY <1>2, <1>3, <1>4, <1>5, <1>6 DEF Written

\* Every step keeps the types.
LEMMA TypeStep ==
    ASSUME TypeOK, Due, [Next]_vars
    PROVE  TypeOK'
<1>. USE PtyFrontendAssumption DEF TypeOK, habits, exchange
<1>0. CASE UNCHANGED vars
  BY <1>0 DEF vars
<1>1. CASE Ask
  <2>1. asked + 1 \in Requests /\ asked' \in 0 .. MaxRequests
    BY <1>1 DEF Ask, Requests
  <2>2. /\ Halves(asked + 1) \in Seq(Half)
        /\ Halves(asked + 1)[1] \in Half
    BY <2>1, HalvesInOrder DEF Halves, Half
  <2>3. input' \in Seq(Half) /\ app' \in {"waiting", "writing"}
    <3>1. /\ input \o Halves(asked + 1) \in Seq(Half)
          /\ Append(input, Halves(asked + 1)[1]) \in Seq(Half)
      BY <2>2, ConcatProperties, AppendProperties
    <3>. QED BY <1>1, <3>1 DEF Ask
  <2>4. output' \in Seq(Requests) /\ clean' \in BOOLEAN
    BY <1>1, EmptySeq DEF Ask, Kept
  <2>. QED BY <1>1, <2>1, <2>3, <2>4 DEF Ask
<1>2. CASE AskOn
  <2>1. Halves(asked)[2] \in Half
    BY <1>2 DEF AskOn, Due, Halves, Half, Requests
  <2>2. input' \in Seq(Half)
    BY <1>2, <2>1, AppendProperties DEF AskOn
  <2>. QED BY <1>2, <2>2 DEF AskOn
<1>3. CASE TakeReply
  <2>1. /\ Tail(output) \in Seq(Requests) /\ Head(output) \in Requests
        /\ asked \in Requests
    BY <1>3, HeadTailProperties DEF TakeReply, Due, Requests
  <2>2. [request |-> asked, reply |-> Head(output), clean |-> clean]
           \in [request : Requests, reply : Requests, clean : BOOLEAN]
    BY <2>1
  <2>3. replies' \in Seq([request : Requests, reply : Requests, clean : BOOLEAN])
    BY <1>3, <2>2, AppendProperties DEF TakeReply
  <2>. QED BY <1>3, <2>1, <2>3 DEF TakeReply
<1>4. CASE GiveUp
  BY <1>4 DEF GiveUp
<1>5. ASSUME NEW k \in 1 .. Len(input), Read(k) PROVE TypeOK'
  BY <1>5, ReadKeepsWritten DEF Read, Restart
<1>6. CASE Silence
  BY <1>6 DEF Silence
<1>7. CASE Finalize
  <2>1. bus' \in Seq(Requests) /\ putting' \subseteq Requests
    <3>1. /\ Decoded(buffer) \subseteq Requests
          /\ \A n \in Requests : Append(bus, n) \in Seq(Requests)
      BY AppendProperties DEF Decoded
    <3>. QED BY <1>7, <3>1 DEF Finalize
  <2>. QED BY <1>7, <2>1, EmptySeq DEF Finalize
<1>8. ASSUME NEW n \in putting, Put(n) PROVE TypeOK'
  <2>1. bus' \in Seq(Requests)
    BY <1>8, AppendProperties DEF Put
  <2>. QED BY <1>8, <2>1 DEF Put
<1>9. CASE Gateway
  <2>1. Tail(bus) \in Seq(Requests) /\ Head(bus) \in Requests
    BY <1>9, HeadTailProperties DEF Gateway, Respond, Swallow
  <2>2. Append(output, Head(bus)) \in Seq(Requests)
    BY <2>1, AppendProperties
  <2>. QED BY <1>9, <2>1, <2>2 DEF Gateway, Respond, Swallow
<1>. QED
  BY <1>0, <1>1, <1>2, <1>3, <1>4, <1>5, <1>6, <1>7, <1>8, <1>9
  DEF Next, Application, ReadLoop

-----------------------------------------------------------------------------
(* Requests stay apart. *)

\* The requests in the gateway, by where they are.
LEMMA InGatewayIs ==
    TypeOK =>
        /\ InGateway = Numbers \cup putting \cup Elements(bus)
        /\ Written \in Seq(Half)
        /\ Elements(Written) \subseteq Half
        /\ Elements(Written) = Elements(buffer) \cup Elements(input)
<1>. SUFFICES ASSUME TypeOK
              PROVE  /\ InGateway = Numbers \cup putting \cup Elements(bus)
                     /\ Written \in Seq(Half)
                     /\ Elements(Written) \subseteq Half
                     /\ Elements(Written) = Elements(buffer) \cup Elements(input)
  OBVIOUS
<1>1. /\ Elements(buffer \o input) = Elements(buffer) \cup Elements(input)
      /\ Elements(input \o buffer) = Elements(input) \cup Elements(buffer)
      /\ Written \in Seq(Half)
  BY ConcatElements DEF TypeOK, Written
<1>2. Elements(Written) \subseteq Half
  BY <1>1, LenProperties DEF Elements
<1>. QED
  BY <1>1, <1>2 DEF InGateway, Numbers, Written

\* All of them are requests.
LEMMA AllAreRequests ==
    TypeOK => /\ Numbers \subseteq Requests /\ InGateway \subseteq Requests
              /\ Elements(bus) \subseteq Requests /\ Elements(output) \subseteq Requests
              /\ Taken \subseteq Requests /\ Framed \subseteq Requests
<1>. SUFFICES ASSUME TypeOK
              PROVE  /\ Numbers \subseteq Requests /\ InGateway \subseteq Requests
                     /\ Elements(bus) \subseteq Requests
                     /\ Elements(output) \subseteq Requests
                     /\ Taken \subseteq Requests /\ Framed \subseteq Requests
  OBVIOUS
<1>1. Elements(bus) \subseteq Requests /\ Elements(output) \subseteq Requests
  BY LenProperties DEF TypeOK, Elements
<1>2. Taken \subseteq Requests
  <2>1. replies \in [1 .. Len(replies) ->
                        [request : Requests, reply : Requests, clean : BOOLEAN]]
    BY LenProperties DEF TypeOK
  <2>. QED BY <2>1 DEF Taken
<1>3. Numbers \subseteq Requests
  BY InGatewayIs DEF Numbers, Half
<1>4. putting \subseteq Requests
  BY DEF TypeOK
<1>. QED
  BY <1>1, <1>2, <1>3, <1>4, InGatewayIs DEF Framed

\* A half written last, of a rank above all that are there.
LEMMA WritesOn ==
    ASSUME TypeOK, TypeOK', Order, NEW t \in Seq(Half), Increasing(t),
           \A g \in Elements(Written), h \in Elements(t) : Rank(g) < Rank(h),
           input' = input \o t, buffer' = buffer
    PROVE  /\ Increasing(Written')
           /\ Elements(Written)' = Elements(Written) \cup Elements(t)
           /\ Numbers' = Numbers \cup {h.n : h \in Elements(t)}
<1>1. Written' = Written \o t
  <2>1. \A r, s, u \in Seq(Half) : (r \o s) \o u = r \o (s \o u)
    BY ConcatAssociative
  <2>. QED BY <2>1, Zenon DEF TypeOK, Written
<1>2. Written \in Seq(Half)
  BY InGatewayIs
<1>3. Increasing(Written')
  BY <1>1, <1>2, ConcatIncreasing DEF Order
<1>4. Elements(Written)' = Elements(Written) \cup Elements(t)
  <2>1. Elements(Written \o t) = Elements(Written) \cup Elements(t)
    BY <1>2, ConcatElements
  <2>. QED BY <1>1, <2>1
<1>. QED
  BY <1>3, <1>4 DEF Numbers

\* A request asked is a new one, above all others.
LEMMA AskStep ==
    ASSUME IInv, TypeOK', Ask
    PROVE  IInv'
<1>. DEFINE n == asked + 1
            g == [n |-> n, half |-> 1]
<1>1. /\ n \in Requests /\ asked \in Nat /\ asked' = n
      /\ app = "idle" /\ app' \in {"waiting", "writing"}
      /\ UNCHANGED <<patient, buffer, putting, bus, replies>>
  BY DEF Ask, IInv, TypeOK, Requests, habits
<1>2. output' = Kept(output) /\ clean' = (InGateway = {} /\ (flushes \/ output = <<>>))
  BY DEF Ask
<1>3. /\ Elements(output') \subseteq Elements(output) /\ Once(output')
      /\ output = <<>> \/ flushes => Elements(output') = {}
  BY <1>2 DEF IInv, Apart, Kept, Elements, Once
<1>4. PICK t \in Seq(Half) :
          /\ input' = input \o t
          /\ Increasing(t)
          /\ g \in Elements(t)
          /\ Elements(t) \subseteq {g, [n |-> n, half |-> 2]}
          /\ app' = "writing" => Elements(t) = {g}
  <2>1. CASE input' = input \o Halves(n) /\ app' = "waiting"
    BY <1>1, <2>1, HalvesInOrder
  <2>2. CASE input' = Append(input, Halves(n)[1])
    <3>1. g \in Half /\ Halves(n)[1] = g
      BY <1>1 DEF Half, Halves
    <3>2. input' = input \o <<g>>
      BY <2>2, <3>1, AppendIsConcat DEF IInv, TypeOK
    <3>3. <<g>> \in Seq(Half) /\ Elements(<<g>>) = {g} /\ Increasing(<<g>>)
      BY <3>1 DEF Elements, Increasing
    <3>. QED BY <3>2, <3>3
  <2>. QED BY <2>1, <2>2 DEF Ask
<1>5. \A h \in Elements(Written), e \in Elements(t) : Rank(h) < Rank(e)
  <2>1. \A h \in Elements(Written) : h.n \in Nat /\ h.half \in {1, 2} /\ h.n <= asked
    BY InGatewayIs DEF IInv, Order, Half, Requests
  <2>2. \A e \in Elements(t) : e.n = n /\ e.half \in {1, 2}
    BY <1>4
  <2>3. ASSUME NEW i \in Nat, NEW k \in {1, 2}, i <= asked, NEW l \in {1, 2}
        PROVE  2 * i + k < 2 * n + l
    BY <1>1, <2>3
  <2>. QED BY <2>1, <2>2, <2>3 DEF Rank
<1>6. /\ Increasing(Written')
      /\ Elements(Written)' = Elements(Written) \cup Elements(t)
      /\ Numbers' = Numbers \cup {n}
  <2>1. {h.n : h \in Elements(t)} = {n}
    BY <1>4
  <2>. QED BY <1>1, <1>4, <1>5, <2>1, WritesOn DEF IInv
<1>7. Order'
  <2>1. ASSUME NEW h \in Elements(Written)'
        PROVE  h.n <= n /\ (app' = "writing" /\ h.n = n => h.half = 1)
    <3>1. CASE h \in Elements(Written)
      <4>1. h.n \in Nat /\ h.n <= asked
        BY <3>1, InGatewayIs DEF IInv, Order, Half, Requests
      <4>. QED BY <1>1, <4>1
    <3>2. CASE h \in Elements(t)
      BY <1>1, <1>4, <3>2
    <3>. QED BY <1>6, <3>1, <3>2
  <2>. QED BY <1>1, <1>6, <2>1 DEF Order
<1>8. Framed' \subseteq Framed /\ Taken' = Taken /\ \A k \in Framed : k <= asked
  BY <1>1, <1>3 DEF Framed, Taken, IInv, Apart
<1>9. Framed \subseteq Nat
  BY AllAreRequests DEF IInv, Requests
<1>10. Apart'
  <2>1. \A k \in Framed' : k <= n /\ k # n /\ k \notin Numbers'
    BY <1>1, <1>6, <1>8, <1>9 DEF IInv, Apart
  <2>. QED BY <1>1, <1>3, <1>8, <2>1 DEF IInv, Apart
<1>11. Due'
  <2>1. SUFFICES ASSUME patient \/ clean', NEW k \in Requests, Underway(k)'
                 PROVE  k = n
    BY <1>1 DEF Due
  <2>2. InGateway = {} /\ Elements(output') = {}
    <3>1. CASE patient
      <4>1. InGateway \subseteq Requests /\ Elements(output) \subseteq Requests
        BY AllAreRequests DEF IInv
      <4>. QED BY <1>1, <1>3, <3>1, <4>1 DEF IInv, Due, Underway
    <3>2. CASE clean'
      BY <1>2, <1>3, <3>2
    <3>. QED BY <2>1, <3>1, <3>2
  <2>3. InGateway' = {n}
    <3>1. Numbers = {} /\ putting = {} /\ Elements(bus) = {}
      BY <2>2, InGatewayIs DEF IInv
    <3>2. (InGateway = Numbers \cup putting \cup Elements(bus))'
      BY InGatewayIs, PTL
    <3>. QED BY <1>1, <1>6, <3>1, <3>2
  <2>. QED BY <2>1, <2>2, <2>3 DEF Underway
<1>. QED
  BY <1>1, <1>7, <1>10, <1>11 DEF IInv, RepliesComeOnce, RepliesAreOwn

\* The second half of a request comes after the first, if that is still there.
LEMMA AskOnStep ==
    ASSUME IInv, TypeOK', AskOn
    PROVE  IInv'
<1>. DEFINE g == [n |-> asked, half |-> 2]
<1>1. /\ asked \in Requests /\ app = "writing" /\ app' = "waiting"
      /\ UNCHANGED <<patient, flushes, asked, clean, buffer, putting, bus, output, replies>>
      /\ input' = Append(input, g)
  BY DEF AskOn, IInv, TypeOK, Due, Requests, habits, Halves
<1>2. g \in Half /\ input' = input \o <<g>>
  BY <1>1, AppendIsConcat DEF IInv, TypeOK, Half
<1>3. <<g>> \in Seq(Half) /\ Elements(<<g>>) = {g} /\ Increasing(<<g>>)
  BY <1>2 DEF Elements, Increasing
<1>4. \A h \in Elements(Written) : Rank(h) < Rank(g)
  <2>1. SUFFICES ASSUME NEW h \in Elements(Written) PROVE Rank(h) < Rank(g)
    OBVIOUS
  <2>2. h.n \in Nat /\ h.half \in {1, 2} /\ h.n <= asked /\ (h.n = asked => h.half = 1)
    BY <1>1, InGatewayIs DEF IInv, Order, Half, Requests
  <2>3. asked \in Nat /\ g.n = asked /\ g.half = 2
    BY <1>1 DEF Requests
  <2>4. CASE h.n = asked
    BY <2>2, <2>3, <2>4 DEF Rank
  <2>5. CASE h.n < asked
    BY <2>2, <2>3, <2>5 DEF Rank
  <2>. QED BY <2>2, <2>3, <2>4, <2>5
<1>5. /\ Increasing(Written')
      /\ Elements(Written)' = Elements(Written) \cup {g}
      /\ Numbers' = Numbers \cup {asked}
  <2>1. {h.n : h \in {g}} = {asked}
    OBVIOUS
  <2>. QED BY <1>1, <1>2, <1>3, <1>4, <2>1, WritesOn DEF IInv
<1>6. Order'
  BY <1>1, <1>5 DEF IInv, Order, Requests
<1>7. Framed' = Framed /\ Taken' = Taken
  BY <1>1 DEF Framed, Taken
<1>8. Apart'
  BY <1>1, <1>5, <1>7 DEF IInv, Apart
<1>9. Due'
  <2>1. (InGateway = Numbers \cup putting \cup Elements(bus))'
    BY InGatewayIs, PTL
  <2>2. InGateway' = InGateway \cup {asked}
    BY <1>1, <1>5, <2>1, InGatewayIs DEF IInv
  <2>. QED BY <1>1, <2>2 DEF IInv, Due, Underway
<1>. QED
  BY <1>1, <1>6, <1>8, <1>9 DEF IInv, RepliesComeOnce, RepliesAreOwn

\* What is taken was in one place, and is the request's own where nothing else is
\* underway.
LEMMA TakeReplyStep ==
    ASSUME IInv, TypeOK', TakeReply
    PROVE  IInv'
<1>. DEFINE n == Head(output)
            r == [request |-> asked, reply |-> n, clean |-> clean]
<1>1. /\ app = "waiting" /\ app' = "idle" /\ asked \in Requests
      /\ output # <<>> /\ output' = Tail(output)
      /\ replies' = Append(replies, r)
      /\ UNCHANGED <<patient, flushes, asked, clean, input, buffer, putting, bus>>
  BY DEF TakeReply, IInv, TypeOK, Due, Requests, habits
<1>2. /\ n \in Requests
      /\ Elements(output) = {n} \cup Elements(output')
      /\ Once(output') /\ n \notin Elements(output')
  BY <1>1, TailElements DEF IInv, TypeOK, Apart
<1>3. /\ DOMAIN replies = 1 .. Len(replies) /\ Len(replies) \in Nat
      /\ DOMAIN replies' = 1 .. Len(replies) + 1
      /\ \A i \in 1 .. Len(replies) : replies'[i] = replies[i]
      /\ replies'[Len(replies) + 1] = r
  <2>1. r \in [request : Requests, reply : Requests, clean : BOOLEAN]
    BY <1>1, <1>2 DEF IInv, TypeOK
  <2>. QED BY <1>1, <2>1, LenProperties, AppendProperties DEF IInv, TypeOK
<1>4. Taken' = Taken \cup {n}
  BY <1>3 DEF Taken
<1>5. Written' = Written /\ Numbers' = Numbers /\ Framed' = Framed
  <2>1. Written' = Written
    BY <1>1 DEF Written
  <2>. QED BY <1>1, <1>2, <1>4, <2>1 DEF Numbers, Framed
<1>6. n \in Framed /\ n <= asked /\ n \notin Taken
  BY <1>2 DEF IInv, Apart, Framed
<1>7. Order'
  BY <1>1, <1>5 DEF IInv, Order
<1>8. Apart'
  BY <1>1, <1>2, <1>4, <1>5 DEF IInv, Apart
<1>9. Due'
  <2>1. InGateway' = InGateway
    BY <1>1 DEF InGateway
  <2>2. ASSUME patient, NEW k \in Requests PROVE ~ Underway(k)'
    <3>1. Underway(k) => k = n
      BY <1>1, <1>2, <2>2 DEF IInv, Due, Underway
    <3>2. n \notin InGateway
      BY <1>2, InGatewayIs DEF IInv, Apart, Framed
    <3>. QED BY <1>2, <2>1, <3>1, <3>2 DEF Underway
  <2>. QED BY <1>1, <2>2 DEF Due
<1>10. RepliesComeOnce'
  <2>1. \A i \in DOMAIN replies : replies[i].reply \in Taken
    BY DEF Taken
  <2>. QED BY <1>3, <1>6, <2>1 DEF IInv, RepliesComeOnce
<1>11. RepliesAreOwn'
  <2>1. patient \/ clean => n = asked
    BY <1>1, <1>2 DEF IInv, Due, Underway
  <2>. QED BY <1>1, <1>3, <2>1 DEF IInv, RepliesAreOwn
<1>. QED
  BY <1>7, <1>8, <1>9, <1>10, <1>11 DEF IInv

\* One that waits gives up when nothing is underway.
LEMMA GiveUpStep ==
    ASSUME IInv, TypeOK', GiveUp
    PROVE  IInv'
<1>1. /\ app = "waiting" /\ app' = "idle"
      /\ patient => ~ Underway(asked)
      /\ UNCHANGED <<patient, flushes, asked, clean, input, buffer, putting, bus,
                     output, replies>>
  BY DEF GiveUp, habits
<1>2. /\ Written' = Written /\ Numbers' = Numbers /\ Framed' = Framed /\ Taken' = Taken
      /\ InGateway' = InGateway /\ \A n : Underway(n)' <=> Underway(n)
  BY <1>1 DEF Written, Numbers, Framed, Taken, InGateway, Underway
<1>3. Due'
  BY <1>1, <1>2 DEF IInv, Due
<1>. QED
  BY <1>1, <1>2, <1>3 DEF IInv, Order, Apart, RepliesComeOnce, RepliesAreOwn

\* A step of the frontend or the gateway brings nothing new underway.
LEMMA NothingNew ==
    ASSUME IInv, TypeOK', Order', Apart',
           UNCHANGED <<patient, flushes, app, asked, clean, replies>>,
           InGateway' \cup Elements(output') \subseteq InGateway \cup Elements(output)
    PROVE  IInv'
<1>1. \A n \in Requests : Underway(n)' => Underway(n)
  BY DEF Underway
<1>2. Due'
  BY <1>1 DEF IInv, Due
<1>. QED
  BY <1>2 DEF IInv, RepliesComeOnce, RepliesAreOwn

\* Reads and silences change neither the bytes nor their order.
LEMMA ReadStep ==
    ASSUME IInv, TypeOK', Silence \/ \E k \in 1 .. Len(input) : Read(k)
    PROVE  IInv'
<1>1. UNCHANGED <<patient, flushes, app, asked, clean, replies, putting, bus, output>>
  BY DEF Silence, Read, habits, exchange
<1>2. Written' = Written
  BY ReadKeepsWritten DEF Silence, IInv, Written
<1>3. Numbers' = Numbers /\ Framed' = Framed /\ Taken' = Taken
  BY <1>1, <1>2 DEF Numbers, Framed, Taken
<1>4. (InGateway = Numbers \cup putting \cup Elements(bus))'
  BY InGatewayIs, PTL
<1>5. InGateway' = InGateway
  BY <1>1, <1>3, <1>4, InGatewayIs DEF IInv
<1>6. Order' /\ Apart'
  BY <1>1, <1>2, <1>3 DEF IInv, Order, Apart
<1>. QED
  BY <1>1, <1>5, <1>6, NothingNew

\* The request of a frame is above those taken before it, and below what is left.
LEMMA FinalizeStep ==
    ASSUME IInv, TypeOK', Finalize
    PROVE  IInv'
<1>1. /\ UNCHANGED <<patient, flushes, app, asked, clean, replies, input, output>>
      /\ buffer' = <<>>
  BY DEF Finalize, habits, exchange
<1>2. buffer \in Seq(Half) /\ input \in Seq(Half)
  BY DEF IInv, TypeOK
<1>3. Written' = input
  BY <1>1, <1>2, ConcatEmptySeq DEF Written
<1>4. /\ Increasing(input)
      /\ \A g \in Elements(buffer), h \in Elements(input) : Rank(g) < Rank(h)
      /\ Elements(Written) = Elements(buffer) \cup Elements(input)
      /\ Elements(input) \subseteq Half
  <2>1. Increasing(buffer \o input)
    BY DEF IInv, Order, Written
  <2>. QED BY <1>2, <2>1, ConcatIncreasing, InGatewayIs DEF IInv
<1>5. Order' /\ Numbers' \subseteq Numbers
  BY <1>1, <1>3, <1>4 DEF IInv, Order, Numbers
<1>6. ASSUME NEW n \in Decoded(buffer)
      PROVE  /\ n \in Requests /\ n \in Numbers /\ n \notin Numbers'
             /\ n <= asked /\ ~ (app = "writing" /\ n = asked)
             /\ n \notin Framed
  <2>. DEFINE g == [n |-> n, half |-> 2]
  <2>1. n \in Requests /\ g \in Elements(buffer)
    BY HalvesInOrder DEF Decoded
  <2>2. g \in Elements(Written) /\ n \in Numbers
    BY <1>4, <2>1 DEF Numbers
  <2>3. n <= asked /\ ~ (app = "writing" /\ n = asked)
    BY <2>2 DEF IInv, Order
  <2>4. ASSUME NEW h \in Elements(input) PROVE h.n # n
    <3>1. Rank(g) < Rank(h) /\ h.n \in Nat /\ h.half \in {1, 2} /\ n \in Nat
      BY <1>4, <2>1 DEF Half, Requests
    <3>. QED BY <3>1 DEF Rank
  <2>. QED BY <1>3, <2>1, <2>2, <2>3, <2>4 DEF Numbers, IInv, Apart
<1>7. \A m, n \in Decoded(buffer) : m = n
  BY DEF Decoded, Halves
<1>8. CASE UNCHANGED <<putting, bus>>
  <2>1. Framed' = Framed /\ Taken' = Taken
    BY <1>1, <1>8 DEF Framed, Taken
  <2>2. Apart'
    BY <1>1, <1>5, <1>8, <2>1 DEF IInv, Apart
  <2>3. (InGateway = Numbers \cup putting \cup Elements(bus))'
    BY InGatewayIs, PTL
  <2>4. InGateway' \subseteq InGateway
    BY <1>5, <1>8, <2>3, InGatewayIs DEF IInv
  <2>. QED BY <1>1, <1>5, <2>2, <2>4, NothingNew
<1>9. ASSUME NEW n \in Decoded(buffer),
             \/ bus' = Append(bus, n) /\ UNCHANGED putting
             \/ putting' = putting \cup {n} /\ UNCHANGED bus
      PROVE  IInv'
  <2>1. /\ Elements(Append(bus, n)) = Elements(bus) \cup {n}
        /\ Once(Append(bus, n))
    BY <1>6, AppendElements DEF IInv, TypeOK, Apart, Framed
  <2>2. Once(bus') /\ putting' \cup Elements(bus') = putting \cup Elements(bus) \cup {n}
    BY <1>9, <2>1 DEF IInv, Apart
  <2>3. Taken' = Taken /\ Framed' = Framed \cup {n}
    BY <1>1, <2>2 DEF Taken, Framed
  <2>4. \A m \in Framed' : m <= asked /\ m \notin Numbers' /\ ~ (app = "writing" /\ m = asked)
    BY <1>5, <1>6, <2>3 DEF IInv, Apart
  <2>5. n \notin putting \cup Elements(bus) \cup Elements(output) \cup Taken
    BY <1>6 DEF Framed
  <2>6. /\ putting' \cap (Elements(bus') \cup Elements(output) \cup Taken) = {}
        /\ Elements(bus') \cap (Elements(output) \cup Taken) = {}
    BY <1>9, <2>1, <2>5 DEF IInv, Apart
  <2>7. Apart'
    BY <1>1, <2>2, <2>3, <2>4, <2>6 DEF IInv, Apart
  <2>8. (InGateway = Numbers \cup putting \cup Elements(bus))'
    BY InGatewayIs, PTL
  <2>9. InGateway' \subseteq InGateway
    BY <1>5, <1>6, <2>2, <2>8, InGatewayIs DEF IInv
  <2>. QED BY <1>1, <1>5, <2>7, <2>9, NothingNew
<1>10. CASE putting' = putting \cup Decoded(buffer) /\ Decoded(buffer) # {} /\ UNCHANGED bus
  <2>1. PICK n \in Decoded(buffer) : Decoded(buffer) = {n}
    BY <1>7, <1>10
  <2>. QED BY <1>9, <1>10, <2>1
<1>. QED
  BY <1>8, <1>9, <1>10 DEF Finalize

\* On its way through the gateway a request goes from place to place.
LEMMA GatewayStep ==
    ASSUME IInv, TypeOK', Gateway \/ \E n \in putting : Put(n)
    PROVE  IInv'
<1>1. UNCHANGED <<patient, flushes, app, asked, clean, replies, input, buffer>>
  BY DEF Gateway, Respond, Swallow, Put, habits, exchange
<1>2. Written' = Written /\ Numbers' = Numbers /\ Taken' = Taken
  <2>1. Written' = Written
    BY <1>1 DEF Written
  <2>. QED BY <1>1, <2>1 DEF Numbers, Taken
<1>3. Order'
  BY <1>1, <1>2 DEF IInv, Order
<1>4. (InGateway = Numbers \cup putting \cup Elements(bus))'
  BY InGatewayIs, PTL
<1>5. ASSUME Apart', Framed' \subseteq Framed,
             putting' \cup Elements(bus') \cup Elements(output')
                \subseteq putting \cup Elements(bus) \cup Elements(output)
      PROVE  IInv'
  BY <1>1, <1>2, <1>3, <1>4, <1>5, InGatewayIs, NothingNew DEF IInv
<1>6. ASSUME NEW n \in putting, Put(n) PROVE IInv'
  <2>1. /\ putting' = putting \ {n} /\ bus' = Append(bus, n) /\ output' = output
    BY <1>6 DEF Put
  <2>2. Elements(bus') = Elements(bus) \cup {n} /\ Once(bus')
    BY <2>1, AppendElements DEF IInv, TypeOK, Apart
  <2>3. Framed' = Framed
    BY <1>2, <2>1, <2>2 DEF Framed
  <2>4. Apart'
    BY <1>1, <1>2, <2>1, <2>2, <2>3 DEF IInv, Apart
  <2>. QED BY <1>5, <2>1, <2>2, <2>3, <2>4
<1>7. ASSUME bus # <<>>, bus' = Tail(bus), UNCHANGED putting,
             output' = output \/ output' = Append(output, Head(bus))
      PROVE  IInv'
  <2>1. /\ Head(bus) \in Requests
        /\ Elements(bus) = {Head(bus)} \cup Elements(bus')
        /\ Once(bus') /\ Head(bus) \notin Elements(bus')
    BY <1>7, TailElements DEF IInv, TypeOK, Apart
  <2>2. Head(bus) \notin Elements(output) \cup Taken
    BY <2>1 DEF IInv, Apart
  <2>3. /\ Elements(output') \subseteq Elements(output) \cup {Head(bus)}
        /\ Once(output')
    <3>1. /\ Elements(Append(output, Head(bus))) = Elements(output) \cup {Head(bus)}
          /\ Once(Append(output, Head(bus)))
      BY <2>1, <2>2, AppendElements DEF IInv, TypeOK, Apart
    <3>. QED BY <1>7, <3>1 DEF IInv, Apart
  <2>4. Framed' \subseteq Framed
    BY <1>2, <1>7, <2>1, <2>3 DEF Framed
  <2>5. Apart'
    BY <1>1, <1>2, <1>7, <2>1, <2>2, <2>3, <2>4 DEF IInv, Apart
  <2>. QED BY <1>5, <1>7, <2>1, <2>3, <2>4, <2>5
<1>. QED
  BY <1>6, <1>7 DEF Gateway, Respond, Swallow

\* The invariant is inductive.
LEMMA NextInv == IInv /\ [Next]_vars => IInv'
<1>. SUFFICES ASSUME IInv, [Next]_vars PROVE IInv'
  OBVIOUS
<1>1. TypeOK'
  BY TypeStep DEF IInv
<1>2. CASE UNCHANGED vars
  BY <1>1, <1>2 DEF IInv, Order, Apart, Due, RepliesComeOnce, RepliesAreOwn, Written,
                    Numbers, Framed, Taken, Underway, InGateway, vars
<1>. QED
  BY <1>1, <1>2, AskStep, AskOnStep, TakeReplyStep, GiveUpStep, ReadStep,
     FinalizeStep, GatewayStep
  DEF Next, Application, ReadLoop

-----------------------------------------------------------------------------
(* What holds of the virtual serial port. *)

\* The state of the port and its application is typed, and every request is in one
\* place, for any number of requests.
THEOREM PortInvariant == Spec => []IInv
<1>. QED BY InitInv, NextInv, PTL DEF Spec

\* No byte that was read is forgotten: the silence timer or its task watches it.
THEOREM BufferWatched == Spec => []BufferIsWatched
<1>1. Init => BufferIsWatched
  BY DEF Init, BufferIsWatched
<1>2. BufferIsWatched /\ [Next]_vars => BufferIsWatched'
  BY DEF BufferIsWatched, Next, Application, ReadLoop, Gateway, Ask, AskOn, TakeReply,
         GiveUp, Read, Restart, Silence, Finalize, Put, Respond, Swallow, vars
<1>. QED BY <1>1, <1>2, PTL DEF Spec

\* No reply is given twice, nor to a request made before its own, whether the
\* application waits or not.
THEOREM RepliesOnce == Spec => []RepliesComeOnce
<1>1. IInv => RepliesComeOnce
  BY DEF IInv
<1>. QED BY <1>1, PortInvariant, PTL

\* An application that outwaits the gateway, or flushes and asks when the gateway has
\* nothing of its own in hand, takes each reply for what it is.
THEOREM RepliesOwn == Spec => []RepliesAreOwn
<1>1. IInv => RepliesAreOwn
  BY DEF IInv
<1>. QED BY <1>1, PortInvariant, PTL

=============================================================================
