------------------------ MODULE SerialBackendProofs ------------------------
(***************************************************************************)
(* A serial backend whose device answers in time, or not at all, keeps     *)
(* BackendContract, whatever fails: for every number of attempts and calls.*)
(***************************************************************************)
EXTENDS SerialBackend, SequenceTheorems, TLAPS

\* A request on the line that session s would read the answer to.
OnLine(s) == {i \in DOMAIN line : line[i].session = s}

\* Nothing is left to come on the session: none in the reader, none on the line.
Quiet == buffer = <<>> /\ OnLine(session) = {}

\* One answer at most is to come, and it belongs to the call in progress.
Expecting ==
    \/ /\ buffer = <<Current>>
       /\ OnLine(session) = {}
    \/ /\ buffer = <<>>
       /\ \A i \in OnLine(session) : line[i].n = Current
       /\ \A i, j \in OnLine(session) : i = j

\* Where submit() is, what came of the calls, and what is still to come.
CallInv ==
    /\ at # "idle" => Current # 0 /\ result[Current] = Pending
    /\ \A n \in DOMAIN result : n # Current => result[n] # Pending
    /\ at = "idle" /\ Current # 0 => result[Current] # Pending
    /\ at \in {"opening", "backoff"} => session = 0
    /\ at = "exchanging" => session # 0
    /\ at = "backoff" => attempt < MaxAttempts

Answers == \A n \in DOMAIN result : result[n] \in {Pending, Raised, AnswerTo(n)}

LineInv ==
    /\ session # 0 => IF at = "exchanging" THEN Expecting ELSE Quiet
    /\ session = 0 => buffer = <<>>

IInv == TypeOK /\ CallInv /\ Answers /\ LineInv

Outcome(k) == [kind : {"pending", "raised", "answer"}, to : 0 .. k]
OnWire(k, o) == [n : 1 .. k, session : 1 .. o]

-----------------------------------------------------------------------------
(* Types. *)

\* A backend that has not been used satisfies the invariant.
LEMMA InitInv == Init => IInv
<1>. SUFFICES ASSUME Init PROVE IInv
  OBVIOUS
<1>1. /\ DOMAIN result = {} /\ DOMAIN line = {} /\ Len(result) = 0
      /\ MaxAttempts \in Nat
  BY SerialBackendAssumption DEF Init
<1>2. /\ <<>> \in Seq(1 .. Len(result))
      /\ <<>> \in Seq([n : 1 .. Len(result), session : 1 .. opened])
      /\ <<>> \in Seq([kind : {"pending", "raised", "answer"}, to : 0 .. Len(result)])
  BY EmptySeq
<1>3. TypeOK
  BY <1>1, <1>2 DEF Init, TypeOK
<1>. QED
  BY <1>1, <1>3 DEF Init, IInv, CallInv, Answers, LineInv, Current

\* What a new call does to the log of calls and to all that is typed by it.
LEMMA SubmitGrows ==
    ASSUME TypeOK, Submit
    PROVE  /\ Len(result') = Len(result) + 1
           /\ Len(result) \in Nat
           /\ result' \in Seq(Outcome(Len(result) + 1))
           /\ result'[Len(result) + 1] = Pending
           /\ \A n \in DOMAIN result : result'[n] = result[n]
           /\ DOMAIN result' = DOMAIN result \cup {Len(result) + 1}
           /\ buffer \in Seq(1 .. Len(result) + 1)
           /\ line \in Seq(OnWire(Len(result) + 1, opened))
<1>1. /\ result \in Seq(Outcome(Len(result)))
      /\ Len(result) \in Nat
      /\ DOMAIN result = 1 .. Len(result)
  BY LenProperties DEF TypeOK, Outcome
<1>2. Outcome(Len(result)) \subseteq Outcome(Len(result) + 1)
  BY <1>1 DEF Outcome
<1>3. Pending \in Outcome(Len(result) + 1)
  BY <1>1 DEF Outcome, Pending
<1>4. result \in Seq(Outcome(Len(result) + 1))
  BY <1>1, <1>2, SeqMonotonic
<1>5. result' = Append(result, Pending)
  BY DEF Submit
<1>6. /\ buffer \in Seq(1 .. Len(result) + 1)
      /\ line \in Seq(OnWire(Len(result) + 1, opened))
  <2>1. /\ 1 .. Len(result) \subseteq 1 .. Len(result) + 1
        /\ OnWire(Len(result), opened) \subseteq OnWire(Len(result) + 1, opened)
    BY <1>1 DEF OnWire
  <2>. QED BY <2>1, SeqMonotonic DEF TypeOK, OnWire
<1>. QED
  BY <1>1, <1>3, <1>4, <1>5, <1>6, AppendProperties

\* A frame on its way keeps the line typed.
LEMMA WriteTyped ==
    ASSUME NEW k \in Nat, NEW o \in Nat, NEW n \in 1 .. k, NEW s \in 1 .. o,
           line \in Seq(OnWire(k, o)), Write(n, s)
    PROVE  line' \in Seq(OnWire(k, o))
<1>1. [n |-> n, session |-> s] \in OnWire(k, o)
  BY DEF OnWire
<1>. QED
  BY <1>1, AppendProperties DEF Write

\* Every step keeps the types.
LEMMA TypeStep ==
    ASSUME TypeOK, CallInv, [Next]_vars
    PROVE  TypeOK'
<1>. USE DEF Outcome, OnWire
<1>0. /\ TypeOK /\ Len(result) \in Nat /\ MaxAttempts \in Nat \ {0}
      /\ Current = Len(result)
  BY LenProperties, SerialBackendAssumption DEF TypeOK, Current
<1>1. CASE Submit
  <2>1. /\ Len(result') = Len(result) + 1
        /\ result' \in Seq(Outcome(Len(result')))
        /\ buffer \in Seq(1 .. Len(result'))
        /\ line \in Seq(OnWire(Len(result'), opened))
    BY <1>0, <1>1, SubmitGrows
  <2>2. attempt' = 1 /\ UNCHANGED <<session, opened, buffer>>
    BY <1>1 DEF Submit, Attempt
  <2>3. at' \in {"opening", "exchanging"}
    BY <1>1 DEF Submit, Attempt, Write
  <2>4. line' \in Seq(OnWire(Len(result'), opened))
    <3>1. CASE session # 0 /\ Write(Len(result) + 1, session)
      <4>1. session \in 1 .. opened /\ opened \in Nat
        BY <1>0, <3>1 DEF TypeOK
      <4>2. Len(result') \in Nat /\ Len(result) + 1 \in 1 .. Len(result')
        BY <1>0, <2>1
      <4>. QED BY <2>1, <3>1, <4>1, <4>2, WriteTyped
    <3>2. CASE UNCHANGED line
      BY <2>1, <3>2
    <3>. QED BY <1>1, <3>1, <3>2 DEF Submit, Attempt
  <2>. QED BY <1>0, <2>1, <2>2, <2>3, <2>4 DEF TypeOK
<1>2. CASE OpenSucceeds
  <2>1. opened \in Nat /\ opened + 1 \in Nat /\ at' = "exchanging"
    BY <1>0, <1>2 DEF TypeOK, OpenSucceeds, Write
  <2>2. Current \in 1 .. Len(result)
    BY <1>0, <1>2 DEF OpenSucceeds, CallInv
  <2>3. line \in Seq(OnWire(Len(result), opened + 1))
    <3>1. OnWire(Len(result), opened) \subseteq OnWire(Len(result), opened + 1)
      BY <1>0, <2>1
    <3>. QED BY <1>0, <3>1, SeqMonotonic DEF TypeOK
  <2>4. line' \in Seq(OnWire(Len(result), opened + 1))
    <3>1. opened + 1 \in 1 .. opened + 1
      BY <2>1
    <3>. QED BY <1>0, <1>2, <2>1, <2>2, <2>3, <3>1, WriteTyped DEF OpenSucceeds
  <2>5. <<>> \in Seq(1 .. Len(result))
    BY EmptySeq
  <2>. QED BY <1>0, <1>2, <2>1, <2>4, <2>5 DEF TypeOK, OpenSucceeds
<1>3. CASE Receive
  <2>1. /\ Head(buffer) \in 1 .. Len(result)
        /\ Tail(buffer) \in Seq(1 .. Len(result))
    BY <1>0, <1>3, HeadTailProperties DEF TypeOK, Receive
  <2>2. AnswerTo(Head(buffer)) \in Outcome(Len(result))
    BY <1>0, <2>1 DEF AnswerTo
  <2>3. result' \in Seq(Outcome(Len(result))) /\ Len(result') = Len(result)
    BY <1>0, <1>3, <2>2, ExceptSeq DEF TypeOK, Receive
  <2>. QED BY <1>0, <1>3, <2>1, <2>3 DEF TypeOK, Receive
<1>4. CASE AttemptFails
  <2>1. Raised \in Outcome(Len(result)) /\ <<>> \in Seq(1 .. Len(result))
    BY <1>0, EmptySeq DEF Raised
  <2>2. result' \in Seq(Outcome(Len(result))) /\ Len(result') = Len(result)
    <3>1. Current \in 1 .. Len(result)
      BY <1>0, <1>4 DEF CallInv, AttemptFails, CanFail
    <3>2. result \in Seq(Outcome(Len(result)))
      BY <1>0 DEF TypeOK
    <3>3. CASE result' = [result EXCEPT ![Current] = Raised]
      <4>. HIDE DEF Outcome
      <4>. QED BY <2>1, <3>1, <3>2, <3>3, ExceptSeq
    <3>4. CASE UNCHANGED result
      BY <3>2, <3>4
    <3>. QED BY <1>4, <3>3, <3>4 DEF AttemptFails
  <2>3. /\ at' \in {"idle", "backoff"} /\ attempt' \in 0 .. MaxAttempts
        /\ session' \in 0 .. opened
    BY <1>0, <1>4 DEF TypeOK, AttemptFails, Reset
  <2>. QED BY <1>0, <1>4, <2>1, <2>2, <2>3 DEF TypeOK, AttemptFails, Reset
<1>5. CASE BackoffEnds
  <2>1. /\ session = 0 /\ at' = "opening" /\ attempt' = attempt + 1
        /\ UNCHANGED <<session, opened, buffer, line, result>>
    BY <1>5 DEF CallInv, BackoffEnds, Attempt
  <2>2. attempt < MaxAttempts
    BY <1>5 DEF BackoffEnds, CallInv
  <2>. QED BY <1>0, <2>1, <2>2 DEF TypeOK
<1>6. CASE Answer \/ NoAnswer
  <2>1. /\ Head(line) \in OnWire(Len(result), opened)
        /\ Tail(line) \in Seq(OnWire(Len(result), opened))
    BY <1>0, <1>6, HeadTailProperties DEF TypeOK, Answer, NoAnswer
  <2>2. buffer' \in Seq(1 .. Len(result))
    <3>1. CASE Answer
      BY <1>0, <2>1, <3>1, AppendProperties DEF TypeOK, Answer
    <3>2. CASE NoAnswer
      BY <1>0, <3>2 DEF TypeOK, NoAnswer
    <3>. QED BY <1>6, <3>1, <3>2
  <2>. QED BY <1>0, <1>6, <2>1, <2>2 DEF TypeOK, Answer, NoAnswer
<1>7. CASE UNCHANGED vars
  BY <1>0, <1>7 DEF TypeOK, vars
<1>. QED
  BY <1>1, <1>2, <1>3, <1>4, <1>5, <1>6, <1>7 DEF Next, Proceed

-----------------------------------------------------------------------------
(* Where submit() is, and what came of the calls. *)

\* Every step keeps the call in progress the last one, and the only one pending.
LEMMA CallStep ==
    ASSUME TypeOK, CallInv, [Next]_vars
    PROVE  CallInv'
<1>0. /\ TypeOK /\ CallInv
      /\ Len(result) \in Nat /\ DOMAIN result = 1 .. Len(result)
      /\ MaxAttempts \in Nat \ {0} /\ opened \in Nat
      /\ Pending # Raised /\ \A n : AnswerTo(n) # Pending
  BY LenProperties, SerialBackendAssumption
     DEF TypeOK, Pending, Raised, AnswerTo
<1>. USE DEF Current
<1>1. CASE Submit
  <2>1. /\ Len(result') = Len(result) + 1
        /\ result'[Len(result) + 1] = Pending
        /\ \A n \in DOMAIN result : result'[n] = result[n]
        /\ DOMAIN result' = DOMAIN result \cup {Len(result) + 1}
    BY <1>0, <1>1, SubmitGrows
  <2>2. /\ at = "idle" /\ UNCHANGED session
        /\ \/ at' = "exchanging" /\ session # 0
           \/ at' = "opening" /\ session = 0
    BY <1>1 DEF Submit, Attempt, Write
  <2>3. \A n \in DOMAIN result : result[n] # Pending
    BY <1>0, <2>2 DEF CallInv
  <2>. QED BY <1>0, <2>1, <2>2, <2>3 DEF CallInv
<1>2. CASE OpenSucceeds
  BY <1>0, <1>2 DEF CallInv, OpenSucceeds, Write
<1>3. ASSUME NEW o \in {Raised, AnswerTo(Head(buffer))}, at # "idle", at' = "idle",
             result' = [result EXCEPT ![Current] = o]
      PROVE  CallInv'
  <2>1. /\ Len(result') = Len(result) /\ DOMAIN result' = DOMAIN result
        /\ Current \in DOMAIN result
        /\ result'[Current] = o
        /\ \A n \in DOMAIN result : n # Current => result'[n] = result[n]
    <3>1. Current \in 1 .. Len(result)
      BY <1>0, <1>3 DEF CallInv
    <3>2. o \in Outcome(Len(result)) \cup {o} /\ result \in Seq(Outcome(Len(result)))
      BY <1>0 DEF TypeOK, Outcome
    <3>3. result \in Seq(Outcome(Len(result)) \cup {o})
      BY <3>2, SeqMonotonic
    <3>. QED BY <1>0, <1>3, <3>1, <3>2, <3>3, ExceptSeq
  <2>. QED BY <1>0, <1>3, <2>1 DEF CallInv
<1>4. CASE Receive
  BY <1>3, <1>4 DEF Receive
<1>5. CASE AttemptFails
  <2>1. CASE result' = [result EXCEPT ![Current] = Raised] /\ at' = "idle"
    BY <1>3, <1>5, <2>1 DEF AttemptFails, CanFail
  <2>2. CASE ~ IsLast /\ at' = "backoff" /\ UNCHANGED <<result, attempt>>
    <3>1. attempt < MaxAttempts
      BY <1>0, <2>2 DEF TypeOK, IsLast
    <3>. QED BY <1>0, <1>5, <2>2, <3>1 DEF CallInv, AttemptFails, CanFail, Reset
  <2>. QED BY <1>5, <2>1, <2>2 DEF AttemptFails
<1>6. CASE BackoffEnds
  BY <1>0, <1>6 DEF CallInv, BackoffEnds, Attempt, Write
<1>7. CASE Answer \/ NoAnswer \/ UNCHANGED vars
  <2>1. UNCHANGED <<at, attempt, session, result>>
    BY <1>7 DEF Answer, NoAnswer, vars
  <2>. QED BY <1>0, <2>1 DEF CallInv
<1>. QED
  BY <1>1, <1>2, <1>4, <1>5, <1>6, <1>7 DEF Next, Proceed

\* One step changes what came of the calls in one of these ways.
LEMMA ResultStep ==
    ASSUME IInv, ~ AnswersLate, [Next]_vars
    PROVE  \/ UNCHANGED result
           \/ /\ Len(result') = Len(result) + 1
              /\ result'[Len(result')] = Pending
              /\ \A n \in DOMAIN result : result'[n] = result[n]
           \/ /\ Current \in DOMAIN result
              /\ result[Current] = Pending
              /\ Len(result') = Len(result)
              /\ result'[Current] \in {Raised, AnswerTo(Current)}
              /\ \A n \in DOMAIN result \ {Current} : result'[n] = result[n]
<1>0. /\ TypeOK /\ CallInv /\ LineInv
      /\ Len(result) \in Nat /\ DOMAIN result = 1 .. Len(result)
      /\ result \in Seq(Outcome(Len(result)))
      /\ Current = Len(result)
  BY LenProperties DEF IInv, TypeOK, Outcome, Current
<1>1. CASE Submit
  BY <1>0, <1>1, SubmitGrows
<1>2. ASSUME NEW o \in {Raised, AnswerTo(Current)}, at # "idle",
             result' = [result EXCEPT ![Current] = o]
      PROVE  /\ Current \in DOMAIN result
             /\ result[Current] = Pending
             /\ Len(result') = Len(result)
             /\ result'[Current] = o
             /\ \A n \in DOMAIN result \ {Current} : result'[n] = result[n]
  <2>1. Current \in 1 .. Len(result) /\ result[Current] = Pending
    BY <1>0, <1>2 DEF CallInv
  <2>2. o \in Outcome(Len(result))
    BY <1>0, <1>2 DEF Raised, AnswerTo, Outcome
  <2>. QED BY <1>0, <1>2, <2>1, <2>2, ExceptSeq
<1>3. CASE Receive
  <2>1. buffer = <<Current>>
    BY <1>0, <1>3 DEF Receive, LineInv, CallInv, Expecting
  <2>2. Head(buffer) = Current
    BY <2>1
  <2>. QED BY <1>2, <1>3, <2>2 DEF Receive
<1>4. CASE AttemptFails
  BY <1>2, <1>4 DEF AttemptFails, CanFail
<1>5. CASE OpenSucceeds \/ BackoffEnds \/ Answer \/ NoAnswer \/ UNCHANGED vars
  BY <1>5 DEF OpenSucceeds, BackoffEnds, Answer, NoAnswer, vars
<1>. QED
  BY <1>1, <1>3, <1>4, <1>5 DEF Next, Proceed

\* No step returns the answer to another request.
LEMMA AnswersStep ==
    ASSUME IInv, ~ AnswersLate, [Next]_vars
    PROVE  Answers'
<1>0. TypeOK /\ TypeOK' /\ Answers
  BY TypeStep DEF IInv
<1>1. /\ Len(result) \in Nat /\ DOMAIN result = 1 .. Len(result)
      /\ DOMAIN result' = 1 .. Len(result')
  BY <1>0, LenProperties DEF TypeOK
<1>2. CASE UNCHANGED result
  BY <1>0, <1>2 DEF Answers
<1>3. CASE /\ Len(result') = Len(result) + 1
           /\ result'[Len(result')] = Pending
           /\ \A n \in DOMAIN result : result'[n] = result[n]
  <2>1. \A n \in DOMAIN result' : n \in DOMAIN result \/ n = Len(result')
    BY <1>1, <1>3
  <2>. QED BY <1>0, <1>3, <2>1 DEF Answers
<1>4. CASE /\ Current \in DOMAIN result
           /\ Len(result') = Len(result)
           /\ result'[Current] \in {Raised, AnswerTo(Current)}
           /\ \A n \in DOMAIN result \ {Current} : result'[n] = result[n]
  BY <1>0, <1>1, <1>4 DEF Answers
<1>. QED
  BY <1>2, <1>3, <1>4, ResultStep

-----------------------------------------------------------------------------
(* What is still to come. *)

\* No session that is still to be opened has a request on the line.
LEMMA LineTyped ==
    ASSUME TypeOK
    PROVE  /\ opened \in Nat
           /\ \A i \in DOMAIN line : line[i].session \in 1 .. opened
<1>1. line \in Seq(OnWire(Len(result), opened)) /\ opened \in Nat
  BY DEF TypeOK, OnWire
<1>2. \A i \in DOMAIN line : line[i] \in OnWire(Len(result), opened)
  BY <1>1, LenProperties, ElementOfSeq
<1>. QED
  BY <1>1, <1>2 DEF OnWire

\* The line without the request at its head.
LEMMA TailOfLine ==
    ASSUME TypeOK, line # <<>>, line' = Tail(line), UNCHANGED session
    PROVE  /\ Len(line) \in Nat \ {0}
           /\ 1 \in DOMAIN line /\ Head(line) = line[1]
           /\ \A i \in OnLine(session)' :
                 /\ i \in Nat \ {0}
                 /\ i + 1 \in OnLine(session)
                 /\ line'[i] = line[i + 1]
<1>1. /\ line \in Seq(OnWire(Len(result), opened))
  BY DEF TypeOK, OnWire
<1>2. /\ Tail(line) \in Seq(OnWire(Len(result), opened))
      /\ Len(Tail(line)) = Len(line) - 1
      /\ \A i \in 1 .. Len(Tail(line)) : Tail(line)[i] = line[i + 1]
  BY <1>1, HeadTailProperties
<1>3. /\ DOMAIN line = 1 .. Len(line) /\ Len(line) \in Nat \ {0}
      /\ DOMAIN Tail(line) = 1 .. Len(line) - 1
  BY <1>1, <1>2, LenProperties, EmptySeq
<1>. QED
  BY <1>1, <1>2, <1>3 DEF OnLine

\* A request sent on a session that expects nothing is all that it expects.
LEMMA WriteExpecting ==
    ASSUME TypeOK, NEW n \in Nat, NEW s \in Nat,
           \A i \in DOMAIN line : line[i].session # s,
           Write(n, s), session' = s, buffer' = <<>>, Len(result') = n
    PROVE  Expecting'
<1>. DEFINE W == [n : Nat, session : Nat]
<1>1. line \in Seq(W)
  <2>1. OnWire(Len(result), opened) \subseteq W
    BY DEF OnWire
  <2>2. line \in Seq(OnWire(Len(result), opened))
    BY DEF TypeOK, OnWire
  <2>. QED BY <2>1, <2>2, SeqMonotonic
<1>2. [n |-> n, session |-> s] \in W
  OBVIOUS
<1>3. line' = Append(line, [n |-> n, session |-> s])
  BY DEF Write
<1>. HIDE DEF W
<1>4. /\ line' \in Seq(W)
      /\ Len(line') = Len(line) + 1 /\ Len(line) \in Nat
      /\ DOMAIN line = 1 .. Len(line) /\ DOMAIN line' = 1 .. Len(line')
      /\ \A i \in 1 .. Len(line) : line'[i] = line[i]
      /\ line'[Len(line) + 1] = [n |-> n, session |-> s]
  BY <1>1, <1>2, <1>3, AppendProperties, LenProperties
<1>5. \A i \in OnLine(session)' : i = Len(line) + 1
  BY <1>4 DEF OnLine
<1>. QED
  BY <1>4, <1>5 DEF Expecting, Current

\* Every step leaves at most one answer to come, to the call in progress.
LEMMA LineStep ==
    ASSUME IInv, ~ AnswersLate, [Next]_vars
    PROVE  LineInv'
<1>0. /\ TypeOK /\ CallInv /\ LineInv
      /\ Len(result) \in Nat /\ Current = Len(result) /\ opened \in Nat
      /\ session \in Nat
      /\ \A i \in DOMAIN line : line[i].session \in 1 .. opened
  BY LineTyped, LenProperties DEF IInv, TypeOK, Current
<1>1. CASE Submit
  <2>1. at = "idle" /\ UNCHANGED <<session, buffer>>
    BY <1>1 DEF Submit, Attempt
  <2>2. CASE session = 0
    BY <1>0, <2>1, <2>2 DEF LineInv
  <2>3. CASE session # 0
    <3>1. buffer = <<>> /\ \A i \in DOMAIN line : line[i].session # session
      BY <1>0, <2>1, <2>3 DEF LineInv, Quiet, OnLine
    <3>2. Write(Len(result) + 1, session) /\ at' = "exchanging"
      BY <1>1, <2>3 DEF Submit, Attempt, Write
    <3>3. Len(result') = Len(result) + 1
      BY <1>0, <1>1, SubmitGrows
    <3>4. Len(result) + 1 \in Nat
      BY <1>0
    <3>5. Expecting'
      BY <1>0, <2>1, <3>1, <3>2, <3>3, <3>4, WriteExpecting
    <3>. QED BY <2>1, <2>3, <3>2, <3>5 DEF LineInv
  <2>. QED BY <2>2, <2>3
<1>2. CASE OpenSucceeds
  <2>1. /\ Write(Current, opened + 1) /\ at' = "exchanging"
        /\ session' = opened + 1 /\ buffer' = <<>> /\ result' = result
    BY <1>2 DEF OpenSucceeds, Write
  <2>2. \A i \in DOMAIN line : line[i].session # opened + 1
    BY <1>0
  <2>3. opened + 1 \in Nat \ {0}
    BY <1>0
  <2>4. Expecting'
    BY <1>0, <2>1, <2>2, <2>3, WriteExpecting
  <2>. QED BY <2>1, <2>3, <2>4 DEF LineInv
<1>3. CASE Receive
  <2>1. /\ at = "exchanging" /\ buffer # <<>> /\ buffer' = Tail(buffer)
        /\ at' = "idle" /\ UNCHANGED <<session, line>>
    BY <1>3 DEF Receive
  <2>2. session # 0 /\ buffer = <<Current>> /\ OnLine(session) = {}
    BY <1>0, <2>1 DEF LineInv, CallInv, Expecting
  <2>3. buffer' = <<>>
    BY <2>1, <2>2
  <2>4. OnLine(session)' = {}
    BY <2>1, <2>2 DEF OnLine
  <2>. QED BY <2>1, <2>2, <2>3, <2>4 DEF LineInv, Quiet
<1>4. CASE AttemptFails
  BY <1>4 DEF AttemptFails, Reset, LineInv
<1>5. CASE BackoffEnds
  BY <1>0, <1>5 DEF BackoffEnds, Attempt, LineInv, CallInv
<1>6. CASE Answer
  <2>1. /\ line # <<>> /\ line' = Tail(line) /\ session # 0
        /\ Head(line).session = session
        /\ buffer' = Append(buffer, Head(line).n)
        /\ UNCHANGED <<at, session, result>>
    BY <1>6 DEF Answer, Arrives
  <2>2. /\ 1 \in OnLine(session) /\ Head(line) = line[1]
        /\ \A i \in OnLine(session)' : i \in Nat \ {0} /\ i + 1 \in OnLine(session)
    BY <1>0, <2>1, TailOfLine DEF OnLine
  <2>3. /\ at = "exchanging" /\ buffer = <<>> /\ line[1].n = Current
        /\ \A i \in OnLine(session) : i = 1
    BY <1>0, <2>1, <2>2 DEF LineInv, Quiet, Expecting
  <2>4. buffer' = <<Current>> /\ Current' = Current
    BY <2>1, <2>2, <2>3 DEF Current
  <2>5. OnLine(session)' = {}
    BY <2>2, <2>3
  <2>. QED BY <2>1, <2>3, <2>4, <2>5 DEF LineInv, Expecting
<1>7. CASE NoAnswer
  <2>1. line # <<>> /\ line' = Tail(line) /\ UNCHANGED <<at, session, buffer, result>>
    BY <1>7 DEF NoAnswer
  <2>2. \A i \in OnLine(session)' :
            /\ i \in Nat \ {0} /\ i + 1 \in OnLine(session)
            /\ line'[i] = line[i + 1]
    BY <1>0, <2>1, TailOfLine
  <2>3. CASE session = 0
    BY <1>0, <2>1, <2>3 DEF LineInv
  <2>4. CASE session # 0 /\ at # "exchanging"
    BY <1>0, <2>1, <2>2, <2>4 DEF LineInv, Quiet
  <2>5. CASE session # 0 /\ at = "exchanging"
    <3>1. Expecting /\ Current' = Current
      BY <1>0, <2>1, <2>5 DEF LineInv, Current
    <3>2. CASE buffer = <<Current>> /\ OnLine(session) = {}
      BY <2>1, <2>2, <2>5, <3>1, <3>2 DEF LineInv, Expecting
    <3>3. CASE /\ buffer = <<>>
               /\ \A i \in OnLine(session) : line[i].n = Current
               /\ \A i, j \in OnLine(session) : i = j
      <4>1. \A i \in OnLine(session)' : line'[i].n = Current
        BY <2>2, <3>3
      <4>2. \A i, j \in OnLine(session)' : i = j
        <5>. SUFFICES ASSUME NEW i \in OnLine(session)', NEW j \in OnLine(session)'
                      PROVE  i = j
          OBVIOUS
        <5>1. i + 1 = j + 1 /\ i \in Nat /\ j \in Nat
          BY <2>2, <3>3
        <5>. QED BY <5>1
      <4>. QED BY <2>1, <2>5, <3>1, <3>3, <4>1, <4>2 DEF LineInv, Expecting
    <3>. QED BY <3>1, <3>2, <3>3 DEF Expecting
  <2>. QED BY <2>3, <2>4, <2>5
<1>8. CASE UNCHANGED vars
  BY <1>0, <1>8 DEF vars, LineInv, Quiet, Expecting, OnLine, Current
<1>. QED
  BY <1>1, <1>2, <1>3, <1>4, <1>5, <1>6, <1>7, <1>8 DEF Next, Proceed

-----------------------------------------------------------------------------
(* The results. *)

\* The state of SerialBackend and its session is typed, whenever the answers
\* come.
THEOREM SerialTypeCorrect == Spec => []TypeOK
<1>1. Init => TypeOK /\ CallInv
  BY InitInv DEF IInv
<1>2. TypeOK /\ CallInv /\ [Next]_vars => (TypeOK /\ CallInv)'
  BY TypeStep, CallStep
<1>. QED
  BY <1>1, <1>2, PTL DEF Spec

\* With a device that answers in time or not at all, the state is typed, at
\* most one answer is to come, and it belongs to the call in progress.
THEOREM Inductive == ASSUME ~ AnswersLate PROVE Spec => []IInv
<1>1. IInv /\ [Next]_vars => IInv'
  BY TypeStep, CallStep, AnswersStep, LineStep DEF IInv
<1>. QED
  BY <1>1, InitInv, PTL DEF Spec

\* Every answer a call of SerialBackend.submit returns is the answer to the
\* request of that call, if the device never answers after a session was reset.
THEOREM TimelyAnswers == ASSUME ~ AnswersLate PROVE Spec => []AnswersItsOwn
<1>1. IInv => AnswersItsOwn
  BY DEF IInv, Answers, AnswersItsOwn, Pending, Raised, AnswerTo
<1>. QED
  BY <1>1, Inductive, PTL

\* Every exchange begins with an empty reader and nothing of its session on the
\* line: SerialAsyncSession never finds the answer to an earlier request.
THEOREM TimelyQuiet == ASSUME ~ AnswersLate PROVE Spec => ExchangesBeginQuiet
<1>1. ASSUME IInv, [Next]_vars, at' = "exchanging", at # "exchanging"
      PROVE  buffer' = <<>> /\ \A i \in DOMAIN line : line[i].session # session'
  <2>1. /\ \A i \in DOMAIN line : line[i].session \in 1 .. opened
        /\ opened \in Nat
    BY <1>1, LineTyped DEF IInv
  <2>2. CASE Submit
    <3>1. session # 0 /\ at = "idle" /\ UNCHANGED <<session, buffer>>
      BY <1>1, <2>2 DEF Submit, Attempt
    <3>. QED BY <1>1, <3>1 DEF IInv, LineInv, Quiet, OnLine
  <2>3. CASE OpenSucceeds
    BY <2>1, <2>3 DEF OpenSucceeds
  <2>4. CASE BackoffEnds
    BY <1>1, <2>4 DEF BackoffEnds, Attempt, IInv, CallInv
  <2>5. CASE Receive \/ AttemptFails \/ Answer \/ NoAnswer \/ UNCHANGED vars
    BY <1>1, <2>5 DEF Receive, AttemptFails, Answer, NoAnswer, vars
  <2>. QED BY <1>1, <2>2, <2>3, <2>4, <2>5 DEF Next, Proceed
<1>2. IInv /\ [Next]_vars =>
        [at' = "exchanging" /\ at # "exchanging" =>
          /\ buffer' = <<>>
          /\ \A i \in DOMAIN line : line[i].session # session']_vars
  BY <1>1
<1>. QED
  BY <1>2, Inductive, PTL DEF Spec, ExchangesBeginQuiet

-----------------------------------------------------------------------------
(* The refinement. *)

\* Before the first call nothing has been promised.
LEMMA ContractInit == Init => Contract!Init
<1>. SUFFICES ASSUME Init PROVE Contract!Init
  OBVIOUS
<1>1. Len(result) = 0 /\ DOMAIN result = {}
  BY DEF Init
<1>. QED
  BY <1>1 DEF Contract!Init

\* A submit() begins a call of the contract, what ends it ends that call, and
\* everything between is a stutter.
LEMMA ContractStep ==
    ASSUME IInv, ~ AnswersLate, [Next]_vars
    PROVE  [Contract!Next]_Contract!vars
<1>. DEFINE With(o) == {n \in DOMAIN result : result[n] = o}
            Own == {n \in DOMAIN result : result[n] = AnswerTo(n)}
<1>1. /\ TypeOK /\ TypeOK' /\ Answers
      /\ Pending # Raised /\ \A n : AnswerTo(n) # Pending /\ AnswerTo(n) # Raised
  BY TypeStep DEF IInv, Pending, Raised, AnswerTo
<1>2. /\ Len(result) \in Nat /\ DOMAIN result = 1 .. Len(result)
      /\ DOMAIN result' = 1 .. Len(result')
  BY <1>1, LenProperties DEF TypeOK
<1>3. CASE UNCHANGED result
  BY <1>3 DEF Contract!vars
<1>4. CASE /\ Len(result') = Len(result) + 1
           /\ result'[Len(result')] = Pending
           /\ \A n \in DOMAIN result : result'[n] = result[n]
  <2>1. DOMAIN result' = DOMAIN result \cup {Len(result) + 1}
    BY <1>2, <1>4
  <2>2. With(Pending)' = With(Pending) \cup {Len(result) + 1}
    BY <1>4, <2>1
  <2>3. With(Raised)' = With(Raised)
    BY <1>1, <1>4, <2>1
  <2>4. Own' = Own
    BY <1>1, <1>4, <2>1
  <2>. QED BY <1>4, <2>2, <2>3, <2>4 DEF Contract!Next, Contract!Submit, Pending, Raised
<1>5. ASSUME NEW o \in {Raised, AnswerTo(Current)},
             Current \in DOMAIN result,
             result[Current] = Pending,
             Len(result') = Len(result),
             result'[Current] = o,
             \A n \in DOMAIN result \ {Current} : result'[n] = result[n]
      PROVE  Contract!Next
  <2>1. /\ DOMAIN result' = DOMAIN result
        /\ With(Pending)' = With(Pending) \ {Current}
        /\ Current \in With(Pending)
    BY <1>1, <1>2, <1>5
  <2>2. CASE o = Raised
    <3>1. With(Raised)' = With(Raised) \cup {Current} /\ Own' = Own
      BY <1>1, <1>5, <2>1, <2>2
    <3>. QED BY <1>5, <2>1, <3>1 DEF Contract!Next, Contract!Raise, Contract!End
  <2>3. CASE o = AnswerTo(Current)
    <3>1. With(Raised)' = With(Raised) /\ Own' = Own \cup {Current}
      BY <1>1, <1>5, <2>1, <2>3
    <3>. QED BY <1>5, <2>1, <3>1 DEF Contract!Next, Contract!Return, Contract!End
  <2>. QED BY <1>5, <2>2, <2>3
<1>. QED
  BY <1>3, <1>4, <1>5, ResultStep

\* SerialBackend keeps BackendContract: a call of submit ends once, with the
\* answer to its own request or with an exception, for every number of attempts,
\* as long as the device answers in time or not at all.
THEOREM TimelyContract == ASSUME ~ AnswersLate PROVE Spec => ContractIsKept
<1>1. IInv /\ [Next]_vars => [Contract!Next]_Contract!vars
  BY ContractStep
<1>. QED
  BY <1>1, ContractInit, Inductive, PTL DEF Spec, ContractIsKept, Contract!Spec

=============================================================================
