--------------------------- MODULE SerialBackend ---------------------------
(***************************************************************************)
(* SerialBackend with a SerialAsyncSession: submit() sends one RTU frame   *)
(* and takes the next frame that comes in, with retries on a new session.  *)
(* RTU frames carry no transaction id.                                     *)
(*                                                                         *)
(* The caller is the dispatcher, one call at a time, so the locks of the   *)
(* backend and of the session are free whenever they are taken.  Calls and *)
(* sessions are numbered; a frame stands for the call it belongs to.       *)
(***************************************************************************)
EXTENDS Integers, Sequences

CONSTANTS
    MaxAttempts,    \* retry.max_attempts
    AnswersLate,    \* answers reach a session opened after their request was sent
    MaxSubmits      \* bound on the calls of a run

ASSUME SerialBackendAssumption ==
    /\ MaxAttempts \in Nat \ {0}
    /\ AnswersLate \in BOOLEAN
    /\ MaxSubmits \in Nat

VARIABLES
    at,         \* where submit() is
    attempt,    \* the attempt it makes, from 1
    session,    \* _session: the number of the open session, or 0
    opened,     \* sessions opened so far
    buffer,     \* answers in the reader of the open session
    line,       \* requests the device has been sent and not dealt with
    result      \* what came of each call

vars == <<at, attempt, session, opened, buffer, line, result>>

Pending == [kind |-> "pending", to |-> 0]
Raised == [kind |-> "raised", to |-> 0]
AnswerTo(n) == [kind |-> "answer", to |-> n]

\* The call in progress.
Current == Len(result)

Init ==
    /\ at = "idle"
    /\ attempt = 0
    /\ session = 0
    /\ opened = 0
    /\ buffer = <<>>
    /\ line = <<>>
    /\ result = <<>>

-----------------------------------------------------------------------------

\* exchange(): the frame of call n goes out on session s, which is not flushed,
\* and the task reads.
Write(n, s) ==
    /\ at' = "exchanging"
    /\ line' = Append(line, [n |-> n, session |-> s])

\* An attempt at call n begins: with the session there is, or by opening one.
Attempt(n, k) ==
    /\ attempt' = k
    /\ \/ /\ session # 0
          /\ Write(n, session)
       \/ /\ session = 0
          /\ at' = "opening"
          /\ UNCHANGED line
    /\ UNCHANGED <<session, opened, buffer>>

Submit ==
    /\ at = "idle"
    /\ Len(result) < MaxSubmits
    /\ result' = Append(result, Pending)
    /\ Attempt(Len(result) + 1, 1)

\* The device is opened; pyserial discards what had come in before.
OpenSucceeds ==
    /\ at = "opening"
    /\ session' = opened + 1
    /\ opened' = opened + 1
    /\ buffer' = <<>>
    /\ Write(Current, opened + 1)
    /\ UNCHANGED <<attempt, result>>

\* The first frame that comes in is the answer.  The session stays open.
Receive ==
    /\ at = "exchanging"
    /\ buffer # <<>>
    /\ buffer' = Tail(buffer)
    /\ result' = [result EXCEPT ![Current] = AnswerTo(Head(buffer))]
    /\ at' = "idle"
    /\ attempt' = 0
    /\ UNCHANGED <<session, opened, line>>

Reset_Never == UNCHANGED <<session, buffer>>    \* mutant

\* _reset_session: what is left in the reader goes with the session.
Reset ==
    /\ session' = 0
    /\ buffer' = <<>>

IsLast_Late == attempt = MaxAttempts + 1    \* mutant: one attempt too many

IsLast == attempt = MaxAttempts

\* Where an attempt may fail.
CanFail_NoTimeout == at = "opening"     \* mutant: the read has no timeout
CanFail == at \in {"opening", "exchanging"}

\* The attempt fails: the device cannot be opened, no answer in time, too long
\* a frame, a PDU that does not decode.  After the last one the call raises.
AttemptFails ==
    /\ CanFail
    /\ Reset
    /\ \/ /\ IsLast
          /\ result' = [result EXCEPT ![Current] = Raised]
          /\ at' = "idle"
          /\ attempt' = 0
       \/ /\ ~ IsLast
          /\ at' = "backoff"
          /\ UNCHANGED <<result, attempt>>
    /\ UNCHANGED <<opened, line>>

\* The sleep between two attempts is over.
BackoffEnds ==
    /\ at = "backoff"
    /\ Attempt(Current, attempt + 1)
    /\ UNCHANGED result

-----------------------------------------------------------------------------
(* The device, which takes the requests one after the other. *)

\* An answer arrives in the reader of the session that is open.
Arrives(request) ==
    /\ session # 0
    /\ AnswersLate \/ request.session = session

Answer ==
    /\ line # <<>>
    /\ Arrives(Head(line))
    /\ buffer' = Append(buffer, Head(line).n)
    /\ line' = Tail(line)
    /\ UNCHANGED <<at, attempt, session, opened, result>>

\* The device does not answer, or into the void.
NoAnswer ==
    /\ line # <<>>
    /\ line' = Tail(line)
    /\ UNCHANGED <<at, attempt, session, opened, buffer, result>>

-----------------------------------------------------------------------------

\* What a call does by itself; every wait for the device has a timeout.
Proceed == OpenSucceeds \/ Receive \/ AttemptFails \/ BackoffEnds

Next == Submit \/ Proceed \/ Answer \/ NoAnswer

Spec == Init /\ [][Next]_vars

\* The loop runs the call whenever it can run.
FairSpec == Spec /\ WF_vars(Proceed)

-----------------------------------------------------------------------------

TypeOK ==
    /\ at \in {"idle", "opening", "exchanging", "backoff"}
    /\ attempt \in 0 .. MaxAttempts
    /\ session \in 0 .. opened
    /\ opened \in Nat
    /\ buffer \in Seq(1 .. Len(result))
    /\ line \in Seq([n : 1 .. Len(result), session : 1 .. opened])
    /\ result \in Seq([kind : {"pending", "raised", "answer"},
                       to : 0 .. Len(result)])

\* With answers that come in time or not at all, every exchange begins with
\* nothing left in the reader and nothing still to come on its session: what
\* stands in for the transaction id.
ExchangesBeginQuiet ==
    [][at' = "exchanging" /\ at # "exchanging" =>
          /\ buffer' = <<>>
          /\ \A i \in DOMAIN line : line[i].session # session']_vars

\* A call returns the answer to its own request (README.md:5, arbitration).
AnswersItsOwn ==
    \A n \in DOMAIN result : result[n].kind = "answer" => result[n].to = n

\* SerialBackend implements BackendContract.
Contract == INSTANCE BackendContract WITH
    calls    <- Len(result),
    running  <- {n \in DOMAIN result : result[n] = Pending},
    answered <- {n \in DOMAIN result : result[n] = AnswerTo(n)},
    raised   <- {n \in DOMAIN result : result[n] = Raised}

ContractIsKept == Contract!Spec

\* Under FairSpec every call ends, however the attempts fail.
CallsEnd == (at # "idle") ~> (at = "idle")

=============================================================================
