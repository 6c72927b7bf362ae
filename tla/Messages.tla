------------------------------ MODULE Messages ------------------------------
(***************************************************************************)
(* core/messages.py, and the way a frame takes through it: a frontend      *)
(* decodes the request it read (from_adu), the dispatcher may give it      *)
(* another unit id (with_unit), the backend encodes it again (to_adu); the *)
(* device's answer is decoded by the backend and encoded by the frontend.  *)
(* Nothing is passed on as it was read: every frame on the far side is     *)
(* rebuilt from the fields of the decoded message.                         *)
(*                                                                         *)
(* An ADU is a sequence: unit id, function code, payload bytes.  A message *)
(* is a record: its class, its unit id, its function code, its 16-bit      *)
(* header fields and its values.  Which answer belongs to which request is *)
(* the matter of Gateway and of the backends; here a frame travels alone.  *)
(***************************************************************************)
EXTENDS Integers, SequencesExt

CONSTANTS
    BitsPerByte, \* 8; smaller in the runs, nothing else depends on it
    Requests,    \* the ADUs that applications send
    Answers,     \* the ADUs that devices send
    Units        \* the unit ids that a plan may name

Base == 2 ^ BitsPerByte
Byte == 0 .. Base - 1
Word == 0 .. Base * Base - 1

\* That a power of two is a number, and twice the one before it, is for the
\* provers, who know no powers.
ASSUME MessagesAssumption ==
    /\ BitsPerByte \in Nat \ {0}
    /\ 2 ^ 0 = 1
    /\ \A n \in 0 .. BitsPerByte - 1 : 2 ^ n \in Nat \ {0} /\ 2 ^ (n + 1) = 2 * 2 ^ n
    /\ \A adu \in Requests \union Answers :
          /\ adu \in Seq(Nat)
          /\ \A i \in 3 .. Len(adu) : adu[i] \in Byte

VARIABLES
    at,   \* where the frame is
    came, \* the ADU that was read
    msg,  \* the message it was decoded into
    went  \* the ADU that was written

vars == <<at, came, msg, went>>

-----------------------------------------------------------------------------
(* Words and coils *)

\* struct.unpack(">HH..."): two bytes a word, the high one first.
UnpackWords(data) ==
    [i \in 1 .. Len(data) \div 2 |-> data[2 * i - 1] * Base + data[2 * i]]

\* struct.pack(">HH...")
PackWords(words) ==
    [i \in 1 .. 2 * Len(words) |->
        LET word == words[(i + 1) \div 2]
        IN  IF i % 2 = 1 THEN word \div Base ELSE word % Base]

\* payload[first : first + size]: a slice stops at the end of the payload.
Slice(payload, first, size) ==
    SubSeq(payload, first, Min({first + size - 1, Len(payload)}))

\* The byte and the bit of coil i; the first coil is the lowest bit.
ByteOf(i) == (i - 1) \div BitsPerByte + 1
BitOf(i) == (i - 1) % BitsPerByte

BitAt(byte, j) == (byte \div 2 ^ j) % 2

\* mutant: the first coil is taken for the highest bit
UnpackCoils_HighFirst(data, quantity) ==
    [i \in {j \in 1 .. quantity : ByteOf(j) <= Len(data)} |->
        BitAt(data[ByteOf(i)], BitsPerByte - 1 - BitOf(i))]

\* _unpack_coils() gives fewer than quantity coils when the data ends first.
UnpackCoils(data, quantity) ==
    [i \in {j \in 1 .. quantity : ByteOf(j) <= Len(data)} |->
        BitAt(data[ByteOf(i)], BitOf(i))]

CoilAt(coils, i) == IF i \in DOMAIN coils THEN coils[i] ELSE 0

\* _pack_coils(): byte k is the one whose bits are the coils from the one after
\* those of the bytes before it on; there are none past the last coil.
PackCoils(coils) ==
    [k \in 1 .. (Len(coils) + BitsPerByte - 1) \div BitsPerByte |->
        CHOOSE byte \in Byte : \A j \in 0 .. BitsPerByte - 1 :
            BitAt(byte, j) = CoilAt(coils, (k - 1) * BitsPerByte + j + 1)]

-----------------------------------------------------------------------------
(* The PDU classes *)

RequestClass(fc) ==
    CASE fc \in 1 .. 6 -> "pair"
      [] fc = 15 -> "coils"
      [] fc = 16 -> "registers"
      [] OTHER -> "raw"

ResponseClass(fc) ==
    CASE fc >= 128 -> "exception"
      [] fc \in {1, 2} -> "bytes"
      [] fc \in {3, 4} -> "words"
      [] fc \in {5, 6, 15, 16} -> "pair"
      [] OTHER -> "raw"

Class(side, fc) == IF side = "request" THEN RequestClass(fc) ELSE ResponseClass(fc)

\* _from_payload() does not raise.
Readable(class, p) ==
    CASE class = "pair" -> Len(p) >= 4
      [] class = "coils" -> Len(p) >= 5
      [] class = "registers" ->
            /\ Len(p) >= 5
            /\ Len(Slice(p, 6, p[5])) >= 2 * UnpackWords(p)[2]
      [] class = "bytes" -> p # <<>>
      [] class = "words" -> p # <<>> /\ Len(Slice(p, 2, p[1])) % 2 = 0
      [] class = "exception" -> p # <<>>
      [] OTHER -> TRUE

\* The header fields and the values that _from_payload() keeps.
Header(class, p) ==
    CASE class = "pair" -> UnpackWords(SubSeq(p, 1, 4))
      [] class \in {"coils", "registers"} -> UnpackWords(SubSeq(p, 1, 2))
      [] OTHER -> <<>>

Values(class, p) ==
    CASE class = "pair" -> <<>>
      [] class = "coils" -> UnpackCoils(Slice(p, 6, p[5]), UnpackWords(p)[2])
      [] class = "registers" -> UnpackWords(Slice(p, 6, 2 * UnpackWords(p)[2]))
      [] class = "bytes" -> Slice(p, 2, p[1])
      [] class = "words" -> UnpackWords(Slice(p, 2, p[1]))
      [] class = "exception" -> <<p[1]>>
      [] OTHER -> p

\* from_adu(): the request's class is looked up by function code; an answer with
\* the high bit of its function code set is an exception, which keeps the rest.
Decodable(side, adu) ==
    /\ Len(adu) >= 2
    /\ Readable(Class(side, adu[2]), SubSeq(adu, 3, Len(adu)))

Decode(side, adu) ==
    LET class == Class(side, adu[2])
        payload == SubSeq(adu, 3, Len(adu))
    IN  [class |-> class,
         unit |-> adu[1],
         fc |-> IF class = "exception" THEN adu[2] - 128 ELSE adu[2],
         head |-> Header(class, payload),
         values |-> Values(class, payload)]

\* mutant: the byte count counts registers
Encode_CountsRegisters(m) ==
    CASE m.class = "pair" -> PackWords(m.head)
      [] m.class = "coils" ->
            PackWords(m.head \o <<Len(m.values)>>)
            \o <<Len(PackCoils(m.values))>> \o PackCoils(m.values)
      [] m.class = "registers" ->
            PackWords(m.head \o <<Len(m.values)>>)
            \o <<Len(m.values)>> \o PackWords(m.values)
      [] m.class = "bytes" -> <<Len(m.values)>> \o m.values
      [] m.class = "words" -> <<Len(m.values)>> \o PackWords(m.values)
      [] OTHER -> m.values

\* encode(): counts and lengths are taken from the values, not from the frame.
Encode(m) ==
    CASE m.class = "pair" -> PackWords(m.head)
      [] m.class = "coils" ->
            PackWords(m.head \o <<Len(m.values)>>)
            \o <<Len(PackCoils(m.values))>> \o PackCoils(m.values)
      [] m.class = "registers" ->
            PackWords(m.head \o <<Len(m.values)>>)
            \o <<2 * Len(m.values)>> \o PackWords(m.values)
      [] m.class = "bytes" -> <<Len(m.values)>> \o m.values
      [] m.class = "words" -> <<2 * Len(m.values)>> \o PackWords(m.values)
      [] OTHER -> m.values

\* mutant: the high bit of an exception is lost
FunctionCode_Base(m) == m.fc

\* function_code: an exception carries the high bit.
FunctionCode(m) == IF m.class = "exception" THEN m.fc + 128 ELSE m.fc

\* to_adu()
ToAdu(m) == <<m.unit, FunctionCode(m)>> \o Encode(m)

-----------------------------------------------------------------------------
(* The way of a frame *)

None == [class |-> "none", unit |-> 0, fc |-> 0, head |-> <<>>, values |-> <<>>]

Init == at = "idle" /\ came = <<>> /\ msg = None /\ went = <<>>

\* The frame is decoded, or refused: a frontend drops the request and reads on, a
\* backend fails the call.
Read(side, adu, next, failed) ==
    /\ came' = adu
    /\ IF Decodable(side, adu)
       THEN at' = next /\ msg' = Decode(side, adu)
       ELSE at' = failed /\ UNCHANGED msg
    /\ UNCHANGED went

\* A frontend reads a request.
Receive == at = "idle" /\ \E adu \in Requests : Read("request", adu, "received", "dropped")

\* The dispatcher: the plan names the unit.
Route ==
    \E unit \in Units :
        /\ at = "received"
        /\ at' = "routed"
        /\ msg' = [msg EXCEPT !.unit = unit]
        /\ UNCHANGED <<came, went>>

Write(from, next) ==
    /\ at = from
    /\ at' = next
    /\ went' = ToAdu(msg)
    /\ UNCHANGED <<came, msg>>

\* The backend sends the request to the device.
Forward == Write("routed", "forwarded")

\* The backend reads the device's answer.
Answer == at = "idle" /\ \E adu \in Answers : Read("answer", adu, "answered", "failed")

\* The frontend sends the answer to the application.
Reply == Write("answered", "replied")

\* The next frame.
Again ==
    /\ at \in {"dropped", "forwarded", "failed", "replied"}
    /\ at' = "idle"
    /\ came' = <<>>
    /\ msg' = None
    /\ went' = <<>>

Next == Receive \/ Route \/ Forward \/ Answer \/ Reply \/ Again

Spec == Init /\ [][Next]_vars

-----------------------------------------------------------------------------
(* Properties *)

\* What a frame must look like, from the layout of the PDUs alone: every length and
\* count agrees with what is there, and the bits after the last coil are zero.
WordAt(p, i) == p[i] * Base + p[i + 1]

RequestFits(fc, p) ==
    CASE fc \in 1 .. 6 -> Len(p) = 4
      [] fc = 15 ->
            /\ Len(p) >= 5
            /\ p[5] = Len(p) - 5
            /\ WordAt(p, 3) \in (p[5] - 1) * BitsPerByte + 1 .. p[5] * BitsPerByte
            /\ p[5] > 0 => p[Len(p)] < 2 ^ (WordAt(p, 3) - (p[5] - 1) * BitsPerByte)
      [] fc = 16 -> Len(p) >= 5 /\ p[5] = Len(p) - 5 /\ p[5] = 2 * WordAt(p, 3)
      [] OTHER -> TRUE

AnswerFits(fc, p) ==
    CASE fc >= 128 -> Len(p) = 1
      [] fc \in 1 .. 2 -> Len(p) >= 1 /\ p[1] = Len(p) - 1
      [] fc \in 3 .. 4 -> Len(p) >= 1 /\ p[1] = Len(p) - 1 /\ p[1] % 2 = 0
      [] fc \in {5, 6, 15, 16} -> Len(p) = 4
      [] OTHER -> TRUE

WellFormed(side, adu) ==
    /\ Len(adu) >= 2
    /\ LET p == SubSeq(adu, 3, Len(adu))
       IN  IF side = "request" THEN RequestFits(adu[2], p) ELSE AnswerFits(adu[2], p)

\* The gateway is transparent: a well-formed request reaches the device byte for
\* byte, but for the unit id that the plan gives it, a well-formed answer reaches
\* the application byte for byte, and neither is ever refused (from_adu(), to_adu()).
Transparent ==
    /\ at = "forwarded" /\ WellFormed("request", came) => Tail(went) = Tail(came)
    /\ at = "replied" /\ WellFormed("answer", came) => went = came
    /\ at = "dropped" => ~WellFormed("request", came)
    /\ at = "failed" => ~WellFormed("answer", came)

\* Whatever came in, truncated, padded or with a wrong count, what is written is
\* well-formed: a device never waits for bytes that do not come, no application reads
\* past the end of its answer, and no field outgrows its bytes, on which struct.pack
\* would raise and lose the request (the _from_payload() and encode() pairs).
NothingMalformedGetsOut ==
    /\ \A i \in 3 .. Len(went) : went[i] \in Byte
    /\ at = "forwarded" => WellFormed("request", went)
    /\ at = "replied" => WellFormed("answer", went)

\* The far side reads the message that the gateway had decoded, routed and filtered
\* by: decoding what was written gives it back (encode() against _from_payload()).
MeaningIsKept ==
    /\ at = "forwarded" => Decodable("request", went) /\ Decode("request", went) = msg
    /\ at = "replied" => Decodable("answer", went) /\ Decode("answer", went) = msg

=============================================================================
