----------------------------- MODULE ClientApi -----------------------------
(***************************************************************************)
(* The client library's calls (modbusgw_client/api.py), end to end: a call *)
(* is encoded by the library, decoded, routed and encoded again by the     *)
(* gateway, carried out and answered by a device, and the answer comes     *)
(* back the same way and is turned into the result of the call.            *)
(*                                                                         *)
(* modbusgw_client/pdu.py defines the PDU classes with the text of         *)
(* core/messages.py, so both ends use the operators of Messages.  The      *)
(* device is a Modbus device by its own, separate reading of the frames.   *)
(* A format string is its size in bytes, and 0 if there is none; the value *)
(* formatted with it is the bytes that struct.pack gives.                  *)
(*                                                                         *)
(* The transport is TcpClient.  Its socket may time out at any point of a  *)
(* call, and the gateway may close the connection at any time.             *)
(***************************************************************************)
EXTENDS Messages

CONSTANTS
    Calls,      \* calls, as the records of Call
    Given,      \* registers that devices hold
    Strays      \* answers that fit no request

ReadsBits == {"read_coils", "read_discrete_inputs"}
ReadsWords == {"read_holding_registers", "read_input_registers"}
WritesWords == {"write_register", "write_registers"}

\* The arguments have the types that the calls take or convert them to: a single coil
\* is a bool, as its bit, or any integer, coils are bits, a register is any integer, a
\* formatted value bytes.
ASSUME ApiAssumption ==
    /\ \A c \in Calls :
          /\ c.op \in ReadsBits \union ReadsWords \union {"write_coil", "write_coils"} \union WritesWords
          /\ c.unit \in Nat /\ c.address \in Int /\ c.quantity \in Nat /\ c.fmt \in Nat
          /\ c.op = "write_coil" =>
                /\ c.bool \in BOOLEAN
                /\ c.values \in [{1} -> IF c.bool THEN {0, 1} ELSE Int]
          /\ c.op = "write_coils" => c.values \in Seq({0, 1})
          /\ c.op \in WritesWords => c.values \in Seq(IF c.fmt = 0 THEN Int ELSE Byte)
          /\ c.op = "write_register" /\ c.fmt = 0 => Len(c.values) = 1
    /\ \A adu \in Strays :
          /\ adu \in Seq(Nat) /\ Len(adu) >= 2
          /\ \A i \in 3 .. Len(adu) : adu[i] \in Byte
    /\ Given \subseteq Word /\ Units \subseteq Nat
    /\ 2 \in Byte  \* an exception code

VARIABLES
    call,       \* the call under way, or NoCall
    done,       \* what the device has understood and answered
    result,     \* what the call returns or raises
    socket,     \* _socket: "none", "open", or "dead", open but closed by the peer
    owed        \* answers to earlier calls that are still to come on it

clientVars == <<call, done, result, socket, owed>>
transport == <<socket, owed>>

NoCall == [op |-> "none"]
Nothing == [kind |-> "none", value |-> <<>>]
NotDone == [fc |-> 0, address |-> 0, data |-> <<>>, value |-> <<>>, kind |-> "none"]

ApiInit ==
    /\ Init
    /\ call = NoCall /\ done = NotDone /\ result = Nothing
    /\ socket = "none" /\ owed = 0

-----------------------------------------------------------------------------
(* The library: from a call to a request *)

\* The registers of a write: masked integers, or the formatted bytes by twos.
Registers(c) ==
    IF c.fmt = 0 THEN [i \in DOMAIN c.values |-> c.values[i] % (Base * Base)]
    ELSE UnpackWords(c.values)

\* A formatted value of several registers is no single register.
FunctionOf(c) ==
    CASE c.op = "read_coils" -> 1
      [] c.op = "read_discrete_inputs" -> 2
      [] c.op = "read_holding_registers" -> 3
      [] c.op = "read_input_registers" -> 4
      [] c.op = "write_coil" -> 5
      [] c.op = "write_register" -> IF Len(Registers(c)) = 1 THEN 6 ELSE 16
      [] c.op = "write_coils" -> 15
      [] c.op = "write_registers" -> 16

\* The word that sets a coil.  One of 0 clears it, and no other is in the protocol.
On == (Base - 1) * Base

\* _encode_value(): a bool is the word that sets or clears a coil, an integer is sent
\* as it is.
CoilWord(c) ==
    CASE c.bool /\ c.values = <<1>> -> On
      [] c.bool /\ c.values = <<0>> -> 0
      [] ~c.bool -> c.values[1] % (Base * Base)

Built(c) ==
    LET fc == FunctionOf(c)
        fields(head, values) ==
            [class |-> RequestClass(fc), unit |-> c.unit, fc |-> fc,
             head |-> <<c.address>> \o head, values |-> values]
    IN  CASE fc \in 1 .. 4 -> fields(<<c.quantity>>, <<>>)
          [] fc = 5 -> fields(<<CoilWord(c)>>, <<>>)
          [] fc = 6 -> fields(<<Registers(c)[1]>>, <<>>)
          [] fc = 15 -> fields(<<>>, c.values)
          [] fc = 16 -> fields(<<>>, Registers(c))

\* The request as the library's PDU classes encode it.
SentAdu(c) == ToAdu(Built(c))

\* No ValueError before there is a request: formatted bytes fill registers.
Convertible(c) == c.fmt = 0 \/ c.op \in ReadsWords \/ Len(c.values) % 2 = 0

\* No struct.error before it is sent: what is packed fits its word, the byte count its
\* byte.
Sendable(c) ==
    /\ c.address \in Word
    /\ c.op \in ReadsBits \union ReadsWords => c.quantity \in Word
    /\ FunctionOf(c) = 16 => 2 * Len(Registers(c)) \in Byte
    /\ FunctionOf(c) = 15 => Len(PackCoils(c.values)) \in Byte

-----------------------------------------------------------------------------
(* The library: from an answer to a result *)

\* The response types that _execute() accepts: two of the classes derive from others.
Expected(c) ==
    CASE c.op \in ReadsBits -> {1, 2}
      [] c.op = "read_holding_registers" -> {3, 4}
      [] OTHER -> {FunctionOf(c)}

\* The value returned: bits[:quantity], the registers or the bytes for the format,
\* the coil as a boolean, the register, or the number of what was written.
ValueOf(c, m) ==
    CASE c.op \in ReadsBits ->
            Slice(UnpackCoils(m.values, Len(m.values) * BitsPerByte), 1, c.quantity)
      [] c.op \in ReadsWords -> IF c.fmt = 0 THEN m.values ELSE PackWords(m.values)
      [] c.op = "write_coil" -> IF m.head[2] = 0 THEN <<0>> ELSE <<1>>
      [] OTHER -> <<m.head[2]>>

\* The answer as the library's PDU classes decode it.
Received(adu) == Decode("answer", adu)

Raised(kind, value) == [kind |-> kind, value |-> value]

ResultOf(c, adu) ==
    LET m == Received(adu)
    IN  CASE ~Decodable("answer", adu) -> Raised("ValueError", <<>>)
          [] Decodable("answer", adu) /\ m.class = "exception" ->
                Raised("ModbusServerError", m.values)
          [] Decodable("answer", adu) /\ m.class # "exception" ->
                CASE m.fc \notin Expected(c) -> Raised("ProtocolError", <<>>)
                  [] m.fc \in Expected(c) /\ c.op \in ReadsWords
                        /\ c.fmt \notin {0, 2 * Len(m.values)} -> Raised("ValueError", <<>>)
                  [] OTHER -> [kind |-> "returned", value |-> ValueOf(c, m)]

-----------------------------------------------------------------------------
(* The device *)

\* Every data part of size bytes whose bits from number + 1 on are zero.
BitsOf(data, number) ==
    [i \in 1 .. number |->
        (data[1 + (i - 1) \div BitsPerByte] \div 2 ^ ((i - 1) % BitsPerByte)) % 2]

BitData(number) ==
    LET size == (number + BitsPerByte - 1) \div BitsPerByte
    IN  {data \in [1 .. size -> Byte] :
            \A i \in number + 1 .. size * BitsPerByte : BitsOf(data, size * BitsPerByte)[i] = 0}

WordsOf(data) == [i \in 1 .. Len(data) \div 2 |-> data[2 * i - 1] * Base + data[2 * i]]

WordData(number) ==
    {[i \in 1 .. 2 * number |->
        LET word == w[(i + 1) \div 2] IN IF i % 2 = 0 THEN word % Base ELSE word \div Base] :
            w \in [1 .. number -> Given]}

Answered(fc, address, data, value, adu) ==
    /\ done' = [fc |-> fc, address |-> address, data |-> data, value |-> value,
                kind |-> "returned"]
    /\ Read("answer", adu, "answered", "failed")

\* It carries a request out, and answers with what was asked, if an answer can hold
\* that much, or echoes the write.  A word that neither sets nor clears a coil it can
\* only refuse.
CarryOut(unit, fc, p) ==
    LET address == WordAt(p, 1)
        number == WordAt(p, 3)
        answered(data, value) ==
            Answered(fc, address, data, value, <<unit, fc>> \o SubSeq(p, 1, 4))
    IN  \/ /\ fc \in {1, 2}
           /\ \E data \in BitData(number) :
                 /\ Len(data) \in Byte
                 /\ Answered(fc, address, <<number>>, BitsOf(data, number),
                             <<unit, fc, Len(data)>> \o data)
        \/ /\ fc \in {3, 4}
           /\ \E data \in WordData(number) :
                 /\ Len(data) \in Byte
                 /\ Answered(fc, address, <<number>>, WordsOf(data),
                             <<unit, fc, Len(data)>> \o data)
        \/ fc = 5 /\ number = On /\ answered(<<1>>, <<1>>)
        \/ fc = 5 /\ number = 0 /\ answered(<<0>>, <<0>>)
        \/ fc = 6 /\ answered(<<number>>, <<number>>)
        \/ fc = 15 /\ answered(BitsOf(SubSeq(p, 6, Len(p)), number), <<number>>)
        \/ fc = 16 /\ answered(WordsOf(SubSeq(p, 6, Len(p))), <<number>>)

Calling == call # NoCall

Serve ==
    /\ Calling /\ at = "forwarded"
    /\ CarryOut(went[1], went[2], SubSeq(went, 3, Len(went)))
    /\ UNCHANGED <<call, result, transport>>

\* It refuses the request, or answers something else.
Misserve ==
    /\ Calling /\ at = "forwarded"
    /\ \/ /\ done' = [NotDone EXCEPT !.kind = "ModbusServerError", !.value = <<2>>]
          /\ Read("answer", <<went[1], went[2] + 128, 2>>, "answered", "failed")
       \/ \E adu \in Strays :
             /\ done' = [NotDone EXCEPT !.kind = "stray", !.fc = adu[2]]
             /\ Read("answer", adu, "answered", "failed")
    /\ UNCHANGED <<call, result, transport>>

-----------------------------------------------------------------------------
(* The way of a call *)

\* The call ends, with a result or an exception.
Ends(outcome) ==
    /\ at' = "returned"
    /\ result' = outcome
    /\ UNCHANGED <<came, msg, went, call, done>>

Idle == ~Calling /\ at = "idle"

\* connect(), which does nothing if there is a socket, alive or not.
Connect ==
    /\ Idle /\ socket = "none"
    /\ socket' = "open"
    /\ UNCHANGED <<vars, call, done, result, owed>>

Shut_Never == owed' = owed + 1 /\ UNCHANGED socket  \* mutant: left open

\* close(): what is still to come on this connection is lost.
Shut == socket' = "none" /\ owed' = 0

Close == Idle /\ socket # "none" /\ Shut /\ UNCHANGED <<vars, call, done, result>>

\* The gateway closes the connection, stops, or reloads.
PeerCloses ==
    /\ socket = "open"
    /\ Calling \/ Idle
    /\ socket' = "dead"
    /\ UNCHANGED <<vars, call, done, result, owed>>

\* A call begins: a request is built, or the values do not convert.
Call(c) ==
    /\ Idle
    /\ call' = c
    /\ at' = IF Convertible(c) THEN "built" ELSE "returned"
    /\ result' = IF Convertible(c) THEN result ELSE Raised("ValueError", <<>>)
    /\ UNCHANGED <<came, msg, went, done, transport>>

\* execute() encodes the request and sends it, and the gateway reads it.  A timeout may
\* come before it is carried out, which the gateway does then unobserved.
Execute ==
    /\ Calling /\ at = "built" /\ socket = "open" /\ Sendable(call)
    /\ Read("request", SentAdu(call), "received", "dropped")
    /\ UNCHANGED clientVars

ExecuteRaises ==
    /\ Calling /\ at = "built"
    /\ \/ socket = "none" /\ Ends(Raised("ConnectionClosed", <<>>)) /\ UNCHANGED transport
       \/ /\ socket # "none" /\ ~Sendable(call)
          /\ Ends(Raised("struct.error", <<>>)) /\ UNCHANGED transport
       \/ /\ socket = "dead" /\ Sendable(call)
          /\ Ends(Raised("TransportError", <<>>))
          /\ Shut \/ UNCHANGED transport

Through == Calling /\ (Route \/ Forward \/ Reply) /\ UNCHANGED clientVars

\* The frame of an earlier call is read, and its transaction id is not this call's; or
\* the one that belongs to it.
Return ==
    /\ Calling /\ at = "replied"
    /\ Ends(IF owed > 0 THEN Raised("Mismatched", <<>>) ELSE ResultOf(call, went))
    /\ UNCHANGED transport

UnderWay ==
    at \in {"received", "dropped", "routed", "forwarded", "answered", "failed", "replied"}

\* Mutant: an OSError is not caught.
TimeOut_Raw == Calling /\ UnderWay /\ Ends(Raised("OSError", <<>>)) /\ Shut

\* An OSError: no answer comes in time, be it lost, dropped, or only late.
TimeOut ==
    /\ Calling /\ UnderWay
    /\ Ends(Raised("TransportError", <<>>))
    /\ Shut

\* The connection is closed by the gateway: recv() gives nothing, and the TransportError
\* of that leaves the socket as it is, or it fails, as in TimeOut.
Lost ==
    /\ Calling /\ UnderWay /\ socket = "dead"
    /\ Ends(Raised("TransportError", <<>>))
    /\ UNCHANGED transport

Over ==
    /\ at = "returned"
    /\ at' = "idle" /\ came' = <<>> /\ msg' = None /\ went' = <<>>
    /\ call' = NoCall /\ done' = NotDone /\ result' = Nothing
    /\ UNCHANGED transport

\* Frames of calls, and any others.
ApiNext ==
    \/ Connect \/ Close \/ PeerCloses
    \/ \E c \in Calls : Call(c)
    \/ Execute \/ ExecuteRaises
    \/ Through \/ Serve \/ Misserve \/ Return \/ TimeOut \/ Lost \/ Over
    \/ ~Calling /\ socket = "none" /\ Next /\ UNCHANGED clientVars

ApiSpec == ApiInit /\ [][ApiNext]_<<vars, clientVars>>

-----------------------------------------------------------------------------
(* Properties *)

\* What a device should have understood of a call.  An integer for a coil is its word:
\* 1 is none that a device carries out, and one that is masked to 0 clears the coil.
Meant(c) ==
    CASE c.op \in ReadsBits \union ReadsWords -> <<c.quantity>>
      [] c.op = "write_coil" /\ ~c.bool -> <<IF CoilWord(c) = 0 THEN 0 ELSE 1>>
      [] c.op = "write_coils" \/ (c.op = "write_coil" /\ c.bool) -> c.values
      [] OTHER -> Registers(c)

\* A device does what the caller meant, and the caller gets what the device gave, over
\* three codecs and two changes of the frame: the same coils in the same order and no
\* more of them, the same registers, or the device's exception; and of an answer that
\* does not belong to the call nothing but an error, or a value of the type asked for.
\* No call ever meets the answer to an earlier one that timed out (Mismatched).  Which
\* errors there may be is for ErrorsAreClientErrors to say.
EndToEnd ==
    at = "returned" =>
        /\ result.kind # "Mismatched"
        /\ done.kind = "returned" =>
              /\ done.fc = FunctionOf(call) /\ done.address = call.address
              /\ done.data = Meant(call)
        /\ done.kind = "returned" /\ result.kind = "returned" =>
              CASE call.op \in ReadsWords /\ call.fmt # 0 -> WordsOf(result.value) = done.value
                [] OTHER -> result.value = done.value
        /\ done.kind = "returned" /\ result.kind \notin {"returned", "TransportError"} =>
              call.op \in ReadsWords /\ call.fmt \notin {0, 2 * call.quantity}
        /\ done.kind = "ModbusServerError" /\ result.kind # "TransportError" =>
              result = [kind |-> "ModbusServerError", value |-> done.value]
        /\ done.kind = "stray" /\ result.kind = "returned" => done.fc \in Expected(call)

\* The exceptions of modbusgw_client/exceptions.py; Mismatched is a TransportError.
ClientErrors ==
    {"TransportError", "Mismatched", "ConnectionClosed", "ProtocolError", "ModbusServerError"}

\* A format that is not the size of the registers asked for, or of those that came.
Misfits(c) ==
    /\ c.op \in ReadsWords /\ c.fmt # 0
    /\ c.fmt # 2 * c.quantity \/ done.kind = "stray"

\* Every error of a call is a ModbusClientError, so that callers can retry or report by
\* its class (modbusgw_client/README.md:60): so it is whatever becomes of the connection,
\* the gateway and the device.  But the code raises others for what does not convert
\* (ValueError, api.py:207 and 215) or pack (struct.error, tcp_client.py:69), against
\* that README, which has ProtocolError for it (line 64).  from_adu() is not guarded
\* either (tcp_client.py:81), but the gateway lets through no answer that it refuses.
ErrorsAreClientErrors ==
    at = "returned" /\ result.kind # "returned" =>
        \/ result.kind \in ClientErrors
        \/ result.kind = "ValueError" /\ (~Convertible(call) \/ Misfits(call))
        \/ result.kind = "struct.error" /\ ~Sendable(call)

=============================================================================
