--------------------------- MODULE ClientApiProofs ---------------------------
(***************************************************************************)
(* A call of the client library comes through the gateway, to a device and *)
(* back, for every call, device, unit plan, and width of the bytes: the    *)
(* codecs of Messages fit each other and the device's reading of frames.   *)
(***************************************************************************)
EXTENDS ClientApi, MessagesProofs

Ops == ReadsBits \cup ReadsWords \cup WritesWords \cup {"write_coil", "write_coils"}

-----------------------------------------------------------------------------
(* What a call asks for *)

\* The registers of a write are words, masked or made of the formatted bytes.
LEMMA RegistersTyped ==
    ASSUME NEW c \in Calls, c.op \in WritesWords
    PROVE  /\ Registers(c) \in Seq(Word) /\ Len(Registers(c)) \in Nat
           /\ c.op = "write_register" /\ c.fmt = 0 => Len(Registers(c)) = 1
<1>. DEFINE v == c.values
<1>1. CASE c.fmt = 0
  <2>1. v \in Seq(Int) /\ (c.op = "write_register" => Len(v) = 1)
    BY <1>1, ApiAssumption
  <2>2. \A x \in Int : x % (Base * Base) \in Word
    <3>1. ASSUME NEW x \in Int, NEW b \in Nat \ {0} PROVE x % b \in 0 .. b - 1
      OBVIOUS
    <3>2. Base * Base \in Nat \ {0}
      <4>1. ASSUME NEW b \in Nat \ {0} PROVE b * b \in Nat \ {0}
        OBVIOUS
      <4>. QED BY <4>1, BaseIsNat
    <3>. QED BY <3>1, <3>2 DEF Word
  <2>3. Registers(c) = [i \in 1 .. Len(v) |-> v[i] % (Base * Base)]
    <3>1. DOMAIN v = 1 .. Len(v)
      BY <2>1
    <3>. QED BY <1>1, <3>1 DEF Registers
  <2>4. Len(v) \in Nat /\ \A i \in 1 .. Len(v) : v[i] \in Int
    BY <2>1, LenProperties, ElementOfSeq
  <2>. HIDE DEF v
  <2>5. \A i \in 1 .. Len(v) : v[i] % (Base * Base) \in Word
    BY <2>2, <2>4
  <2>. QED BY <2>1, <2>3, <2>4, <2>5
<1>2. CASE c.fmt # 0
  <2>1. v \in Seq(Byte)
    BY <1>2, ApiAssumption
  <2>2. Registers(c) = UnpackWords(v)
    BY <1>2 DEF Registers
  <2>3. UnpackWords(v) \in Seq(Word)
    BY <2>1, UnpackTyped
  <2>. QED BY <1>2, <2>2, <2>3, LenProperties
<1>. QED BY <1>1, <1>2

\* Each call has one function code, and a write of one register has one to write.
LEMMA FunctionsOfCalls ==
    ASSUME NEW c \in Calls
    PROVE  LET fc == FunctionOf(c)
           IN  /\ c.op \in Ops /\ c.unit \in Nat /\ c.quantity \in Nat /\ c.fmt \in Nat
               /\ c.op \in ReadsBits => fc \in {1, 2}
               /\ c.op \in ReadsWords => fc \in {3, 4}
               /\ c.op = "write_coil" => fc = 5
               /\ c.op = "write_coils" => fc = 15 /\ c.values \in Seq(Coil)
               /\ c.op \in WritesWords =>
                     \/ fc = 6 /\ Len(Registers(c)) = 1 /\ c.op = "write_register"
                     \/ fc = 16
<1>1. /\ c.op \in Ops /\ c.unit \in Nat /\ c.quantity \in Nat /\ c.fmt \in Nat
      /\ c.op = "write_coils" => c.values \in Seq(Coil)
  BY ApiAssumption DEF Ops, Coil
<1>. QED
  BY <1>1 DEF FunctionOf, Ops, ReadsBits, ReadsWords, WritesWords

\* The word of a coil is a word, and what is meant by it is clear when it is carried out.
LEMMA CoilWordTyped ==
    /\ On \in Word /\ On # 0
    /\ \A c \in Calls : c.op = "write_coil" =>
          /\ CoilWord(c) \in Word
          /\ Meant(c) = <<IF CoilWord(c) = 0 THEN 0 ELSE 1>>
<1>1. Base \in Nat /\ Base >= 2
  <2>1. 2 ^ 1 <= 2 ^ BitsPerByte /\ 2 ^ 1 = 2 * 2 ^ 0 /\ 2 ^ 0 = 1
    <3>1. BitsPerByte \in Nat \ {0} /\ 2 ^ 0 = 1 /\ \A n \in 0 .. BitsPerByte - 1 : 2 ^ (n + 1) = 2 * 2 ^ n
      BY Powers
    <3>2. 1 \in 0 .. BitsPerByte /\ BitsPerByte \in 1 .. BitsPerByte /\ 0 \in 0 .. BitsPerByte - 1
      BY <3>1
    <3>3. 2 ^ 1 <= 2 ^ BitsPerByte
      BY <3>2, PowersGrow
    <3>4. 2 ^ (0 + 1) = 2 * 2 ^ 0
      BY <3>1, <3>2
    <3>5. 0 + 1 = 1
      OBVIOUS
    <3>. QED BY <3>1, <3>3, <3>4, <3>5
  <2>. DEFINE one == 2 ^ 1
              zero == 2 ^ 0
  <2>2. one <= Base /\ one = 2 * zero /\ zero = 1
    BY <2>1 DEF Base
  <2>. HIDE DEF one, zero
  <2>. QED BY <2>2, BaseIsNat
<1>2. ASSUME NEW b \in Nat, b >= 2
      PROVE  (b - 1) * b \in 0 .. b * b - 1 /\ (b - 1) * b # 0 /\ 0 \in 0 .. b * b - 1
  <2>1. (b - 1) * b = b * b - b
    OBVIOUS
  <2>2. b * b >= 2 * b
    <3>1. (b - 2) * b = b * b - 2 * b /\ b - 2 \in Nat
      BY <1>2
    <3>2. ASSUME NEW x \in Nat PROVE x * b \in Nat
      OBVIOUS
    <3>3. (b - 2) * b \in Nat
      BY <3>1, <3>2
    <3>4. ASSUME NEW s \in Int, s - 2 * b \in Nat PROVE s >= 2 * b
      BY <3>4
    <3>. QED BY <3>1, <3>3, <3>4
  <2>3. ASSUME NEW s \in Int, s >= 2 * b PROVE s - b \in 0 .. s - 1 /\ s - b # 0 /\ 0 \in 0 .. s - 1
    BY <1>2, <2>3
  <2>4. b * b \in Int
    OBVIOUS
  <2>. QED BY <2>1, <2>2, <2>3, <2>4
<1>3. On \in Word /\ On # 0 /\ 0 \in Word
  BY <1>1, <1>2 DEF On, Word
<1>4. ASSUME NEW c \in Calls, c.op = "write_coil"
      PROVE  CoilWord(c) \in Word /\ Meant(c) = <<IF CoilWord(c) = 0 THEN 0 ELSE 1>>
  <2>. DEFINE v == c.values
  <2>1. c.bool \in BOOLEAN /\ v \in [{1} -> IF c.bool THEN {0, 1} ELSE Int]
    BY <1>4, ApiAssumption
  <2>2. CASE c.bool
    <3>1. v \in {<<0>>, <<1>>}
      <4>1. {1} = 1 .. 1
        OBVIOUS
      <4>2. v \in [1 .. 1 -> {0, 1}] /\ v[1] \in {0, 1}
        BY <2>1, <2>2, <4>1
      <4>3. v = [i \in 1 .. 1 |-> v[1]]
        BY <4>1, <4>2
      <4>. HIDE DEF v
      <4>4. CASE v[1] = 0
        BY <4>1, <4>3, <4>4
      <4>5. CASE v[1] = 1
        BY <4>1, <4>3, <4>5
      <4>. QED BY <4>2, <4>4, <4>5
    <3>2. CoilWord(c) = IF v = <<1>> THEN On ELSE 0
      <4>1. <<0>> # <<1>>
        OBVIOUS
      <4>. QED BY <2>2, <3>1, <4>1 DEF CoilWord
    <3>3. Meant(c) = v
      BY <1>4, <2>2 DEF Meant, ReadsBits, ReadsWords
    <3>. QED BY <1>3, <3>1, <3>2, <3>3
  <2>3. CASE ~ c.bool
    <3>1. CoilWord(c) = v[1] % (Base * Base) /\ v[1] \in Int
      BY <2>1, <2>3 DEF CoilWord
    <3>2. ASSUME NEW x \in Int, NEW b \in Nat \ {0} PROVE x % b \in 0 .. b - 1
      OBVIOUS
    <3>3. Base * Base \in Nat \ {0}
      <4>1. ASSUME NEW b \in Nat \ {0} PROVE b * b \in Nat \ {0}
        OBVIOUS
      <4>. QED BY <4>1, BaseIsNat
    <3>4. CoilWord(c) \in Word
      BY <3>1, <3>2, <3>3 DEF Word
    <3>5. Meant(c) = <<IF CoilWord(c) = 0 THEN 0 ELSE 1>>
      BY <1>4, <2>3 DEF Meant, ReadsBits, ReadsWords
    <3>. QED BY <3>4, <3>5
  <2>. QED BY <2>1, <2>2, <2>3
<1>. QED BY <1>3, <1>4

LEMMA PairSeq ==
    ASSUME NEW a, NEW b
    PROVE  <<a>> \o <<b>> = <<a, b>> /\ <<a>> \o <<>> = <<a>>
<1>. DEFINE S == {a, b}
            h == <<a>>
            t == <<b>>
            s == <<a, b>>
<1>1. /\ h \in Seq(S) /\ Len(h) = 1 /\ h[1] = a
      /\ t \in Seq(S) /\ Len(t) = 1 /\ t[1] = b
      /\ s \in Seq(S) /\ Len(s) = 2 /\ s[1] = a /\ s[2] = b
  OBVIOUS
<1>. HIDE DEF S, h, t, s
<1>2. /\ h \o t \in Seq(S) /\ Len(h \o t) = 2
      /\ \A i \in 1 .. 2 : (h \o t)[i] = IF i <= 1 THEN h[i] ELSE t[i - 1]
  BY <1>1, ConcatProperties
<1>3. \A i \in 1 .. 2 : (h \o t)[i] = s[i]
  <2>1. (h \o t)[1] = h[1] /\ (h \o t)[2] = t[1]
    BY <1>2
  <2>2. \A i \in 1 .. 2 : i = 1 \/ i = 2
    OBVIOUS
  <2>. QED BY <1>1, <2>1, <2>2
<1>4. h \o t = s
  BY <1>1, <1>2, <1>3, SeqEqual
<1>5. h \o <<>> = h
  BY <1>1, ConcatEmptySeq
<1>. QED BY <1>4, <1>5 DEF h, t, s

\* Coils whose bytes a byte can count are coils that a word can count.
LEMMA WordCountsCoils ==
    ASSUME NEW c \in Seq(Coil), Len(PackCoils(c)) \in Byte
    PROVE  Len(c) \in Word
<1>. DEFINE w == BitsPerByte
            k == Len(PackCoils(c))
            Small == {n \in Nat : n <= 2 ^ n}
<1>1. /\ w \in Nat \ {0} /\ 2 ^ 0 = 1
      /\ \A n \in 0 .. w : 2 ^ n \in Nat \ {0}
      /\ \A n \in 0 .. w - 1 : 2 ^ (n + 1) = 2 * 2 ^ n
  BY Powers
<1>2. w <= Base
  <2>1. 0 \in Small
    BY <1>1
  <2>2. ASSUME NEW n \in 0 .. w - 1, n \in Small PROVE n + 1 \in Small
    <3>. DEFINE p == 2 ^ n
                q == 2 ^ (n + 1)
    <3>1. p \in Nat \ {0} /\ q = 2 * p /\ n <= p /\ n \in Nat
      BY <1>1, <2>2
    <3>. HIDE DEF p, q
    <3>2. n + 1 <= q
      BY <3>1
    <3>. QED BY <3>1, <3>2 DEF q
  <2>. HIDE DEF Small
  <2>3. 0 .. w \subseteq Small
    BY <1>1, <2>1, <2>2, InductionUpTo
  <2>4. w \in Small
    BY <1>1, <2>3
  <2>. QED BY <2>4 DEF Small, Base
<1>3. k = BytesFor(Len(c)) /\ Len(c) \in Nat
  BY PackCoilsIs, LenProperties
<1>4. Len(c) <= k * w
  BY <1>3, BytesForIs
<1>5. k \in Nat /\ k <= Base - 1 /\ Base \in Nat \ {0}
  BY BaseIsNat DEF Byte
<1>. HIDE DEF k, w
<1>6. ASSUME NEW b \in Nat \ {0}, k <= b - 1, w <= b PROVE k * w <= b * b - 1
  <2>1. k * w <= (b - 1) * w
    <3>1. ASSUME NEW x \in Nat, NEW y \in Nat, NEW z \in Nat, x <= y PROVE x * z <= y * z
      BY <3>1
    <3>. QED BY <1>1, <1>5, <1>6, <3>1
  <2>2. (b - 1) * w <= (b - 1) * b
    <3>1. ASSUME NEW x \in Nat, NEW y \in Nat, NEW z \in Nat, x <= y PROVE z * x <= z * y
      BY <3>1
    <3>. QED BY <1>1, <1>6, <3>1
  <2>3. (b - 1) * b = b * b - b
    OBVIOUS
  <2>4. /\ k * w \in Nat /\ (b - 1) * w \in Nat /\ b * b \in Nat
    BY <1>1, <1>5
  <2>. QED BY <2>1, <2>2, <2>3, <2>4
<1>7. k * w <= Base * Base - 1
  BY <1>2, <1>5, <1>6
<1>8. k * w \in Nat /\ Base * Base \in Nat
  BY <1>1, <1>5
<1>. QED BY <1>3, <1>4, <1>7, <1>8 DEF Word

\* What is built holds what can be encoded.
LEMMA BuiltIs ==
    ASSUME NEW c \in Calls, Sendable(c)
    PROVE  LET m == Built(c)
               fc == FunctionOf(c)
           IN  /\ m = [class |-> RequestClass(fc), unit |-> c.unit, fc |-> fc,
                       head |-> m.head, values |-> m.values]
               /\ fc \in {1, 2, 3, 4, 5, 6, 15, 16} /\ c.address \in Word
               /\ RequestClass(fc) \in PduClass
               /\ Content(RequestClass(fc), m.head, m.values)
               /\ c.op \in ReadsBits \cup ReadsWords => m.head = <<c.address, c.quantity>>
               /\ c.op = "write_coil" => m.head = <<c.address, CoilWord(c)>>
               /\ fc = 6 => m.head = <<c.address, Registers(c)[1]>> /\ Registers(c)[1] \in Word
               /\ fc = 15 => m.head = <<c.address>> /\ m.values = c.values
               /\ fc = 16 => m.head = <<c.address>> /\ m.values = Registers(c)
<1>. DEFINE m == Built(c)
            fc == FunctionOf(c)
<1>1. /\ c.op \in Ops
      /\ c.op \in ReadsBits => fc \in {1, 2}
      /\ c.op \in ReadsWords => fc \in {3, 4}
      /\ c.op = "write_coil" => fc = 5
      /\ c.op = "write_coils" => fc = 15 /\ c.values \in Seq(Coil)
      /\ c.op \in WritesWords => (fc = 6 /\ Len(Registers(c)) = 1) \/ fc = 16
  BY FunctionsOfCalls
<1>2. /\ c.address \in Word
      /\ c.op \in ReadsBits \cup ReadsWords => c.quantity \in Word
      /\ fc = 16 => 2 * Len(Registers(c)) \in Byte
      /\ fc = 15 => Len(PackCoils(c.values)) \in Byte
  BY DEF Sendable
<1>3. CASE c.op \in ReadsBits \cup ReadsWords
  <2>1. fc \in {1, 2, 3, 4}
    BY <1>1, <1>3
  <2>2. m = [class |-> "pair", unit |-> c.unit, fc |-> fc,
             head |-> <<c.address, c.quantity>>, values |-> <<>>]
    BY <2>1, PairSeq DEF Built, RequestClass
  <2>4. RequestClass(fc) = "pair"
    BY <2>1 DEF RequestClass
  <2>5. Content("pair", <<c.address, c.quantity>>, <<>>)
    BY <1>2, <1>3 DEF Content
  <2>6. c.op # "write_coil"
    BY <1>3 DEF ReadsBits, ReadsWords
  <2>7. "pair" \in PduClass
    BY DEF PduClass
  <2>. HIDE DEF fc, m
  <2>8. m.head = <<c.address, c.quantity>> /\ m.values = <<>>
    BY <2>2
  <2>9. m = [class |-> RequestClass(fc), unit |-> c.unit, fc |-> fc,
             head |-> m.head, values |-> m.values]
    BY <2>2, <2>4, <2>8
  <2>10. fc \notin {6, 15, 16} /\ fc \in {1, 2, 3, 4, 5, 6, 15, 16}
    BY <2>1
  <2>. QED BY <1>2, <2>4, <2>5, <2>6, <2>7, <2>8, <2>9, <2>10 DEF m, fc
<1>4. CASE c.op = "write_coil"
  <2>. DEFINE x == CoilWord(c)
  <2>1. fc = 5 /\ x \in Word
    BY <1>1, <1>4, CoilWordTyped
  <2>2. m = [class |-> "pair", unit |-> c.unit, fc |-> fc,
             head |-> <<c.address, x>>, values |-> <<>>]
    BY <2>1, PairSeq DEF Built, RequestClass
  <2>3. RequestClass(fc) = "pair" /\ "pair" \in PduClass
    BY <2>1 DEF RequestClass, PduClass
  <2>4. c.op \notin ReadsBits \cup ReadsWords
    BY <1>4 DEF ReadsBits, ReadsWords
  <2>. HIDE DEF fc, m, x
  <2>5. Content("pair", <<c.address, x>>, <<>>)
    BY <1>2, <2>1 DEF Content
  <2>6. m.head = <<c.address, x>> /\ m.values = <<>>
    BY <2>2
  <2>7. m = [class |-> RequestClass(fc), unit |-> c.unit, fc |-> fc,
             head |-> m.head, values |-> m.values]
    BY <2>2, <2>3, <2>6
  <2>8. fc \notin {6, 15, 16} /\ fc \in {1, 2, 3, 4, 5, 6, 15, 16}
    BY <2>1
  <2>. QED BY <1>2, <2>3, <2>4, <2>5, <2>6, <2>7, <2>8 DEF m, fc, x
<1>5. CASE fc = 6 /\ c.op \in WritesWords
  <2>. DEFINE x == Registers(c)[1]
  <2>1. x \in Word
    <3>1. Registers(c) \in Seq(Word) /\ Len(Registers(c)) = 1
      BY <1>1, <1>5, RegistersTyped
    <3>. QED BY <3>1, SingletonSeq
  <2>2. m = [class |-> "pair", unit |-> c.unit, fc |-> fc,
             head |-> <<c.address, x>>, values |-> <<>>]
    BY <1>5, PairSeq DEF Built, RequestClass
  <2>3. RequestClass(fc) = "pair" /\ "pair" \in PduClass
    BY <1>5 DEF RequestClass, PduClass
  <2>4. c.op \notin ReadsBits \cup ReadsWords /\ c.op # "write_coil"
    BY <1>5 DEF ReadsBits, ReadsWords, WritesWords
  <2>5. fc = 6
    BY <1>5
  <2>. HIDE DEF fc, m, x
  <2>6. Content("pair", <<c.address, x>>, <<>>)
    BY <1>2, <2>1 DEF Content
  <2>7. m.head = <<c.address, x>> /\ m.values = <<>>
    BY <2>2
  <2>8. m = [class |-> RequestClass(fc), unit |-> c.unit, fc |-> fc,
             head |-> m.head, values |-> m.values]
    BY <2>2, <2>3, <2>7
  <2>. QED BY <1>2, <2>1, <2>3, <2>4, <2>5, <2>6, <2>7, <2>8 DEF m, fc, x
<1>6. CASE c.op = "write_coils"
  <2>1. fc = 15 /\ c.values \in Seq(Coil) /\ Len(c.values) \in Word
    BY <1>1, <1>2, <1>6, WordCountsCoils
  <2>2. m = [class |-> "coils", unit |-> c.unit, fc |-> fc,
             head |-> <<c.address>>, values |-> c.values]
    BY <2>1, PairSeq DEF Built, RequestClass
  <2>3. RequestClass(fc) = "coils" /\ "coils" \in PduClass
    BY <2>1 DEF RequestClass, PduClass
  <2>4. c.op \notin ReadsBits \cup ReadsWords /\ c.op # "write_coil"
    BY <1>6 DEF ReadsBits, ReadsWords
  <2>. HIDE DEF fc, m
  <2>5. Content("coils", <<c.address>>, c.values)
    BY <1>2, <2>1 DEF Content
  <2>6. m.head = <<c.address>> /\ m.values = c.values
    BY <2>2
  <2>7. m = [class |-> RequestClass(fc), unit |-> c.unit, fc |-> fc,
             head |-> m.head, values |-> m.values]
    BY <2>2, <2>3, <2>6
  <2>. QED BY <1>2, <2>1, <2>3, <2>4, <2>5, <2>6, <2>7 DEF m, fc
<1>7. CASE fc = 16 /\ c.op \in WritesWords
  <2>. DEFINE v == Registers(c)
  <2>1. fc = 16 /\ v \in Seq(Word) /\ 2 * Len(v) \in Byte
    BY <1>2, <1>7, RegistersTyped
  <2>2. m = [class |-> "registers", unit |-> c.unit, fc |-> fc,
             head |-> <<c.address>>, values |-> v]
    BY <2>1, PairSeq DEF Built, RequestClass
  <2>3. RequestClass(fc) = "registers" /\ "registers" \in PduClass
    BY <2>1 DEF RequestClass, PduClass
  <2>4. c.op \notin ReadsBits \cup ReadsWords /\ c.op # "write_coil"
    BY <1>7 DEF ReadsBits, ReadsWords, WritesWords
  <2>. HIDE DEF fc, m, v
  <2>5. Content("registers", <<c.address>>, v)
    BY <1>2, <2>1 DEF Content
  <2>6. m.head = <<c.address>> /\ m.values = v
    BY <2>2
  <2>7. m = [class |-> RequestClass(fc), unit |-> c.unit, fc |-> fc,
             head |-> m.head, values |-> m.values]
    BY <2>2, <2>3, <2>6
  <2>. QED BY <1>2, <2>1, <2>3, <2>4, <2>5, <2>6, <2>7 DEF m, fc, v
<1>. HIDE DEF m, fc
<1>. QED BY <1>1, <1>3, <1>4, <1>5, <1>6, <1>7 DEF Ops, m, fc

-----------------------------------------------------------------------------
(* What a device reads *)

\* A unit id, a function code and a payload that can be read make a frame that is
\* decoded into what the payload holds.
LEMMA DecodedAs ==
    ASSUME NEW side \in {"request", "answer"}, NEW unit \in Nat, NEW fc \in Nat,
           NEW p \in Seq(Byte), Readable(Class(side, fc), p)
    PROVE  LET adu == <<unit, fc>> \o p
               class == Class(side, fc)
           IN  /\ IsAdu(adu) /\ Framed(unit, fc, p, adu) /\ Decodable(side, adu)
               /\ Decode(side, adu) =
                     [class |-> class, unit |-> unit,
                      fc |-> IF class = "exception" THEN fc - 128 ELSE fc,
                      head |-> Header(class, p), values |-> Values(class, p)]
<1>. DEFINE adu == <<unit, fc>> \o p
<1>1. Framed(unit, fc, p, adu)
  BY FrameParts
<1>2. adu \in Seq(Nat)
  <2>. DEFINE u == <<unit, fc>>
  <2>1. u \in Seq(Nat)
    OBVIOUS
  <2>2. p \in Seq(Nat)
    BY BaseIsNat, SeqMonotonic
  <2>3. adu = u \o p
    OBVIOUS
  <2>. HIDE DEF u, adu
  <2>. QED BY <2>1, <2>2, <2>3, ConcatProperties
<1>. HIDE DEF adu
<1>3. /\ Len(adu) >= 2 /\ adu[1] = unit /\ adu[2] = fc
      /\ \A i \in 3 .. Len(adu) : adu[i] \in Byte
      /\ SubSeq(adu, 3, Len(adu)) = p
  BY <1>1 DEF Framed
<1>4. IsAdu(adu)
  BY <1>2, <1>3 DEF IsAdu
<1>5. Decodable(side, adu)
  BY <1>3 DEF Decodable
<1>6. Decode(side, adu) = [class |-> Class(side, fc), unit |-> unit,
                           fc |-> IF Class(side, fc) = "exception" THEN fc - 128 ELSE fc,
                           head |-> Header(Class(side, fc), p),
                           values |-> Values(Class(side, fc), p)]
  BY <1>3 DEF Decode
<1>. QED BY <1>1, <1>4, <1>5, <1>6 DEF adu

\* The request of a call is decoded into the message that was built, and written again
\* with the same payload behind any unit id.
LEMMA RequestOfCall ==
    ASSUME NEW c \in Calls, Sendable(c)
    PROVE  LET m == Built(c)
               fc == FunctionOf(c)
               p == Encode(m)
           IN  /\ p \in Seq(Byte) /\ Shape(RequestClass(fc), p)
               /\ Header(RequestClass(fc), p) = m.head /\ Values(RequestClass(fc), p) = m.values
               /\ IsAdu(SentAdu(c)) /\ Decodable("request", SentAdu(c))
               /\ Decode("request", SentAdu(c)) = m
               /\ \A unit : ToAdu([m EXCEPT !.unit = unit]) = <<unit, fc>> \o p
<1>. DEFINE m == Built(c)
            fc == FunctionOf(c)
            class == RequestClass(fc)
            p == Encode(m)
<1>1. /\ m = [class |-> class, unit |-> c.unit, fc |-> fc, head |-> m.head, values |-> m.values]
      /\ fc \in {1, 2, 3, 4, 5, 6, 15, 16} /\ class \in PduClass
      /\ Content(class, m.head, m.values)
  BY BuiltIs
<1>2. class # "exception" /\ c.unit \in Nat /\ fc \in Nat
  BY <1>1, FunctionsOfCalls DEF RequestClass
<1>3. SentAdu(c) = ToAdu(m)
  BY DEF SentAdu
<1>4. class = Class("request", fc)
  BY DEF Class
<1>. HIDE DEF m, fc, class
<1>5. m.class = class /\ m.unit = c.unit /\ m.fc = fc
  BY <1>1
<1>6. /\ p \in Seq(Byte) /\ Shape(class, p) /\ Readable(class, p)
      /\ Header(class, p) = m.head /\ Values(class, p) = m.values
  BY <1>1, <1>5, EncodeThenDecode
<1>7. ASSUME NEW unit PROVE ToAdu([m EXCEPT !.unit = unit]) = <<unit, fc>> \o p
  <2>. DEFINE n == [m EXCEPT !.unit = unit]
  <2>1. /\ n.class = m.class /\ n.head = m.head /\ n.values = m.values
        /\ n.fc = m.fc /\ n.unit = unit
    BY <1>1
  <2>. HIDE DEF n
  <2>2. Encode(n) = p
    BY <2>1 DEF Encode
  <2>3. FunctionCode(n) = fc
    BY <1>2, <1>5, <2>1 DEF FunctionCode
  <2>. QED BY <2>1, <2>2, <2>3 DEF ToAdu, n
<1>8. [m EXCEPT !.unit = c.unit] = m
  BY <1>1
<1>9. SentAdu(c) = <<c.unit, fc>> \o p
  BY <1>3, <1>7, <1>8
<1>. HIDE DEF p
<1>10. /\ IsAdu(SentAdu(c)) /\ Decodable("request", SentAdu(c))
       /\ Decode("request", SentAdu(c)) =
             [class |-> class, unit |-> c.unit, fc |-> fc, head |-> m.head, values |-> m.values]
  <2>1. Readable(Class("request", fc), p)
    BY <1>4, <1>6
  <2>. QED BY <1>2, <1>4, <1>6, <1>9, <2>1, DecodedAs
<1>. QED BY <1>1, <1>6, <1>7, <1>10 DEF m, fc, class, p

\* A device's bits and words are those of the library.
LEMMA BitsOfIs ==
    ASSUME NEW d \in Seq(Byte), NEW n \in Nat, n <= Len(d) * BitsPerByte
    PROVE  BitsOf(d, n) = UnpackCoils(d, n) /\ BitsOf(d, n) \in Seq(Coil) /\ Len(BitsOf(d, n)) = n
<1>. DEFINE u == UnpackCoils(d, n)
<1>1. /\ u \in Seq(Coil) /\ Len(u) = n
      /\ \A i \in 1 .. n : u[i] = BitAt(d[ByteOf(i)], BitOf(i))
  BY UnpackCoilsIs
<1>2. \A i \in 1 .. n : /\ ByteOf(i) = 1 + (i - 1) \div BitsPerByte
                        /\ BitOf(i) = (i - 1) % BitsPerByte
  BY Powers DEF ByteOf, BitOf
<1>3. BitsOf(d, n) = [i \in 1 .. n |-> BitAt(d[ByteOf(i)], BitOf(i))]
  BY <1>2 DEF BitsOf, BitAt
<1>4. u = [i \in 1 .. n |-> u[i]]
  BY <1>1
<1>. HIDE DEF u
<1>5. BitsOf(d, n) = u
  BY <1>1, <1>3, <1>4
<1>. QED BY <1>1, <1>5 DEF u

LEMMA WordsOfIs ==
    ASSUME NEW d
    PROVE  WordsOf(d) = UnpackWords(d)
BY DEF WordsOf, UnpackWords

\* The rest of a payload is the slice that the byte count names.
LEMMA RestIsSlice ==
    ASSUME NEW p \in Seq(Byte), Len(p) >= 5, p[5] = Len(p) - 5
    PROVE  SubSeq(p, 6, Len(p)) = Slice(p, 6, p[5])
<1>1. Len(p) \in Nat
  BY LenProperties
<1>. DEFINE l == Len(p)
<1>2. 6 + p[5] - 1 = l
  BY <1>1
<1>3. Min({l, l}) = l
  BY <1>1 DEF Min
<1>. QED BY <1>2, <1>3 DEF Slice

\* The words of a header, as a device finds them.
LEMMA HeaderWords ==
    ASSUME NEW p \in Seq(Byte)
    PROVE  /\ Len(p) = 4 => /\ WordAt(p, 1) = UnpackWords(SubSeq(p, 1, 4))[1]
                            /\ WordAt(p, 3) = UnpackWords(SubSeq(p, 1, 4))[2]
                            /\ WordAt(p, 3) \in Word
           /\ Len(p) >= 5 => /\ WordAt(p, 1) = UnpackWords(SubSeq(p, 1, 2))[1]
                             /\ WordAt(p, 3) = UnpackWords(p)[2]
                             /\ WordAt(p, 3) \in Word
<1>1. Len(p) \in Nat
  BY LenProperties
<1>2. ASSUME Len(p) = 4
      PROVE  /\ WordAt(p, 1) = UnpackWords(SubSeq(p, 1, 4))[1]
             /\ WordAt(p, 3) = UnpackWords(SubSeq(p, 1, 4))[2]
             /\ WordAt(p, 3) \in Word
  <2>. DEFINE u == UnpackWords(SubSeq(p, 1, 4))
  <2>1. 2 * 2 = 4 /\ 2 * 2 <= Len(p)
    BY <1>2
  <2>2. /\ UnpackWords(SubSeq(p, 1, 2 * 2)) \in Seq(Word)
        /\ Len(UnpackWords(SubSeq(p, 1, 2 * 2))) = 2
        /\ \A i \in 1 .. 2 : UnpackWords(SubSeq(p, 1, 2 * 2))[i] = p[2 * i - 1] * Base + p[2 * i]
    BY <2>1, FirstWords
  <2>3. u \in Seq(Word) /\ Len(u) = 2 /\ \A i \in 1 .. 2 : u[i] = p[2 * i - 1] * Base + p[2 * i]
    BY <2>1, <2>2
  <2>. HIDE DEF u
  <2>4. u[1] = p[2 * 1 - 1] * Base + p[2 * 1] /\ u[2] = p[2 * 2 - 1] * Base + p[2 * 2]
    BY <2>3
  <2>5. 2 * 1 - 1 = 1 /\ 2 * 1 = 1 + 1 /\ 2 * 2 - 1 = 3 /\ 2 * 2 = 3 + 1
    OBVIOUS
  <2>6. u[1] = WordAt(p, 1) /\ u[2] = WordAt(p, 3)
    BY <2>4, <2>5 DEF WordAt
  <2>7. u[2] \in Word
    <3>1. 2 \in 1 .. Len(u)
      BY <2>3
    <3>. QED BY <2>3, <3>1, ElementOfSeq
  <2>. QED BY <2>6, <2>7 DEF u
<1>3. ASSUME Len(p) >= 5
      PROVE  /\ WordAt(p, 1) = UnpackWords(SubSeq(p, 1, 2))[1]
             /\ WordAt(p, 3) = UnpackWords(p)[2]
             /\ WordAt(p, 3) \in Word
  <2>1. 2 * 1 = 2 /\ 2 * 1 <= Len(p)
    BY <1>3, <1>1
  <2>2. \A i \in 1 .. 1 : UnpackWords(SubSeq(p, 1, 2 * 1))[i] = p[2 * i - 1] * Base + p[2 * i]
    BY <2>1, FirstWords
  <2>3. UnpackWords(SubSeq(p, 1, 2 * 1))[1] = p[2 * 1 - 1] * Base + p[2 * 1]
    BY <2>2
  <2>4. 2 * 1 - 1 = 1 /\ 2 * 1 = 1 + 1
    OBVIOUS
  <2>5. UnpackWords(SubSeq(p, 1, 2))[1] = WordAt(p, 1)
    BY <2>1, <2>3, <2>4 DEF WordAt
  <2>6. UnpackWords(p)[2] = WordAt(p, 3) /\ UnpackWords(p)[2] \in Word
    BY <1>3, BlockDecode
  <2>. QED BY <2>5, <2>6
<1>. QED BY <1>2, <1>3

\* A device that reads the request of a call understands what was meant.
LEMMA DeviceReads ==
    ASSUME NEW c \in Calls, Sendable(c)
    PROVE  LET p == Encode(Built(c))
               fc == FunctionOf(c)
               number == WordAt(p, 3)
           IN  /\ WordAt(p, 1) = c.address /\ number \in Word
               /\ fc \in 1 .. 6 => Len(p) = 4
               /\ fc \in {1, 2, 3, 4, 6} => Meant(c) = <<number>>
               /\ fc \in 1 .. 4 => number = c.quantity
               /\ fc = 5 => Meant(c) = <<IF number = 0 THEN 0 ELSE 1>>
               /\ fc = 15 => BitsOf(SubSeq(p, 6, Len(p)), number) = Meant(c)
               /\ fc = 16 => WordsOf(SubSeq(p, 6, Len(p))) = Meant(c)
<1>. DEFINE m == Built(c)
            p == Encode(m)
            fc == FunctionOf(c)
            class == RequestClass(fc)
            number == WordAt(p, 3)
<1>1. /\ fc \in {1, 2, 3, 4, 5, 6, 15, 16}
      /\ c.op \in ReadsBits \cup ReadsWords => m.head = <<c.address, c.quantity>>
      /\ c.op = "write_coil" => m.head = <<c.address, CoilWord(c)>>
      /\ fc = 6 => m.head = <<c.address, Registers(c)[1]>>
      /\ fc = 15 => m.head = <<c.address>> /\ m.values = c.values
      /\ fc = 16 => m.head = <<c.address>> /\ m.values = Registers(c)
  BY BuiltIs
<1>2. /\ p \in Seq(Byte) /\ Shape(class, p)
      /\ Header(class, p) = m.head /\ Values(class, p) = m.values
  BY RequestOfCall
<1>3. /\ c.op \in Ops
      /\ c.op \in ReadsBits => fc \in {1, 2}
      /\ c.op \in ReadsWords => fc \in {3, 4}
      /\ c.op = "write_coil" => fc = 5
      /\ c.op = "write_coils" => fc = 15 /\ c.values \in Seq(Coil)
      /\ c.op \in WritesWords => (fc = 6 /\ Len(Registers(c)) = 1) \/ fc = 16
  BY FunctionsOfCalls
<1>. HIDE DEF m, p
<1>4. CASE fc \in 1 .. 6
  <2>1. class = "pair"
    BY <1>4 DEF RequestClass
  <2>2. Len(p) = 4 /\ UnpackWords(SubSeq(p, 1, 4)) = m.head
    BY <1>2, <2>1 DEF Shape, Header
  <2>3. WordAt(p, 1) = m.head[1] /\ number = m.head[2] /\ number \in Word
    BY <1>2, <2>2, HeaderWords
  <2>. HIDE DEF fc
  <2>4. CASE c.op \in ReadsBits \cup ReadsWords
    <3>1. m.head[1] = c.address /\ m.head[2] = c.quantity
      BY <1>1, <2>4
    <3>2. Meant(c) = <<c.quantity>>
      BY <2>4 DEF Meant, ReadsBits, ReadsWords
    <3>3. fc # 5
      BY <1>3, <2>4
    <3>. QED BY <1>4, <2>2, <2>3, <3>1, <3>2, <3>3 DEF p, m, fc
  <2>5. CASE c.op = "write_coil"
    <3>1. m.head[1] = c.address /\ m.head[2] = CoilWord(c)
      BY <1>1, <2>5
    <3>2. Meant(c) = <<IF CoilWord(c) = 0 THEN 0 ELSE 1>>
      BY <2>5, CoilWordTyped
    <3>3. fc = 5
      BY <1>3, <2>5
    <3>. QED BY <2>2, <2>3, <3>1, <3>2, <3>3 DEF p, m, fc
  <2>6. CASE c.op \in WritesWords
    <3>1. fc = 6 /\ Len(Registers(c)) = 1
      BY <1>3, <1>4, <2>6
    <3>2. m.head[1] = c.address /\ m.head[2] = Registers(c)[1]
      BY <1>1, <3>1
    <3>3. Registers(c) \in Seq(Word)
      BY <2>6, RegistersTyped
    <3>4. <<Registers(c)[1]>> = Registers(c)
      BY <3>1, <3>3, SingletonSeq
    <3>5. Meant(c) = Registers(c)
      BY <2>6 DEF Meant, ReadsBits, ReadsWords, WritesWords
    <3>. QED BY <2>2, <2>3, <3>1, <3>2, <3>4, <3>5 DEF p, m, fc
  <2>7. c.op # "write_coils"
    BY <1>3, <1>4
  <2>. QED BY <1>3, <2>4, <2>5, <2>6, <2>7 DEF Ops
<1>5. CASE fc = 15
  <2>1. class = "coils"
    BY <1>5 DEF RequestClass
  <2>2. /\ Len(p) >= 5 /\ p[5] = Len(p) - 5
        /\ number \in (p[5] - 1) * BitsPerByte + 1 .. p[5] * BitsPerByte
        /\ UnpackWords(SubSeq(p, 1, 2)) = m.head
        /\ UnpackCoils(Slice(p, 6, p[5]), UnpackWords(p)[2]) = c.values
    BY <1>1, <1>2, <1>5, <2>1 DEF Shape, Header, Values
  <2>3. WordAt(p, 1) = m.head[1] /\ number = UnpackWords(p)[2] /\ number \in Word
    BY <1>2, <2>2, HeaderWords
  <2>4. m.head[1] = c.address
    BY <1>1, <1>5
  <2>. DEFINE d == SubSeq(p, 6, Len(p))
  <2>5. d = Slice(p, 6, p[5])
    BY <1>2, <2>2, RestIsSlice
  <2>6. d \in Seq(Byte) /\ Len(d) = p[5]
    <3>1. Slice(p, 6, p[5]) \in Seq(Byte) /\ Len(Slice(p, 6, p[5])) = p[5]
      BY <1>2, <2>2, BlockDecode
    <3>. QED BY <2>5, <3>1
  <2>7. c.op = "write_coils"
    BY <1>3, <1>5 DEF Ops
  <2>8. Meant(c) = c.values
    BY <2>7 DEF Meant, ReadsBits, ReadsWords
  <2>. HIDE DEF fc, d, number
  <2>9. BitsOf(d, number) = UnpackCoils(d, number)
    <3>1. number \in Nat /\ number <= Len(d) * BitsPerByte
      BY <2>2, <2>3, <2>6, BaseIsNat, Powers
    <3>. QED BY <2>6, <3>1, BitsOfIs
  <2>10. fc \notin 1 .. 6 /\ fc # 5 /\ fc # 16 /\ fc \notin 1 .. 4 /\ fc \notin {1, 2, 3, 4, 6}
    BY <1>5
  <2>. QED BY <1>5, <2>2, <2>3, <2>4, <2>5, <2>8, <2>9, <2>10 DEF p, m, fc, d, number
<1>6. CASE fc = 16
  <2>1. class = "registers"
    BY <1>6 DEF RequestClass
  <2>2. /\ Len(p) >= 5 /\ p[5] = Len(p) - 5 /\ p[5] = 2 * number
        /\ UnpackWords(SubSeq(p, 1, 2)) = m.head
        /\ UnpackWords(Slice(p, 6, 2 * UnpackWords(p)[2])) = Registers(c)
    BY <1>1, <1>2, <1>6, <2>1 DEF Shape, Header, Values
  <2>3. WordAt(p, 1) = m.head[1] /\ number = UnpackWords(p)[2] /\ number \in Word
    BY <1>2, <2>2, HeaderWords
  <2>4. m.head[1] = c.address
    BY <1>1, <1>6
  <2>5. SubSeq(p, 6, Len(p)) = Slice(p, 6, p[5])
    BY <1>2, <2>2, RestIsSlice
  <2>6. WordsOf(SubSeq(p, 6, Len(p))) = Registers(c)
    BY <2>2, <2>3, <2>5, WordsOfIs
  <2>7. c.op \in WritesWords
    BY <1>3, <1>6 DEF Ops
  <2>8. Meant(c) = Registers(c)
    BY <2>7 DEF Meant, ReadsBits, ReadsWords, WritesWords
  <2>. HIDE DEF fc, number
  <2>9. fc \notin 1 .. 6 /\ fc # 5 /\ fc # 15 /\ fc \notin 1 .. 4
    BY <1>6
  <2>. QED BY <1>6, <2>3, <2>4, <2>6, <2>8, <2>9 DEF p, m, fc, number
<1>. HIDE DEF fc
<1>7. fc \in 1 .. 6 \/ fc = 15 \/ fc = 16
  BY <1>1
<1>. QED BY <1>4, <1>5, <1>6, <1>7 DEF m, p, fc

-----------------------------------------------------------------------------
(* What a device answers *)

LEMMA TripleSeq ==
    ASSUME NEW a, NEW b, NEW c
    PROVE  <<a, b>> \o <<c>> = <<a, b, c>>
<1>. DEFINE S == {a, b, c}
            h == <<a, b>>
            t == <<c>>
            s == <<a, b, c>>
<1>1. /\ h \in Seq(S) /\ Len(h) = 2 /\ h[1] = a /\ h[2] = b
      /\ t \in Seq(S) /\ Len(t) = 1 /\ t[1] = c
      /\ s \in Seq(S) /\ Len(s) = 3 /\ s[1] = a /\ s[2] = b /\ s[3] = c
  OBVIOUS
<1>. HIDE DEF S, h, t, s
<1>2. /\ h \o t \in Seq(S) /\ Len(h \o t) = 3
      /\ \A i \in 1 .. 3 : (h \o t)[i] = IF i <= 2 THEN h[i] ELSE t[i - 2]
  <2>1. /\ h \o t \in Seq(S) /\ Len(h \o t) = Len(h) + Len(t)
        /\ \A i \in 1 .. Len(h) + Len(t) :
              (h \o t)[i] = IF i <= Len(h) THEN h[i] ELSE t[i - Len(h)]
    BY <1>1, ConcatProperties
  <2>2. Len(h) + Len(t) = 3
    BY <1>1
  <2>. QED BY <1>1, <2>1, <2>2
<1>3. \A i \in 1 .. 3 : (h \o t)[i] = s[i]
  <2>1. (h \o t)[1] = h[1] /\ (h \o t)[2] = h[2] /\ (h \o t)[3] = t[1]
    BY <1>2
  <2>2. \A i \in 1 .. 3 : i = 1 \/ i = 2 \/ i = 3
    OBVIOUS
  <2>. QED BY <1>1, <2>1, <2>2
<1>. QED BY <1>1, <1>2, <1>3, SeqEqual DEF h, t, s

\* Data behind its length, as the library finds it.
LEMMA CountedAnswer ==
    ASSUME NEW unit \in Nat, NEW fc \in {1, 2, 3, 4},
           NEW data \in Seq(Byte), Len(data) \in Byte, fc \in {3, 4} => Len(data) % 2 = 0
    PROVE  LET adu == <<unit, fc, Len(data)>> \o data
               m == Decode("answer", adu)
           IN  /\ IsAdu(adu) /\ Decodable("answer", adu) /\ m.fc = fc
               /\ fc \in {1, 2} => m.class = "bytes" /\ m.values = data
               /\ fc \in {3, 4} => m.class = "words" /\ m.values = UnpackWords(data)
<1>. DEFINE n == Len(data)
            p == <<n>> \o data
            adu == <<unit, fc, n>> \o data
            class == Class("answer", fc)
<1>1. /\ p \in Seq(Byte) /\ p # <<>> /\ p[1] = n /\ Slice(p, 2, n) = data
  BY CountedEncode
<1>2. adu = <<unit, fc>> \o p
  <2>. DEFINE S == Byte \cup {unit, fc}
              u == <<unit, fc>>
              h == <<n>>
  <2>1. u \in Seq(S) /\ h \in Seq(S)
    OBVIOUS
  <2>2. data \in Seq(S)
    BY SeqMonotonic
  <2>3. u \o h = <<unit, fc, n>>
    BY TripleSeq
  <2>. HIDE DEF u, h, S
  <2>4. (u \o h) \o data = u \o (h \o data)
    BY <2>1, <2>2, ConcatAssociative
  <2>. QED BY <2>3, <2>4 DEF u, h
<1>3. /\ fc \in Nat
      /\ fc \in {1, 2} => class = "bytes"
      /\ fc \in {3, 4} => class = "words"
      /\ class # "exception"
  BY DEF Class, ResponseClass
<1>. HIDE DEF p, class, adu
<1>4. Readable(class, p)
  BY <1>1, <1>3 DEF Readable
<1>5. /\ IsAdu(adu) /\ Decodable("answer", adu)
      /\ Decode("answer", adu) = [class |-> class, unit |-> unit,
                                  fc |-> IF class = "exception" THEN fc - 128 ELSE fc,
                                  head |-> Header(class, p), values |-> Values(class, p)]
  BY <1>1, <1>2, <1>3, <1>4, DecodedAs DEF class
<1>6. /\ class = "bytes" => Values(class, p) = data
      /\ class = "words" => Values(class, p) = UnpackWords(data)
  BY <1>1 DEF Values
<1>. QED BY <1>3, <1>5, <1>6 DEF adu

\* The echo of a write.
LEMMA EchoAnswer ==
    ASSUME NEW unit \in Nat, NEW fc \in {5, 6, 15, 16}, NEW p \in Seq(Byte), Len(p) >= 4
    PROVE  LET adu == <<unit, fc>> \o SubSeq(p, 1, 4)
               m == Decode("answer", adu)
           IN  /\ IsAdu(adu) /\ Decodable("answer", adu) /\ m.fc = fc
               /\ m.class = "pair" /\ m.head[2] = WordAt(p, 3)
<1>. DEFINE q == SubSeq(p, 1, 4)
            adu == <<unit, fc>> \o q
            class == Class("answer", fc)
<1>1. Len(p) \in Nat
  BY LenProperties
<1>2. q \in Seq(Byte) /\ Len(q) = 4 /\ q[3] = p[3] /\ q[4] = p[4]
  <2>1. /\ SubSeq(p, 1, 2 * 2) \in Seq(Byte) /\ Len(SubSeq(p, 1, 2 * 2)) = 2 * 2
    <3>1. 2 * 2 <= Len(p)
      BY <1>1
    <3>. QED BY <3>1, FirstWords
  <2>2. \A i \in 1 .. 4 : SubSeq(p, 1, 4)[i] = p[i]
    <3>1. \A i \in 1 .. 4 : SubSeq(p, 1, 4)[i] = p[1 + i - 1]
      BY <1>1
    <3>2. \A i \in 1 .. 4 : 1 + i - 1 = i
      OBVIOUS
    <3>. QED BY <3>1, <3>2
  <2>3. 2 * 2 = 4
    OBVIOUS
  <2>. QED BY <2>1, <2>2, <2>3
<1>3. class = "pair" /\ fc \in Nat
  BY DEF Class, ResponseClass
<1>. HIDE DEF class, q
<1>4. Readable(class, q)
  BY <1>2, <1>3 DEF Readable
<1>5. UnpackWords(SubSeq(q, 1, 4))[2] = WordAt(p, 3)
  <2>1. WordAt(q, 3) = WordAt(p, 3)
    BY <1>2 DEF WordAt
  <2>. QED BY <1>2, <2>1, HeaderWords
<1>6. /\ IsAdu(adu) /\ Decodable("answer", adu)
      /\ Decode("answer", adu) = [class |-> class, unit |-> unit,
                                  fc |-> IF class = "exception" THEN fc - 128 ELSE fc,
                                  head |-> Header(class, q), values |-> Values(class, q)]
  BY <1>2, <1>3, <1>4, DecodedAs DEF class
<1>7. Header(class, q) = UnpackWords(SubSeq(q, 1, 4))
  BY <1>3 DEF Header
<1>. HIDE DEF adu
<1>. QED BY <1>3, <1>5, <1>6, <1>7 DEF adu, q

\* A refusal.
LEMMA ExceptionAnswer ==
    ASSUME NEW unit \in Nat, NEW fc \in Nat
    PROVE  LET adu == <<unit, fc + 128, 2>>
               m == Decode("answer", adu)
           IN  /\ IsAdu(adu) /\ Decodable("answer", adu)
               /\ m.class = "exception" /\ m.values = <<2>>
<1>. DEFINE p == <<2>>
            class == Class("answer", fc + 128)
            adu == <<unit, fc + 128>> \o p
<1>1. p \in Seq(Byte) /\ p # <<>> /\ p[1] = 2
  BY ApiAssumption
<1>2. class = "exception" /\ fc + 128 \in Nat
  BY DEF Class, ResponseClass
<1>3. adu = <<unit, fc + 128, 2>>
  BY TripleSeq
<1>. HIDE DEF p, class
<1>4. Readable(class, p)
  BY <1>1, <1>2 DEF Readable
<1>5. /\ IsAdu(adu) /\ Decodable("answer", adu)
      /\ Decode("answer", adu) = [class |-> class, unit |-> unit,
                                  fc |-> IF class = "exception" THEN fc + 128 - 128 ELSE fc + 128,
                                  head |-> Header(class, p), values |-> Values(class, p)]
  BY <1>1, <1>2, <1>4, DecodedAs DEF class
<1>6. Values(class, p) = <<2>>
  BY <1>1, <1>2 DEF Values
<1>. HIDE DEF adu
<1>. QED BY <1>2, <1>3, <1>5, <1>6

\* Coils that a device gives are returned, and no more than were asked for.
LEMMA BitsReturned ==
    ASSUME NEW number \in Nat, NEW data \in BitData(number)
    PROVE  /\ data \in Seq(Byte)
           /\ Slice(UnpackCoils(data, Len(data) * BitsPerByte), 1, number) = BitsOf(data, number)
<1>. DEFINE size == BytesFor(number)
            all == size * BitsPerByte
            u == UnpackCoils(data, all)
            b == BitsOf(data, number)
<1>1. size \in Nat /\ number <= all /\ all \in Nat
  <2>1. size \in Nat /\ number \in (size - 1) * BitsPerByte + 1 .. size * BitsPerByte
    BY BytesForIs
  <2>2. BitsPerByte \in Nat
    BY Powers
  <2>. HIDE DEF size
  <2>3. all \in Nat
    BY <2>1, <2>2
  <2>. QED BY <2>1, <2>3
<1>2. data \in [1 .. size -> Byte]
  BY DEF BitData, BytesFor
<1>. HIDE DEF size
<1>3. data \in Seq(Byte) /\ Len(data) = size
  BY <1>1, <1>2
<1>4. /\ u \in Seq(Coil) /\ Len(u) = all
      /\ \A i \in 1 .. all : u[i] = BitAt(data[ByteOf(i)], BitOf(i))
  BY <1>1, <1>3, UnpackCoilsIs
<1>5. /\ b \in Seq(Coil) /\ Len(b) = number
      /\ \A i \in 1 .. number : b[i] = BitAt(data[ByteOf(i)], BitOf(i))
  <2>1. b = UnpackCoils(data, number) /\ b \in Seq(Coil) /\ Len(b) = number
    BY <1>1, <1>3, BitsOfIs
  <2>2. \A i \in 1 .. number :
           UnpackCoils(data, number)[i] = BitAt(data[ByteOf(i)], BitOf(i))
    BY <1>1, <1>3, UnpackCoilsIs
  <2>. QED BY <2>1, <2>2
<1>. HIDE DEF u, b, all
<1>. DEFINE s == Slice(u, 1, number)
<1>6. /\ s \in Seq(Coil) /\ Len(s) = number
      /\ \A i \in 1 .. number : s[i] = u[1 + i - 1]
  <2>1. 1 \in 1 .. Len(u) + 1 /\ 1 + number - 1 <= Len(u)
    BY <1>1, <1>4
  <2>. QED BY <2>1, <1>4, SliceIs
<1>. HIDE DEF s
<1>7. \A i \in 1 .. number : s[i] = b[i]
  <2>1. ASSUME NEW i \in 1 .. number PROVE i \in 1 .. all /\ 1 + i - 1 = i
    BY <1>1
  <2>. QED BY <1>4, <1>5, <1>6, <2>1
<1>8. s = b
  BY <1>5, <1>6, <1>7, SeqEqual
<1>. QED BY <1>3, <1>8 DEF s, b, u, all

\* Registers that a device gives.
LEMMA WordsReturned ==
    ASSUME NEW number \in Nat, NEW data \in WordData(number)
    PROVE  /\ data \in Seq(Byte) /\ Len(data) = 2 * number /\ Len(data) % 2 = 0
           /\ WordsOf(data) = UnpackWords(data)
           /\ WordsOf(data) \in Seq(Word) /\ Len(WordsOf(data)) = number
<1>1. PICK w \in [1 .. number -> Given] :
         data = [i \in 1 .. 2 * number |->
                    LET word == w[(i + 1) \div 2]
                    IN  IF i % 2 = 0 THEN word % Base ELSE word \div Base]
  BY DEF WordData
<1>2. w \in Seq(Word) /\ Len(w) = number
  BY ApiAssumption
<1>3. data = PackWords(w)
  <2>1. \A i \in 1 .. 2 * number : i % 2 = 0 <=> ~ (i % 2 = 1)
    OBVIOUS
  <2>2. PackWords(w) = [i \in 1 .. 2 * number |->
                           LET word == w[(i + 1) \div 2]
                           IN  IF i % 2 = 1 THEN word \div Base ELSE word % Base]
    BY <1>2 DEF PackWords
  <2>. QED BY <1>1, <2>1, <2>2
<1>4. data \in Seq(Byte) /\ Len(data) = 2 * number
  BY <1>2, <1>3, PackTyped
<1>5. WordsOf(data) = UnpackWords(data) /\ UnpackWords(data) = w
  BY <1>2, <1>3, UnpackPack, WordsOfIs
<1>6. (2 * number) % 2 = 0
  OBVIOUS
<1>. QED BY <1>2, <1>4, <1>5, <1>6

-----------------------------------------------------------------------------
(* What a call returns *)

\* What the device has done with a call: nothing yet, what was meant, or what the caller
\* will be told of.
Understood(c, d) ==
    /\ d.kind \in {"none", "returned", "ModbusServerError", "stray"}
    /\ d.kind = "returned" =>
          d.fc = FunctionOf(c) /\ d.address = c.address /\ d.data = Meant(c)

\* The answer as it is decoded holds what the device has given.
Heard(c, d, m) ==
    /\ d.kind = "returned" =>
          /\ m.fc = d.fc
          /\ c.op \in ReadsBits =>
                /\ m.class = "bytes"
                /\ Slice(UnpackCoils(m.values, Len(m.values) * BitsPerByte), 1, c.quantity) = d.value
          /\ c.op \in ReadsWords =>
                /\ m.class = "words" /\ m.values = d.value
                /\ m.values \in Seq(Word) /\ Len(m.values) = c.quantity
          /\ c.op \notin ReadsBits \cup ReadsWords =>
                /\ m.class = "pair"
                /\ d.value = IF c.op # "write_coil" THEN <<m.head[2]>>
                             ELSE IF m.head[2] = 0 THEN <<0>> ELSE <<1>>
    /\ d.kind = "ModbusServerError" => m.class = "exception" /\ m.values = d.value
    /\ d.kind = "stray" /\ m.class # "exception" => m.fc = d.fc

\* EndToEnd of a call, what the device has done with it, and its result.
Comes(c, d, r) ==
    /\ r.kind # "Mismatched"
    /\ d.kind = "returned" =>
          d.fc = FunctionOf(c) /\ d.address = c.address /\ d.data = Meant(c)
    /\ d.kind = "returned" /\ r.kind = "returned" =>
          CASE c.op \in ReadsWords /\ c.fmt # 0 -> WordsOf(r.value) = d.value
            [] OTHER -> r.value = d.value
    /\ d.kind = "returned" /\ r.kind \notin {"returned", "TransportError"} =>
          c.op \in ReadsWords /\ c.fmt \notin {0, 2 * c.quantity}
    /\ d.kind = "ModbusServerError" /\ r.kind # "TransportError" =>
          r = [kind |-> "ModbusServerError", value |-> d.value]
    /\ d.kind = "stray" /\ r.kind = "returned" => d.fc \in Expected(c)

LEMMA EndToEndIs == EndToEnd <=> (at = "returned" => Comes(call, done, result))
BY DEF EndToEnd, Comes

\* The value that the library makes of an answer is the one that the device has given.
LEMMA ValueIsRight ==
    ASSUME NEW c \in Calls, NEW d, NEW m, Heard(c, d, m), d.kind = "returned"
    PROVE  CASE c.op \in ReadsWords /\ c.fmt # 0 -> WordsOf(ValueOf(c, m)) = d.value
             [] OTHER -> ValueOf(c, m) = d.value
<1>1. c.op \in Ops
  BY FunctionsOfCalls
<1>2. CASE c.op \in ReadsBits
  <2>1. ValueOf(c, m) = d.value
    BY <1>2 DEF Heard, ValueOf, ReadsBits, ReadsWords
  <2>. QED BY <1>2, <2>1 DEF ReadsBits, ReadsWords
<1>3. CASE c.op \in ReadsWords
  <2>1. m.values = d.value /\ m.values \in Seq(Word)
    BY <1>3 DEF Heard
  <2>2. ValueOf(c, m) = IF c.fmt = 0 THEN m.values ELSE PackWords(m.values)
    BY <1>3 DEF ValueOf, ReadsBits, ReadsWords
  <2>3. WordsOf(PackWords(m.values)) = d.value
    BY <2>1, UnpackPack, WordsOfIs
  <2>. QED BY <1>3, <2>1, <2>2, <2>3
<1>4. CASE c.op = "write_coil"
  <2>1. d.value = IF m.head[2] = 0 THEN <<0>> ELSE <<1>>
    BY <1>4 DEF Heard, ReadsBits, ReadsWords
  <2>2. ValueOf(c, m) = IF m.head[2] = 0 THEN <<0>> ELSE <<1>>
    BY <1>4 DEF ValueOf, ReadsBits, ReadsWords
  <2>3. ValueOf(c, m) = d.value
    BY <2>1, <2>2
  <2>. QED BY <1>4, <2>3 DEF ReadsWords
<1>5. CASE c.op \in WritesWords \cup {"write_coils"}
  <2>1. d.value = <<m.head[2]>>
    BY <1>5 DEF Heard, ReadsBits, ReadsWords, WritesWords
  <2>2. ValueOf(c, m) = <<m.head[2]>>
    BY <1>5 DEF ValueOf, ReadsBits, ReadsWords, WritesWords
  <2>3. c.op \notin ReadsWords /\ c.op # "write_coil"
    BY <1>5 DEF ReadsWords, WritesWords
  <2>. QED BY <2>1, <2>2, <2>3
<1>. QED BY <1>1, <1>2, <1>3, <1>4, <1>5 DEF Ops

LEMMA ResultIsRight ==
    ASSUME NEW c \in Calls, NEW d, Understood(c, d),
           NEW adu, Decodable("answer", adu), Heard(c, d, Decode("answer", adu))
    PROVE  Comes(c, d, ResultOf(c, adu))
<1>. DEFINE m == Decode("answer", adu)
            r == ResultOf(c, adu)
            misfit == c.op \in ReadsWords /\ c.fmt \notin {0, 2 * Len(m.values)}
<1>1. /\ c.op \in Ops
      /\ FunctionOf(c) \in Expected(c)
  <2>1. /\ c.op \in Ops
        /\ c.op \in ReadsBits => FunctionOf(c) \in {1, 2}
        /\ c.op \in ReadsWords => FunctionOf(c) \in {3, 4}
    BY FunctionsOfCalls
  <2>2. CASE c.op \in ReadsBits
    BY <2>1, <2>2 DEF Expected, ReadsBits
  <2>3. CASE c.op = "read_holding_registers"
    BY <2>1, <2>3 DEF Expected, ReadsBits, ReadsWords
  <2>4. CASE c.op \notin ReadsBits /\ c.op # "read_holding_registers"
    <3>1. Expected(c) = {FunctionOf(c)}
      BY <2>4 DEF Expected
    <3>. QED BY <2>1, <3>1
  <2>. QED BY <2>1, <2>2, <2>3, <2>4
<1>2. /\ m.class = "exception" => r = Raised("ModbusServerError", m.values)
      /\ m.class # "exception" /\ m.fc \notin Expected(c) => r = Raised("ProtocolError", <<>>)
      /\ m.class # "exception" /\ m.fc \in Expected(c) /\ misfit => r = Raised("ValueError", <<>>)
      /\ m.class # "exception" /\ m.fc \in Expected(c) /\ ~ misfit =>
            r = [kind |-> "returned", value |-> ValueOf(c, m)]
  BY DEF ResultOf, Received
<1>3. Heard(c, d, m)
  OBVIOUS
<1>. HIDE DEF m, r, misfit
<1>4. d.kind = "returned" => /\ m.class # "exception" /\ m.fc \in Expected(c)
                             /\ d.fc = FunctionOf(c) /\ d.address = c.address /\ d.data = Meant(c)
  BY <1>1, <1>3 DEF Understood, Heard, Ops
<1>5. CASE m.class = "exception"
  BY <1>2, <1>3, <1>4, <1>5 DEF Comes, Heard, Raised, r
<1>6. CASE m.class # "exception" /\ m.fc \notin Expected(c)
  BY <1>2, <1>3, <1>4, <1>6 DEF Comes, Heard, Raised, r
<1>7. CASE m.class # "exception" /\ m.fc \in Expected(c) /\ misfit
  <2>1. d.kind = "returned" => c.op \in ReadsWords /\ c.fmt \notin {0, 2 * c.quantity}
    BY <1>3, <1>7 DEF Heard, misfit
  <2>2. d.kind # "ModbusServerError"
    BY <1>3, <1>7 DEF Heard
  <2>3. r.kind = "ValueError"
    BY <1>2, <1>7 DEF Raised
  <2>. QED BY <1>4, <2>1, <2>2, <2>3 DEF Comes, r
<1>8. CASE m.class # "exception" /\ m.fc \in Expected(c) /\ ~ misfit
  <2>1. r.kind = "returned" /\ r.value = ValueOf(c, m)
    BY <1>2, <1>8
  <2>2. d.kind # "ModbusServerError" /\ (d.kind = "stray" => d.fc \in Expected(c))
    BY <1>3, <1>8 DEF Heard
  <2>3. d.kind = "returned" =>
           CASE c.op \in ReadsWords /\ c.fmt # 0 -> WordsOf(r.value) = d.value
             [] OTHER -> r.value = d.value
    BY <1>3, <2>1, ValueIsRight
  <2>. QED BY <1>4, <2>1, <2>2, <2>3 DEF Comes, r
<1>. QED BY <1>5, <1>6, <1>7, <1>8

\* What the device does with each request.
LEMMA CarryOutIs ==
    ASSUME NEW unit, NEW fc, NEW p, CarryOut(unit, fc, p)
    PROVE  LET number == WordAt(p, 3)
               answered(data, value) ==
                   Answered(fc, WordAt(p, 1), data, value, <<unit, fc>> \o SubSeq(p, 1, 4))
           IN  /\ fc \in {1, 2} =>
                     \E data \in BitData(number) :
                         /\ Len(data) \in Byte
                         /\ Answered(fc, WordAt(p, 1), <<number>>, BitsOf(data, number),
                                     <<unit, fc, Len(data)>> \o data)
               /\ fc \in {3, 4} =>
                     \E data \in WordData(number) :
                         /\ Len(data) \in Byte
                         /\ Answered(fc, WordAt(p, 1), <<number>>, WordsOf(data),
                                     <<unit, fc, Len(data)>> \o data)
               /\ fc = 5 => answered(<<IF number = 0 THEN 0 ELSE 1>>,
                                     <<IF number = 0 THEN 0 ELSE 1>>)
               /\ fc = 6 => answered(<<number>>, <<number>>)
               /\ fc = 15 => answered(BitsOf(SubSeq(p, 6, Len(p)), number), <<number>>)
               /\ fc = 16 => answered(WordsOf(SubSeq(p, 6, Len(p))), <<number>>)
<1>. DEFINE number == WordAt(p, 3)
            bits == \E data \in BitData(number) :
                        /\ Len(data) \in Byte
                        /\ Answered(fc, WordAt(p, 1), <<number>>, BitsOf(data, number),
                                    <<unit, fc, Len(data)>> \o data)
            words == \E data \in WordData(number) :
                        /\ Len(data) \in Byte
                        /\ Answered(fc, WordAt(p, 1), <<number>>, WordsOf(data),
                                    <<unit, fc, Len(data)>> \o data)
            echoes(bit) == Answered(fc, WordAt(p, 1), <<bit>>, <<bit>>,
                                <<unit, fc>> \o SubSeq(p, 1, 4))
            coil == echoes(IF number = 0 THEN 0 ELSE 1)
            echo == Answered(fc, WordAt(p, 1), <<number>>, <<number>>,
                             <<unit, fc>> \o SubSeq(p, 1, 4))
            coils == Answered(fc, WordAt(p, 1), BitsOf(SubSeq(p, 6, Len(p)), number), <<number>>,
                              <<unit, fc>> \o SubSeq(p, 1, 4))
            registers == Answered(fc, WordAt(p, 1), WordsOf(SubSeq(p, 6, Len(p))), <<number>>,
                                  <<unit, fc>> \o SubSeq(p, 1, 4))
<1>1. \/ fc \in {1, 2} /\ bits
      \/ fc \in {3, 4} /\ words
      \/ fc = 5 /\ number = On /\ echoes(1)
      \/ fc = 5 /\ number = 0 /\ echoes(0)
      \/ fc = 6 /\ echo
      \/ fc = 15 /\ coils
      \/ fc = 16 /\ registers
  BY Zenon DEF CarryOut
<1>3. number = On /\ echoes(1) => coil
  BY CoilWordTyped
<1>4. number = 0 /\ echoes(0) => coil
  OBVIOUS
<1>. HIDE DEF bits, words, echoes, coil, echo, coils, registers
<1>2. /\ fc \in {1, 2} => bits
      /\ fc \in {3, 4} => words
      /\ fc = 5 => coil
      /\ fc = 6 => echo
      /\ fc = 15 => coils
      /\ fc = 16 => registers
  BY <1>1, <1>3, <1>4
<1>. QED BY <1>2 DEF bits, words, echoes, coil, echo, coils, registers

\* What is known when the device has answered.
AnswerGiven(c) ==
    /\ at' = "answered" /\ UNCHANGED went
    /\ IsAdu(came') /\ Decodable("answer", came') /\ msg' = Decode("answer", came')
    /\ Understood(c, done') /\ Heard(c, done', msg')

\* The device does what was meant, and its answer is decoded into what it gave.
LEMMA CarriedOut ==
    ASSUME NEW c \in Calls, Sendable(c), NEW unit \in Nat,
           CarryOut(unit, FunctionOf(c), Encode(Built(c)))
    PROVE  AnswerGiven(c)
<1>. DEFINE p == Encode(Built(c))
            fc == FunctionOf(c)
            number == WordAt(p, 3)
<1>1. /\ WordAt(p, 1) = c.address /\ number \in Word
      /\ fc \in 1 .. 6 => Len(p) = 4
      /\ fc \in {1, 2, 3, 4, 6} => Meant(c) = <<number>>
      /\ fc \in 1 .. 4 => number = c.quantity
      /\ fc = 5 => Meant(c) = <<IF number = 0 THEN 0 ELSE 1>>
      /\ fc = 15 => BitsOf(SubSeq(p, 6, Len(p)), number) = Meant(c)
      /\ fc = 16 => WordsOf(SubSeq(p, 6, Len(p))) = Meant(c)
  BY DeviceReads
<1>2. /\ c.op \in Ops
      /\ c.op \in ReadsBits => fc \in {1, 2}
      /\ c.op \in ReadsWords => fc \in {3, 4}
      /\ c.op = "write_coil" => fc = 5
      /\ c.op = "write_coils" => fc = 15
      /\ c.op \in WritesWords => fc = 6 \/ fc = 16
  BY FunctionsOfCalls
<1>3. fc \in {1, 2, 3, 4, 5, 6, 15, 16}
  BY BuiltIs
<1>4. p \in Seq(Byte) /\ Shape(RequestClass(fc), p)
  BY RequestOfCall
<1>5. number \in Nat
  BY <1>1, BaseIsNat
<1>0. LET answered(data, value) ==
              Answered(fc, WordAt(p, 1), data, value, <<unit, fc>> \o SubSeq(p, 1, 4))
      IN  /\ fc \in {1, 2} =>
                \E data \in BitData(number) :
                    /\ Len(data) \in Byte
                    /\ Answered(fc, WordAt(p, 1), <<number>>, BitsOf(data, number),
                                <<unit, fc, Len(data)>> \o data)
          /\ fc \in {3, 4} =>
                \E data \in WordData(number) :
                    /\ Len(data) \in Byte
                    /\ Answered(fc, WordAt(p, 1), <<number>>, WordsOf(data),
                                <<unit, fc, Len(data)>> \o data)
          /\ fc = 5 => answered(<<IF number = 0 THEN 0 ELSE 1>>,
                                <<IF number = 0 THEN 0 ELSE 1>>)
          /\ fc = 6 => answered(<<number>>, <<number>>)
          /\ fc = 15 => answered(BitsOf(SubSeq(p, 6, Len(p)), number), <<number>>)
          /\ fc = 16 => answered(WordsOf(SubSeq(p, 6, Len(p))), <<number>>)
  BY CarryOutIs
<1>. HIDE DEF p, fc
<1>6. ASSUME NEW data, NEW value, NEW adu, Answered(fc, c.address, data, value, adu),
             IsAdu(adu), Decodable("answer", adu), data = Meant(c),
             Heard(c, [fc |-> fc, address |-> c.address, data |-> data, value |-> value,
                       kind |-> "returned"], Decode("answer", adu))
      PROVE  AnswerGiven(c)
  <2>. DEFINE d == [fc |-> fc, address |-> c.address, data |-> data, value |-> value,
                    kind |-> "returned"]
  <2>1. done' = d /\ Read("answer", adu, "answered", "failed")
    BY <1>6 DEF Answered
  <2>2. at' = "answered" /\ came' = adu /\ msg' = Decode("answer", adu) /\ UNCHANGED went
    BY <1>6, <2>1 DEF Read
  <2>3. Understood(c, d)
    BY <1>6 DEF Understood, fc
  <2>. HIDE DEF d
  <2>4. Heard(c, d, Decode("answer", adu))
    BY <1>6 DEF d
  <2>. QED BY <1>6, <2>1, <2>2, <2>3, <2>4 DEF AnswerGiven
<1>7. CASE fc \in {1, 2}
  <2>1. PICK data \in BitData(number) :
           /\ Len(data) \in Byte
           /\ Answered(fc, c.address, <<number>>, BitsOf(data, number),
                       <<unit, fc, Len(data)>> \o data)
    BY <1>1, <1>7, <1>0
  <2>. DEFINE adu == <<unit, fc, Len(data)>> \o data
              m == Decode("answer", adu)
              value == BitsOf(data, number)
  <2>2. /\ data \in Seq(Byte)
        /\ Slice(UnpackCoils(data, Len(data) * BitsPerByte), 1, number) = value
    BY <1>5, BitsReturned
  <2>3. /\ IsAdu(adu) /\ Decodable("answer", adu) /\ m.fc = fc
        /\ m.class = "bytes" /\ m.values = data
    <3>1. fc \notin {3, 4} /\ fc \in {1, 2, 3, 4}
      BY <1>7
    <3>. QED BY <1>7, <2>1, <2>2, <3>1, CountedAnswer
  <2>4. number = c.quantity /\ Meant(c) = <<number>>
    BY <1>1, <1>7
  <2>5. c.op \in ReadsBits /\ c.op \notin ReadsWords /\ c.op # "write_coil"
    BY <1>2, <1>7 DEF Ops, ReadsBits, ReadsWords, WritesWords
  <2>. HIDE DEF adu, m, value, number
  <2>6. Heard(c, [fc |-> fc, address |-> c.address, data |-> <<number>>, value |-> value,
                  kind |-> "returned"], m)
    BY <2>2, <2>3, <2>4, <2>5 DEF Heard
  <2>. QED BY <1>6, <2>1, <2>3, <2>4, <2>6 DEF adu, m, value
<1>8. CASE fc \in {3, 4}
  <2>1. PICK data \in WordData(number) :
           /\ Len(data) \in Byte
           /\ Answered(fc, c.address, <<number>>, WordsOf(data),
                       <<unit, fc, Len(data)>> \o data)
    BY <1>1, <1>8, <1>0
  <2>. DEFINE adu == <<unit, fc, Len(data)>> \o data
              m == Decode("answer", adu)
              value == WordsOf(data)
  <2>2. /\ data \in Seq(Byte) /\ Len(data) % 2 = 0 /\ value = UnpackWords(data)
        /\ value \in Seq(Word) /\ Len(value) = number
    BY <1>5, WordsReturned
  <2>3. /\ IsAdu(adu) /\ Decodable("answer", adu) /\ m.fc = fc
        /\ m.class = "words" /\ m.values = value
    <3>1. fc \notin {1, 2} /\ fc \in {1, 2, 3, 4}
      BY <1>8
    <3>. QED BY <1>8, <2>1, <2>2, <3>1, CountedAnswer
  <2>4. number = c.quantity /\ Meant(c) = <<number>>
    BY <1>1, <1>8
  <2>5. c.op \in ReadsWords /\ c.op \notin ReadsBits /\ c.op # "write_coil"
    BY <1>2, <1>8 DEF Ops, ReadsBits, ReadsWords, WritesWords
  <2>. HIDE DEF adu, m, value, number
  <2>6. Heard(c, [fc |-> fc, address |-> c.address, data |-> <<number>>, value |-> value,
                  kind |-> "returned"], m)
    BY <2>2, <2>3, <2>4, <2>5 DEF Heard
  <2>. QED BY <1>6, <2>1, <2>3, <2>4, <2>6 DEF adu, m, value
<1>9. CASE fc \in {5, 6, 15, 16}
  <2>. DEFINE adu == <<unit, fc>> \o SubSeq(p, 1, 4)
              m == Decode("answer", adu)
              value == IF fc # 5 THEN <<number>> ELSE IF number = 0 THEN <<0>> ELSE <<1>>
  <2>1. PICK data : data = Meant(c) /\ Answered(fc, c.address, data, value, adu)
    <3>1. CASE fc = 5
      <4>. DEFINE on == <<IF number = 0 THEN 0 ELSE 1>>
      <4>1. Answered(fc, c.address, on, on, adu)
        BY <1>1, <3>1, <1>0
      <4>2. Meant(c) = on /\ value = on
        BY <1>1, <3>1
      <4>. HIDE DEF on, value
      <4>. QED BY <4>1, <4>2
    <3>4. CASE fc = 6
      <4>1. Answered(fc, c.address, <<number>>, <<number>>, adu)
        BY <1>1, <3>4, <1>0
      <4>2. Meant(c) = <<number>>
        BY <1>1, <3>4
      <4>. QED BY <3>4, <4>1, <4>2
    <3>2. CASE fc = 15
      <4>1. Answered(fc, c.address, BitsOf(SubSeq(p, 6, Len(p)), number), <<number>>, adu)
        BY <1>1, <3>2, <1>0
      <4>. QED BY <1>1, <3>2, <4>1
    <3>3. CASE fc = 16
      <4>1. Answered(fc, c.address, WordsOf(SubSeq(p, 6, Len(p))), <<number>>, adu)
        BY <1>1, <3>3, <1>0
      <4>. QED BY <1>1, <3>3, <4>1
    <3>. QED BY <1>9, <3>1, <3>2, <3>3, <3>4
  <2>2. Len(p) >= 4
    <3>1. CASE fc \in {5, 6}
      BY <1>1, <3>1
    <3>2. CASE fc \in {15, 16}
      <4>1. Len(p) >= 5
        BY <1>4, <3>2 DEF Shape, RequestClass
      <4>. QED BY <1>4, <4>1, LenProperties
    <3>. QED BY <1>9, <3>1, <3>2
  <2>3. /\ IsAdu(adu) /\ Decodable("answer", adu) /\ m.fc = fc
        /\ m.class = "pair" /\ m.head[2] = number
    BY <1>4, <1>9, <2>2, EchoAnswer
  <2>4. c.op \notin ReadsBits \cup ReadsWords /\ (c.op = "write_coil" <=> fc = 5)
    BY <1>2, <1>9 DEF Ops, WritesWords
  <2>6. value = IF c.op # "write_coil" THEN <<m.head[2]>>
                ELSE IF m.head[2] = 0 THEN <<0>> ELSE <<1>>
    BY <2>3, <2>4
  <2>. HIDE DEF adu, m, number, value
  <2>5. Heard(c, [fc |-> fc, address |-> c.address, data |-> data, value |-> value,
                  kind |-> "returned"], m)
    BY <2>3, <2>4, <2>6 DEF Heard
  <2>. QED BY <1>6, <2>1, <2>3, <2>5 DEF adu, m
<1>. QED BY <1>3, <1>7, <1>8, <1>9

-----------------------------------------------------------------------------
(* The way of a call *)

\* Inductive: beside what Messages has of any frame, whose request and answer it is that
\* a call has under way.
ApiInv ==
    /\ Carried
    /\ \A i \in 3 .. Len(went) : went[i] \in Byte
    /\ owed = 0
    /\ at \in Places \cup {"built", "returned"}
    /\ ~ Calling => at \notin {"built", "returned"} /\ done.kind = "none"
    /\ Calling => call \in Calls /\ Understood(call, done)
    /\ at = "built" => done.kind = "none"
    /\ Calling /\ at \in {"received", "routed", "forwarded"} =>
          Sendable(call) /\ came = SentAdu(call)
    /\ Calling /\ at \in {"answered", "replied"} =>
          done.kind # "none" /\ Heard(call, done, msg)
    /\ at = "returned" => Comes(call, done, result)

\* What is about to be written, in a request or in an answer.
LEMMA AboutToWrite ==
    ASSUME Carried, at \in {"routed", "answered"}
    PROVE  \A i \in 3 .. Len(ToAdu(msg)) : ToAdu(msg)[i] \in Byte
<1>1. CASE at = "routed"
  <2>1. PICK unit \in Units : msg = [Decode("request", came) EXCEPT !.unit = unit]
    BY <1>1 DEF Carried
  <2>2. IsAdu(came) /\ Decodable("request", came)
    BY <1>1 DEF Carried, Places
  <2>3. Passes("request", came, msg)
    BY <2>1, <2>2, Passage
  <2>. QED BY <2>3 DEF Passes
<1>2. CASE at = "answered"
  <2>1. /\ IsAdu(came) /\ Decodable("answer", came) /\ msg = Decode("answer", came)
    BY <1>2 DEF Carried, Places
  <2>2. msg = [Decode("answer", came) EXCEPT !.unit = came[1]]
    BY <2>1 DEF Decode
  <2>3. Passes("answer", came, msg)
    BY <2>1, <2>2, Passage
  <2>. QED BY <2>3 DEF Passes
<1>. QED BY <1>1, <1>2

\* A frame moves on.
LEMMA MovesOn ==
    ASSUME Carried, \A i \in 3 .. Len(went) : went[i] \in Byte, Route \/ Forward \/ Reply
    PROVE  /\ Carried' /\ \A i \in 3 .. Len(went') : went'[i] \in Byte
           /\ came' = came
           /\ \/ at = "received" /\ at' = "routed"
              \/ at = "routed" /\ at' = "forwarded"
              \/ at = "answered" /\ at' = "replied" /\ msg' = msg
<1>. USE DEF Carried, Places
<1>1. CASE Route
  BY <1>1 DEF Route
<1>2. CASE Forward
  <2>1. \A i \in 3 .. Len(ToAdu(msg)) : ToAdu(msg)[i] \in Byte
    BY <1>2, AboutToWrite DEF Forward, Write
  <2>. QED BY <1>2, <2>1 DEF Forward, Write
<1>3. CASE Reply
  <2>1. \A i \in 3 .. Len(ToAdu(msg)) : ToAdu(msg)[i] \in Byte
    BY <1>3, AboutToWrite DEF Reply, Write
  <2>. QED BY <1>3, <2>1 DEF Reply, Write
<1>. QED BY <1>1, <1>2, <1>3

\* A frame is read, and decoded or refused.
LEMMA ReadIsCarried ==
    ASSUME NEW adu, IsAdu(adu),
           \/ Read("request", adu, "received", "dropped")
           \/ Read("answer", adu, "answered", "failed")
    PROVE  /\ Carried' /\ UNCHANGED went
           /\ at' \in {"received", "dropped", "answered", "failed"}
           /\ at' = "received" => came' = adu
           /\ at' = "answered" => msg' = Decode("answer", adu)
BY DEF Read, Carried, Places

\* What is lost comes to nothing that should not be.
LEMMA LossComes ==
    ASSUME NEW c, NEW d, NEW r, Understood(c, d),
           r.kind = "TransportError" \/ (d.kind = "none" /\ r.kind # "Mismatched")
    PROVE  Comes(c, d, r)
BY DEF Understood, Comes

\* A call that ends keeps what it was about.
LEMMA EndIsRight ==
    ASSUME ApiInv, Calling, NEW r, Ends(r), Comes(call, done, r), owed' = 0
    PROVE  ApiInv'
BY DEF ApiInv, Ends, Calling, Carried, Places

LEMMA ApiInvariant == ApiSpec => []ApiInv
<1>1. ApiInit => ApiInv
  BY DEF ApiInit, Init, ApiInv, Carried, Places, Calling, NotDone
<1>2. ApiInv /\ [ApiNext]_<<vars, clientVars>> => ApiInv'
  <2>. SUFFICES ASSUME ApiInv, [ApiNext]_<<vars, clientVars>>
                PROVE  ApiInv'
    OBVIOUS
  <2>1. CASE Connect
    BY <2>1 DEF Connect, Idle, vars, ApiInv, Carried, Calling
  <2>2. CASE Close
    BY <2>2 DEF Close, Shut, Idle, vars, ApiInv, Carried, Calling
  <2>3. CASE PeerCloses
    BY <2>3 DEF PeerCloses, vars, ApiInv, Carried, Calling
  <2>4. ASSUME NEW c \in Calls, Call(c) PROVE ApiInv'
    <3>1. /\ ~ Calling /\ done.kind = "none"
          /\ call' = c /\ UNCHANGED <<came, msg, went, done, socket, owed>>
          /\ at' \in {"built", "returned"}
          /\ at' = "returned" => result'.kind = "ValueError"
      BY <2>4 DEF ApiInv, Call, Idle, Raised, transport
    <3>2. Calling'
      <4>1. c.op \in Ops
        BY FunctionsOfCalls
      <4>2. c.op # "none"
        BY <4>1 DEF Ops, ReadsBits, ReadsWords, WritesWords
      <4>. QED BY <3>1, <4>2 DEF Calling, NoCall
    <3>3. Understood(c, done)
      BY <3>1 DEF Understood
    <3>4. at' = "returned" => Comes(c, done, result')
      <4>. SUFFICES ASSUME at' = "returned" PROVE Comes(c, done, result')
        OBVIOUS
      <4>1. result'.kind # "Mismatched"
        BY <3>1
      <4>. QED BY <3>1, <3>3, <4>1, LossComes
    <3>. QED BY <3>1, <3>2, <3>3, <3>4 DEF ApiInv, Carried, Places
  <2>5. CASE Execute
    <3>1. /\ Calling /\ at = "built" /\ Sendable(call) /\ call \in Calls
          /\ Read("request", SentAdu(call), "received", "dropped")
          /\ UNCHANGED <<call, done, result, socket, owed>>
      BY <2>5 DEF Execute, clientVars, ApiInv
    <3>2. IsAdu(SentAdu(call))
      BY <3>1, RequestOfCall
    <3>3. /\ Carried' /\ UNCHANGED went
          /\ at' \in {"received", "dropped", "answered", "failed"}
          /\ at' = "received" => came' = SentAdu(call)
      BY <3>1, <3>2, ReadIsCarried
    <3>4. at' \in {"received", "dropped"}
      BY <3>1 DEF Read
    <3>. QED BY <3>1, <3>3, <3>4 DEF ApiInv, Calling, Places
  <2>6. CASE ExecuteRaises
    <3>1. PICK r : Ends(r) /\ r.kind \in {"ConnectionClosed", "struct.error", "TransportError"}
                   /\ owed' = 0 /\ Calling /\ at = "built"
      BY <2>6 DEF ExecuteRaises, Raised, Shut, transport, ApiInv
    <3>2. Comes(call, done, r)
      <4>1. Understood(call, done) /\ done.kind = "none"
        BY <3>1 DEF ApiInv
      <4>. QED BY <3>1, <4>1, LossComes
    <3>. QED BY <3>1, <3>2, EndIsRight
  <2>7. CASE Through
    <3>1. /\ Calling /\ (Route \/ Forward \/ Reply)
          /\ UNCHANGED <<call, done, result, socket, owed>>
      BY <2>7 DEF Through, clientVars
    <3>2. Carried /\ \A i \in 3 .. Len(went) : went[i] \in Byte
      BY DEF ApiInv
    <3>3. /\ Carried' /\ \A i \in 3 .. Len(went') : went'[i] \in Byte
          /\ came' = came
          /\ \/ at = "received" /\ at' = "routed"
             \/ at = "routed" /\ at' = "forwarded"
             \/ at = "answered" /\ at' = "replied" /\ msg' = msg
      BY <3>1, <3>2, MovesOn
    <3>. QED BY <3>1, <3>3 DEF ApiInv, Calling, Places
  <2>8. CASE Serve
    <3>1. /\ Calling /\ at = "forwarded" /\ call \in Calls /\ Sendable(call)
          /\ came = SentAdu(call) /\ went = ToAdu(msg)
          /\ UNCHANGED <<call, result, socket, owed>>
      BY <2>8 DEF Serve, transport, ApiInv, Carried
    <3>2. PICK unit \in Units : msg = [Decode("request", came) EXCEPT !.unit = unit]
      BY <3>1 DEF ApiInv, Carried
    <3>3. unit \in Nat
      BY ApiAssumption
    <3>. DEFINE p == Encode(Built(call))
    <3>4. p \in Seq(Byte) /\ went = <<unit, FunctionOf(call)>> \o p
      BY <3>1, <3>2, RequestOfCall
    <3>5. went[1] = unit /\ went[2] = FunctionOf(call) /\ SubSeq(went, 3, Len(went)) = p
      BY <3>4, FrameParts DEF Framed
    <3>6. CarryOut(unit, FunctionOf(call), p)
      BY <2>8, <3>5 DEF Serve
    <3>7. AnswerGiven(call)
      BY <3>1, <3>3, <3>6, CarriedOut
    <3>8. Carried'
      BY <3>7 DEF AnswerGiven, Carried, Places
    <3>9. done'.kind # "none"
      <4>1. \E fc, address, data, value, adu : Answered(fc, address, data, value, adu)
        BY <3>6, Zenon DEF CarryOut
      <4>. QED BY <4>1 DEF Answered
    <3>. QED BY <3>1, <3>7, <3>8, <3>9 DEF ApiInv, AnswerGiven, Calling, Places
  <2>9. CASE Misserve
    <3>1. /\ Calling /\ at = "forwarded" /\ call \in Calls /\ Sendable(call)
          /\ came = SentAdu(call) /\ went = ToAdu(msg)
          /\ UNCHANGED <<call, result, socket, owed>>
      BY <2>9 DEF Misserve, transport, ApiInv, Carried
    <3>2. PICK unit \in Units : msg = [Decode("request", came) EXCEPT !.unit = unit]
      BY <3>1 DEF ApiInv, Carried
    <3>3. unit \in Nat /\ FunctionOf(call) \in Nat
      <4>1. unit \in Nat
        BY ApiAssumption DEF ApiAssumption
      <4>2. FunctionOf(call) \in {1, 2, 3, 4, 5, 6, 15, 16}
        BY <3>1, BuiltIs
      <4>. QED BY <4>1, <4>2
    <3>4. went[1] = unit /\ went[2] = FunctionOf(call)
      <4>1. Encode(Built(call)) \in Seq(Byte) /\ went = <<unit, FunctionOf(call)>> \o Encode(Built(call))
        BY <3>1, <3>2, RequestOfCall
      <4>. QED BY <4>1, FrameParts DEF Framed
    <3>5. PICK adu : /\ Read("answer", adu, "answered", "failed") /\ IsAdu(adu)
                     /\ Understood(call, done') /\ Heard(call, done', Decode("answer", adu))
                     /\ done'.kind # "none"
      <4>. DEFINE refusal == <<unit, FunctionOf(call) + 128, 2>>
      <4>1. CASE /\ done' = [NotDone EXCEPT !.kind = "ModbusServerError", !.value = <<2>>]
                 /\ Read("answer", refusal, "answered", "failed")
        <5>. DEFINE m == Decode("answer", refusal)
        <5>1. IsAdu(refusal) /\ m.class = "exception" /\ m.values = <<2>>
          BY <3>3, ExceptionAnswer
        <5>2. done'.kind = "ModbusServerError" /\ done'.value = <<2>>
          BY <4>1 DEF NotDone
        <5>. HIDE DEF m
        <5>3. Understood(call, done') /\ Heard(call, done', m)
          BY <5>1, <5>2 DEF Understood, Heard
        <5>. QED BY <4>1, <5>1, <5>2, <5>3 DEF m
      <4>2. ASSUME NEW adu \in Strays, Read("answer", adu, "answered", "failed"),
                   done' = [NotDone EXCEPT !.kind = "stray", !.fc = adu[2]]
            PROVE  /\ IsAdu(adu) /\ Understood(call, done') /\ Heard(call, done', Decode("answer", adu))
                   /\ done'.kind # "none"
        <5>. DEFINE m == Decode("answer", adu)
        <5>1. IsAdu(adu)
          BY ApiAssumption DEF IsAdu
        <5>2. m.class # "exception" => m.fc = adu[2]
          BY DEF Decode
        <5>3. done'.kind = "stray" /\ done'.fc = adu[2]
          BY <4>2 DEF NotDone
        <5>. HIDE DEF m
        <5>4. Understood(call, done') /\ Heard(call, done', m)
          BY <5>2, <5>3 DEF Understood, Heard
        <5>. QED BY <5>1, <5>3, <5>4 DEF m
      <4>. QED BY <2>9, <3>4, <4>1, <4>2 DEF Misserve
    <3>6. /\ Carried' /\ UNCHANGED went
          /\ at' \in {"received", "dropped", "answered", "failed"}
          /\ at' = "answered" => msg' = Decode("answer", adu)
      BY <3>5, ReadIsCarried
    <3>7. at' \in {"answered", "failed"}
      BY <3>5 DEF Read
    <3>. QED BY <3>1, <3>5, <3>6, <3>7 DEF ApiInv, Calling, Places
  <2>10. CASE Return
    <3>1. /\ Calling /\ at = "replied" /\ call \in Calls /\ owed = 0 /\ owed' = 0
          /\ Ends(ResultOf(call, went)) /\ Carried
          /\ Understood(call, done) /\ Heard(call, done, msg)
      BY <2>10 DEF Return, transport, ApiInv
    <3>2. Decodable("answer", went) /\ Decode("answer", went) = msg
      BY <3>1, Written
    <3>3. Comes(call, done, ResultOf(call, went))
      BY <3>1, <3>2, ResultIsRight
    <3>. QED BY <3>1, <3>3, EndIsRight
  <2>11. CASE TimeOut \/ Lost
    <3>1. PICK r : Ends(r) /\ r.kind = "TransportError" /\ owed' = 0 /\ Calling
      BY <2>11 DEF TimeOut, Lost, Raised, Shut, transport, ApiInv
    <3>2. Comes(call, done, r)
      <4>1. Understood(call, done)
        BY <3>1 DEF ApiInv
      <4>. QED BY <3>1, <4>1, LossComes
    <3>. QED BY <3>1, <3>2, EndIsRight
  <2>12. CASE Over
    BY <2>12 DEF Over, transport, ApiInv, Carried, Places, Calling, NotDone
  <2>13. CASE ~ Calling /\ Next /\ UNCHANGED clientVars
    <3>1. ~ Calling' /\ UNCHANGED <<call, done, result, socket, owed>>
      BY <2>13 DEF Calling, clientVars
    <3>2. /\ Carried' /\ \A i \in 3 .. Len(went') : went'[i] \in Byte
          /\ at' \in Places
      <4>1. CASE Receive
        <5>1. PICK adu \in Requests : Read("request", adu, "received", "dropped")
          BY <4>1 DEF Receive
        <5>2. IsAdu(adu)
          BY AdusAreTyped
        <5>. QED BY <5>1, <5>2, ReadIsCarried DEF ApiInv, Places
      <4>2. CASE Answer
        <5>1. PICK adu \in Answers : Read("answer", adu, "answered", "failed")
          BY <4>2 DEF Answer
        <5>2. IsAdu(adu)
          BY AdusAreTyped
        <5>. QED BY <5>1, <5>2, ReadIsCarried DEF ApiInv, Places
      <4>3. CASE Route \/ Forward \/ Reply
        BY <4>3, MovesOn DEF ApiInv, Places
      <4>4. CASE Again
        BY <4>4 DEF Again, Carried, Places
      <4>. QED BY <2>13, <4>1, <4>2, <4>3, <4>4 DEF Next
    <3>. QED BY <2>13, <3>1, <3>2 DEF ApiInv, Places
  <2>14. CASE UNCHANGED <<vars, clientVars>>
    BY <2>14 DEF vars, clientVars, ApiInv, Carried, Calling
  <2>. QED BY <2>1, <2>2, <2>3, <2>4, <2>5, <2>6, <2>7, <2>8, <2>9, <2>10, <2>11, <2>12,
              <2>13, <2>14 DEF ApiNext
<1>. QED
  BY <1>1, <1>2, PTL DEF ApiSpec

\* A device does what the caller meant, and the caller gets what the device gave, an
\* exception, or an error: for every call, device and plan (ModbusClient, TcpClient,
\* and the codecs at both ends and in the gateway).
THEOREM CallsComeThrough == ApiSpec => []EndToEnd
<1>1. ApiInv => EndToEnd
  BY EndToEndIs DEF ApiInv
<1>. QED
  BY <1>1, ApiInvariant, PTL

\* What an answer that decodes is turned into: a result, or one of these errors.
LEMMA AnswersRaise ==
    ASSUME NEW c, NEW d, NEW adu, Decodable("answer", adu),
           d.kind \in {"returned", "ModbusServerError", "stray"},
           Heard(c, d, Decode("answer", adu))
    PROVE  LET r == ResultOf(c, adu)
           IN  \/ r.kind \in {"returned", "ModbusServerError", "ProtocolError"}
               \/ /\ r.kind = "ValueError"
                  /\ c.op \in ReadsWords /\ c.fmt # 0
                  /\ c.fmt # 2 * c.quantity \/ d.kind = "stray"
<1>. DEFINE m == Decode("answer", adu)
            r == ResultOf(c, adu)
            misfit == c.op \in ReadsWords /\ c.fmt \notin {0, 2 * Len(m.values)}
<1>1. /\ m.class = "exception" => r = Raised("ModbusServerError", m.values)
      /\ m.class # "exception" /\ m.fc \notin Expected(c) => r = Raised("ProtocolError", <<>>)
      /\ m.class # "exception" /\ m.fc \in Expected(c) /\ misfit => r = Raised("ValueError", <<>>)
      /\ m.class # "exception" /\ m.fc \in Expected(c) /\ ~ misfit =>
            r = [kind |-> "returned", value |-> ValueOf(c, m)]
  BY DEF ResultOf, Received
<1>2. Heard(c, d, m)
  OBVIOUS
<1>. HIDE DEF m, r
<1>3. CASE m.class # "exception" /\ misfit
  <2>1. d.kind = "returned" => c.fmt # 2 * c.quantity
    BY <1>2, <1>3 DEF Heard
  <2>2. d.kind # "ModbusServerError"
    BY <1>2, <1>3 DEF Heard
  <2>. QED BY <1>1, <1>3, <2>1, <2>2 DEF Raised, r
<1>4. CASE m.class = "exception" \/ ~ misfit
  BY <1>1, <1>4 DEF Raised, r
<1>. QED BY <1>3, <1>4

\* Whatever becomes of the connection, the gateway and the device, a call raises a
\* ModbusClientError; others come of its arguments, and of an answer with another number
\* of registers than its format (ModbusClient._execute, TcpClient.execute).
THEOREM OthersAreTheCallers == ApiSpec => []ErrorsAreClientErrors
<1>1. ApiInit => ErrorsAreClientErrors
  BY DEF ApiInit, Init, ErrorsAreClientErrors
<1>2. ApiInv /\ ErrorsAreClientErrors /\ [ApiNext]_<<vars, clientVars>> => ErrorsAreClientErrors'
  <2>. SUFFICES ASSUME ApiInv, ErrorsAreClientErrors, [ApiNext]_<<vars, clientVars>>,
                       at' = "returned"
                PROVE  ErrorsAreClientErrors'
    BY DEF ErrorsAreClientErrors
  <2>1. ASSUME NEW c \in Calls, Call(c) PROVE ErrorsAreClientErrors'
    BY <2>1 DEF Call, Raised, ErrorsAreClientErrors
  <2>2. CASE ExecuteRaises
    BY <2>2 DEF ExecuteRaises, Ends, Raised, ErrorsAreClientErrors, ClientErrors
  <2>3. CASE Return
    <3>1. /\ Ends(ResultOf(call, went)) /\ Carried /\ at = "replied"
          /\ done.kind \in {"returned", "ModbusServerError", "stray"} /\ Heard(call, done, msg)
      BY <2>3 DEF Return, ApiInv, Understood
    <3>2. Decodable("answer", went) /\ Decode("answer", went) = msg
      BY <3>1, Written
    <3>3. \/ ResultOf(call, went).kind \in {"returned", "ModbusServerError", "ProtocolError"}
          \/ ResultOf(call, went).kind = "ValueError" /\ Misfits(call)
      BY <3>1, <3>2, AnswersRaise DEF Misfits
    <3>. QED BY <3>1, <3>3 DEF Ends, ErrorsAreClientErrors, ClientErrors, Misfits
  <2>4. CASE TimeOut \/ Lost
    BY <2>4 DEF TimeOut, Lost, Ends, Raised, ErrorsAreClientErrors, ClientErrors
  <2>5. CASE Connect \/ Close \/ PeerCloses \/ UNCHANGED <<vars, clientVars>>
    BY <2>5 DEF Connect, Close, PeerCloses, Idle, vars, clientVars, ErrorsAreClientErrors, Misfits
  <2>6. CASE Execute \/ Through \/ Serve \/ Misserve \/ Over
    <3>1. at' # "returned"
      BY <2>6 DEF Execute, Through, Route, Forward, Reply, Write, Serve, CarryOut, Answered,
                  Misserve, Over, Read
    <3>. QED BY <3>1
  <2>7. CASE ~ Calling /\ Next /\ UNCHANGED clientVars
    <3>1. at' # "returned"
      BY <2>7 DEF Next, Receive, Answer, Route, Forward, Reply, Write, Again, Read
    <3>. QED BY <3>1
  <2>. QED BY <2>1, <2>2, <2>3, <2>4, <2>5, <2>6, <2>7 DEF ApiNext
<1>. QED
  BY <1>1, <1>2, ApiInvariant, PTL DEF ApiSpec

\* The frames of calls, too, pass the gateway untouched, well-formed, and with the
\* meaning they had.
THEOREM CallsAreCarried ==
    ApiSpec => [](MeaningIsKept /\ NothingMalformedGetsOut /\ Transparent)
<1>1. ApiInv => MeaningIsKept /\ NothingMalformedGetsOut /\ Transparent
  BY CarriedGivesAll DEF ApiInv
<1>. QED
  BY <1>1, ApiInvariant, PTL
=============================================================================
