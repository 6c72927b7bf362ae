--------------------------- MODULE MessagesProofs ---------------------------
(***************************************************************************)
(* The codecs of Messages, for payloads of every length and bytes of every *)
(* width: whatever comes in, what is written is well-formed, it is read as *)
(* the gateway has read it, and a well-formed frame is not changed.  That  *)
(* a byte is known by its bits, as a request that writes coils has it, is  *)
(* proved by induction on how many there are.                              *)
(***************************************************************************)
EXTENDS Messages, SequenceTheorems, WellFoundedInduction, TLAPS

-----------------------------------------------------------------------------
(* Induction, and powers *)

\* Every non-empty set of natural numbers has a smallest element.
LEMMA SmallestNat ==
    ASSUME NEW T, T \subseteq Nat, T # {}
    PROVE  \E x \in T : \A y \in T : x <= y
<1> DEFINE Less == {ss \in Nat \X Nat : ss[1] < ss[2]}
<1>1. IsWellFoundedOn(Less, Nat)
  BY NatLessThanWellFounded, Zenon DEF OpToRel
<1> HIDE DEF Less
<1>2. \E x \in T : \A y \in T : ~ (<<y, x>> \in Less)
  BY <1>1, WFMin, Zenon
<1>3. PICK x \in T : \A y \in T : ~ (<<y, x>> \in Less)
  BY <1>2
<1>4. ASSUME NEW y \in T PROVE x <= y
  <2>1. <<y, x>> \in Nat \X Nat /\ <<y, x>>[1] = y /\ <<y, x>>[2] = x
    BY T \subseteq Nat
  <2>2. y < x => <<y, x>> \in Less
    BY <2>1 DEF Less
  <2>3. ~ (y < x)
    BY <1>3, <2>2
  <2>. QED
    BY <2>3, T \subseteq Nat
<1>. QED
  BY <1>4

\* Induction up to a bound, for a set of numbers.
LEMMA InductionUpTo ==
    ASSUME NEW N \in Nat, NEW S, 0 \in S,
           \A n \in 0 .. N - 1 : n \in S => n + 1 \in S
    PROVE  0 .. N \subseteq S
<1>. DEFINE T == (0 .. N) \ S
<1>1. SUFFICES ASSUME T # {} PROVE FALSE
  OBVIOUS
<1>2. PICK x \in T : \A y \in T : x <= y
  <2>1. T \subseteq Nat
    OBVIOUS
  <2>. HIDE DEF T
  <2>. QED BY <1>1, <2>1, SmallestNat
<1>3. x \in 1 .. N /\ x - 1 \in 0 .. N - 1 /\ (x - 1) + 1 = x
  BY <1>2
<1>4. x - 1 \in S
  BY <1>2, <1>3
<1>. QED
  BY <1>2, <1>3, <1>4

\* Powers of two.
LEMMA Powers ==
    /\ BitsPerByte \in Nat \ {0} /\ 2 ^ 0 = 1
    /\ \A n \in 0 .. BitsPerByte : 2 ^ n \in Nat \ {0}
    /\ \A n \in 0 .. BitsPerByte - 1 : 2 ^ (n + 1) = 2 * 2 ^ n
    /\ Base \in Nat \ {0}
<1>1. /\ BitsPerByte \in Nat \ {0} /\ 2 ^ 0 = 1
      /\ \A n \in 0 .. BitsPerByte - 1 : 2 ^ n \in Nat \ {0} /\ 2 ^ (n + 1) = 2 * 2 ^ n
  BY MessagesAssumption
<1>2. BitsPerByte - 1 \in 0 .. BitsPerByte - 1 /\ (BitsPerByte - 1) + 1 = BitsPerByte
  BY <1>1
<1>3. 2 ^ BitsPerByte \in Nat \ {0}
  BY <1>1, <1>2
<1>. QED
  BY <1>1, <1>3 DEF Base

LEMMA PowersGrow ==
    ASSUME NEW r \in 0 .. BitsPerByte, NEW j \in r .. BitsPerByte
    PROVE  2 ^ r <= 2 ^ j
<1>. DEFINE S == {n \in Nat : n > BitsPerByte - r \/ 2 ^ r <= 2 ^ (r + n)}
<1>1. BitsPerByte \in Nat
  BY Powers
<1>2. 0 \in S
  BY <1>1, Powers
<1>3. ASSUME NEW n \in 0 .. BitsPerByte - r - 1, n \in S PROVE n + 1 \in S
  <2>1. /\ r + n \in 0 .. BitsPerByte - 1 /\ r + (n + 1) = (r + n) + 1
        /\ ~ n > BitsPerByte - r
    BY <1>1
  <2>2. 2 ^ r <= 2 ^ (r + n)
    BY <1>3, <2>1
  <2>3. 2 ^ ((r + n) + 1) = 2 * 2 ^ (r + n) /\ 2 ^ (r + n) \in Nat /\ 2 ^ r \in Nat
    BY <2>1, Powers
  <2>. QED BY <2>1, <2>2, <2>3
<1>4. BitsPerByte - r \in Nat
  BY <1>1
<1>. HIDE DEF S
<1>5. 0 .. BitsPerByte - r \subseteq S
  BY <1>2, <1>3, <1>4, InductionUpTo
<1>6. j - r \in 0 .. BitsPerByte - r /\ r + (j - r) = j /\ ~ (j - r > BitsPerByte - r)
  BY <1>1
<1>7. j - r \in S
  BY <1>5, <1>6
<1>. QED
  BY <1>6, <1>7 DEF S

-----------------------------------------------------------------------------
(* Words *)

LEMMA BaseIsNat == Base \in Nat \ {0} /\ Byte \subseteq Nat /\ Word \subseteq Nat
BY Powers DEF Byte, Word

\* A word from its bytes, and its bytes from the word.
LEMMA WordOfBytes ==
    ASSUME NEW h \in Byte, NEW l \in Byte
    PROVE  /\ h * Base + l \in Word
           /\ (h * Base + l) \div Base = h
           /\ (h * Base + l) % Base = l
<1>1. ASSUME NEW b \in Nat \ {0}, NEW x \in 0 .. b - 1, NEW y \in 0 .. b - 1
      PROVE  /\ x * b + y \in 0 .. b * b - 1
             /\ (x * b + y) \div b = x /\ (x * b + y) % b = y
  OBVIOUS
<1>. QED
  BY <1>1, BaseIsNat DEF Byte, Word

LEMMA DivMod ==
    ASSUME NEW b \in Nat \ {0}, NEW x \in Nat
    PROVE  x \div b \in Nat /\ x % b \in 0 .. b - 1 /\ (x \div b) * b + (x % b) = x
<1>. DEFINE q == x \div b
            r == x % b
<1>1. r = x - b * q
  OBVIOUS
<1>2. q \in Nat /\ r \in 0 .. b - 1
  OBVIOUS
<1>. HIDE DEF q, r
<1>3. q * b + r = x
  BY <1>1, <1>2
<1>. QED
  BY <1>2, <1>3 DEF q, r

LEMMA BytesOfWord ==
    ASSUME NEW w \in Word
    PROVE  w \div Base \in Byte /\ w % Base \in Byte /\ (w \div Base) * Base + (w % Base) = w
<1>1. ASSUME NEW b \in Nat \ {0}, NEW x \in Nat, x < b * b PROVE x \div b < b
  <2>1. x \div b \in Nat /\ x % b \in 0 .. b - 1 /\ (x \div b) * b + (x % b) = x
    BY DivMod
  <2>2. CASE x \div b >= b
    <3>1. (x \div b) * b >= b * b
      BY <2>1, <2>2
    <3>. QED BY <1>1, <2>1, <3>1
  <2>. QED BY <2>1, <2>2
<1>2. w \in Nat /\ w < Base * Base
  BY BaseIsNat DEF Word
<1>3. /\ w \div Base \in Nat /\ w % Base \in 0 .. Base - 1
      /\ (w \div Base) * Base + (w % Base) = w
  BY <1>2, BaseIsNat, DivMod
<1>4. w \div Base < Base
  BY <1>1, <1>2, BaseIsNat
<1>. QED
  BY <1>3, <1>4, BaseIsNat DEF Byte

\* struct.unpack gives a word for every two bytes, and struct.pack two bytes for
\* every word.
LEMMA UnpackTyped ==
    ASSUME NEW d \in Seq(Byte)
    PROVE  /\ UnpackWords(d) \in Seq(Word) /\ Len(UnpackWords(d)) = Len(d) \div 2
           /\ \A i \in 1 .. Len(d) \div 2 :
                 /\ 2 * i - 1 \in 1 .. Len(d) /\ 2 * i \in 1 .. Len(d)
                 /\ UnpackWords(d)[i] = d[2 * i - 1] * Base + d[2 * i]
<1>1. Len(d) \in Nat /\ Len(d) \div 2 \in Nat
  BY LenProperties
<1>2. \A i \in 1 .. Len(d) \div 2 : 2 * i - 1 \in 1 .. Len(d) /\ 2 * i \in 1 .. Len(d)
  BY <1>1
<1>3. \A i \in 1 .. Len(d) : d[i] \in Byte
  BY ElementOfSeq
<1>4. \A i \in 1 .. Len(d) \div 2 : d[2 * i - 1] * Base + d[2 * i] \in Word
  BY <1>2, <1>3, WordOfBytes
<1>5. UnpackWords(d) \in [1 .. Len(d) \div 2 -> Word]
  BY <1>4 DEF UnpackWords
<1>6. UnpackWords(d) \in Seq(Word)
  BY <1>1, <1>5, SeqDef
<1>. QED
  BY <1>1, <1>2, <1>5, <1>6, LenProperties DEF UnpackWords

LEMMA PackTyped ==
    ASSUME NEW w \in Seq(Word)
    PROVE  /\ PackWords(w) \in Seq(Byte) /\ Len(PackWords(w)) = 2 * Len(w)
           /\ \A i \in 1 .. Len(w) :
                 /\ 2 * i - 1 \in 1 .. 2 * Len(w) /\ 2 * i \in 1 .. 2 * Len(w)
                 /\ PackWords(w)[2 * i - 1] = w[i] \div Base
                 /\ PackWords(w)[2 * i] = w[i] % Base
<1>1. Len(w) \in Nat
  BY LenProperties
<1>2. \A i \in 1 .. 2 * Len(w) : (i + 1) \div 2 \in 1 .. Len(w)
  BY <1>1
<1>3. \A i \in 1 .. Len(w) : w[i] \div Base \in Byte /\ w[i] % Base \in Byte
  BY ElementOfSeq, BytesOfWord
<1>4. PackWords(w) \in [1 .. 2 * Len(w) -> Byte]
  BY <1>2, <1>3 DEF PackWords
<1>5. PackWords(w) \in Seq(Byte)
  BY <1>1, <1>4, SeqDef
<1>6. ASSUME NEW i \in 1 .. Len(w)
      PROVE  /\ 2 * i - 1 \in 1 .. 2 * Len(w) /\ 2 * i \in 1 .. 2 * Len(w)
             /\ ((2 * i - 1) + 1) \div 2 = i /\ (2 * i + 1) \div 2 = i
             /\ (2 * i - 1) % 2 = 1 /\ (2 * i) % 2 # 1
  BY <1>1
<1>. QED
  BY <1>1, <1>4, <1>5, <1>6, LenProperties DEF PackWords

LEMMA UnpackPack ==
    ASSUME NEW w \in Seq(Word)
    PROVE  UnpackWords(PackWords(w)) = w
<1>. DEFINE p == PackWords(w)
<1>1. /\ p \in Seq(Byte) /\ Len(p) = 2 * Len(w) /\ Len(w) \in Nat
      /\ \A i \in 1 .. Len(w) : p[2 * i - 1] = w[i] \div Base /\ p[2 * i] = w[i] % Base
  BY PackTyped, LenProperties
<1>. HIDE DEF p
<1>2. Len(p) \div 2 = Len(w)
  BY <1>1
<1>3. /\ UnpackWords(p) \in Seq(Word) /\ Len(UnpackWords(p)) = Len(w)
      /\ \A i \in 1 .. Len(w) : UnpackWords(p)[i] = p[2 * i - 1] * Base + p[2 * i]
  BY <1>1, <1>2, UnpackTyped
<1>4. ASSUME NEW i \in 1 .. Len(w) PROVE UnpackWords(p)[i] = w[i]
  <2>1. w[i] \in Word
    BY ElementOfSeq
  <2>2. (w[i] \div Base) * Base + (w[i] % Base) = w[i]
    BY <2>1, BytesOfWord
  <2>. QED BY <1>1, <1>3, <2>2
<1>. QED
  BY <1>3, <1>4, SeqEqual DEF p

LEMMA PackUnpack ==
    ASSUME NEW d \in Seq(Byte), Len(d) % 2 = 0
    PROVE  PackWords(UnpackWords(d)) = d
<1>. DEFINE w == UnpackWords(d)
<1>1. /\ w \in Seq(Word) /\ Len(w) = Len(d) \div 2 /\ Len(d) \in Nat /\ Len(w) \in Nat
      /\ \A i \in 1 .. Len(w) :
            /\ 2 * i - 1 \in 1 .. Len(d) /\ 2 * i \in 1 .. Len(d)
            /\ w[i] = d[2 * i - 1] * Base + d[2 * i]
  BY UnpackTyped, LenProperties
<1>. HIDE DEF w
<1>2. 2 * Len(w) = Len(d)
  BY <1>1
<1>3. /\ PackWords(w) \in Seq(Byte) /\ Len(PackWords(w)) = Len(d)
      /\ \A i \in 1 .. Len(w) : /\ PackWords(w)[2 * i - 1] = w[i] \div Base
                                /\ PackWords(w)[2 * i] = w[i] % Base
  BY <1>1, <1>2, PackTyped
<1>4. ASSUME NEW i \in 1 .. Len(w)
      PROVE  PackWords(w)[2 * i - 1] = d[2 * i - 1] /\ PackWords(w)[2 * i] = d[2 * i]
  <2>1. d[2 * i - 1] \in Byte /\ d[2 * i] \in Byte
    BY <1>1, ElementOfSeq
  <2>. QED BY <1>1, <1>3, <2>1, WordOfBytes
<1>5. ASSUME NEW k \in 1 .. Len(d) PROVE PackWords(w)[k] = d[k]
  <2>1. CASE k % 2 = 1
    <3>0. k \in Nat /\ k <= 2 * Len(w) /\ Len(w) \in Nat /\ k >= 1
      BY <1>1, <1>2
    <3>1. (k + 1) \div 2 \in 1 .. Len(w) /\ k = 2 * ((k + 1) \div 2) - 1
      BY <2>1, <3>0
    <3>. QED BY <1>4, <3>1
  <2>2. CASE k % 2 = 0
    <3>1. k \div 2 \in 1 .. Len(w) /\ k = 2 * (k \div 2)
      BY <1>1, <1>2, <2>2
    <3>. QED BY <1>4, <3>1
  <2>. QED BY <2>1, <2>2
<1>. QED
  BY <1>3, <1>5, SeqEqual DEF w

-----------------------------------------------------------------------------
(* Bits *)

\* A quotient is known by what it leaves.
LEMMA DivUnique ==
    ASSUME NEW c \in Nat, NEW m \in Nat, NEW d \in Nat, d < m
    PROVE  (c * m + d) \div m = c /\ (c * m + d) % m = d
<1>. DEFINE x == c * m + d
            q == x \div m
            r == x % m
<1>1. x \in Nat /\ m \in Nat \ {0} /\ c * m \in Nat
  OBVIOUS
<1>2. q \in Nat /\ r \in 0 .. m - 1 /\ q * m + r = x
  BY <1>1, DivMod
<1>3. q * m + r = c * m + d
  BY <1>2
<1>. HIDE DEF x, q, r
<1>4. ASSUME NEW u \in Nat, NEW v \in Nat, NEW y \in 0 .. m - 1, NEW z \in 0 .. m - 1,
             u * m + y = v * m + z
      PROVE  u <= v
  <2>1. SUFFICES ASSUME u >= v + 1 PROVE FALSE
    OBVIOUS
  <2>2. u * m >= (v + 1) * m
    BY <2>1, <1>1
  <2>3. (v + 1) * m = v * m + m
    BY <1>1
  <2>. QED BY <1>4, <2>2, <2>3
<1>5. d \in 0 .. m - 1
  OBVIOUS
<1>6. q = c
  <2>1. q <= c
    BY <1>2, <1>3, <1>4, <1>5
  <2>2. c <= q
    BY <1>2, <1>3, <1>4, <1>5
  <2>. QED BY <1>2, <2>1, <2>2
<1>7. r = d
  BY <1>1, <1>2, <1>3, <1>6
<1>. QED
  BY <1>6, <1>7 DEF x, q, r

\* Half a number, and what is left: the bits of a number are its lowest one and
\* those of its half.
LEMMA HalfAndBit ==
    ASSUME NEW b \in Nat, NEW q \in Nat \ {0}
    PROVE  /\ b \div 2 \in Nat /\ b % 2 \in {0, 1} /\ b = 2 * (b \div 2) + (b % 2)
           /\ b \div q \in Nat /\ b \div (2 * q) = (b \div 2) \div q
<1>1. b \div 2 \in Nat /\ b % 2 \in {0, 1} /\ b = 2 * (b \div 2) + (b % 2)
  <2>1. b \div 2 \in Nat /\ b % 2 \in 0 .. 2 - 1 /\ (b \div 2) * 2 + (b % 2) = b
    <3>1. 2 \in Nat \ {0}
      OBVIOUS
    <3>. QED BY <3>1, DivMod
  <2>. DEFINE u == b \div 2
              v == b % 2
  <2>. HIDE DEF u, v
  <2>2. u \in Nat /\ v \in 0 .. 2 - 1 /\ u * 2 + v = b
    BY <2>1 DEF u, v
  <2>3. u \in Nat /\ v \in {0, 1} /\ b = 2 * u + v
    BY <2>2
  <2>. QED BY <2>3 DEF u, v
<1>. DEFINE h == b \div 2
            k == h \div q
            r == h % q
<1>2. b \div q \in Nat
  BY DivMod
<1>3. k \in Nat /\ r \in 0 .. q - 1 /\ k * q + r = h
  BY <1>1, DivMod
<1>4. h \in Nat /\ b \in {2 * h, 2 * h + 1}
  BY <1>1
<1>. HIDE DEF h, k, r
<1>. DEFINE d == b - 2 * (k * q)
<1>5. k * q \in Nat /\ k * (2 * q) = 2 * (k * q) /\ 2 * q \in Nat
  BY <1>3
<1>6. d \in Nat /\ d < 2 * q /\ k * (2 * q) + d = b
  BY <1>3, <1>4, <1>5
<1>. HIDE DEF d
<1>7. b \div (2 * q) = k
  BY <1>3, <1>5, <1>6, DivUnique
<1>. QED
  BY <1>1, <1>2, <1>7 DEF h, k

\* The bits of a number.
LEMMA Bits ==
    ASSUME NEW b \in Nat
    PROVE  /\ BitAt(b, 0) = b % 2
           /\ \A j \in 0 .. BitsPerByte - 1 :
                 BitAt(b, j) \in {0, 1} /\ BitAt(b, j + 1) = BitAt(b \div 2, j)
<1>1. ASSUME NEW j \in 0 .. BitsPerByte - 1
      PROVE  BitAt(b, j) \in {0, 1} /\ BitAt(b, j + 1) = BitAt(b \div 2, j)
  <2>1. 2 ^ j \in Nat \ {0} /\ 2 ^ (j + 1) = 2 * 2 ^ j
    BY Powers
  <2>2. b \div 2 ^ j \in Nat /\ b \div (2 * 2 ^ j) = (b \div 2) \div 2 ^ j
    BY <2>1, HalfAndBit
  <2>. QED BY <2>1, <2>2 DEF BitAt
<1>2. b \div 1 = b
  OBVIOUS
<1>. QED
  BY <1>1, <1>2, Powers DEF BitAt

\* A number below a power of two is known by its bits below that power.
LEMMA BitsDetermine ==
    ASSUME NEW n \in 0 .. BitsPerByte,
           NEW a \in 0 .. 2 ^ n - 1, NEW b \in 0 .. 2 ^ n - 1,
           \A j \in 0 .. n - 1 : BitAt(a, j) = BitAt(b, j)
    PROVE  a = b
<1>. DEFINE Same(k, x, y) == \A j \in 0 .. k - 1 : BitAt(x, j) = BitAt(y, j)
            S == {k \in Nat : k <= BitsPerByte =>
                     \A x, y \in 0 .. 2 ^ k - 1 : Same(k, x, y) => x = y}
<1>1. 0 \in S
  BY Powers
<1>2. ASSUME NEW k \in 0 .. BitsPerByte - 1, k \in S PROVE k + 1 \in S
  <2>1. SUFFICES ASSUME NEW x \in 0 .. 2 ^ (k + 1) - 1, NEW y \in 0 .. 2 ^ (k + 1) - 1,
                        Same(k + 1, x, y)
                 PROVE  x = y
    BY Powers
  <2>2. 2 ^ k \in Nat \ {0} /\ 2 ^ (k + 1) = 2 * 2 ^ k /\ BitsPerByte \in Nat
    BY Powers
  <2>3. \A u \in 0 .. 2 ^ (k + 1) - 1 : u \in Nat /\ u \div 2 \in 0 .. 2 ^ k - 1
    BY <2>2
  <2>4. \A j \in 0 .. k - 1 : BitAt(x \div 2, j) = BitAt(y \div 2, j)
    <3>1. ASSUME NEW j \in 0 .. k - 1 PROVE BitAt(x \div 2, j) = BitAt(y \div 2, j)
      <4>1. j + 1 \in 0 .. (k + 1) - 1 /\ j \in 0 .. BitsPerByte - 1
        BY <2>2
      <4>2. BitAt(x, j + 1) = BitAt(y, j + 1)
        BY <2>1, <4>1
      <4>. QED BY <2>3, <4>1, <4>2, Bits
    <3>. QED BY <3>1
  <2>5. x \div 2 = y \div 2
    <3>1. \A u, v \in 0 .. 2 ^ k - 1 : Same(k, u, v) => u = v
      BY <1>2, <2>2
    <3>. QED BY <2>3, <2>4, <3>1
  <2>6. x % 2 = y % 2
    <3>1. 0 \in 0 .. (k + 1) - 1
      BY <2>2
    <3>2. BitAt(x, 0) = BitAt(y, 0)
      BY <2>1, <3>1
    <3>. QED BY <2>3, <3>2, Bits
  <2>7. x = 2 * (x \div 2) + (x % 2) /\ y = 2 * (y \div 2) + (y % 2)
    <3>1. 1 \in Nat \ {0}
      OBVIOUS
    <3>. QED BY <2>3, <3>1, HalfAndBit
  <2>. QED BY <2>5, <2>6, <2>7
<1>3. BitsPerByte \in Nat
  BY Powers
<1>. HIDE DEF S
<1>4. n \in S
  BY <1>1, <1>2, <1>3, InductionUpTo
<1>. QED
  BY <1>3, <1>4 DEF S

\* Whatever bits are wanted, there is a number that has them.
LEMMA BitsExist ==
    ASSUME NEW n \in 0 .. BitsPerByte, NEW f \in [0 .. n - 1 -> {0, 1}]
    PROVE  \E b \in 0 .. 2 ^ n - 1 : \A j \in 0 .. n - 1 : BitAt(b, j) = f[j]
<1>. DEFINE Has(k, g, x) == \A j \in 0 .. k - 1 : BitAt(x, j) = g[j]
            S == {k \in Nat : k <= BitsPerByte =>
                     \A g \in [0 .. k - 1 -> {0, 1}] : \E x \in 0 .. 2 ^ k - 1 : Has(k, g, x)}
<1>1. 0 \in S
  <2>1. 0 \in 0 .. 2 ^ 0 - 1 /\ \A g : Has(0, g, 0)
    BY Powers
  <2>. QED BY <2>1
<1>2. ASSUME NEW k \in 0 .. BitsPerByte - 1, k \in S PROVE k + 1 \in S
  <2>1. SUFFICES ASSUME NEW g \in [0 .. (k + 1) - 1 -> {0, 1}]
                 PROVE  \E x \in 0 .. 2 ^ (k + 1) - 1 : Has(k + 1, g, x)
    BY Powers
  <2>2. 2 ^ k \in Nat \ {0} /\ 2 ^ (k + 1) = 2 * 2 ^ k /\ BitsPerByte \in Nat
    BY Powers
  <2>. DEFINE h == [j \in 0 .. k - 1 |-> g[j + 1]]
  <2>3. h \in [0 .. k - 1 -> {0, 1}]
    BY <2>2
  <2>4. \A v \in [0 .. k - 1 -> {0, 1}] : \E y \in 0 .. 2 ^ k - 1 : Has(k, v, y)
    BY <1>2, <2>2
  <2>5. PICK y \in 0 .. 2 ^ k - 1 : \A j \in 0 .. k - 1 : BitAt(y, j) = g[j + 1]
    <3>. HIDE DEF h
    <3>1. PICK y \in 0 .. 2 ^ k - 1 : Has(k, h, y)
      BY <2>3, <2>4
    <3>2. \A j \in 0 .. k - 1 : h[j] = g[j + 1]
      BY DEF h
    <3>. QED BY <3>1, <3>2
  <2>6. g[0] \in {0, 1}
    BY <2>2
  <2>. DEFINE x == 2 * y + g[0]
  <2>7. x \in Nat /\ x \in 0 .. 2 ^ (k + 1) - 1 /\ x \div 2 = y /\ x % 2 = g[0]
    BY <2>2, <2>6
  <2>. HIDE DEF x, h
  <2>8. ASSUME NEW j \in 0 .. (k + 1) - 1 PROVE BitAt(x, j) = g[j]
    <3>1. CASE j = 0
      BY <2>7, <3>1, Bits
    <3>2. CASE j # 0
      <4>1. /\ j - 1 \in 0 .. k - 1 /\ j - 1 \in 0 .. BitsPerByte - 1
            /\ (j - 1) + 1 = j
        BY <2>2, <3>2
      <4>2. BitAt(x, (j - 1) + 1) = BitAt(y, j - 1)
        BY <2>7, <4>1, Bits
      <4>3. BitAt(y, j - 1) = g[(j - 1) + 1]
        BY <2>5, <4>1
      <4>. QED BY <4>1, <4>2, <4>3
    <3>. QED BY <3>1, <3>2
  <2>. QED BY <2>7, <2>8
<1>3. BitsPerByte \in Nat
  BY Powers
<1>. HIDE DEF S
<1>4. n \in S
  BY <1>1, <1>2, <1>3, InductionUpTo
<1>. QED
  BY <1>3, <1>4 DEF S

\* A byte whose bits are zero from one on is smaller than the power of that bit.
LEMMA HighBits ==
    ASSUME NEW b \in Byte, NEW r \in 0 .. BitsPerByte
    PROVE  (\A j \in r .. BitsPerByte - 1 : BitAt(b, j) = 0) <=> b < 2 ^ r
<1>0. /\ BitsPerByte \in Nat /\ Base = 2 ^ BitsPerByte /\ 2 ^ r \in Nat /\ b \in Nat
      /\ 2 ^ r <= 2 ^ BitsPerByte /\ 2 ^ BitsPerByte \in Nat
  BY Powers, PowersGrow DEF Byte, Base
<1>1. ASSUME NEW c \in Nat, c < 2 ^ r, NEW j \in r .. BitsPerByte - 1
      PROVE  BitAt(c, j) = 0
  <2>1. 2 ^ r <= 2 ^ j /\ 2 ^ j \in Nat \ {0}
    BY <1>0, Powers, PowersGrow
  <2>2. \A m \in Nat \ {0} : c < m => c \div m = 0
    BY <1>1
  <2>3. c \div 2 ^ j = 0
    BY <1>0, <1>1, <2>1, <2>2
  <2>4. 0 % 2 = 0
    OBVIOUS
  <2>. QED BY <2>3, <2>4, Zenon DEF BitAt
<1>2. ASSUME \A j \in r .. BitsPerByte - 1 : BitAt(b, j) = 0
      PROVE  b < 2 ^ r
  <2>. DEFINE f == [j \in 0 .. r - 1 |-> BitAt(b, j)]
  <2>1. f \in [0 .. r - 1 -> {0, 1}]
    BY <1>0, Bits
  <2>2. PICK c \in 0 .. 2 ^ r - 1 : \A j \in 0 .. r - 1 : BitAt(c, j) = f[j]
    <3>. HIDE DEF f
    <3>. QED BY <2>1, BitsExist
  <2>3. c \in Nat /\ c < 2 ^ r /\ c \in 0 .. 2 ^ BitsPerByte - 1
    BY <1>0
  <2>4. ASSUME NEW j \in 0 .. BitsPerByte - 1 PROVE BitAt(b, j) = BitAt(c, j)
    <3>1. CASE j < r
      BY <2>2, <3>1
    <3>2. CASE j >= r
      BY <1>0, <1>1, <1>2, <2>3, <3>2
    <3>. QED BY <1>0, <3>1, <3>2
  <2>5. b \in 0 .. 2 ^ BitsPerByte - 1 /\ BitsPerByte \in 0 .. BitsPerByte
    BY <1>0 DEF Byte
  <2>6. b = c
    BY <2>3, <2>4, <2>5, BitsDetermine
  <2>. QED BY <2>3, <2>6
<1>. QED
  BY <1>0, <1>1, <1>2

\* Where coil i lies, and which coils lie in byte k.
LEMMA WhereCoilsLie ==
    /\ \A i \in Nat \ {0} :
          /\ ByteOf(i) \in Nat \ {0} /\ BitOf(i) \in 0 .. BitsPerByte - 1
          /\ (ByteOf(i) - 1) * BitsPerByte + BitOf(i) + 1 = i
    /\ \A k \in Nat \ {0}, j \in 0 .. BitsPerByte - 1 :
          /\ (k - 1) * BitsPerByte + j + 1 \in Nat \ {0}
          /\ ByteOf((k - 1) * BitsPerByte + j + 1) = k
          /\ BitOf((k - 1) * BitsPerByte + j + 1) = j
<1>0. BitsPerByte \in Nat \ {0}
  BY Powers
<1>1. ASSUME NEW i \in Nat \ {0}
      PROVE  /\ ByteOf(i) \in Nat \ {0} /\ BitOf(i) \in 0 .. BitsPerByte - 1
             /\ (ByteOf(i) - 1) * BitsPerByte + BitOf(i) + 1 = i
  <2>. DEFINE u == (i - 1) \div BitsPerByte
              v == (i - 1) % BitsPerByte
  <2>1. u \in Nat /\ v \in 0 .. BitsPerByte - 1 /\ u * BitsPerByte + v = i - 1
    <3>1. i - 1 \in Nat
      OBVIOUS
    <3>. QED BY <1>0, <3>1, DivMod
  <2>2. ByteOf(i) = u + 1 /\ BitOf(i) = v
    BY DEF ByteOf, BitOf
  <2>. HIDE DEF u, v
  <2>3. (u + 1) - 1 = u
    BY <2>1
  <2>4. u * BitsPerByte \in Nat
    BY <1>0, <2>1
  <2>. QED BY <1>0, <2>1, <2>2, <2>3, <2>4
<1>2. ASSUME NEW k \in Nat \ {0}, NEW j \in 0 .. BitsPerByte - 1
      PROVE  /\ (k - 1) * BitsPerByte + j + 1 \in Nat \ {0}
             /\ ByteOf((k - 1) * BitsPerByte + j + 1) = k
             /\ BitOf((k - 1) * BitsPerByte + j + 1) = j
  <2>. DEFINE i == (k - 1) * BitsPerByte + j + 1
  <2>1. (k - 1) * BitsPerByte \in Nat
    BY <1>0
  <2>2. i - 1 = (k - 1) * BitsPerByte + j /\ i \in Nat \ {0}
    BY <1>0, <2>1
  <2>. HIDE DEF i
  <2>3. ((k - 1) * BitsPerByte + j) \div BitsPerByte = k - 1
        /\ ((k - 1) * BitsPerByte + j) % BitsPerByte = j
    BY <1>0, DivUnique
  <2>4. ByteOf(i) = k /\ BitOf(i) = j
    BY <2>2, <2>3 DEF ByteOf, BitOf
  <2>. QED BY <2>2, <2>4 DEF i
<1>. QED
  BY <1>1, <1>2

\* A coil lies in the first n bytes when it is one of as many as these have bits.
LEMMA PlaceBound ==
    ASSUME NEW n \in Nat, NEW i \in Nat \ {0}
    PROVE  ByteOf(i) <= n <=> i <= n * BitsPerByte
<1>. DEFINE u == ByteOf(i)
            v == BitOf(i)
            w == BitsPerByte
<1>1. /\ w \in Nat \ {0} /\ u \in Nat \ {0} /\ v \in 0 .. w - 1 /\ (u - 1) * w + v + 1 = i
  BY Powers, WhereCoilsLie
<1>. HIDE DEF u, v, w
<1>2. ASSUME u <= n PROVE i <= n * w
  <2>1. (u - 1) * w + w <= n * w
    <3>1. u * w <= n * w
      BY <1>1, <1>2
    <3>2. (u - 1) * w + w = u * w
      BY <1>1
    <3>. QED BY <3>1, <3>2
  <2>2. (u - 1) * w \in Nat /\ n * w \in Nat
    BY <1>1
  <2>. QED BY <1>1, <2>1, <2>2
<1>3. ASSUME i <= n * w PROVE u <= n
  <2>1. SUFFICES ASSUME u - 1 >= n PROVE FALSE
    BY <1>1
  <2>2. (u - 1) * w >= n * w
    BY <1>1, <2>1
  <2>3. (u - 1) * w \in Nat /\ n * w \in Nat
    BY <1>1
  <2>. QED BY <1>1, <1>3, <2>2, <2>3
<1>. QED
  BY <1>2, <1>3 DEF u, w

\* How many bytes n coils take.
BytesFor(n) == (n + BitsPerByte - 1) \div BitsPerByte

LEMMA BytesForIs ==
    ASSUME NEW n \in Nat
    PROVE  /\ BytesFor(n) \in Nat
           /\ n \in (BytesFor(n) - 1) * BitsPerByte + 1 .. BytesFor(n) * BitsPerByte
           /\ \A l \in Nat : n <= l * BitsPerByte => BytesFor(n) <= l
           /\ \A l \in Nat : n \in (l - 1) * BitsPerByte + 1 .. l * BitsPerByte => BytesFor(n) = l
<1>. DEFINE w == BitsPerByte
            u == BytesFor(n)
            v == (n + w - 1) % w
<1>1. w \in Nat \ {0}
  BY Powers
<1>2. n + w - 1 \in Nat
  BY <1>1
<1>3. u \in Nat /\ v \in 0 .. w - 1 /\ u * w + v = n + w - 1
  BY <1>1, <1>2, DivMod DEF BytesFor
<1>. HIDE DEF w, u, v
<1>4. u * w \in Nat /\ (u - 1) * w = u * w - w /\ (u - 1) * w \in Int
  BY <1>1, <1>3
<1>5. n \in (u - 1) * w + 1 .. u * w
  BY <1>1, <1>3, <1>4
<1>6. ASSUME NEW l \in Nat, n <= l * w PROVE u <= l
  <2>1. SUFFICES ASSUME u - 1 >= l PROVE FALSE
    BY <1>3
  <2>2. (u - 1) * w >= l * w
    BY <1>1, <1>3, <2>1
  <2>3. l * w \in Nat
    BY <1>1
  <2>. QED BY <1>4, <1>5, <1>6, <2>2, <2>3
<1>7. ASSUME NEW l \in Nat, n \in (l - 1) * w + 1 .. l * w PROVE u = l
  <2>1. l * w \in Nat /\ (l - 1) * w \in Int
    BY <1>1
  <2>2. u <= l
    BY <1>6, <1>7, <2>1
  <2>3. l <= u
    <3>1. SUFFICES ASSUME l - 1 >= u PROVE FALSE
      BY <1>3
    <3>2. (l - 1) * w >= u * w
      BY <1>1, <1>3, <3>1
    <3>. QED BY <1>4, <1>5, <1>7, <2>1, <3>2
  <2>. QED BY <1>3, <2>2, <2>3
<1>. QED
  BY <1>3, <1>5, <1>6, <1>7 DEF u, w

-----------------------------------------------------------------------------
(* Coils *)

Coil == {0, 1}

\* The bytes of coils: as many as they need, each with its coils as bits.
LEMMA PackCoilsIs ==
    ASSUME NEW c \in Seq(Coil)
    PROVE  /\ PackCoils(c) \in Seq(Byte) /\ Len(PackCoils(c)) = BytesFor(Len(c))
           /\ \A k \in 1 .. BytesFor(Len(c)), j \in 0 .. BitsPerByte - 1 :
                 BitAt(PackCoils(c)[k], j) = CoilAt(c, (k - 1) * BitsPerByte + j + 1)
<1>. DEFINE Fits(b, k) == \A j \in 0 .. BitsPerByte - 1 :
                             BitAt(b, j) = CoilAt(c, (k - 1) * BitsPerByte + j + 1)
            n == BytesFor(Len(c))
<1>1. Len(c) \in Nat /\ DOMAIN c = 1 .. Len(c) /\ n \in Nat
  BY LenProperties, BytesForIs
<1>2. \A i \in Int : CoilAt(c, i) \in {0, 1}
  BY <1>1, ElementOfSeq DEF CoilAt, Coil
<1>3. ASSUME NEW k \in 1 .. n PROVE \E b \in Byte : Fits(b, k)
  <2>. DEFINE f == [j \in 0 .. BitsPerByte - 1 |-> CoilAt(c, (k - 1) * BitsPerByte + j + 1)]
  <2>1. BitsPerByte \in Nat /\ BitsPerByte \in 0 .. BitsPerByte /\ (k - 1) * BitsPerByte \in Int
    BY <1>1, Powers
  <2>2. f \in [0 .. BitsPerByte - 1 -> {0, 1}]
    BY <1>2, <2>1
  <2>3. \E b \in 0 .. 2 ^ BitsPerByte - 1 : \A j \in 0 .. BitsPerByte - 1 : BitAt(b, j) = f[j]
    <3>. HIDE DEF f
    <3>. QED BY <2>1, <2>2, BitsExist
  <2>. QED BY <2>3 DEF Byte, Base
<1>4. PackCoils(c) = [k \in 1 .. n |-> CHOOSE b \in Byte : Fits(b, k)]
  BY DEF PackCoils, BytesFor
<1>. HIDE DEF Fits, n
<1>5. \A k \in 1 .. n : PackCoils(c)[k] \in Byte /\ Fits(PackCoils(c)[k], k)
  BY <1>3, <1>4
<1>6. PackCoils(c) \in [1 .. n -> Byte]
  BY <1>4, <1>5
<1>7. PackCoils(c) \in Seq(Byte)
  BY <1>1, <1>6, SeqDef
<1>8. Len(PackCoils(c)) = n
  BY <1>1, <1>6, <1>7, LenProperties
<1>. QED
  BY <1>5, <1>7, <1>8 DEF Fits, n

\* The coils of bytes: as many as wanted, if there are so many bits.
LEMMA UnpackCoilsIs ==
    ASSUME NEW d \in Seq(Byte), NEW q \in Nat
    PROVE  LET n == IF q <= Len(d) * BitsPerByte THEN q ELSE Len(d) * BitsPerByte
           IN  /\ UnpackCoils(d, q) \in Seq(Coil) /\ Len(UnpackCoils(d, q)) = n /\ n \in Nat
               /\ \A i \in 1 .. n : /\ ByteOf(i) \in 1 .. Len(d)
                                    /\ UnpackCoils(d, q)[i] = BitAt(d[ByteOf(i)], BitOf(i))
<1>. DEFINE n == IF q <= Len(d) * BitsPerByte THEN q ELSE Len(d) * BitsPerByte
<1>1. /\ Len(d) \in Nat /\ BitsPerByte \in Nat /\ Len(d) * BitsPerByte \in Nat
      /\ \A i \in 1 .. Len(d) : d[i] \in Byte /\ d[i] \in Nat
  BY LenProperties, ElementOfSeq, Powers DEF Byte
<1>2. n \in Nat
  BY <1>1
<1>3. {j \in 1 .. q : ByteOf(j) <= Len(d)} = 1 .. n
  BY <1>1, PlaceBound
<1>4. \A i \in 1 .. n : ByteOf(i) \in 1 .. Len(d) /\ BitOf(i) \in 0 .. BitsPerByte - 1
  <2>1. ASSUME NEW i \in 1 .. n
        PROVE  ByteOf(i) \in 1 .. Len(d) /\ BitOf(i) \in 0 .. BitsPerByte - 1
    <3>1. i \in Nat \ {0} /\ ByteOf(i) <= Len(d)
      <4>. HIDE DEF n
      <4>. QED BY <1>2, <1>3
    <3>2. ByteOf(i) \in Nat \ {0} /\ BitOf(i) \in 0 .. BitsPerByte - 1
      BY <3>1, WhereCoilsLie
    <3>. QED BY <1>1, <3>1, <3>2
  <2>. QED BY <2>1
<1>5. UnpackCoils(d, q) = [i \in 1 .. n |-> BitAt(d[ByteOf(i)], BitOf(i))]
  BY <1>3 DEF UnpackCoils
<1>. HIDE DEF n
<1>6. \A i \in 1 .. n : BitAt(d[ByteOf(i)], BitOf(i)) \in Coil
  BY <1>1, <1>4, Bits DEF Coil
<1>7. UnpackCoils(d, q) \in [1 .. n -> Coil]
  BY <1>5, <1>6
<1>8. UnpackCoils(d, q) \in Seq(Coil)
  BY <1>2, <1>7, SeqDef
<1>9. Len(UnpackCoils(d, q)) = n
  BY <1>2, <1>7, <1>8, LenProperties
<1>. QED
  BY <1>2, <1>4, <1>5, <1>8, <1>9 DEF n

\* What was packed is unpacked again, and the bits after the last coil are zero.
LEMMA CoilsReturn ==
    ASSUME NEW c \in Seq(Coil)
    PROVE  LET n == Len(c)
               d == PackCoils(c)
               l == Len(d)
           IN  /\ UnpackCoils(d, n) = c
               /\ n \in (l - 1) * BitsPerByte + 1 .. l * BitsPerByte
               /\ l > 0 => d[l] < 2 ^ (n - (l - 1) * BitsPerByte)
<1>. DEFINE n == Len(c)
            d == PackCoils(c)
            l == Len(d)
            w == BitsPerByte
<1>1. /\ n \in Nat /\ DOMAIN c = 1 .. n /\ w \in Nat \ {0}
      /\ d \in Seq(Byte) /\ l = BytesFor(n) /\ l \in Nat
      /\ n \in (l - 1) * w + 1 .. l * w
  BY LenProperties, Powers, PackCoilsIs, BytesForIs
<1>2. \A k \in 1 .. l, j \in 0 .. w - 1 : BitAt(d[k], j) = CoilAt(c, (k - 1) * w + j + 1)
  BY <1>1, PackCoilsIs
<1>. HIDE DEF d
<1>3. UnpackCoils(d, n) = c
  <2>1. /\ l * w \in Nat /\ (l - 1) * w \in Int /\ n <= l * w
    BY <1>1
  <2>2. /\ UnpackCoils(d, n) \in Seq(Coil) /\ Len(UnpackCoils(d, n)) = n
        /\ \A i \in 1 .. n : /\ ByteOf(i) \in 1 .. l
                             /\ UnpackCoils(d, n)[i] = BitAt(d[ByteOf(i)], BitOf(i))
    BY <1>1, <2>1, UnpackCoilsIs
  <2>3. ASSUME NEW i \in 1 .. n PROVE UnpackCoils(d, n)[i] = c[i]
    <3>1. BitOf(i) \in 0 .. w - 1 /\ (ByteOf(i) - 1) * w + BitOf(i) + 1 = i /\ i \in DOMAIN c
      <4>1. i \in Nat \ {0}
        BY <1>1
      <4>. QED BY <1>1, <4>1, WhereCoilsLie
    <3>2. BitAt(d[ByteOf(i)], BitOf(i)) = CoilAt(c, i)
      BY <1>2, <2>2, <3>1
    <3>. QED BY <2>2, <3>1, <3>2 DEF CoilAt
  <2>. QED BY <2>2, <2>3, SeqEqual
<1>4. ASSUME l > 0 PROVE d[l] < 2 ^ (n - (l - 1) * w)
  <2>. DEFINE r == n - (l - 1) * w
  <2>1. (l - 1) * w \in Nat /\ l * w = (l - 1) * w + w
    BY <1>1, <1>4
  <2>2. r \in 0 .. w /\ l \in 1 .. l
    BY <1>1, <1>4, <2>1
  <2>3. d[l] \in Byte
    BY <1>1, <2>2, ElementOfSeq
  <2>4. ASSUME NEW j \in r .. w - 1 PROVE BitAt(d[l], j) = 0
    <3>. DEFINE m == (l - 1) * w
    <3>1. m \in Nat /\ j \in n - m .. w - 1 /\ n - m \in 0 .. w /\ n \in Nat
      BY <1>1, <2>1, <2>2
    <3>. HIDE DEF m
    <3>2. j \in 0 .. w - 1 /\ m + j + 1 > n
      BY <1>1, <3>1
    <3>3. j \in 0 .. w - 1 /\ m + j + 1 \notin DOMAIN c
      BY <1>1, <3>1, <3>2
    <3>. QED BY <1>2, <2>2, <3>3 DEF CoilAt, m
  <2>. HIDE DEF r
  <2>5. d[l] < 2 ^ r
    BY <2>2, <2>3, <2>4, HighBits
  <2>. QED BY <2>5 DEF r
<1>. QED
  BY <1>1, <1>3, <1>4 DEF d

\* What was unpacked is packed again, if the bits after the last coil are zero.
LEMMA BytesReturn ==
    ASSUME NEW d \in Seq(Byte), NEW q \in Nat,
           q \in (Len(d) - 1) * BitsPerByte + 1 .. Len(d) * BitsPerByte,
           Len(d) > 0 => d[Len(d)] < 2 ^ (q - (Len(d) - 1) * BitsPerByte)
    PROVE  Len(UnpackCoils(d, q)) = q /\ PackCoils(UnpackCoils(d, q)) = d
<1>. DEFINE l == Len(d)
            w == BitsPerByte
            c == UnpackCoils(d, q)
            e == PackCoils(c)
<1>1. /\ l \in Nat /\ DOMAIN d = 1 .. l /\ w \in Nat \ {0} /\ BytesFor(q) = l
      /\ l * w \in Nat /\ (l - 1) * w \in Int /\ q <= l * w
  BY LenProperties, Powers, BytesForIs
<1>2. /\ c \in Seq(Coil) /\ Len(c) = q /\ DOMAIN c = 1 .. q
      /\ \A i \in 1 .. q : c[i] = BitAt(d[ByteOf(i)], BitOf(i))
  BY <1>1, UnpackCoilsIs, LenProperties
<1>. HIDE DEF c
<1>3. /\ e \in Seq(Byte) /\ Len(e) = l
      /\ \A k \in 1 .. l, j \in 0 .. w - 1 : BitAt(e[k], j) = CoilAt(c, (k - 1) * w + j + 1)
  BY <1>1, <1>2, PackCoilsIs
<1>. HIDE DEF e
<1>4. ASSUME NEW k \in 1 .. l PROVE e[k] = d[k]
  <2>1. d[k] \in Byte /\ e[k] \in Byte
    BY <1>1, <1>3, ElementOfSeq
  <2>2. ASSUME NEW j \in 0 .. w - 1 PROVE BitAt(e[k], j) = BitAt(d[k], j)
    <3>. DEFINE i == (k - 1) * w + j + 1
    <3>1. i \in Nat \ {0} /\ ByteOf(i) = k /\ BitOf(i) = j
      <4>1. k \in Nat \ {0}
        BY <1>1
      <4>. QED BY <4>1, WhereCoilsLie
    <3>2. BitAt(e[k], j) = CoilAt(c, i)
      BY <1>3
    <3>3. CASE i <= q
      <4>1. i \in 1 .. q
        BY <3>1, <3>3
      <4>. HIDE DEF i
      <4>. QED BY <1>2, <3>1, <3>2, <4>1 DEF CoilAt
    <3>4. CASE i > q
      <4>1. k = l
        <5>1. SUFFICES ASSUME k <= l - 1 PROVE FALSE
          <6>. HIDE DEF l
          <6>. QED BY <1>1
        <5>2. k * w <= (l - 1) * w /\ k * w = (k - 1) * w + w /\ (k - 1) * w \in Int
          BY <1>1, <5>1
        <5>. QED BY <1>1, <3>4, <5>2
      <4>. DEFINE r == q - (l - 1) * w
      <4>2. l * w = (l - 1) * w + w
        BY <1>1
      <4>3. r \in 0 .. w /\ j \in r .. w - 1
        BY <1>1, <3>4, <4>1, <4>2
      <4>4. d[k] < 2 ^ r
        BY <1>1, <4>1
      <4>. HIDE DEF r
      <4>5. BitAt(d[k], j) = 0
        BY <2>1, <4>3, <4>4, HighBits
      <4>6. i \notin DOMAIN c
        BY <1>2, <3>4
      <4>. HIDE DEF i
      <4>. QED BY <3>2, <4>5, <4>6 DEF CoilAt
    <3>5. i \in Nat /\ q \in Nat
      BY <3>1
    <3>. QED BY <3>3, <3>4, <3>5
  <2>3. /\ d[k] \in 0 .. 2 ^ w - 1 /\ e[k] \in 0 .. 2 ^ w - 1 /\ w \in 0 .. w
    BY <1>1, <2>1 DEF Byte, Base
  <2>. QED BY <2>2, <2>3, BitsDetermine
<1>5. e = d
  BY <1>3, <1>4, SeqEqual
<1>. QED
  BY <1>2, <1>5 DEF c, e

-----------------------------------------------------------------------------
(* Slices and frames *)

LEMMA SliceIs ==
    ASSUME NEW S, NEW p \in Seq(S), NEW first \in 1 .. Len(p) + 1, NEW size \in Nat
    PROVE  /\ Slice(p, first, size) \in Seq(S)
           /\ Len(Slice(p, first, size)) =
                 IF first + size - 1 <= Len(p) THEN size ELSE Len(p) - first + 1
           /\ \A i \in 1 .. Len(Slice(p, first, size)) :
                 /\ first + i - 1 \in 1 .. Len(p)
                 /\ Slice(p, first, size)[i] = p[first + i - 1]
<1>. DEFINE last == Min({first + size - 1, Len(p)})
<1>1. Len(p) \in Nat /\ \A i \in 1 .. Len(p) : p[i] \in S
  BY LenProperties, ElementOfSeq
<1>2. last = IF first + size - 1 <= Len(p) THEN first + size - 1 ELSE Len(p)
  <2>1. ASSUME NEW a \in Int, NEW b \in Int
        PROVE  Min({a, b}) = IF a <= b THEN a ELSE b
    BY DEF Min
  <2>. QED BY <1>1, <2>1
<1>. HIDE DEF last
<1>3. last \in Int /\ last <= Len(p) /\ first - 1 <= last
  BY <1>1, <1>2
<1>4. \A i \in first .. last : p[i] \in S
  BY <1>1, <1>3
<1>5. Slice(p, first, size) = SubSeq(p, first, last)
  BY DEF Slice, last
<1>6. first \in Int
  BY <1>1
<1>7. /\ SubSeq(p, first, last) \in Seq(S)
      /\ Len(SubSeq(p, first, last)) = IF first <= last THEN last - first + 1 ELSE 0
      /\ \A i \in 1 .. last - first + 1 : SubSeq(p, first, last)[i] = p[first + i - 1]
  BY <1>3, <1>4, <1>6, SubSeqProperties
<1>. QED
  BY <1>1, <1>2, <1>3, <1>5, <1>7

\* What stands behind a header.
LEMMA SliceOfRest ==
    ASSUME NEW S, NEW h \in Seq(S), NEW d \in Seq(S)
    PROVE  /\ Slice(h \o d, Len(h) + 1, Len(d)) = d
           /\ h \o d \in Seq(S) /\ Len(h \o d) = Len(h) + Len(d)
           /\ \A i \in 1 .. Len(h) : (h \o d)[i] = h[i]
           /\ \A i \in 1 .. Len(d) : (h \o d)[Len(h) + i] = d[i]
<1>. DEFINE p == h \o d
<1>1. /\ Len(h) \in Nat /\ Len(d) \in Nat
      /\ p \in Seq(S) /\ Len(p) = Len(h) + Len(d)
      /\ \A i \in 1 .. Len(h) + Len(d) : p[i] = IF i <= Len(h) THEN h[i] ELSE d[i - Len(h)]
  BY LenProperties, ConcatProperties
<1>. HIDE DEF p
<1>2. /\ \A i \in 1 .. Len(h) : p[i] = h[i]
      /\ \A i \in 1 .. Len(d) : p[Len(h) + i] = d[i]
  <2>1. ASSUME NEW i \in 1 .. Len(d) PROVE p[Len(h) + i] = d[i]
    <3>1. Len(h) + i \in 1 .. Len(h) + Len(d) /\ ~ Len(h) + i <= Len(h) /\ Len(h) + i - Len(h) = i
      BY <1>1
    <3>. QED BY <1>1, <3>1
  <2>2. ASSUME NEW i \in 1 .. Len(h) PROVE p[i] = h[i]
    <3>1. i \in 1 .. Len(h) + Len(d) /\ i <= Len(h)
      BY <1>1
    <3>. QED BY <1>1, <3>1
  <2>. QED BY <2>1, <2>2
<1>3. /\ Slice(p, Len(h) + 1, Len(d)) \in Seq(S)
      /\ Len(Slice(p, Len(h) + 1, Len(d))) = Len(d)
      /\ \A i \in 1 .. Len(d) : Slice(p, Len(h) + 1, Len(d))[i] = p[Len(h) + i]
  <2>1. Len(h) + 1 \in 1 .. Len(p) + 1 /\ (Len(h) + 1) + Len(d) - 1 <= Len(p)
    BY <1>1
  <2>2. /\ Slice(p, Len(h) + 1, Len(d)) \in Seq(S)
        /\ Len(Slice(p, Len(h) + 1, Len(d))) = Len(d)
        /\ \A i \in 1 .. Len(d) : Slice(p, Len(h) + 1, Len(d))[i] = p[Len(h) + 1 + i - 1]
    BY <1>1, <2>1, SliceIs
  <2>3. \A i \in 1 .. Len(d) : Len(h) + 1 + i - 1 = Len(h) + i
    BY <1>1
  <2>. QED BY <2>2, <2>3
<1>4. Slice(p, Len(h) + 1, Len(d)) = d
  BY <1>2, <1>3, SeqEqual
<1>. QED
  BY <1>1, <1>2, <1>4 DEF p

\* An ADU is a unit id, a function code and a payload.
Framed(unit, fc, p, adu) ==
    /\ Len(adu) = Len(p) + 2 /\ Len(adu) >= 2 /\ Len(p) \in Nat
    /\ adu[1] = unit /\ adu[2] = fc
    /\ \A i \in 3 .. Len(adu) : adu[i] \in Byte
    /\ SubSeq(adu, 3, Len(adu)) = p
    /\ Tail(adu) = <<fc>> \o p

LEMMA FrameParts ==
    ASSUME NEW unit, NEW fc, NEW p \in Seq(Byte)
    PROVE  Framed(unit, fc, p, <<unit, fc>> \o p)
<1>. DEFINE S == Byte \cup {unit, fc}
            u == <<unit, fc>>
            adu == <<unit, fc>> \o p
<1>0. adu = u \o p
  OBVIOUS
<1>1. u \in Seq(S) /\ Len(u) = 2 /\ u[1] = unit /\ u[2] = fc
  OBVIOUS
<1>2. p \in Seq(S) /\ Len(p) \in Nat /\ \A i \in 1 .. Len(p) : p[i] \in Byte
  BY SeqMonotonic, LenProperties, ElementOfSeq
<1>. HIDE DEF u, S, adu
<1>3. /\ adu \in Seq(S) /\ Len(adu) = 2 + Len(p)
      /\ \A i \in 1 .. 2 + Len(p) : adu[i] = IF i <= 2 THEN u[i] ELSE p[i - 2]
  <2>1. /\ u \o p \in Seq(S) /\ Len(u \o p) = Len(u) + Len(p)
        /\ \A i \in 1 .. Len(u) + Len(p) : (u \o p)[i] = IF i <= Len(u) THEN u[i] ELSE p[i - Len(u)]
    BY <1>1, <1>2, ConcatProperties
  <2>. QED BY <1>0, <1>1, <2>1
<1>4. \A i \in 3 .. Len(adu) : adu[i] \in Byte /\ adu[i] = p[i - 2]
  BY <1>2, <1>3
<1>5. /\ SubSeq(adu, 3, Len(adu)) \in Seq(Byte)
      /\ Len(SubSeq(adu, 3, Len(adu))) = IF 3 <= Len(adu) THEN Len(adu) - 3 + 1 ELSE 0
      /\ \A i \in 1 .. Len(adu) - 3 + 1 : SubSeq(adu, 3, Len(adu))[i] = adu[3 + i - 1]
  BY <1>2, <1>3, <1>4, SubSeqProperties
<1>6. SubSeq(adu, 3, Len(adu)) = p
  <2>1. Len(SubSeq(adu, 3, Len(adu))) = Len(p)
    BY <1>2, <1>3, <1>5
  <2>2. ASSUME NEW i \in 1 .. Len(p) PROVE SubSeq(adu, 3, Len(adu))[i] = p[i]
    <3>1. /\ i \in 1 .. Len(adu) - 3 + 1 /\ 3 + i - 1 \in 3 .. Len(adu)
          /\ 3 + i - 1 - 2 = i
      BY <1>2, <1>3
    <3>. QED BY <1>4, <1>5, <3>1
  <2>3. SubSeq(adu, 3, Len(adu)) \in Seq(Byte) /\ p \in Seq(Byte)
    BY <1>5
  <2>. QED BY <2>1, <2>2, <2>3, SeqEqual
<1>7. Tail(adu) = <<fc>> \o p
  <2>1. <<unit>> \in Seq(S) /\ <<fc>> \in Seq(S) /\ Len(<<unit>>) = 1 /\ <<unit>>[1] = unit
        /\ <<unit>> # <<>> /\ Head(<<unit>>) = unit
    BY DEF S
  <2>2. u = <<unit>> \o <<fc>>
    <3>1. /\ <<unit>> \o <<fc>> \in Seq(S) /\ Len(<<unit>> \o <<fc>>) = 2
          /\ (<<unit>> \o <<fc>>)[1] = unit /\ (<<unit>> \o <<fc>>)[2] = fc
      BY <2>1, ConcatProperties
    <3>. DEFINE v == <<unit>> \o <<fc>>
    <3>. HIDE DEF v
    <3>2. \A i \in 1 .. Len(u) : u[i] = v[i]
      BY <1>1, <3>1 DEF v
    <3>3. u = v
      BY <1>1, <3>1, <3>2, SeqEqual DEF v
    <3>. QED BY <3>3 DEF v
  <2>3. adu = <<unit>> \o (<<fc>> \o p) /\ <<fc>> \o p \in Seq(S)
    BY <1>0, <1>2, <2>1, <2>2, ConcatAssociative, ConcatProperties
  <2>. DEFINE r == <<fc>> \o p
  <2>. HIDE DEF r
  <2>4. /\ Len(r) \in Nat /\ Len(<<unit>> \o r) = 1 + Len(r) /\ <<unit>> \o r \in Seq(S)
        /\ \A i \in 1 .. 1 + Len(r) :
              (<<unit>> \o r)[i] = IF i <= 1 THEN <<unit>>[i] ELSE r[i - 1]
    BY <2>1, <2>3, ConcatProperties, LenProperties DEF r
  <2>5. adu = <<unit>> \o r /\ adu # <<>>
    BY <2>3, <2>4, EmptySeq DEF r
  <2>6. /\ Tail(adu) \in Seq(S) /\ Len(Tail(adu)) = Len(adu) - 1
        /\ \A i \in 1 .. Len(adu) - 1 : Tail(adu)[i] = adu[i + 1]
    BY <1>3, <2>5, HeadTailProperties
  <2>7. Len(Tail(adu)) = Len(r)
    BY <2>4, <2>5, <2>6
  <2>8. ASSUME NEW i \in 1 .. Len(r) PROVE Tail(adu)[i] = r[i]
    <3>1. /\ i \in 1 .. Len(adu) - 1 /\ i + 1 \in 1 .. 1 + Len(r)
          /\ ~ i + 1 <= 1 /\ i + 1 - 1 = i
      BY <2>4, <2>5
    <3>. QED BY <2>4, <2>5, <2>6, <3>1
  <2>9. r \in Seq(S)
    BY <2>3 DEF r
  <2>. QED BY <2>6, <2>7, <2>8, <2>9, SeqEqual DEF r
<1>. QED
  BY <1>1, <1>2, <1>3, <1>4, <1>6, <1>7 DEF Framed, adu

-----------------------------------------------------------------------------
(* Payloads *)

\* SliceIs and SliceOfRest for bytes.
LEMMA ByteSlice ==
    ASSUME NEW p \in Seq(Byte), NEW first \in 1 .. Len(p) + 1, NEW size \in Nat
    PROVE  /\ Slice(p, first, size) \in Seq(Byte)
           /\ Len(Slice(p, first, size)) =
                 IF first + size - 1 <= Len(p) THEN size ELSE Len(p) - first + 1
           /\ \A i \in 1 .. Len(Slice(p, first, size)) :
                 /\ first + i - 1 \in 1 .. Len(p)
                 /\ Slice(p, first, size)[i] = p[first + i - 1]
BY SliceIs

LEMMA BytesJoin ==
    ASSUME NEW h \in Seq(Byte), NEW d \in Seq(Byte)
    PROVE  /\ Slice(h \o d, Len(h) + 1, Len(d)) = d
           /\ h \o d \in Seq(Byte) /\ Len(h \o d) = Len(h) + Len(d)
           /\ \A i \in 1 .. Len(h) : (h \o d)[i] = h[i]
           /\ \A i \in 1 .. Len(d) : (h \o d)[Len(h) + i] = d[i]
BY SliceOfRest

\* Sequences of words, put together.
LEMMA WordsJoin ==
    ASSUME NEW h \in Seq(Word), NEW d \in Seq(Word)
    PROVE  /\ h \o d \in Seq(Word) /\ Len(h \o d) = Len(h) + Len(d)
           /\ \A i \in 1 .. Len(h) : (h \o d)[i] = h[i]
           /\ \A i \in 1 .. Len(d) : (h \o d)[Len(h) + i] = d[i]
BY SliceOfRest

\* The first bytes of a payload as words.
LEMMA FirstWords ==
    ASSUME NEW p \in Seq(Byte), NEW n \in Nat, 2 * n <= Len(p)
    PROVE  /\ SubSeq(p, 1, 2 * n) \in Seq(Byte) /\ Len(SubSeq(p, 1, 2 * n)) = 2 * n
           /\ UnpackWords(SubSeq(p, 1, 2 * n)) \in Seq(Word)
           /\ Len(UnpackWords(SubSeq(p, 1, 2 * n))) = n
           /\ \A i \in 1 .. n : UnpackWords(SubSeq(p, 1, 2 * n))[i] = p[2 * i - 1] * Base + p[2 * i]
<1>. DEFINE s == SubSeq(p, 1, 2 * n)
<1>1. Len(p) \in Nat /\ \A i \in 1 .. Len(p) : p[i] \in Byte
  BY LenProperties, ElementOfSeq
<1>2. /\ s \in Seq(Byte) /\ Len(s) = IF 1 <= 2 * n THEN 2 * n - 1 + 1 ELSE 0
      /\ \A i \in 1 .. 2 * n - 1 + 1 : s[i] = p[1 + i - 1]
  BY <1>1, SubSeqProperties
<1>. HIDE DEF s
<1>3. Len(s) = 2 * n /\ Len(s) \div 2 = n /\ \A i \in 1 .. 2 * n : s[i] = p[i]
  BY <1>2
<1>4. /\ UnpackWords(s) \in Seq(Word) /\ Len(UnpackWords(s)) = n
      /\ \A i \in 1 .. n : /\ 2 * i - 1 \in 1 .. 2 * n /\ 2 * i \in 1 .. 2 * n
                           /\ UnpackWords(s)[i] = s[2 * i - 1] * Base + s[2 * i]
  BY <1>2, <1>3, UnpackTyped
<1>5. ASSUME NEW i \in 1 .. n PROVE UnpackWords(s)[i] = p[2 * i - 1] * Base + p[2 * i]
  BY <1>3, <1>4
<1>. QED
  BY <1>2, <1>3, <1>4, <1>5 DEF s

\* A count and what it counts: encoded, and read.
LEMMA CountedEncode ==
    ASSUME NEW n \in Byte, NEW d \in Seq(Byte), Len(d) = n
    PROVE  LET e == <<n>> \o d
           IN  /\ e \in Seq(Byte) /\ e # <<>> /\ Len(e) = n + 1 /\ e[1] = n
               /\ Slice(e, 2, n) = d
<1>. DEFINE h == <<n>>
<1>1. h \in Seq(Byte) /\ Len(h) = 1 /\ h[1] = n
  OBVIOUS
<1>2. n \in Nat /\ Len(d) \in Nat
  BY LenProperties
<1>. HIDE DEF h
<1>3. /\ Slice(h \o d, 1 + 1, n) = d
      /\ h \o d \in Seq(Byte) /\ Len(h \o d) = 1 + n /\ (h \o d)[1] = n
  BY <1>1, <1>2, BytesJoin
<1>. DEFINE e == h \o d
<1>. HIDE DEF e
<1>4. e \in Seq(Byte) /\ Len(e) = n + 1 /\ e[1] = n /\ Slice(e, 2, n) = d
  BY <1>2, <1>3 DEF e
<1>5. e # <<>>
  BY <1>2, <1>4
<1>. QED
  BY <1>4, <1>5 DEF e, h

LEMMA CountedDecode ==
    ASSUME NEW p \in Seq(Byte), p # <<>>
    PROVE  /\ Len(p) \in Nat \ {0} /\ p[1] \in Byte
           /\ Slice(p, 2, p[1]) \in Seq(Byte) /\ Len(Slice(p, 2, p[1])) \in Byte
           /\ p[1] = Len(p) - 1 =>
                 Len(Slice(p, 2, p[1])) = p[1] /\ <<p[1]>> \o Slice(p, 2, p[1]) = p
<1>. DEFINE n == p[1]
            d == Slice(p, 2, n)
<1>1. Len(p) \in Nat \ {0} /\ \A i \in 1 .. Len(p) : p[i] \in Byte
  BY LenProperties, ElementOfSeq, EmptySeq
<1>2. n \in Byte /\ n \in Nat
  <2>1. 1 \in 1 .. Len(p)
    BY <1>1
  <2>. QED BY <1>1, <2>1, BaseIsNat
<1>. HIDE DEF n
<1>3. /\ d \in Seq(Byte)
      /\ Len(d) = IF 2 + n - 1 <= Len(p) THEN n ELSE Len(p) - 2 + 1
      /\ \A i \in 1 .. Len(d) : d[i] = p[2 + i - 1]
  <2>1. 2 \in 1 .. Len(p) + 1
    BY <1>1
  <2>. QED BY <1>2, <2>1, ByteSlice
<1>. HIDE DEF d
<1>4. Len(d) \in Byte
  BY <1>1, <1>2, <1>3, BaseIsNat DEF Byte
<1>5. ASSUME n = Len(p) - 1 PROVE Len(d) = n /\ <<n>> \o d = p
  <2>1. Len(d) = n
    BY <1>1, <1>2, <1>3, <1>5
  <2>. DEFINE h == <<n>>
  <2>2. h \in Seq(Byte) /\ Len(h) = 1 /\ h[1] = n
    BY <1>2
  <2>. HIDE DEF h
  <2>. DEFINE e == h \o d
  <2>3. /\ e \in Seq(Byte) /\ Len(e) = 1 + n
        /\ e[1] = n /\ \A i \in 1 .. n : e[1 + i] = d[i]
    <3>1. /\ h \o d \in Seq(Byte) /\ Len(h \o d) = Len(h) + Len(d)
          /\ \A i \in 1 .. Len(h) : (h \o d)[i] = h[i]
          /\ \A i \in 1 .. Len(d) : (h \o d)[Len(h) + i] = d[i]
      BY <1>3, <2>2, BytesJoin
    <3>. QED BY <2>1, <2>2, <3>1
  <2>. HIDE DEF e
  <2>4. ASSUME NEW k \in 1 .. Len(e) PROVE e[k] = p[k]
    <3>1. CASE k = 1
      BY <2>3, <3>1 DEF n
    <3>2. CASE k # 1
      <4>1. k - 1 \in 1 .. n /\ 1 + (k - 1) = k /\ 2 + (k - 1) - 1 = k
        BY <1>2, <2>3, <3>2
      <4>. QED BY <1>3, <2>1, <2>3, <4>1
    <3>. QED BY <3>1, <3>2
  <2>5. e = p
    <3>1. Len(e) = Len(p)
      BY <1>1, <1>2, <1>5, <2>3
    <3>. QED BY <2>3, <2>4, <3>1, SeqEqual
  <2>. QED BY <2>1, <2>5 DEF e, h
<1>. QED
  BY <1>1, <1>2, <1>3, <1>4, <1>5 DEF n, d

\* A request that writes a block: two words, the byte count and the bytes.
Block(head, n, d) == PackWords(head \o <<n>>) \o <<Len(d)>> \o d

LEMMA BlockEncode ==
    ASSUME NEW head \in Seq(Word), Len(head) = 1, NEW n \in Word,
           NEW d \in Seq(Byte), Len(d) \in Byte
    PROVE  LET e == Block(head, n, d)
           IN  /\ e \in Seq(Byte) /\ Len(e) >= 5 /\ Len(e) = 5 + Len(d)
               /\ e[5] = Len(d) /\ WordAt(e, 3) = n
               /\ UnpackWords(e)[2] = n
               /\ UnpackWords(SubSeq(e, 1, 2)) = head
               /\ Slice(e, 6, Len(d)) = d
               /\ \A i \in 1 .. Len(d) : e[5 + i] = d[i]
<1>. DEFINE c == <<n>>
            f == head \o c
            l == Len(d)
            k == <<l>>
            h == PackWords(f) \o k
            e == h \o d
<1>0. ASSUME NEW a \in Seq(Byte), NEW b \in Seq(Byte)
      PROVE  /\ Slice(a \o b, Len(a) + 1, Len(b)) = b
             /\ a \o b \in Seq(Byte) /\ Len(a \o b) = Len(a) + Len(b)
             /\ \A i \in 1 .. Len(a) : (a \o b)[i] = a[i]
             /\ \A i \in 1 .. Len(b) : (a \o b)[Len(a) + i] = b[i]
  BY BytesJoin
<1>1. l \in Nat /\ l \in Byte /\ l = Len(d)
  BY LenProperties
<1>. HIDE DEF l
<1>2. c \in Seq(Word) /\ Len(c) = 1 /\ c[1] = n
  OBVIOUS
<1>3. k \in Seq(Byte) /\ Len(k) = 1 /\ k[1] = l
  BY <1>1
<1>. HIDE DEF c, k
<1>4. f \in Seq(Word) /\ Len(f) = 2 /\ f[1] = head[1] /\ f[2] = n
  <2>1. /\ f \in Seq(Word) /\ Len(f) = Len(head) + Len(c)
        /\ \A i \in 1 .. Len(head) : f[i] = head[i]
        /\ \A i \in 1 .. Len(c) : f[Len(head) + i] = c[i]
    BY <1>2, WordsJoin
  <2>. QED BY <1>2, <2>1
<1>. HIDE DEF f
<1>6. /\ PackWords(f) \in Seq(Byte) /\ Len(PackWords(f)) = 4
      /\ PackWords(f)[1] = f[1] \div Base /\ PackWords(f)[2] = f[1] % Base
      /\ PackWords(f)[3] = f[2] \div Base /\ PackWords(f)[4] = f[2] % Base
  <2>1. /\ PackWords(f) \in Seq(Byte) /\ Len(PackWords(f)) = 2 * Len(f)
        /\ \A i \in 1 .. Len(f) : /\ PackWords(f)[2 * i - 1] = f[i] \div Base
                                  /\ PackWords(f)[2 * i] = f[i] % Base
    BY <1>4, PackTyped
  <2>. QED BY <1>4, <2>1
<1>7. /\ h \in Seq(Byte) /\ Len(h) = 5 /\ h[5] = l
      /\ \A i \in 1 .. 4 : h[i] = PackWords(f)[i]
  <2>1. /\ h \in Seq(Byte) /\ Len(h) = Len(PackWords(f)) + Len(k)
        /\ \A i \in 1 .. Len(PackWords(f)) : h[i] = PackWords(f)[i]
        /\ \A i \in 1 .. Len(k) : h[Len(PackWords(f)) + i] = k[i]
    BY <1>0, <1>3, <1>6
  <2>. QED BY <1>3, <1>6, <2>1
<1>. HIDE DEF h
<1>8. /\ e \in Seq(Byte) /\ Len(e) = 5 + l /\ Slice(e, 6, l) = d
      /\ \A i \in 1 .. 5 : e[i] = h[i]
      /\ \A i \in 1 .. l : e[5 + i] = d[i]
  <2>1. /\ Slice(h \o d, Len(h) + 1, Len(d)) = d
        /\ e \in Seq(Byte) /\ Len(e) = Len(h) + Len(d)
        /\ \A i \in 1 .. Len(h) : e[i] = h[i]
        /\ \A i \in 1 .. Len(d) : e[Len(h) + i] = d[i]
    BY <1>0, <1>7
  <2>. QED BY <1>1, <1>7, <2>1
<1>. HIDE DEF e
<1>9. e[3] * Base + e[4] = n
  <2>1. e[3] = n \div Base /\ e[4] = n % Base
    BY <1>4, <1>6, <1>7, <1>8
  <2>. QED BY <2>1, BytesOfWord
<1>10. e[1] * Base + e[2] = head[1]
  <2>1. e[1] = head[1] \div Base /\ e[2] = head[1] % Base
    BY <1>4, <1>6, <1>7, <1>8
  <2>2. head[1] \in Word
    <3>1. 1 \in 1 .. Len(head)
      OBVIOUS
    <3>. QED BY <3>1, ElementOfSeq
  <2>. QED BY <2>1, <2>2, BytesOfWord
<1>11. UnpackWords(e)[2] = n
  <2>1. \A i \in 1 .. Len(e) \div 2 : UnpackWords(e)[i] = e[2 * i - 1] * Base + e[2 * i]
    BY <1>8, UnpackTyped
  <2>2. 2 \in 1 .. Len(e) \div 2
    BY <1>1, <1>8
  <2>3. UnpackWords(e)[2] = e[2 * 2 - 1] * Base + e[2 * 2]
    BY <2>1, <2>2
  <2>. QED BY <1>9, <2>3
<1>12. UnpackWords(SubSeq(e, 1, 2)) = head
  <2>1. /\ UnpackWords(SubSeq(e, 1, 2 * 1)) \in Seq(Word)
        /\ Len(UnpackWords(SubSeq(e, 1, 2 * 1))) = 1
        /\ \A i \in 1 .. 1 : UnpackWords(SubSeq(e, 1, 2 * 1))[i] = e[2 * i - 1] * Base + e[2 * i]
    <3>1. 1 \in Nat /\ 2 * 1 <= Len(e)
      BY <1>1, <1>8
    <3>. QED BY <1>8, <3>1, FirstWords
  <2>2. \A i \in 1 .. 1 : UnpackWords(SubSeq(e, 1, 2))[i] = head[i]
    BY <1>10, <2>1
  <2>. DEFINE u == UnpackWords(SubSeq(e, 1, 2))
  <2>3. u \in Seq(Word) /\ Len(u) = 1 /\ \A i \in 1 .. Len(u) : u[i] = head[i]
    BY <2>1, <2>2
  <2>. HIDE DEF u
  <2>4. u = head
    BY <2>3, SeqEqual
  <2>. QED BY <2>4 DEF u
<1>13. e[5] = l /\ Len(e) >= 5
  BY <1>1, <1>7, <1>8
<1>14. WordAt(e, 3) = n
  <2>1. 3 + 1 = 4
    OBVIOUS
  <2>. QED BY <1>9, <2>1 DEF WordAt
<1>. QED
  <2>1. e = Block(head, n, d)
    BY DEF Block, e, h, k, f, c, l
  <2>. QED BY <1>1, <1>8, <1>11, <1>12, <1>13, <1>14, <2>1

LEMMA BlockDecode ==
    ASSUME NEW p \in Seq(Byte), Len(p) >= 5
    PROVE  LET head == UnpackWords(SubSeq(p, 1, 2))
               q == UnpackWords(p)[2]
               s == Slice(p, 6, p[5])
           IN  /\ q = WordAt(p, 3) /\ q \in Word /\ q \in Nat
               /\ head \in Seq(Word) /\ Len(head) = 1
               /\ p[5] \in Byte /\ p[5] \in Nat /\ Len(p) \in Nat
               /\ s \in Seq(Byte) /\ Len(s) \in Byte /\ Len(s) <= p[5] /\ Len(s) <= Len(p) - 5
               /\ p[5] = Len(p) - 5 =>
                     Len(s) = p[5] /\ PackWords(head \o <<q>>) \o <<p[5]>> \o s = p
<1>. DEFINE q == UnpackWords(p)[2]
            head == UnpackWords(SubSeq(p, 1, 2))
            l == p[5]
            s == Slice(p, 6, l)
<1>1. /\ Len(p) \in Nat /\ Len(p) >= 5
      /\ \A i \in 1 .. Len(p) : p[i] \in Byte /\ p[i] \in Nat
      /\ l \in Byte /\ l \in Nat /\ l = p[5]
  <2>1. Len(p) \in Nat /\ \A i \in 1 .. Len(p) : p[i] \in Byte /\ p[i] \in Nat
    BY LenProperties, ElementOfSeq, BaseIsNat
  <2>2. 5 \in 1 .. Len(p)
    BY <2>1
  <2>. QED BY <2>1, <2>2
<1>. HIDE DEF l
<1>2. q = WordAt(p, 3) /\ q \in Nat /\ q \in Word /\ q = p[2 * 2 - 1] * Base + p[2 * 2]
  <2>1. 2 \in 1 .. Len(p) \div 2
    BY <1>1
  <2>2. UnpackWords(p)[2] = p[2 * 2 - 1] * Base + p[2 * 2]
    BY <2>1, UnpackTyped
  <2>3. p[3] \in Byte /\ p[4] \in Byte
    BY <1>1
  <2>4. p[3] * Base + p[4] \in Word
    BY <2>3, WordOfBytes
  <2>5. 2 * 2 - 1 = 3 /\ 2 * 2 = 4 /\ 3 + 1 = 4
    OBVIOUS
  <2>6. q = p[3] * Base + p[4] /\ WordAt(p, 3) = p[3] * Base + p[4]
    BY <2>2, <2>5 DEF WordAt
  <2>. HIDE DEF q
  <2>. QED BY <2>4, <2>5, <2>6, BaseIsNat
<1>. HIDE DEF q
<1>3. /\ head \in Seq(Word) /\ Len(head) = 1
      /\ \A i \in 1 .. 1 : head[i] = p[2 * i - 1] * Base + p[2 * i]
  <2>1. /\ UnpackWords(SubSeq(p, 1, 2 * 1)) \in Seq(Word)
        /\ Len(UnpackWords(SubSeq(p, 1, 2 * 1))) = 1
        /\ \A i \in 1 .. 1 : UnpackWords(SubSeq(p, 1, 2 * 1))[i] = p[2 * i - 1] * Base + p[2 * i]
    <3>1. 1 \in Nat /\ 2 * 1 <= Len(p)
      BY <1>1
    <3>. QED BY <3>1, FirstWords
  <2>. QED BY <2>1
<1>. HIDE DEF head
<1>4. /\ s \in Seq(Byte) /\ Len(s) = IF 6 + l - 1 <= Len(p) THEN l ELSE Len(p) - 6 + 1
      /\ \A i \in 1 .. Len(s) : s[i] = p[6 + i - 1]
  <2>1. 6 \in 1 .. Len(p) + 1
    BY <1>1
  <2>. QED BY <1>1, <2>1, ByteSlice
<1>. HIDE DEF s
<1>5. Len(s) \in Nat /\ Len(s) <= l /\ Len(s) <= Len(p) - 5
  BY <1>1, <1>4
<1>6. Len(s) \in Byte
  BY <1>1, <1>5, BaseIsNat DEF Byte
<1>7. ASSUME l = Len(p) - 5
      PROVE  Len(s) = l /\ PackWords(head \o <<q>>) \o <<l>> \o s = p
  <2>3. Len(s) = l
    BY <1>1, <1>4, <1>7
  <2>. DEFINE b == SubSeq(p, 1, 2 * 2)
              f == head \o <<q>>
  <2>4. /\ b \in Seq(Byte) /\ Len(b) = 4 /\ UnpackWords(b) \in Seq(Word) /\ Len(UnpackWords(b)) = 2
        /\ \A i \in 1 .. 2 : UnpackWords(b)[i] = p[2 * i - 1] * Base + p[2 * i]
    <3>1. 2 \in Nat /\ 2 * 2 <= Len(p) /\ 2 * 2 = 4
      BY <1>1
    <3>. QED BY <3>1, FirstWords
  <2>5. \A i \in 1 .. 4 : b[i] = p[i]
    <3>1. /\ \A i \in 1 .. 4 : p[i] \in Byte
          /\ 1 \in Int /\ 2 * 2 \in Int /\ 1 .. 2 * 2 = 1 .. 4
      BY <1>1
    <3>2. \A i \in 1 .. 2 * 2 - 1 + 1 : b[i] = p[1 + i - 1]
      BY <3>1, SubSeqProperties
    <3>. QED BY <3>2
  <2>. HIDE DEF b
  <2>6. f = UnpackWords(b)
    <3>1. <<q>> \in Seq(Word) /\ Len(<<q>>) = 1 /\ <<q>>[1] = q
      BY <1>2
    <3>. DEFINE z == <<q>>
    <3>. HIDE DEF z
    <3>2. /\ head \o z \in Seq(Word) /\ Len(head \o z) = Len(head) + Len(z)
          /\ \A i \in 1 .. Len(head) : (head \o z)[i] = head[i]
          /\ \A i \in 1 .. Len(z) : (head \o z)[Len(head) + i] = z[i]
      BY <1>3, <3>1, WordsJoin DEF z
    <3>3. f \in Seq(Word) /\ Len(f) = 2 /\ f[1] = head[1] /\ f[2] = q
      BY <1>3, <3>1, <3>2 DEF z
    <3>. HIDE DEF f
    <3>. DEFINE u == UnpackWords(b)
    <3>4. u[1] = head[1] /\ u[2] = q /\ u \in Seq(Word) /\ Len(u) = 2
      BY <1>2, <1>3, <2>4
    <3>. HIDE DEF u
    <3>5. \A i \in 1 .. Len(f) : f[i] = u[i]
      BY <3>3, <3>4
    <3>6. f = u
      BY <3>3, <3>4, <3>5, SeqEqual
    <3>. QED BY <3>6 DEF u
  <2>7. PackWords(f) = b
    <3>1. Len(b) % 2 = 0
      BY <2>4
    <3>. QED BY <2>4, <2>6, <3>1, PackUnpack
  <2>. DEFINE k == <<l>>
              h == b \o k
              e == h \o s
  <2>8. k \in Seq(Byte) /\ Len(k) = 1 /\ k[1] = l
    BY <1>1
  <2>. HIDE DEF k
  <2>9. /\ h \in Seq(Byte) /\ Len(h) = 4 + 1
        /\ \A i \in 1 .. 4 + 1 : h[i] = IF i <= 4 THEN b[i] ELSE k[i - 4]
    <3>1. /\ b \o k \in Seq(Byte) /\ Len(b \o k) = Len(b) + Len(k)
          /\ \A i \in 1 .. Len(b) + Len(k) : (b \o k)[i] = IF i <= Len(b) THEN b[i] ELSE k[i - Len(b)]
      BY <2>4, <2>8, ConcatProperties
    <3>. QED BY <2>4, <2>8, <3>1
  <2>. HIDE DEF h
  <2>10. /\ e \in Seq(Byte) /\ Len(e) = 5 + l
         /\ \A i \in 1 .. 5 + l : e[i] = IF i <= 5 THEN h[i] ELSE s[i - 5]
    <3>1. /\ e \in Seq(Byte) /\ Len(e) = Len(h) + Len(s)
          /\ \A i \in 1 .. Len(h) + Len(s) : e[i] = IF i <= Len(h) THEN h[i] ELSE s[i - Len(h)]
      BY <1>4, <2>9, ConcatProperties
    <3>. QED BY <2>3, <2>9, <3>1
  <2>. HIDE DEF e
  <2>11. Len(e) = Len(p)
    BY <1>1, <1>7, <2>10
  <2>12. ASSUME NEW i \in 1 .. Len(e) PROVE e[i] = p[i]
    <3>1. CASE i <= 4
      <4>1. i \in 1 .. 4 /\ i \in 1 .. 4 + 1 /\ i \in 1 .. 5 + l /\ i <= 5
        BY <1>1, <2>10, <3>1
      <4>. QED BY <2>5, <2>9, <2>10, <4>1
    <3>2. CASE i = 5
      <4>1. 5 \in 1 .. 4 + 1 /\ 5 \in 1 .. 5 + l /\ ~ 5 <= 4 /\ 5 - 4 = 1
        BY <1>1
      <4>2. e[5] = h[5] /\ h[5] = k[1]
        BY <2>9, <2>10, <4>1
      <4>. QED BY <1>1, <2>8, <3>2, <4>2
    <3>3. CASE i > 5
      <4>1. /\ i \in 1 .. 5 + l /\ ~ i <= 5
            /\ i - 5 \in 1 .. Len(s) /\ 6 + (i - 5) - 1 = i
        BY <1>1, <2>3, <2>10, <3>3
      <4>2. e[i] = s[i - 5] /\ s[i - 5] = p[6 + (i - 5) - 1]
        BY <1>4, <2>10, <4>1
      <4>. QED BY <4>1, <4>2
    <3>. QED BY <2>10, <3>1, <3>2, <3>3
  <2>13. e = p
    BY <2>10, <2>11, <2>12, SeqEqual
  <2>. QED BY <2>3, <2>7, <2>13 DEF e, h, k
<1>. QED
  BY <1>1, <1>2, <1>3, <1>4, <1>5, <1>6, <1>7 DEF head, s, q, l

\* A request that writes registers.
LEMMA RegistersEncode ==
    ASSUME NEW head \in Seq(Word), Len(head) = 1,
           NEW w \in Seq(Word), 2 * Len(w) \in Byte
    PROVE  LET e == PackWords(head \o <<Len(w)>>) \o <<2 * Len(w)>> \o PackWords(w)
           IN  /\ e \in Seq(Byte) /\ Len(e) >= 5 /\ Len(e) = 5 + 2 * Len(w)
               /\ e[5] = 2 * Len(w) /\ WordAt(e, 3) = Len(w)
               /\ UnpackWords(e)[2] = Len(w)
               /\ UnpackWords(SubSeq(e, 1, 2)) = head
               /\ Slice(e, 6, 2 * Len(w)) = PackWords(w)
<1>1. Len(w) \in Nat /\ Len(w) \in Word
  <2>1. Len(w) \in Nat
    BY LenProperties
  <2>2. Base <= Base * Base
    <3>1. ASSUME NEW b \in Nat \ {0} PROVE b <= b * b
      OBVIOUS
    <3>. QED BY <3>1, BaseIsNat
  <2>3. 2 * Len(w) < Base
    BY BaseIsNat DEF Byte
  <2>4. ASSUME NEW b \in Nat, NEW bb \in Nat, b <= bb, 2 * Len(w) < b PROVE Len(w) \in 0 .. bb - 1
    BY <2>1, <2>4
  <2>5. Base \in Nat /\ Base * Base \in Nat
    BY BaseIsNat
  <2>. QED BY <2>1, <2>2, <2>3, <2>4, <2>5 DEF Word
<1>. DEFINE d == PackWords(w)
            n == Len(w)
            e == Block(head, n, d)
<1>2. d \in Seq(Byte) /\ Len(d) = 2 * n
  BY PackTyped
<1>3. e = PackWords(head \o <<n>>) \o <<2 * n>> \o d
  BY <1>2 DEF Block
<1>5. n \in Word /\ Len(d) \in Byte
  BY <1>1, <1>2
<1>. HIDE DEF d, n
<1>4. /\ e \in Seq(Byte) /\ Len(e) >= 5 /\ Len(e) = 5 + Len(d)
      /\ e[5] = Len(d) /\ WordAt(e, 3) = n /\ UnpackWords(e)[2] = n
      /\ UnpackWords(SubSeq(e, 1, 2)) = head /\ Slice(e, 6, Len(d)) = d
  BY <1>2, <1>5, BlockEncode
<1>. HIDE DEF e
<1>. QED
  BY <1>2, <1>3, <1>4 DEF d, n

LEMMA RegistersDecode ==
    ASSUME NEW p \in Seq(Byte), Len(p) >= 5
    PROVE  LET head == UnpackWords(SubSeq(p, 1, 2))
               w == UnpackWords(Slice(p, 6, 2 * UnpackWords(p)[2]))
           IN  /\ Readable("registers", p) =>
                     /\ head \in Seq(Word) /\ Len(head) = 1
                     /\ w \in Seq(Word) /\ 2 * Len(w) \in Byte
               /\ (p[5] = Len(p) - 5 /\ p[5] = 2 * WordAt(p, 3)) =>
                     /\ Readable("registers", p)
                     /\ PackWords(head \o <<Len(w)>>) \o <<2 * Len(w)>> \o PackWords(w) = p
<1>. DEFINE q == UnpackWords(p)[2]
            head == UnpackWords(SubSeq(p, 1, 2))
            l == p[5]
            s == Slice(p, 6, 2 * q)
            w == UnpackWords(s)
            t == Slice(p, 6, l)
<1>1. /\ q = WordAt(p, 3) /\ q \in Nat /\ head \in Seq(Word) /\ Len(head) = 1
      /\ l \in Byte /\ l \in Nat /\ Len(p) \in Nat
      /\ t \in Seq(Byte) /\ Len(t) \in Byte /\ Len(t) <= l /\ Len(t) <= Len(p) - 5
      /\ l = Len(p) - 5 => Len(t) = l /\ PackWords(head \o <<q>>) \o <<l>> \o t = p
  BY BlockDecode
<1>2. Readable("registers", p) <=> Len(t) >= 2 * q
  BY DEF Readable
<1>. HIDE DEF q, head, l, t
<1>3. ASSUME 2 * q <= l, 2 * q <= Len(p) - 5
      PROVE  s \in Seq(Byte) /\ Len(s) = 2 * q /\ w \in Seq(Word) /\ Len(w) = q
  <2>0. q \in Nat /\ Len(p) \in Nat
    BY <1>1
  <2>1. 6 \in 1 .. Len(p) + 1 /\ 2 * q \in Nat /\ 6 + 2 * q - 1 <= Len(p)
    BY <1>3, <2>0
  <2>2. s \in Seq(Byte) /\ Len(s) = 2 * q
    BY <2>1, ByteSlice
  <2>. HIDE DEF s
  <2>3. (2 * q) \div 2 = q
    BY <1>1
  <2>. QED BY <2>2, <2>3, UnpackTyped
<1>4. ASSUME Readable("registers", p)
      PROVE  w \in Seq(Word) /\ 2 * Len(w) \in Byte
  <2>1. 2 * q <= l /\ 2 * q <= Len(p) - 5 /\ Len(t) \in Nat
    BY <1>1, <1>2, <1>4, BaseIsNat
  <2>2. w \in Seq(Word) /\ Len(w) = q
    BY <1>3, <2>1
  <2>3. \A x \in Nat : x <= l => x \in Byte
    BY <1>1, BaseIsNat DEF Byte
  <2>4. 2 * q \in Nat
    BY <1>1
  <2>. HIDE DEF w
  <2>. QED BY <2>1, <2>2, <2>3, <2>4
<1>5. ASSUME l = Len(p) - 5, l = 2 * WordAt(p, 3)
      PROVE  /\ Readable("registers", p)
             /\ PackWords(head \o <<Len(w)>>) \o <<2 * Len(w)>> \o PackWords(w) = p
  <2>1. 2 * q = l /\ 2 * q <= l /\ 2 * q <= Len(p) - 5 /\ Len(t) = l
    BY <1>1, <1>5
  <2>2. Readable("registers", p)
    BY <1>1, <1>2, <2>1
  <2>3. s = t
    BY <2>1 DEF t
  <2>4. s \in Seq(Byte) /\ Len(s) = 2 * q /\ Len(w) = q
    BY <1>3, <2>1
  <2>5. PackWords(w) = t
    <3>1. Len(s) % 2 = 0
      <4>1. \A x \in Nat : (2 * x) % 2 = 0
        OBVIOUS
      <4>. QED BY <1>1, <2>4, <4>1
    <3>. QED BY <2>3, <2>4, <3>1, PackUnpack
  <2>6. PackWords(head \o <<q>>) \o <<l>> \o t = p
    BY <1>1, <1>5
  <2>. HIDE DEF w
  <2>. QED BY <2>1, <2>2, <2>4, <2>5, <2>6
<1>. QED
  BY <1>1, <1>4, <1>5 DEF head, w, s, q, l

\* A request that writes coils.
LEMMA CoilsEncode ==
    ASSUME NEW head \in Seq(Word), Len(head) = 1,
           NEW c \in Seq(Coil), Len(c) \in Word, Len(PackCoils(c)) \in Byte
    PROVE  LET d == PackCoils(c)
               e == PackWords(head \o <<Len(c)>>) \o <<Len(d)>> \o d
           IN  /\ e \in Seq(Byte) /\ Len(e) >= 5 /\ e[5] = Len(e) - 5
               /\ UnpackWords(SubSeq(e, 1, 2)) = head
               /\ UnpackCoils(Slice(e, 6, e[5]), UnpackWords(e)[2]) = c
               /\ WordAt(e, 3) \in (e[5] - 1) * BitsPerByte + 1 .. e[5] * BitsPerByte
               /\ e[5] > 0 => e[Len(e)] < 2 ^ (WordAt(e, 3) - (e[5] - 1) * BitsPerByte)
<1>. DEFINE d == PackCoils(c)
            n == Len(c)
            l == Len(d)
            e == Block(head, n, d)
<1>1. /\ d \in Seq(Byte) /\ UnpackCoils(d, n) = c
      /\ n \in (l - 1) * BitsPerByte + 1 .. l * BitsPerByte
      /\ l > 0 => d[l] < 2 ^ (n - (l - 1) * BitsPerByte)
  BY PackCoilsIs, CoilsReturn
<1>2. l \in Nat /\ l \in Byte /\ n \in Word
  BY <1>1, LenProperties
<1>. HIDE DEF d, n
<1>3. /\ e \in Seq(Byte) /\ Len(e) >= 5 /\ Len(e) = 5 + l
      /\ e[5] = l /\ WordAt(e, 3) = n /\ UnpackWords(e)[2] = n
      /\ UnpackWords(SubSeq(e, 1, 2)) = head
      /\ Slice(e, 6, l) = d /\ \A i \in 1 .. l : e[5 + i] = d[i]
  BY <1>1, <1>2, BlockEncode
<1>. HIDE DEF e, l
<1>4. Len(e) - 5 = l /\ (l > 0 => l \in 1 .. l)
  BY <1>2, <1>3
<1>. QED
  <2>1. e = PackWords(head \o <<Len(c)>>) \o <<Len(d)>> \o d
    BY DEF Block, e, n
  <2>. QED BY <1>1, <1>3, <1>4, <2>1 DEF n, l, d

LEMMA CoilsDecode ==
    ASSUME NEW p \in Seq(Byte), Len(p) >= 5
    PROVE  LET head == UnpackWords(SubSeq(p, 1, 2))
               c == UnpackCoils(Slice(p, 6, p[5]), UnpackWords(p)[2])
               d == PackCoils(c)
           IN  /\ head \in Seq(Word) /\ Len(head) = 1
               /\ c \in Seq(Coil) /\ Len(c) \in Word /\ Len(d) \in Byte
               /\ (/\ p[5] = Len(p) - 5
                   /\ WordAt(p, 3) \in (p[5] - 1) * BitsPerByte + 1 .. p[5] * BitsPerByte
                   /\ p[5] > 0 => p[Len(p)] < 2 ^ (WordAt(p, 3) - (p[5] - 1) * BitsPerByte))
                  => PackWords(head \o <<Len(c)>>) \o <<Len(d)>> \o d = p
<1>. DEFINE q == UnpackWords(p)[2]
            head == UnpackWords(SubSeq(p, 1, 2))
            l == p[5]
            t == Slice(p, 6, l)
            c == UnpackCoils(t, q)
            d == PackCoils(c)
            w == BitsPerByte
<1>1. /\ q = WordAt(p, 3) /\ q \in Nat /\ q \in Word /\ head \in Seq(Word) /\ Len(head) = 1
      /\ l \in Byte /\ l \in Nat /\ Len(p) \in Nat /\ l = p[5]
      /\ t \in Seq(Byte) /\ Len(t) \in Byte /\ Len(t) <= l /\ Len(t) <= Len(p) - 5
      /\ l = Len(p) - 5 => Len(t) = l /\ PackWords(head \o <<q>>) \o <<l>> \o t = p
  BY BlockDecode
<1>2. \A i \in 1 .. Len(t) : t[i] = p[6 + i - 1]
  <2>1. 6 \in 1 .. Len(p) + 1
    BY <1>1
  <2>. QED BY <1>1, <2>1, ByteSlice
<1>. HIDE DEF q, head, l, t
<1>3. Len(t) \in Nat /\ w \in Nat \ {0} /\ Len(t) * w \in Nat
  BY <1>1, BaseIsNat, Powers
<1>4. /\ c \in Seq(Coil) /\ Len(c) = IF q <= Len(t) * w THEN q ELSE Len(t) * w
      /\ Len(c) \in Nat
  BY <1>1, UnpackCoilsIs, LenProperties
<1>. HIDE DEF c
<1>5. Len(c) <= q /\ Len(c) <= Len(t) * w
  BY <1>1, <1>3, <1>4
<1>6. Len(c) \in Word
  BY <1>1, <1>4, <1>5, BaseIsNat DEF Word
<1>7. Len(d) \in Byte
  <2>1. Len(d) = BytesFor(Len(c)) /\ BytesFor(Len(c)) \in Nat /\ BytesFor(Len(c)) <= Len(t)
    BY <1>3, <1>4, <1>5, PackCoilsIs, BytesForIs
  <2>. HIDE DEF d
  <2>. QED BY <1>1, <1>3, <2>1, BaseIsNat DEF Byte
<1>8. ASSUME l = Len(p) - 5, q \in (l - 1) * w + 1 .. l * w,
             l > 0 => p[Len(p)] < 2 ^ (q - (l - 1) * w)
      PROVE  PackWords(head \o <<Len(c)>>) \o <<Len(d)>> \o d = p
  <2>1. Len(t) = l /\ PackWords(head \o <<q>>) \o <<l>> \o t = p
    BY <1>1, <1>8
  <2>2. l > 0 => t[l] < 2 ^ (q - (l - 1) * w)
    <3>1. ASSUME l > 0 PROVE l \in 1 .. Len(t) /\ 6 + l - 1 = Len(p)
      BY <1>1, <1>8, <2>1, <3>1
    <3>. QED BY <1>2, <1>8, <3>1
  <2>3. Len(c) = q /\ d = t
    BY <1>1, <1>8, <2>1, <2>2, BytesReturn DEF c
  <2>. HIDE DEF d
  <2>. QED BY <2>1, <2>3
<1>. QED
  BY <1>1, <1>4, <1>6, <1>7, <1>8 DEF head, c, d, t, q, l

-----------------------------------------------------------------------------
(* PDUs *)

PduClass == {"pair", "coils", "registers", "bytes", "words", "exception", "raw"}

\* What a message of a class holds.
Content(class, head, values) ==
    CASE class = "pair" -> head \in Seq(Word) /\ Len(head) = 2 /\ values = <<>>
      [] class = "registers" ->
            /\ head \in Seq(Word) /\ Len(head) = 1
            /\ values \in Seq(Word) /\ 2 * Len(values) \in Byte
      [] class = "coils" ->
            /\ head \in Seq(Word) /\ Len(head) = 1 /\ values \in Seq(Coil)
            /\ Len(values) \in Word /\ Len(PackCoils(values)) \in Byte
      [] class = "words" -> head = <<>> /\ values \in Seq(Word) /\ 2 * Len(values) \in Byte
      [] class = "bytes" -> head = <<>> /\ values \in Seq(Byte) /\ Len(values) \in Byte
      [] class = "exception" -> head = <<>> /\ values \in Seq(Byte) /\ Len(values) = 1
      [] OTHER -> head = <<>> /\ values \in Seq(Byte)

\* What a payload of a class must look like: RequestFits and AnswerFits by class.
Shape(class, p) ==
    CASE class = "pair" -> Len(p) = 4
      [] class = "registers" -> Len(p) >= 5 /\ p[5] = Len(p) - 5 /\ p[5] = 2 * WordAt(p, 3)
      [] class = "coils" ->
            /\ Len(p) >= 5 /\ p[5] = Len(p) - 5
            /\ WordAt(p, 3) \in (p[5] - 1) * BitsPerByte + 1 .. p[5] * BitsPerByte
            /\ p[5] > 0 => p[Len(p)] < 2 ^ (WordAt(p, 3) - (p[5] - 1) * BitsPerByte)
      [] class = "words" -> Len(p) >= 1 /\ p[1] = Len(p) - 1 /\ p[1] % 2 = 0
      [] class = "bytes" -> Len(p) >= 1 /\ p[1] = Len(p) - 1
      [] class = "exception" -> Len(p) = 1
      [] OTHER -> TRUE

\* encode() gives a payload of the right shape, from which _from_payload() reads
\* what was encoded.
THEOREM EncodeThenDecode ==
    ASSUME NEW m, m.class \in PduClass, Content(m.class, m.head, m.values)
    PROVE  LET e == Encode(m)
           IN  /\ e \in Seq(Byte) /\ Shape(m.class, e) /\ Readable(m.class, e)
               /\ Header(m.class, e) = m.head /\ Values(m.class, e) = m.values
<1>. DEFINE e == Encode(m)
<1>1. CASE m.class = "pair"
  <2>1. m.head \in Seq(Word) /\ Len(m.head) = 2 /\ m.values = <<>> /\ e = PackWords(m.head)
    BY <1>1 DEF Content, Encode
  <2>2. e \in Seq(Byte) /\ Len(e) = 4
    <3>1. PackWords(m.head) \in Seq(Byte) /\ Len(PackWords(m.head)) = 2 * Len(m.head)
      BY <2>1, PackTyped
    <3>. QED BY <2>1, <3>1
  <2>3. UnpackWords(SubSeq(e, 1, 4)) = m.head
    BY <2>1, <2>2, SubSeqFull, UnpackPack
  <2>. HIDE DEF e
  <2>. QED BY <1>1, <2>1, <2>2, <2>3 DEF Shape, Readable, Header, Values, e
<1>2. CASE m.class = "registers"
  <2>1. /\ m.head \in Seq(Word) /\ Len(m.head) = 1
        /\ m.values \in Seq(Word) /\ 2 * Len(m.values) \in Byte
        /\ e = PackWords(m.head \o <<Len(m.values)>>) \o <<2 * Len(m.values)>> \o PackWords(m.values)
    BY <1>2 DEF Content, Encode
  <2>2. /\ e \in Seq(Byte) /\ Len(e) >= 5 /\ Len(e) = 5 + 2 * Len(m.values)
        /\ e[5] = 2 * Len(m.values) /\ WordAt(e, 3) = Len(m.values)
        /\ UnpackWords(e)[2] = Len(m.values)
        /\ UnpackWords(SubSeq(e, 1, 2)) = m.head
        /\ Slice(e, 6, 2 * Len(m.values)) = PackWords(m.values)
    <3>. DEFINE head == m.head
                w == m.values
                f == PackWords(head \o <<Len(w)>>) \o <<2 * Len(w)>> \o PackWords(w)
    <3>. HIDE DEF head, w
    <3>1. head \in Seq(Word) /\ Len(head) = 1 /\ w \in Seq(Word) /\ 2 * Len(w) \in Byte
      BY <2>1 DEF head, w
    <3>2. /\ f \in Seq(Byte) /\ Len(f) >= 5 /\ Len(f) = 5 + 2 * Len(w)
          /\ f[5] = 2 * Len(w) /\ WordAt(f, 3) = Len(w)
          /\ UnpackWords(f)[2] = Len(w)
          /\ UnpackWords(SubSeq(f, 1, 2)) = head
          /\ Slice(f, 6, 2 * Len(w)) = PackWords(w)
      BY <3>1, RegistersEncode
    <3>3. e = f
      BY <2>1 DEF head, w
    <3>. HIDE DEF f, e
    <3>. QED BY <3>2, <3>3 DEF head, w
  <2>3. /\ UnpackWords(PackWords(m.values)) = m.values
        /\ Len(PackWords(m.values)) = 2 * Len(m.values) /\ Len(m.values) \in Nat
    BY <2>1, UnpackPack, PackTyped, LenProperties
  <2>. HIDE DEF e
  <2>4. Readable("registers", e)
    BY <2>2, <2>3 DEF Readable
  <2>5. Shape("registers", e)
    BY <2>2, <2>3 DEF Shape
  <2>6. Header("registers", e) = m.head /\ Values("registers", e) = m.values
    BY <2>2, <2>3 DEF Header, Values
  <2>. QED BY <1>2, <2>2, <2>4, <2>5, <2>6 DEF e
<1>3. CASE m.class = "words"
  <2>. DEFINE d == PackWords(m.values)
  <2>1. /\ m.head = <<>> /\ m.values \in Seq(Word) /\ 2 * Len(m.values) \in Byte
        /\ e = <<2 * Len(m.values)>> \o d
    BY <1>3 DEF Content, Encode
  <2>2. /\ d \in Seq(Byte) /\ Len(d) = 2 * Len(m.values) /\ UnpackWords(d) = m.values
        /\ Len(m.values) \in Nat
    BY <2>1, UnpackPack, PackTyped, LenProperties
  <2>. HIDE DEF d, e
  <2>3. /\ e \in Seq(Byte) /\ e # <<>> /\ Len(e) = 2 * Len(m.values) + 1
        /\ e[1] = 2 * Len(m.values) /\ Slice(e, 2, 2 * Len(m.values)) = d
    BY <2>1, <2>2, CountedEncode
  <2>4. Readable("words", e)
    BY <2>2, <2>3 DEF Readable
  <2>5. Shape("words", e)
    <3>0. \A n \in Nat : (2 * n) % 2 = 0
      OBVIOUS
    <3>1. e[1] % 2 = 0
      BY <2>2, <2>3, <3>0
    <3>2. Len(e) >= 1 /\ e[1] = Len(e) - 1
      BY <2>2, <2>3
    <3>. QED BY <3>1, <3>2 DEF Shape
  <2>6. Header("words", e) = m.head /\ Values("words", e) = m.values
    BY <2>1, <2>2, <2>3 DEF Header, Values
  <2>. QED BY <1>3, <2>3, <2>4, <2>5, <2>6 DEF e
<1>4. CASE m.class = "bytes"
  <2>1. /\ m.head = <<>> /\ m.values \in Seq(Byte) /\ Len(m.values) \in Byte
        /\ e = <<Len(m.values)>> \o m.values
    BY <1>4 DEF Content, Encode
  <2>2. Len(m.values) \in Nat
    BY <2>1, LenProperties
  <2>. HIDE DEF e
  <2>3. /\ e \in Seq(Byte) /\ e # <<>> /\ Len(e) = Len(m.values) + 1
        /\ e[1] = Len(m.values) /\ Slice(e, 2, Len(m.values)) = m.values
    BY <2>1, CountedEncode
  <2>4. Readable("bytes", e) /\ Shape("bytes", e)
    BY <2>2, <2>3 DEF Readable, Shape
  <2>5. Header("bytes", e) = m.head /\ Values("bytes", e) = m.values
    BY <2>1, <2>3 DEF Header, Values
  <2>. QED BY <1>4, <2>3, <2>4, <2>5 DEF e
<1>5. CASE m.class = "exception"
  <2>1. m.head = <<>> /\ m.values \in Seq(Byte) /\ Len(m.values) = 1 /\ e = m.values
    BY <1>5 DEF Content, Encode
  <2>2. e # <<>> /\ <<e[1]>> = e
    BY <2>1
  <2>. HIDE DEF e
  <2>. QED BY <1>5, <2>1, <2>2 DEF Shape, Readable, Header, Values, e
<1>6. CASE m.class = "raw"
  <2>1. m.head = <<>> /\ m.values \in Seq(Byte) /\ e = m.values
    BY <1>6 DEF Content, Encode
  <2>. HIDE DEF e
  <2>. QED BY <1>6, <2>1 DEF Shape, Readable, Header, Values, e
<1>7. CASE m.class = "coils"
  <2>1. /\ m.head \in Seq(Word) /\ Len(m.head) = 1 /\ m.values \in Seq(Coil)
        /\ Len(m.values) \in Word /\ Len(PackCoils(m.values)) \in Byte
        /\ e = PackWords(m.head \o <<Len(m.values)>>)
                 \o <<Len(PackCoils(m.values))>> \o PackCoils(m.values)
    BY <1>7 DEF Content, Encode
  <2>2. /\ e \in Seq(Byte) /\ Len(e) >= 5 /\ e[5] = Len(e) - 5
        /\ UnpackWords(SubSeq(e, 1, 2)) = m.head
        /\ UnpackCoils(Slice(e, 6, e[5]), UnpackWords(e)[2]) = m.values
        /\ WordAt(e, 3) \in (e[5] - 1) * BitsPerByte + 1 .. e[5] * BitsPerByte
        /\ e[5] > 0 => e[Len(e)] < 2 ^ (WordAt(e, 3) - (e[5] - 1) * BitsPerByte)
    <3>. DEFINE head == m.head
                c == m.values
                f == PackWords(head \o <<Len(c)>>) \o <<Len(PackCoils(c))>> \o PackCoils(c)
    <3>1. /\ head \in Seq(Word) /\ Len(head) = 1 /\ c \in Seq(Coil)
          /\ Len(c) \in Word /\ Len(PackCoils(c)) \in Byte
      BY <2>1
    <3>. HIDE DEF head, c
    <3>2. /\ f \in Seq(Byte) /\ Len(f) >= 5 /\ f[5] = Len(f) - 5
          /\ UnpackWords(SubSeq(f, 1, 2)) = head
          /\ UnpackCoils(Slice(f, 6, f[5]), UnpackWords(f)[2]) = c
          /\ WordAt(f, 3) \in (f[5] - 1) * BitsPerByte + 1 .. f[5] * BitsPerByte
          /\ f[5] > 0 => f[Len(f)] < 2 ^ (WordAt(f, 3) - (f[5] - 1) * BitsPerByte)
      BY <3>1, CoilsEncode
    <3>3. e = f
      BY <2>1 DEF head, c
    <3>. HIDE DEF f, e
    <3>. QED BY <3>2, <3>3 DEF head, c
  <2>. HIDE DEF e
  <2>3. Readable("coils", e) /\ Shape("coils", e)
    BY <2>2 DEF Readable, Shape
  <2>4. Header("coils", e) = m.head /\ Values("coils", e) = m.values
    BY <2>2 DEF Header, Values
  <2>. QED BY <1>7, <2>2, <2>3, <2>4 DEF e
<1>. QED
  BY <1>1, <1>2, <1>3, <1>4, <1>5, <1>6, <1>7 DEF PduClass

\* What _from_payload() reads is a message of its class.
LEMMA DecodeGivesContent ==
    ASSUME NEW class \in PduClass, NEW p \in Seq(Byte), Readable(class, p)
    PROVE  Content(class, Header(class, p), Values(class, p))
<1>0. Len(p) \in Nat
  BY LenProperties
<1>1. CASE class = "pair"
  <2>1. 2 \in Nat /\ 2 * 2 <= Len(p) /\ 2 * 2 = 4
    BY <1>0, <1>1 DEF Readable
  <2>2. UnpackWords(SubSeq(p, 1, 4)) \in Seq(Word) /\ Len(UnpackWords(SubSeq(p, 1, 4))) = 2
    BY <2>1, FirstWords
  <2>. QED BY <1>1, <2>2 DEF Content, Header, Values
<1>2. CASE class = "registers"
  <2>1. Len(p) >= 5 /\ Readable("registers", p)
    BY <1>2 DEF Readable
  <2>2. /\ UnpackWords(SubSeq(p, 1, 2)) \in Seq(Word) /\ Len(UnpackWords(SubSeq(p, 1, 2))) = 1
        /\ UnpackWords(Slice(p, 6, 2 * UnpackWords(p)[2])) \in Seq(Word)
        /\ 2 * Len(UnpackWords(Slice(p, 6, 2 * UnpackWords(p)[2]))) \in Byte
    BY <2>1, RegistersDecode
  <2>. QED BY <1>2, <2>2 DEF Content, Header, Values
<1>3. CASE class = "words"
  <2>. DEFINE d == Slice(p, 2, p[1])
  <2>1. p # <<>> /\ Len(d) % 2 = 0
    BY <1>3 DEF Readable
  <2>2. d \in Seq(Byte) /\ Len(d) \in Byte
    BY <2>1, CountedDecode
  <2>. HIDE DEF d
  <2>3. UnpackWords(d) \in Seq(Word) /\ Len(UnpackWords(d)) = Len(d) \div 2
    BY <2>2, UnpackTyped
  <2>4. 2 * (Len(d) \div 2) = Len(d)
    BY <2>1, <2>2, BaseIsNat
  <2>. QED BY <1>3, <2>2, <2>3, <2>4 DEF Content, Header, Values, d
<1>4. CASE class = "bytes"
  <2>1. p # <<>>
    BY <1>4 DEF Readable
  <2>2. Slice(p, 2, p[1]) \in Seq(Byte) /\ Len(Slice(p, 2, p[1])) \in Byte
    BY <2>1, CountedDecode
  <2>. QED BY <1>4, <2>2 DEF Content, Header, Values
<1>5. CASE class = "exception"
  <2>1. p # <<>>
    BY <1>5 DEF Readable
  <2>2. p[1] \in Byte
    BY <2>1, CountedDecode
  <2>3. <<p[1]>> \in Seq(Byte) /\ Len(<<p[1]>>) = 1
    BY <2>2
  <2>. QED BY <1>5, <2>3 DEF Content, Header, Values
<1>6. CASE class = "raw"
  BY <1>6 DEF Content, Header, Values
<1>7. CASE class = "coils"
  <2>1. Len(p) >= 5
    BY <1>7 DEF Readable
  <2>. DEFINE head == UnpackWords(SubSeq(p, 1, 2))
              c == UnpackCoils(Slice(p, 6, p[5]), UnpackWords(p)[2])
  <2>2. /\ head \in Seq(Word) /\ Len(head) = 1 /\ c \in Seq(Coil)
        /\ Len(c) \in Word /\ Len(PackCoils(c)) \in Byte
    BY <2>1, CoilsDecode
  <2>3. Header(class, p) = head /\ Values(class, p) = c
    BY <1>7 DEF Header, Values
  <2>. HIDE DEF head, c
  <2>. QED BY <1>7, <2>2, <2>3 DEF Content
<1>. QED
  BY <1>1, <1>2, <1>3, <1>4, <1>5, <1>6, <1>7 DEF PduClass

\* A sequence of length one is the sequence of its element.
LEMMA SingletonSeq ==
    ASSUME NEW S, NEW p \in Seq(S), Len(p) = 1
    PROVE  p # <<>> /\ p[1] \in S /\ <<p[1]>> = p
<1>1. p # <<>>
  OBVIOUS
<1>2. p[1] \in S
  <2>1. 1 \in 1 .. Len(p)
    OBVIOUS
  <2>. QED BY <2>1, ElementOfSeq
<1>. DEFINE h == <<p[1]>>
<1>3. h \in Seq(S) /\ Len(h) = Len(p) /\ \A i \in 1 .. Len(h) : h[i] = p[i]
  BY <1>2
<1>. HIDE DEF h
<1>4. h = p
  BY <1>3, SeqEqual
<1>. QED BY <1>1, <1>2, <1>4 DEF h

\* A payload of the right shape is read, and encoded again as it was.
THEOREM DecodeThenEncode ==
    ASSUME NEW class \in PduClass, NEW p \in Seq(Byte), Shape(class, p),
           NEW m, m.class = class, m.head = Header(class, p), m.values = Values(class, p)
    PROVE  Readable(class, p) /\ Encode(m) = p
<1>0. Len(p) \in Nat
  BY LenProperties
<1>1. CASE class = "pair"
  <2>0. Len(p) = 4
    BY <1>1 DEF Shape
  <2>1. Len(p) = 4 /\ Len(p) % 2 = 0
    BY <2>0
  <2>2. PackWords(UnpackWords(SubSeq(p, 1, 4))) = p
    BY <2>1, SubSeqFull, PackUnpack
  <2>. QED BY <1>1, <2>1, <2>2 DEF Readable, Header, Encode
<1>2. CASE class = "registers"
  <2>. DEFINE head == UnpackWords(SubSeq(p, 1, 2))
              w == UnpackWords(Slice(p, 6, 2 * UnpackWords(p)[2]))
  <2>1. Len(p) >= 5 /\ p[5] = Len(p) - 5 /\ p[5] = 2 * WordAt(p, 3)
    BY <1>2 DEF Shape
  <2>2. /\ Readable("registers", p)
        /\ PackWords(head \o <<Len(w)>>) \o <<2 * Len(w)>> \o PackWords(w) = p
    BY <2>1, RegistersDecode
  <2>3. m.head = head /\ m.values = w
    BY <1>2 DEF Header, Values
  <2>. HIDE DEF head, w
  <2>. QED BY <1>2, <2>2, <2>3 DEF Encode
<1>3. CASE class = "words"
  <2>. DEFINE d == Slice(p, 2, p[1])
  <2>1. Len(p) >= 1 /\ p[1] = Len(p) - 1 /\ p[1] % 2 = 0 /\ p # <<>>
    BY <1>0, <1>3 DEF Shape
  <2>2. d \in Seq(Byte) /\ Len(d) = p[1] /\ <<p[1]>> \o d = p
    BY <2>1, CountedDecode
  <2>3. m.values = UnpackWords(d)
    BY <1>3 DEF Values
  <2>4. Readable("words", p)
    BY <2>1, <2>2 DEF Readable
  <2>. HIDE DEF d
  <2>5. Len(d) % 2 = 0 /\ Len(UnpackWords(d)) = Len(d) \div 2
    BY <2>1, <2>2, UnpackTyped
  <2>6. PackWords(m.values) = d
    BY <2>2, <2>3, <2>5, PackUnpack
  <2>7. 2 * Len(m.values) = p[1]
    <3>1. Len(d) \in Nat
      BY <2>2, LenProperties
    <3>2. 2 * (Len(d) \div 2) = Len(d)
      BY <2>5, <3>1
    <3>. QED BY <2>2, <2>3, <2>5, <3>2
  <2>. QED BY <1>3, <2>2, <2>4, <2>6, <2>7 DEF Encode
<1>4. CASE class = "bytes"
  <2>1. Len(p) >= 1 /\ p[1] = Len(p) - 1 /\ p # <<>>
    BY <1>0, <1>4 DEF Shape
  <2>2. Len(Slice(p, 2, p[1])) = p[1] /\ <<p[1]>> \o Slice(p, 2, p[1]) = p
    BY <2>1, CountedDecode
  <2>. QED BY <1>4, <2>1, <2>2 DEF Readable, Values, Encode
<1>5. CASE class = "exception"
  <2>0. Len(p) = 1
    BY <1>5 DEF Shape
  <2>1. p # <<>> /\ <<p[1]>> = p
    BY <2>0, SingletonSeq
  <2>. QED BY <1>5, <2>1 DEF Readable, Values, Encode
<1>6. CASE class = "raw"
  BY <1>6 DEF Readable, Values, Encode
<1>7. CASE class = "coils"
  <2>. DEFINE head == UnpackWords(SubSeq(p, 1, 2))
              c == UnpackCoils(Slice(p, 6, p[5]), UnpackWords(p)[2])
  <2>1. /\ Len(p) >= 5 /\ p[5] = Len(p) - 5
        /\ WordAt(p, 3) \in (p[5] - 1) * BitsPerByte + 1 .. p[5] * BitsPerByte
        /\ p[5] > 0 => p[Len(p)] < 2 ^ (WordAt(p, 3) - (p[5] - 1) * BitsPerByte)
    BY <1>7 DEF Shape
  <2>2. PackWords(head \o <<Len(c)>>) \o <<Len(PackCoils(c))>> \o PackCoils(c) = p
    BY <2>1, CoilsDecode
  <2>3. m.head = head /\ m.values = c
    BY <1>7 DEF Header, Values
  <2>. HIDE DEF head, c
  <2>4. Readable(class, p)
    BY <1>7, <2>1 DEF Readable
  <2>. QED BY <1>7, <2>2, <2>3, <2>4 DEF Encode
<1>. QED
  BY <1>1, <1>2, <1>3, <1>4, <1>5, <1>6, <1>7 DEF PduClass

-----------------------------------------------------------------------------
(* ADUs *)

\* The layout of the PDUs, by function code and by class.
LEMMA FitsIsShape ==
    ASSUME NEW side \in {"request", "answer"}, NEW fc \in Nat, NEW p
    PROVE  /\ Class(side, fc) \in PduClass
           /\ (Class(side, fc) = "exception") <=> (side = "answer" /\ fc >= 128)
           /\ side = "request" => (RequestFits(fc, p) <=> Shape(Class(side, fc), p))
           /\ side = "answer" => (AnswerFits(fc, p) <=> Shape(Class(side, fc), p))
<1>1. CASE side = "request"
  <2>1. CASE fc \in 1 .. 6
    BY <1>1, <2>1 DEF PduClass, Class, RequestClass, RequestFits, Shape
  <2>2. CASE fc = 16
    BY <1>1, <2>2 DEF PduClass, Class, RequestClass, RequestFits, Shape
  <2>3. CASE fc = 15
    BY <1>1, <2>3 DEF PduClass, Class, RequestClass, RequestFits, Shape
  <2>4. CASE fc \notin (1 .. 6) \cup {15, 16}
    BY <1>1, <2>4 DEF PduClass, Class, RequestClass, RequestFits, Shape
  <2>. QED BY <1>1, <2>1, <2>2, <2>3, <2>4
<1>2. CASE side = "answer"
  <2>1. CASE fc >= 128
    BY <1>2, <2>1 DEF PduClass, Class, ResponseClass, AnswerFits, Shape
  <2>2. CASE fc \in {1, 2}
    BY <1>2, <2>2 DEF PduClass, Class, ResponseClass, AnswerFits, Shape
  <2>3. CASE fc \in {3, 4}
    BY <1>2, <2>3 DEF PduClass, Class, ResponseClass, AnswerFits, Shape
  <2>4. CASE fc \in {5, 6, 15, 16}
    BY <1>2, <2>4 DEF PduClass, Class, ResponseClass, AnswerFits, Shape
  <2>5. CASE fc < 128 /\ fc \notin {1, 2, 3, 4, 5, 6, 15, 16}
    BY <1>2, <2>5 DEF PduClass, Class, ResponseClass, AnswerFits, Shape
  <2>. QED BY <2>1, <2>2, <2>3, <2>4, <2>5
<1>. QED
  BY <1>1, <1>2

\* What is read as an ADU: numbers, and bytes from the payload on.
IsAdu(adu) == adu \in Seq(Nat) /\ \A i \in 3 .. Len(adu) : adu[i] \in Byte

\* An ADU that can be taken apart, and put together again.
LEMMA AduParts ==
    ASSUME NEW adu, IsAdu(adu), Len(adu) >= 2
    PROVE  LET p == SubSeq(adu, 3, Len(adu))
           IN  /\ p \in Seq(Byte) /\ adu[1] \in Nat /\ adu[2] \in Nat
               /\ adu = <<adu[1], adu[2]>> \o p
               /\ Tail(adu) = <<adu[2]>> \o p
<1>. DEFINE p == SubSeq(adu, 3, Len(adu))
<1>1. Len(adu) \in Nat /\ \A i \in 1 .. Len(adu) : adu[i] \in Nat
  BY LenProperties, ElementOfSeq DEF IsAdu
<1>2. /\ p \in Seq(Byte) /\ Len(p) = IF 3 <= Len(adu) THEN Len(adu) - 3 + 1 ELSE 0
      /\ \A i \in 1 .. Len(adu) - 3 + 1 : p[i] = adu[3 + i - 1]
  BY <1>1, SubSeqProperties DEF IsAdu
<1>. HIDE DEF p
<1>3. Len(p) = Len(adu) - 2 /\ adu[1] \in Nat /\ adu[2] \in Nat
  <2>1. 1 \in 1 .. Len(adu) /\ 2 \in 1 .. Len(adu)
    BY <1>1
  <2>2. Len(p) = Len(adu) - 2
    <3>1. \A n \in Nat : n >= 2 => (IF 3 <= n THEN n - 3 + 1 ELSE 0) = n - 2
      OBVIOUS
    <3>. QED BY <1>1, <1>2, <3>1
  <2>. QED BY <1>1, <2>1, <2>2
<1>. DEFINE u == <<adu[1], adu[2]>>
            w == u \o p
<1>4. u \in Seq(Nat) /\ Len(u) = 2 /\ u[1] = adu[1] /\ u[2] = adu[2]
  BY <1>3
<1>5. p \in Seq(Nat)
  BY <1>2, BaseIsNat, SeqMonotonic
<1>6. Tail(w) = <<adu[2]>> \o p
  <2>1. Framed(adu[1], adu[2], p, <<adu[1], adu[2]>> \o p)
    BY <1>2, FrameParts
  <2>. QED BY <2>1 DEF Framed
<1>. HIDE DEF u
<1>7. /\ w \in Seq(Nat) /\ Len(w) = Len(u) + Len(p)
      /\ \A i \in 1 .. Len(u) + Len(p) : w[i] = IF i <= Len(u) THEN u[i] ELSE p[i - Len(u)]
  BY <1>4, <1>5, ConcatProperties
<1>. HIDE DEF w
<1>8. Len(w) = Len(adu)
  BY <1>1, <1>3, <1>4, <1>7
<1>9. ASSUME NEW i \in 1 .. Len(w) PROVE w[i] = adu[i]
  <2>1. CASE i <= 2
    BY <1>1, <1>4, <1>7, <1>8, <2>1
  <2>2. CASE i > 2
    <3>1. i - 2 \in 1 .. Len(adu) - 3 + 1 /\ 3 + (i - 2) - 1 = i /\ i \in 1 .. Len(u) + Len(p)
      BY <1>1, <1>7, <1>8, <2>2
    <3>2. p[i - 2] = adu[3 + (i - 2) - 1]
      BY <1>2, <3>1
    <3>3. w[i] = p[i - 2]
      BY <1>4, <1>7, <2>2, <3>1
    <3>. QED BY <3>1, <3>2, <3>3
  <2>. QED BY <2>1, <2>2, <1>1, <1>8
<1>10. w = adu
  BY <1>7, <1>8, <1>9, SeqEqual DEF IsAdu
<1>. QED
  BY <1>2, <1>3, <1>6, <1>10 DEF w, u, p

\* A well-formed frame is never refused.
LEMMA WellFormedIsRead ==
    ASSUME NEW side \in {"request", "answer"}, NEW adu, IsAdu(adu),
           WellFormed(side, adu)
    PROVE  Decodable(side, adu)
<1>. DEFINE p == SubSeq(adu, 3, Len(adu))
            class == Class(side, adu[2])
            m == [class |-> class, head |-> Header(class, p), values |-> Values(class, p)]
<1>1. Len(adu) >= 2 /\ IF side = "request" THEN RequestFits(adu[2], p) ELSE AnswerFits(adu[2], p)
  BY DEF WellFormed
<1>2. p \in Seq(Byte) /\ adu[2] \in Nat
  BY <1>1, AduParts
<1>. HIDE DEF p
<1>3. class \in PduClass /\ Shape(class, p)
  BY <1>1, <1>2, FitsIsShape
<1>4. m.class = class /\ m.head = Header(class, p) /\ m.values = Values(class, p)
  OBVIOUS
<1>. HIDE DEF class, m
<1>5. Readable(class, p)
  BY <1>2, <1>3, <1>4, DecodeThenEncode
<1>. QED
  BY <1>1, <1>5 DEF Decodable, class, p

\* What becomes of an ADU that is decoded into m: m is encoded into a well-formed ADU,
\* of which the far side reads m, and which is the first one if that was well-formed.
Passes(side, adu, m) ==
    LET w == ToAdu(m)
    IN  /\ \A i \in 3 .. Len(w) : w[i] \in Byte
        /\ Decodable(side, w) /\ Decode(side, w) = m /\ WellFormed(side, w)
        /\ WellFormed(side, adu) => Tail(w) = Tail(adu) /\ (m.unit = adu[1] => w = adu)

\* A frame that is decoded, and encoded with a unit of the plan's.
LEMMA Passage ==
    ASSUME NEW side \in {"request", "answer"}, NEW adu, IsAdu(adu),
           Decodable(side, adu), NEW unit
    PROVE  Passes(side, adu, [Decode(side, adu) EXCEPT !.unit = unit])
<1>. DEFINE m == [Decode(side, adu) EXCEPT !.unit = unit]
            w == ToAdu(m)
            p == SubSeq(adu, 3, Len(adu))
            fc == adu[2]
            class == Class(side, fc)
            e == Encode(m)
<1>1. Len(adu) >= 2 /\ Readable(class, p)
  BY DEF Decodable
<1>2. /\ p \in Seq(Byte) /\ fc \in Nat
      /\ adu = <<adu[1], fc>> \o p /\ Tail(adu) = <<fc>> \o p
  BY <1>1, AduParts
<1>3. m = [class |-> class, unit |-> unit,
           fc |-> IF class = "exception" THEN fc - 128 ELSE fc,
           head |-> Header(class, p), values |-> Values(class, p)]
  BY DEF Decode
<1>4. /\ class \in PduClass
      /\ (class = "exception") <=> (side = "answer" /\ fc >= 128)
      /\ \A s : /\ side = "request" => (RequestFits(fc, s) <=> Shape(class, s))
                /\ side = "answer" => (AnswerFits(fc, s) <=> Shape(class, s))
  BY <1>2, FitsIsShape
<1>. HIDE DEF p, fc, class, m
<1>5. /\ m.class = class /\ m.unit = unit
      /\ m.fc = (IF class = "exception" THEN fc - 128 ELSE fc)
      /\ m.head = Header(class, p) /\ m.values = Values(class, p)
  BY <1>3
<1>6. FunctionCode(m) = fc
  BY <1>2, <1>5 DEF FunctionCode
<1>7. Content(m.class, m.head, m.values)
  BY <1>1, <1>2, <1>4, <1>5, DecodeGivesContent
<1>8. /\ e \in Seq(Byte) /\ Shape(class, e) /\ Readable(class, e)
      /\ Header(class, e) = m.head /\ Values(class, e) = m.values
  <2>1. m.class \in PduClass
    BY <1>4, <1>5
  <2>. QED BY <1>5, <1>7, <2>1, EncodeThenDecode
<1>9. w = <<unit, fc>> \o e
  BY <1>5, <1>6 DEF ToAdu
<1>. HIDE DEF e, w
<1>10. /\ Len(w) >= 2 /\ w[1] = unit /\ w[2] = fc /\ Tail(w) = <<fc>> \o e
       /\ \A i \in 3 .. Len(w) : w[i] \in Byte
       /\ SubSeq(w, 3, Len(w)) = e
  <2>1. /\ Len(w) = Len(e) + 2 /\ Len(w) >= 2 /\ Len(e) \in Nat
        /\ w[1] = unit /\ w[2] = fc
        /\ \A i \in 3 .. Len(w) : w[i] \in Byte
        /\ SubSeq(w, 3, Len(w)) = e
        /\ Tail(w) = <<fc>> \o e
    <3>1. Framed(unit, fc, e, w)
      BY <1>8, <1>9, FrameParts
    <3>. QED BY <3>1 DEF Framed
  <2>. QED BY <2>1
<1>11. Class(side, w[2]) = class
  BY <1>10 DEF class
<1>12. Decodable(side, w)
  BY <1>8, <1>10, <1>11 DEF Decodable
<1>13. Decode(side, w) = m
  BY <1>3, <1>5, <1>8, <1>10, <1>11 DEF Decode
<1>14. WellFormed(side, w)
  BY <1>4, <1>8, <1>10 DEF WellFormed
<1>15. ASSUME WellFormed(side, adu)
       PROVE  Tail(w) = Tail(adu) /\ (m.unit = adu[1] => w = adu)
  <2>1. Shape(class, p)
    BY <1>4, <1>15 DEF WellFormed, p, fc
  <2>2. e = p
    BY <1>2, <1>4, <1>5, <2>1, DecodeThenEncode DEF e
  <2>. QED BY <1>2, <1>5, <1>9, <1>10, <2>2
<1>. QED
  BY <1>10, <1>12, <1>13, <1>14, <1>15 DEF Passes, w, m

-----------------------------------------------------------------------------
(* The way of a frame *)

\* What is held at each place, in terms of what came in.
Places == {"idle", "received", "routed", "forwarded", "dropped", "answered", "replied", "failed"}

Carried ==
    /\ at \in Places \ {"idle"} => IsAdu(came)
    /\ at \in {"received", "routed", "forwarded"} => Decodable("request", came)
    /\ at \in {"answered", "replied"} => Decodable("answer", came)
    /\ at = "dropped" => ~ Decodable("request", came)
    /\ at = "failed" => ~ Decodable("answer", came)
    /\ at = "received" => msg = Decode("request", came)
    /\ at \in {"routed", "forwarded"} =>
          \E unit \in Units : msg = [Decode("request", came) EXCEPT !.unit = unit]
    /\ at \in {"answered", "replied"} => msg = Decode("answer", came)
    /\ at \in {"forwarded", "replied"} => went = ToAdu(msg)

\* Inductive.
MsgInv ==
    /\ at \in Places
    /\ Carried
    /\ at \notin {"forwarded", "replied"} => went = <<>>

\* The ADUs are those of the assumption.
LEMMA AdusAreTyped == \A adu \in Requests \cup Answers : IsAdu(adu)
BY MessagesAssumption DEF IsAdu

LEMMA MsgInvariant == Spec => []MsgInv
<1>1. Init => MsgInv
  BY DEF Init, MsgInv, Carried, Places
<1>2. MsgInv /\ [Next]_vars => MsgInv'
  <2>. SUFFICES ASSUME MsgInv, [Next]_vars
                PROVE  MsgInv'
    OBVIOUS
  <2>. USE DEF MsgInv, Carried, Places
  <2>1. CASE Receive
    <3>1. PICK adu \in Requests : Read("request", adu, "received", "dropped")
      BY <2>1 DEF Receive
    <3>2. IsAdu(adu)
      BY AdusAreTyped
    <3>. QED BY <2>1, <3>1, <3>2 DEF Read, Receive
  <2>2. CASE Route
    BY <2>2 DEF Route
  <2>3. CASE Forward
    BY <2>3 DEF Forward, Write
  <2>4. CASE Answer
    <3>1. PICK adu \in Answers : Read("answer", adu, "answered", "failed")
      BY <2>4 DEF Answer
    <3>2. IsAdu(adu)
      BY AdusAreTyped
    <3>. QED BY <2>4, <3>1, <3>2 DEF Read, Answer
  <2>5. CASE Reply
    BY <2>5 DEF Reply, Write
  <2>6. CASE Again
    BY <2>6 DEF Again
  <2>7. CASE UNCHANGED vars
    BY <2>7 DEF vars
  <2>. QED BY <2>1, <2>2, <2>3, <2>4, <2>5, <2>6, <2>7 DEF Next
<1>. QED
  BY <1>1, <1>2, PTL DEF Spec

\* What is known of a frame that was written.
LEMMA Written ==
    ASSUME Carried, at \in {"forwarded", "replied"}
    PROVE  LET side == IF at = "forwarded" THEN "request" ELSE "answer"
           IN  /\ \A i \in 3 .. Len(went) : went[i] \in Byte
               /\ Decodable(side, went) /\ Decode(side, went) = msg /\ WellFormed(side, went)
               /\ WellFormed(side, came) =>
                     Tail(went) = Tail(came) /\ (at = "replied" => went = came)
<1>1. CASE at = "forwarded"
  <2>1. IsAdu(came) /\ Decodable("request", came) /\ went = ToAdu(msg)
    BY <1>1 DEF Carried, Places
  <2>2. PICK unit \in Units : msg = [Decode("request", came) EXCEPT !.unit = unit]
    BY <1>1 DEF Carried
  <2>4. /\ \A i \in 3 .. Len(went) : went[i] \in Byte
        /\ Decodable("request", went) /\ Decode("request", went) = msg
        /\ WellFormed("request", went)
        /\ WellFormed("request", came) => Tail(went) = Tail(came)
    <3>1. Passes("request", came, msg)
      BY <2>1, <2>2, Passage
    <3>. QED BY <2>1, <3>1 DEF Passes
  <2>. QED BY <1>1, <2>4
<1>2. CASE at = "replied"
  <2>1. /\ IsAdu(came) /\ Decodable("answer", came) /\ went = ToAdu(msg)
        /\ msg = Decode("answer", came)
    BY <1>2 DEF Carried, Places
  <2>2. msg = [Decode("answer", came) EXCEPT !.unit = came[1]]
    BY <2>1 DEF Decode
  <2>4. Passes("answer", came, msg)
    BY <2>1, <2>2, Passage
  <2>5. msg.unit = came[1]
    BY <2>1 DEF Decode
  <2>. QED BY <1>2, <2>1, <2>4, <2>5 DEF Passes
<1>. QED
  BY <1>1, <1>2

\* What the properties say follows at each place, whoever sends the frames.
LEMMA CarriedGivesAll ==
    ASSUME Carried
    PROVE  /\ MeaningIsKept
           /\ Transparent
           /\ (at \notin {"forwarded", "replied"} => \A i \in 3 .. Len(went) : went[i] \in Byte)
                 => NothingMalformedGetsOut
<1>1. MeaningIsKept
  BY Written DEF MeaningIsKept
<1>2. ASSUME at \notin {"forwarded", "replied"} => \A i \in 3 .. Len(went) : went[i] \in Byte
      PROVE  NothingMalformedGetsOut
  BY <1>2, Written DEF NothingMalformedGetsOut
<1>3. Transparent
  <2>1. at = "forwarded" /\ WellFormed("request", came) => Tail(went) = Tail(came)
    BY Written
  <2>2. at = "replied" /\ WellFormed("answer", came) => went = came
    BY Written
  <2>3. ASSUME at = "dropped" PROVE ~ WellFormed("request", came)
    <3>1. IsAdu(came) /\ ~ Decodable("request", came)
      BY <2>3 DEF Carried, Places
    <3>. QED BY <3>1, WellFormedIsRead
  <2>4. ASSUME at = "failed" PROVE ~ WellFormed("answer", came)
    <3>1. IsAdu(came) /\ ~ Decodable("answer", came)
      BY <2>4 DEF Carried, Places
    <3>. QED BY <3>1, WellFormedIsRead
  <2>. QED BY <2>1, <2>2, <2>3, <2>4 DEF Transparent
<1>. QED
  BY <1>1, <1>2, <1>3

\* The far side reads the message the gateway had decoded, routed and filtered by:
\* for every PDU class, payloads of every length, and bytes of every width.
THEOREM MeaningKept == Spec => []MeaningIsKept
<1>1. MsgInv => MeaningIsKept
  BY CarriedGivesAll DEF MsgInv
<1>. QED
  BY <1>1, MsgInvariant, PTL

\* Truncated, padded or with a wrong count, what comes in is written well-formed or
\* not at all, and no byte count outgrows its byte (the encode() methods).
THEOREM NothingMalformed == Spec => []NothingMalformedGetsOut
<1>1. MsgInv => NothingMalformedGetsOut
  <2>1. ASSUME MsgInv, at \notin {"forwarded", "replied"}
        PROVE  \A i \in 3 .. Len(went) : went[i] \in Byte
    BY <2>1 DEF MsgInv
  <2>. QED BY <2>1, CarriedGivesAll DEF MsgInv
<1>. QED
  BY <1>1, MsgInvariant, PTL

\* A well-formed frame passes the gateway byte for byte, but for the unit id of a
\* request, and is never refused (from_adu(), to_adu()).
THEOREM GatewayIsTransparent == Spec => []Transparent
<1>1. MsgInv => Transparent
  BY CarriedGivesAll DEF MsgInv
<1>. QED
  BY <1>1, MsgInvariant, PTL

=============================================================================
