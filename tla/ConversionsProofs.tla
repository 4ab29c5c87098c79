------------------------- MODULE ConversionsProofs -------------------------
(***************************************************************************)
(* Numbers that survive the conversions, for every size of a word: what    *)
(* TLC checks with words of two bits holds for the 16 bits of the code.    *)
(***************************************************************************)
EXTENDS Conversions, TLAPS

(* What a type can hold. *)
LEMMA Remainders ==
    ASSUME NEW size \in Nat, size > 0, NEW n \in Int
    PROVE  /\ 0 <= n /\ n < size => n % size = n
           /\ -size <= n /\ n < 0 => n % size = n + size
<1>1. ASSUME 0 <= n, n < size PROVE n % size = n
  BY <1>1
<1>2. ASSUME -size <= n, n < 0 PROVE n % size = n + size
  BY <1>2
<1> QED BY <1>1, <1>2

(* A number of a signed type is read back from its unsigned form. *)
LEMMA SignedBack ==
    ASSUME NEW size \in Nat, size > 0, size % 2 = 0, NEW n \in Int, IsSigned(n, size)
    PROVE  Signed(n, size) = n /\ Signed(Unsigned(n, size), size) = n
<1> DEFINE half == size \div 2
<1>1. half \in Nat /\ size = 2 * half
  OBVIOUS
<1>2. -half <= n /\ n < half
  BY DEF IsSigned
<1> HIDE DEF half
<1>3. CASE n >= 0
  <2>1. n % size = n
    BY <1>1, <1>2, <1>3, Remainders
  <2> QED BY <1>2, <1>3, <2>1 DEF Signed, Unsigned, half
<1>4. CASE n < 0
  <2>1. n % size = n + size
    BY <1>1, <1>2, <1>4, Remainders
  <2>2. (n + size) % size = n + size
    BY <1>1, <1>2, <1>4, Remainders
  <2>3. ~(n + size < half)
    BY <1>1, <1>2
  <2> QED BY <2>1, <2>2, <2>3 DEF Signed, Unsigned, half
<1> QED BY <1>3, <1>4

(* A number of an unsigned type is read back from its signed form. *)
LEMMA UnsignedBack ==
    ASSUME NEW size \in Nat, size > 0, size % 2 = 0, NEW n \in Int, 0 <= n, n < size
    PROVE  /\ Signed(n, size) \in Int /\ -size <= Signed(n, size) /\ Signed(n, size) < size
           /\ Unsigned(Signed(n, size), size) = n
<1> DEFINE half == size \div 2
<1>1. half \in Nat /\ size = 2 * half
  OBVIOUS
<1>2. n % size = n
  BY Remainders
<1>3. Signed(n, size) = IF n < half THEN n ELSE n - size
  BY <1>2 DEF Signed
<1> HIDE DEF half
<1>4. CASE n < half
  BY <1>2, <1>3, <1>4 DEF Unsigned
<1>5. CASE ~(n < half)
  <2>1. (n - size) % size = n - size + size
    BY <1>1, <1>5, Remainders
  <2> QED BY <1>1, <1>3, <1>5, <2>1 DEF Unsigned
<1> QED BY <1>4, <1>5

(* The sizes of the types of the code. *)
LEMMA Sizes ==
    /\ WordSize \in Nat /\ WordSize > 1 /\ WordSize % 2 = 0
    /\ DoubleSize \in Nat /\ DoubleSize > 1 /\ DoubleSize % 2 = 0
    /\ DoubleSize >= 2 * WordSize
    /\ LongSize \in Nat /\ LongSize > DoubleSize
<1>1. WordSize \in Nat /\ WordSize > 1 /\ WordSize % 2 = 0
  BY WordSizeAssumption
<1>2. DoubleSize \in Nat /\ DoubleSize % 2 = 0 /\ DoubleSize >= 2 * WordSize
  BY <1>1 DEF DoubleSize
<1>3. \A d \in Nat : d > 1 => d * d \in Nat /\ d * d > d
  OBVIOUS
<1>4. DoubleSize > 1
  BY <1>1, <1>2
<1> QED BY <1>1, <1>2, <1>3, <1>4 DEF LongSize

(* A number that the type of a mapping can hold, read from JSON as an int, *)
(* made a text, parsed, written to the registers and read from them, is    *)
(* the number again; so is its attribute, but for a negative INT16.  A     *)
(* FLOAT holds the integers that are all floats, up to FloatSize           *)
(* (readTypedValue(), writeToMapping(), formReadingForMappingValue() and   *)
(* formAttributeForMappingValue()).                                        *)
THEOREM NumbersComeBack ==
    ASSUME NEW dataType \in {"BOOL", "UINT16", "INT16", "UINT32", "INT32", "FLOAT", "STRING"},
           NEW n \in Int, Holds(dataType, n)
    PROVE  LET content == WriteToMapping(dataType, ReadTypedValue(Number(n)))
           IN  /\ ReadingOf(dataType, content) = Number(n)
               /\ ~(dataType = "INT16" /\ n < 0) => AttributeOf(dataType, content) = Number(n)
<1> DEFINE text == ReadTypedValue(Number(n))
           content == WriteToMapping(dataType, text)
           s == Signed(n, DoubleSize)
<1>1. text = Digits(s)
  BY DEF ReadTypedValue, Number
<1>2. text.is = "digits" /\ text.n = s
  BY <1>1 DEF Digits
<1> HIDE DEF text, s
<1>3. CASE dataType = "UINT16"
  <2>1. 0 <= n /\ n < WordSize
    BY <1>3 DEF Holds
  <2>2. s = n
    <3>1. IsSigned(n, DoubleSize)
      BY <2>1, Sizes DEF IsSigned
    <3> QED BY <3>1, Sizes, SignedBack DEF s
  <2>3. Unsigned(n, WordSize) = n
    BY <2>1, Sizes, Remainders DEF Unsigned
  <2>4. -LongSize < n /\ n < LongSize
    BY <2>1, Sizes
  <2>5. content = Number(n)
    BY <1>2, <1>3, <2>2, <2>3, <2>4 DEF WriteToMapping
  <2> QED BY <1>3, <2>5 DEF ReadingOf, AttributeOf, text
<1>4. CASE dataType = "INT16"
  <2>1. IsSigned(n, WordSize)
    BY <1>4 DEF Holds
  <2>2. s = n /\ IsSigned(n, DoubleSize)
    <3>1. IsSigned(n, DoubleSize)
      BY <2>1, Sizes DEF IsSigned
    <3> QED BY <3>1, Sizes, SignedBack DEF s
  <2>3. content = Number(Unsigned(n, WordSize))
    BY <1>2, <1>4, <2>2 DEF WriteToMapping
  <2>4. Signed(Unsigned(n, WordSize), WordSize) = n
    BY <2>1, Sizes, SignedBack
  <2>5. n >= 0 => Unsigned(n, WordSize) = n
    <3>1. n < WordSize
      BY <2>1, Sizes DEF IsSigned
    <3> QED BY <3>1, Sizes, Remainders DEF Unsigned
  <2> QED BY <1>4, <2>3, <2>4, <2>5 DEF ReadingOf, AttributeOf, Number, text
<1>5. CASE dataType = "UINT32"
  <2>1. 0 <= n /\ n < DoubleSize
    BY <1>5 DEF Holds
  <2>2. /\ s \in Int /\ -DoubleSize <= s /\ s < DoubleSize
        /\ Unsigned(s, DoubleSize) = n
    BY <2>1, Sizes, UnsignedBack DEF s
  <2>3. -LongSize < s /\ s < LongSize
    BY <2>2, Sizes
  <2>4. content = Number(n)
    BY <1>2, <1>5, <2>2, <2>3 DEF WriteToMapping
  <2> QED BY <1>5, <2>4 DEF ReadingOf, AttributeOf, text
<1>6. CASE dataType = "INT32"
  <2>1. IsSigned(n, DoubleSize)
    BY <1>6 DEF Holds
  <2>2. s = n /\ Signed(Unsigned(n, DoubleSize), DoubleSize) = n
    BY <2>1, Sizes, SignedBack DEF s
  <2>3. content = Number(Unsigned(n, DoubleSize))
    BY <1>2, <1>6, <2>1, <2>2 DEF WriteToMapping
  <2> QED BY <1>6, <2>2, <2>3 DEF ReadingOf, AttributeOf, Number, text
<1>7. CASE dataType = "FLOAT"
  <2>1. IsSigned(n, DoubleSize) /\ Magnitude(n) <= FloatSize
    BY <1>7 DEF Holds
  <2>2. s = n
    BY <2>1, Sizes, SignedBack DEF s
  <2>3. Float(n) = n /\ Magnitude(Float(n)) < FloatLimit
    <3>1. Float(n) = n
      BY <2>1 DEF Float
    <3>2. Magnitude(n) \in Int
      BY DEF Magnitude
    <3> QED BY <2>1, <3>1, <3>2, FloatAssumption
  <2>4. content = Number(n)
    BY <1>2, <1>7, <2>2, <2>3 DEF WriteToMapping
  <2> QED BY <1>7, <2>4 DEF ReadingOf, AttributeOf, text
<1>8. CASE dataType \in {"BOOL", "STRING"}
  BY <1>8 DEF Holds
<1> QED BY <1>3, <1>4, <1>5, <1>6, <1>7, <1>8 DEF text

-----------------------------------------------------------------------------
(* The signed form of a number differs from it by nothing or one size. *)
LEMMA SignedForm ==
    ASSUME NEW size \in Nat, size > 1, size % 2 = 0, NEW n \in Int
    PROVE  /\ Signed(n, size) \in Int /\ IsSigned(Signed(n, size), size)
           /\ Signed(n, size) = n % size \/ Signed(n, size) = (n % size) - size
<1> DEFINE half == size \div 2
<1>1. half \in Nat /\ size = 2 * half
  OBVIOUS
<1>2. n % size \in 0..size - 1
  OBVIOUS
<1> QED BY <1>1, <1>2 DEF Signed, IsSigned

(* The registers of the three groups of types (fromJSONMapping()). *)
LEMMA RegistersOf ==
    ASSUME NEW dataType, NEW address, NEW count
    PROVE  /\ dataType \in {"BOOL", "UINT16", "INT16"} =>
                Registers(dataType, address, count) = <<address>>
           /\ dataType \in TwoRegisters =>
                Registers(dataType, address, count) =
                    <<Signed(address, WordSize), Signed(address + 1, WordSize)>>
           /\ dataType = "STRING" =>
                Registers(dataType, address, count) =
                    [i \in 1..RegisterCount(count) |-> address + i - 1]
BY Zenon DEF Registers, TwoRegisters

(* The number of a register: its address modulo WordSize, and the number   *)
(* by which mappings of one kind know it (fromJSONMapping()).              *)
LEMMA RegisterNumbers ==
    ASSUME NEW dataType \in {"BOOL", "UINT16", "INT16", "UINT32", "INT32", "FLOAT", "STRING"},
           NEW address \in 0..WordSize - 1, NEW count \in [is : Kinds, n : Int],
           NEW k \in DOMAIN Registers(dataType, address, count)
    PROVE  LET r == Registers(dataType, address, count)
           IN  /\ r[k] \in Int /\ Unsigned(r[k] - r[1], WordSize) = k - 1
               /\ dataType \notin TwoRegisters /\ r[k] < WordSize
                    => r[k] = Unsigned(r[k], WordSize)
               /\ dataType \in TwoRegisters
                    => r[k] = Signed(Unsigned(r[k], WordSize), WordSize)
<1> DEFINE r == Registers(dataType, address, count)
<1>1. CASE dataType \in {"BOOL", "UINT16", "INT16"}
  <2>1. r = <<address>> /\ k = 1
    <3>1. Registers(dataType, address, count) = <<address>>
      BY <1>1, RegistersOf
    <3>2. DOMAIN <<address>> = {1}
      OBVIOUS
    <3> QED BY <3>1, <3>2
  <2>2. address % WordSize = address /\ 0 % WordSize = 0
    BY Sizes, Remainders
  <2> HIDE DEF r
  <2> QED BY <1>1, <2>1, <2>2 DEF Unsigned, TwoRegisters, r
<1>2. CASE dataType \in TwoRegisters
  <2> DEFINE a == Signed(address, WordSize)
             b == Signed(address + 1, WordSize)
  <2>1. r = <<a, b>> /\ k \in 1..2
    BY <1>2, RegistersOf
  <2>2. /\ a \in Int /\ IsSigned(a, WordSize)
        /\ a = address % WordSize \/ a = (address % WordSize) - WordSize
    <3>1. address \in Int
      BY Sizes
    <3> QED BY <3>1, Sizes, SignedForm, Zenon
  <2>3. /\ b \in Int /\ IsSigned(b, WordSize)
        /\ b = (address + 1) % WordSize \/ b = ((address + 1) % WordSize) - WordSize
    <3>1. address + 1 \in Int
      BY Sizes
    <3> QED BY <3>1, Sizes, SignedForm, Zenon
  <2>4. a = Signed(Unsigned(a, WordSize), WordSize) /\ b = Signed(Unsigned(b, WordSize), WordSize)
    BY <2>2, <2>3, Sizes, SignedBack
  <2> HIDE DEF a, b
  <2>5. (b - a) % WordSize = 1 /\ 0 % WordSize = 0
    <3>1. address % WordSize = address
      BY Sizes, Remainders
    <3>2. (address + 1) % WordSize = IF address = WordSize - 1 THEN 0 ELSE address + 1
      <4>1. CASE address = WordSize - 1
        <5>1. WordSize % WordSize = 0
          BY Sizes
        <5> QED BY <4>1, <5>1, Sizes
      <4>2. CASE address # WordSize - 1
        BY <4>2, Sizes, Remainders
      <4> QED BY <4>1, <4>2
    <3>3. b - a \in {1, 1 - WordSize, 1 + WordSize, 1 - 2 * WordSize}
      BY <2>2, <2>3, <3>1, <3>2, Sizes
    <3>4. -WordSize < b - a /\ b - a < WordSize
      <4>1. WordSize = 2 * (WordSize \div 2) /\ WordSize \div 2 \in Nat
        BY Sizes
      <4> QED BY <2>2, <2>3, <4>1 DEF IsSigned
    <3>5. b - a = 1 \/ b - a = 1 - WordSize
      BY <3>3, <3>4, Sizes
    <3>6. 1 % WordSize = 1 /\ (1 - WordSize) % WordSize = 1
      BY Sizes, Remainders
    <3> QED BY <3>5, <3>6, Sizes
  <2> HIDE DEF r
  <2> QED BY <1>2, <2>1, <2>2, <2>3, <2>4, <2>5 DEF Unsigned, r
<1>3. CASE dataType = "STRING"
  <2> DEFINE number == RegisterCount(count)
  <2>1. number \in 1..WordSize - 1
    <3>1. count.n % WordSize \in 0..WordSize - 1
      BY Sizes
    <3> QED BY <3>1, Sizes DEF RegisterCount, Unsigned
  <2> HIDE DEF number
  <2>2. r = [i \in 1..number |-> address + i - 1]
    BY <1>3, RegistersOf DEF number
  <2>3. k \in 1..number /\ r[k] = address + k - 1 /\ r[1] = address
    BY <2>1, <2>2
  <2>4. r[k] - r[1] = k - 1 /\ (k - 1) % WordSize = k - 1
    BY <2>1, <2>3, Sizes, Remainders
  <2>5. r[k] < WordSize => r[k] % WordSize = r[k]
    BY <2>1, <2>3, Sizes, Remainders
  <2> HIDE DEF r
  <2> QED BY <1>3, <2>1, <2>3, <2>4, <2>5 DEF Unsigned, TwoRegisters, r
<1> QED BY <1>1, <1>2, <1>3 DEF TwoRegisters
=============================================================================
