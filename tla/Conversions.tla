---------------------------- MODULE Conversions ----------------------------
(***************************************************************************)
(* What happens to a number between the devices configuration and the      *)
(* platform: JSON value, text, registers, reading or attribute; and the    *)
(* addresses of the registers.  Integers have the widths of the code.      *)
(*                                                                         *)
(* A JSON value or a text is a record: the integer n as a "number" or as   *)
(* the "digits" of a text, "true", "false", another "text" that does not begin *)
(* with digits, the "empty" text, "null", or "missing".                    *)
(***************************************************************************)
EXTENDS Integers, Sequences

CONSTANTS
    WordSize,        \* values of a 16-bit word: 65536
    FloatSize,       \* every integer up to it is a float: 2^24
    FloatExponents   \* how often a float can double it: 104

FloatLimit == FloatSize * 2^FloatExponents

ASSUME WordSizeAssumption ==
    WordSize \in Nat /\ WordSize > 1 /\ WordSize % 2 = 0
ASSUME FloatAssumption ==
    /\ FloatSize \in Nat /\ FloatExponents \in Nat
    /\ FloatLimit \in Nat /\ FloatSize < FloatLimit

DoubleSize == WordSize * WordSize     \* a 32-bit word
LongSize == DoubleSize * DoubleSize   \* unsigned long

Unsigned(n, size) == n % size
Signed(n, size) ==
    IF n % size < size \div 2 THEN n % size ELSE (n % size) - size
IsSigned(n, size) == -(size \div 2) <= n /\ n < size \div 2

Kinds == {"number", "digits", "true", "false", "text", "empty", "null", "missing"}
Number(n) == [is |-> "number", n |-> n]
Digits(n) == [is |-> "digits", n |-> n]
Plain(kind) == [is |-> kind, n |-> 0]
Refused == Plain("missing")

-----------------------------------------------------------------------------
Magnitude(n) == IF n < 0 THEN -n ELSE n

(* std::stof(): the nearest float, the even one of two; steps double each  *)
(* time the magnitude does.                                                *)
Float(n) ==
    LET Reaches(k) == Magnitude(n) <= FloatSize * 2^k
        step == 2^(CHOOSE k \in 0..FloatExponents :
                        Reaches(k) /\ \A l \in 0..k - 1 : ~Reaches(l))
        below == n \div step
        rest == n % step
    IN  IF Magnitude(n) <= FloatSize THEN n
        ELSE IF ~Reaches(FloatExponents) THEN FloatLimit
        ELSE step * IF 2 * rest < step \/ (2 * rest = step /\ below % 2 = 0)
                    THEN below ELSE below + 1

(* JsonReaderParser::readTypedValue(): every integer is read as an `int'.  *)
ReadTypedValue(json) ==
    CASE json.is = "number" -> Digits(Signed(json.n, DoubleSize))
      [] json.is \in {"digits", "true", "false", "text"} -> json
      [] json.is \in {"empty", "null", "missing"} -> Plain("empty")

(* Mutant: the low word of what std::stoi returns goes to both types. *)
WriteToMappingShort(dataType, text) ==
    CASE dataType = "BOOL" -> IF text.is \in {"true", "false"} THEN text ELSE Refused
      [] dataType = "STRING" -> text
      [] dataType \in {"UINT16", "INT16", "UINT32", "INT32"} ->
            IF text.is = "digits" THEN Number(Unsigned(text.n, WordSize)) ELSE Refused
      [] dataType = "FLOAT" ->
            IF text.is = "digits" /\ Magnitude(Float(text.n)) < FloatLimit
            THEN Number(Float(text.n)) ELSE Refused

(* writeToMapping(): what the registers hold afterwards.  std::stoul takes *)
(* a sign and wraps, std::stoi refuses what is no int, std::stof rounds    *)
(* and refuses what is beyond all floats.                                  *)
WriteToMapping(dataType, text) ==
    CASE dataType = "BOOL" -> IF text.is \in {"true", "false"} THEN text ELSE Refused
      [] dataType = "STRING" -> text
      [] dataType \in {"UINT16", "UINT32"} ->
            IF text.is = "digits" /\ -LongSize < text.n /\ text.n < LongSize
            THEN Number(Unsigned(text.n, IF dataType = "UINT16" THEN WordSize
                                         ELSE DoubleSize))
            ELSE Refused
      [] dataType \in {"INT16", "INT32"} ->
            IF text.is = "digits" /\ IsSigned(text.n, DoubleSize)
            THEN Number(Unsigned(text.n, IF dataType = "INT16" THEN WordSize
                                         ELSE DoubleSize))
            ELSE Refused
      [] dataType = "FLOAT" ->
            IF text.is = "digits" /\ Magnitude(Float(text.n)) < FloatLimit
            THEN Number(Float(text.n)) ELSE Refused

(* formReadingForMappingValue(): the registers by the type of the mapping. *)
ReadingOf(dataType, content) ==
    CASE dataType = "INT16" -> Number(Signed(content.n, WordSize))
      [] dataType = "INT32" -> Number(Signed(content.n, DoubleSize))
      [] dataType \notin {"INT16", "INT32"} -> content

(* formAttributeForMappingValue(): an INT16 is taken from the unsigned word. *)
AttributeOf(dataType, content) ==
    IF dataType = "INT16" THEN content ELSE ReadingOf(dataType, content)

(* The numbers of a type, for the properties; a float has every integer up *)
(* to FloatSize, and only some of those beyond.                            *)
Holds(dataType, n) ==
    CASE dataType = "UINT16" -> 0 <= n /\ n < WordSize
      [] dataType = "INT16" -> IsSigned(n, WordSize)
      [] dataType = "UINT32" -> 0 <= n /\ n < DoubleSize
      [] dataType = "INT32" -> IsSigned(n, DoubleSize)
      [] dataType = "FLOAT" -> IsSigned(n, DoubleSize) /\ Magnitude(n) <= FloatSize
      [] dataType \in {"BOOL", "STRING"} -> FALSE

-----------------------------------------------------------------------------
(* ModuleMapping::getRegisterCount(); a missing count is 65535. *)
RegisterCount(addressCount) ==
    LET count == IF addressCount.is = "number"
                 THEN Unsigned(addressCount.n, WordSize) ELSE WordSize - 1
    IN  IF count > 1 THEN count ELSE 1

TwoRegisters == {"UINT32", "INT32", "FLOAT"}

(* Mutant: the second register is the one before. *)
RegistersDescending(dataType, address, addressCount) ==
    CASE dataType \in {"BOOL", "UINT16", "INT16"} -> <<address>>
      [] dataType \in TwoRegisters ->
            <<Signed(address, WordSize), Signed(address - 1, WordSize)>>
      [] dataType = "STRING" ->
            [i \in 1..RegisterCount(addressCount) |-> address + i - 1]

(* RegisterMappingFactory::fromJSONMapping(): the two addresses of a 32-bit *)
(* value are cast to `short'.                                              *)
Registers(dataType, address, addressCount) ==
    CASE dataType \in {"BOOL", "UINT16", "INT16"} -> <<address>>
      [] dataType \in TwoRegisters ->
            <<Signed(address, WordSize), Signed(address + 1, WordSize)>>
      [] dataType = "STRING" ->
            [i \in 1..RegisterCount(addressCount) |-> address + i - 1]
=============================================================================
