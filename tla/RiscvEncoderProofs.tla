------------------------- MODULE RiscvEncoderProofs -------------------------
(***************************************************************************)
(* Proofs about RiscvEncoder.  A word is a set of bits, so that the fields *)
(* of operands are sets, and what is to be shown is that those that are    *)
(* ORed together are disjoint.                                             *)
(***************************************************************************)
EXTENDS RiscvEncoder, SequenceFacts

(* An operand that was found in order, and the bits it has of its own.     *)
Fits(o) ==
  CASE o.form = "register"  -> o.reg <= 31
    [] o.form = "offset"    -> o.reg <= 31 /\ InRange(o.value)
    [] o.form = "immediate" -> InRange(o.value)
    [] OTHER                -> TRUE

OwnBits(o) ==
  CASE o.form = "register"  -> Bits(o.reg, 5)
    [] o.form = "offset"    -> Bits(o.reg, 5) \cup Shifted(Bits(o.value, 27), 5)
    [] o.form = "immediate" -> Bits(o.value, 64)
    [] OTHER                -> {}

(* The format of the statement is one that the switch knows.               *)
Translatable == FormatOf(textOpcode) \in Format \ {"other"}

(* The bits of *bits that the next operand finds are those of a register.  *)
Steps ==
  /\ pc = "parse" => operands = << >> /\ bits = {} /\ ~ labelOperand
  /\ pc = "operand" =>
       /\ Len(operands) < OperandCount(FormatOf(textOpcode))
       /\ bits \subseteq 0 .. 4
       /\ ~ labelOperand

KeptInv ==
  /\ pc = "operand" => Translatable
  /\ pc \notin {"parse", "crash"} =>
       \A b \in InstructionBit : b \in machineInstruction <=> b \in Base(textOpcode)

TypeInv == TypeOK /\ Steps
SafeInv == TypeInv /\ KeptInv

(* The statement is in order so far.                                       *)
InOrder == pc \in {"operand", "translated", "resolved"} /\ ~ said
             /\ \A i \in 1 .. Len(operands) : operands[i].scan = "whole"

(* What an accepted statement has in its word.                             *)
OperandBit(b, i) ==
  b \in OperandField(operands[i], FormatOf(textOpcode), i, OwnBits(operands[i]))
WordBit(b) ==
  \/ b \in Base(textOpcode)
  \/ \E i \in 1 .. Len(operands) : OperandBit(b, i)
  \/ pc = "resolved" /\ b \in ImmediateField(FormatOf(textOpcode), segment, offset)

WordInv ==
  InOrder =>
    /\ Translatable
    /\ \A i \in 1 .. Len(operands) :
         /\ Mode(operands[i]) \in Expected(FormatOf(textOpcode), i)
         /\ Fits(operands[i])
    /\ pc # "operand" => Len(operands) = OperandCount(FormatOf(textOpcode))
    /\ labelOperand =>
         /\ pc # "operand"
         /\ operands[OperandCount(FormatOf(textOpcode))].form = "label"
    /\ \A i \in 1 .. Len(operands) : operands[i].form = "label" => labelOperand
    /\ pc = "resolved" =>
         /\ labelOperand
         /\ FormatOf(textOpcode) \in {"SB", "load", "S"}
    /\ \A b \in 0 .. 31 : b \in machineInstruction <=> WordBit(b)

-----------------------------------------------------------------------------
(* Lemmas about bits, which need no induction: a number is given.          *)

LEMMA BitsAre ==
  ASSUME NEW n, NEW width \in Nat, NEW b \in Int
  PROVE  b \in Bits(n, width) <=> b \in 0 .. width - 1 /\ IF b < 31 THEN (n \div 2^b) % 2 = 1
                                                                   ELSE n < 0
  BY DEF Bits

LEMMA BitsBelow ==
  ASSUME NEW n, NEW width \in Nat
  PROVE  Bits(n, width) \subseteq 0 .. width - 1
  BY DEF Bits

LEMMA ShiftedIs ==
  ASSUME NEW set, set \subseteq Int, NEW k \in Int, NEW b \in Int
  PROVE  b \in Shifted(set, k) <=> b - k \in set
<1>1. ASSUME b - k \in set  PROVE  b \in Shifted(set, k)
  <2>1. b = (b - k) + k
    OBVIOUS
  <2> QED
    BY <1>1, <2>1 DEF Shifted
<1>2. ASSUME b \in Shifted(set, k)  PROVE  b - k \in set
  <2>1. PICK c \in set : b = c + k
    BY <1>2 DEF Shifted
  <2>2. b - k = c
    BY <2>1
  <2> QED
    BY <2>1, <2>2
<1> QED
  BY <1>1, <1>2

LEMMA ShiftedInt ==
  ASSUME NEW set, set \subseteq Int, NEW k \in Int
  PROVE  Shifted(set, k) \subseteq Int
  BY DEF Shifted

LEMMA FieldIs ==
  ASSUME NEW set, NEW first \in Int, NEW width \in Nat, NEW b \in Int
  PROVE  b \in Field(set, first, width) <=> b \in 0 .. width - 1 /\ b + first \in set
  BY DEF Field

LEMMA FieldInt ==
  ASSUME NEW set, NEW first \in Int, NEW width \in Nat
  PROVE  Field(set, first, width) \subseteq Int
  BY DEF Field

(* A number below 32 has 5 bits.                                           *)
LEMMA FiveBits ==
  ASSUME NEW n \in 0 .. 31, NEW b \in 5 .. 11
  PROVE  (n \div 2^b) % 2 # 1
<1>1. 2^5 = 32 /\ 2^6 = 64 /\ 2^7 = 128 /\ 2^8 = 256 /\ 2^9 = 512 /\ 2^10 = 1024 /\ 2^11 = 2048
  OBVIOUS
<1>2. PICK power \in {32, 64, 128, 256, 512, 1024, 2048} : power = 2^b
  <2>1. CASE b = 5
    BY <1>1, <2>1
  <2>2. CASE b = 6
    BY <1>1, <2>2
  <2>3. CASE b = 7
    BY <1>1, <2>3
  <2>4. CASE b = 8
    BY <1>1, <2>4
  <2>5. CASE b = 9
    BY <1>1, <2>5
  <2>6. CASE b = 10
    BY <1>1, <2>6
  <2>7. CASE b = 11
    BY <1>1, <2>7
  <2> QED
    BY <2>1, <2>2, <2>3, <2>4, <2>5, <2>6, <2>7
<1>3. n \div power = 0
  <2>1. n \div 32 = 0
    OBVIOUS
  <2>2. n \div 64 = 0
    OBVIOUS
  <2>3. n \div 128 = 0
    OBVIOUS
  <2>4. n \div 256 = 0
    OBVIOUS
  <2>5. n \div 512 = 0
    OBVIOUS
  <2>6. n \div 1024 = 0
    OBVIOUS
  <2>7. n \div 2048 = 0
    OBVIOUS
  <2> QED
    BY <2>1, <2>2, <2>3, <2>4, <2>5, <2>6, <2>7
<1> QED
  BY <1>2, <1>3

-----------------------------------------------------------------------------
(* What the table and an operand give.                                     *)

(* The constructor's sort and the search of translateOpcode() find an      *)
(* opcode exactly if it is in the table of awk's header, whatever the order*)
(* there, with the entry it has there.                                     *)
THEOREM SearchFindsOpcodes == SearchIsExact
<1> SUFFICES ASSUME NEW mn \in Mnemonic
             PROVE  /\ Found(mn) <=> Known(mn)
                    /\ Known(mn) => opcode_found(mn) = Entry(mn)
                    /\ lower_bound(mn) = end => BehindLast(mn)
  BY DEF SearchIsExact
<1>1. PICK place, found, N :
        N = Len(InitTable) /\ place = lower_bound(mn) /\ found = opcodeTable[place]
  OBVIOUS
<1>2. /\ place \in 1 .. N + 1
      /\ \A i \in 1 .. N : InitTable[i].assem = mn => place <= N /\ found = InitTable[i]
      /\ place # N + 1 => \E i \in 1 .. N : found = InitTable[i]
      /\ place = N + 1 => \A i \in 1 .. N : InitTable[i].assem < mn
  <2>m. /\ Mnemonic \subseteq Nat \ {0}
        /\ \A i \in 1 .. Len(InitTable) : InitTable[i].assem \in Mnemonic
    BY OpcodeTableAssumption, Zenon
  <2>n. \A x \in Mnemonic : x \in Int
    BY <2>m
  <2>a. mn \in Int /\ \A i \in 1 .. Len(InitTable) : InitTable[i].assem \in Int
    BY <2>m, <2>n, Zenon
  <2>b. /\ InitTable \in Seq(Range(InitTable))
        /\ \A i, j \in 1 .. Len(InitTable) : i # j => InitTable[i].assem # InitTable[j].assem
    BY OpcodeTableAssumption, Zenon
  <2>1. Unrepeated(InitTable) /\ mn \in Int
    BY <2>a, <2>b, Zenon DEF Unrepeated
  <2>2. SearchedFor(InitTable, mn, LowerBound(SortsTo(InitTable), mn),
                    SortsTo(InitTable)[LowerBound(SortsTo(InitTable), mn)])
    BY <2>1, SearchFacts
  <2>3. place = LowerBound(SortsTo(InitTable), mn) /\ found = SortsTo(InitTable)[place]
    BY <1>1 DEF lower_bound, opcodeTable
  <2> QED
    BY <1>1, <2>2, <2>3, Zenon DEF SearchedFor
<1>3. Known(mn) => place # N + 1 /\ found = Entry(mn) /\ found.assem = mn
  <2> SUFFICES ASSUME Known(mn)  PROVE place # N + 1 /\ found = Entry(mn) /\ found.assem = mn
    OBVIOUS
  <2>1. PICK k : k = CHOOSE i \in 1 .. Len(InitTable) : InitTable[i].assem = mn
    OBVIOUS
  <2>2. k \in 1 .. N /\ InitTable[k].assem = mn /\ Entry(mn) = InitTable[k]
    BY <1>1, <2>1 DEF Known, Entry
  <2>3. place <= N /\ N \in Nat
    BY <1>1, <1>2, <2>2, OpcodeTableAssumption
  <2> QED
    BY <1>2, <2>2, <2>3
<1>4. place # N + 1 /\ found.assem = mn => Known(mn)
  BY <1>1, <1>2 DEF Known
<1>5. Found(mn) <=> place # N + 1 /\ found.assem = mn
  BY <1>1 DEF Found, end
<1>6. opcode_found(mn) = found
  BY <1>1 DEF opcode_found
<1>7. lower_bound(mn) = end => BehindLast(mn)
  BY <1>1, <1>2 DEF end, BehindLast
<1> QED
  BY <1>3, <1>4, <1>5, <1>6, <1>7

LEMMA BaseBelow32 == ASSUME NEW mn PROVE Base(mn) \subseteq 0 .. 31
  BY BitsBelow DEF Base

LEMMA TableFacts ==
  ASSUME NEW mn \in Mnemonic
  PROVE  /\ FormatOf(mn) \in Format
         /\ FormatOf(mn) # "other" => Base(mn) \subseteq BaseBit(FormatOf(mn))
         /\ \A b : b \in Base(mn) <=> Known(mn) /\ b \in Bits(Entry(mn).base, 32)
<1>1. CASE Known(mn)
  <2>1. PICK i \in 1 .. Len(InitTable) : Entry(mn) = InitTable[i]
    BY <1>1 DEF Known, Entry
  <2>2. opcode_found(mn) = InitTable[i] /\ Found(mn)
    BY <1>1, <2>1, SearchFindsOpcodes DEF SearchIsExact
  <2>3. FormatOf(mn) = InitTable[i].format /\ Base(mn) = Bits(InitTable[i].base, 32)
    BY <2>2 DEF FormatOf, Base
  <2> QED
    BY <1>1, <2>1, <2>3, EncoderAssumption
<1>2. CASE ~ Known(mn)
  <2>1. FormatOf(mn) = "other" /\ Base(mn) = {}
    BY <1>2, SearchFindsOpcodes DEF SearchIsExact, FormatOf, Base
  <2> QED
    BY <1>2, <2>1 DEF Format
<1> QED
  BY <1>1, <1>2

LEMMA OperandFacts ==
  ASSUME NEW o \in Operand
  PROVE  o.form \in Form /\ o.reg \in 0 .. 99 /\ o.scan \in Scan /\ o.value \in Int
  BY EncoderAssumption DEF OperandType

LEMMA OwnBitsBelow == ASSUME NEW o \in Operand PROVE OwnBits(o) \subseteq 0 .. 63
<1>1. Bits(o.reg, 5) \subseteq 0 .. 4 /\ Bits(o.value, 27) \subseteq 0 .. 26
      /\ Bits(o.value, 64) \subseteq 0 .. 63
  BY BitsBelow
<1>2. Shifted(Bits(o.value, 27), 5) \subseteq 0 .. 63
  BY <1>1 DEF Shifted
<1>3. \/ OwnBits(o) = Bits(o.reg, 5)
      \/ OwnBits(o) = Bits(o.reg, 5) \cup Shifted(Bits(o.value, 27), 5)
      \/ OwnBits(o) = Bits(o.value, 64)
      \/ OwnBits(o) = {}
  BY DEF OwnBits
<1> QED
  BY <1>1, <1>2, <1>3

LEMMA ScannedFacts ==
  ASSUME NEW o \in Operand, bits \subseteq 0 .. 63, NEW scanned \in Scanned(o)
  PROVE  /\ scanned.bits \subseteq 0 .. 63
         /\ scanned.said \in BOOLEAN
         /\ o.form = "register" /\ bits \subseteq 0 .. 4 => scanned.bits \subseteq 0 .. 4
         /\ ~ scanned.said /\ o.scan = "whole" =>
              /\ Fits(o)
              /\ o.form \in {"register", "offset", "immediate"} => scanned.bits = OwnBits(o)
<1>1. RegNum(o) \subseteq Nat /\ (o.scan = "whole" => RegNum(o) = {o.reg})
  <2>1. o.reg \in Nat
    BY OperandFacts
  <2>2. Garbage \subseteq Nat
    BY EncoderAssumption, Zenon
  <2>3. RegNum(o) = IF o.scan = "none" THEN Garbage ELSE {o.reg}
    BY DEF RegNum
  <2> QED
    BY <2>1, <2>2, <2>3
<1>2. CASE o.form = "register"
  <2>1. PICK r \in RegNum(o) :
          scanned = IF r <= 31 THEN [bits |-> Bits(r, 5), said |-> FALSE]
                               ELSE [bits |-> bits, said |-> TRUE]
    BY <1>2 DEF Scanned
  <2>2. Bits(r, 5) \subseteq 0 .. 4
    BY BitsBelow
  <2>3. Fits(o) <=> o.reg <= 31
    BY <1>2 DEF Fits
  <2>4. OwnBits(o) = Bits(o.reg, 5)
    BY <1>2 DEF OwnBits
  <2>5. CASE r <= 31
    BY <1>1, <1>2, <2>1, <2>2, <2>3, <2>4, <2>5
  <2>6. CASE ~ r <= 31
    BY <1>1, <1>2, <2>1, <2>6
  <2> QED
    BY <2>5, <2>6
<1>3. CASE o.form = "offset"
  <2>1. PICK r \in RegNum(o) :
          scanned = IF InRange(o.value) /\ r <= 31
                    THEN [bits |-> Bits(r, 5) \cup Shifted(Bits(o.value, 27), 5), said |-> FALSE]
                    ELSE [bits |-> bits, said |-> TRUE]
    BY <1>3 DEF Scanned
  <2>2. Bits(r, 5) \subseteq 0 .. 4 /\ Bits(o.value, 27) \subseteq 0 .. 26
    BY BitsBelow
  <2>3. Shifted(Bits(o.value, 27), 5) \subseteq 0 .. 63
    BY <2>2 DEF Shifted
  <2>4. Fits(o) <=> o.reg <= 31 /\ InRange(o.value)
    BY <1>3 DEF Fits
  <2>5. OwnBits(o) = Bits(o.reg, 5) \cup Shifted(Bits(o.value, 27), 5)
    BY <1>3 DEF OwnBits
  <2>6. CASE InRange(o.value) /\ r <= 31
    BY <1>1, <1>3, <2>1, <2>2, <2>3, <2>4, <2>5, <2>6
  <2>7. CASE ~ (InRange(o.value) /\ r <= 31)
    BY <1>1, <1>3, <2>1, <2>7
  <2> QED
    BY <2>6, <2>7
<1>4. CASE o.form = "immediate"
  <2>1. PICK v \in Number(o) :
          scanned = IF InRange(v) THEN [bits |-> Bits(v, 64), said |-> FALSE]
                                  ELSE [bits |-> {}, said |-> TRUE]
    BY <1>4 DEF Scanned
  <2>v. v \in Int /\ (o.scan = "whole" => v = o.value)
    BY OperandFacts, EncoderAssumption DEF Number
  <2>2. Bits(v, 64) \subseteq 0 .. 63
    BY BitsBelow
  <2>3. (Fits(o) <=> InRange(o.value)) /\ OwnBits(o) = Bits(o.value, 64)
    BY <1>4 DEF Fits, OwnBits
  <2>4. CASE InRange(v)
    BY <1>4, <2>1, <2>v, <2>2, <2>3, <2>4
  <2>5. CASE ~ InRange(v)
    BY <1>4, <2>1, <2>5
  <2> QED
    BY <2>4, <2>5
<1>5. CASE o.form \in {"indirect", "label", "float", "invalid"}
  <2>1. scanned = [bits |-> bits, said |-> o.form = "invalid"]
    BY <1>5 DEF Scanned
  <2>2. Fits(o)
    BY <1>5 DEF Fits
  <2> QED
    BY <1>5, <2>1, <2>2
<1> QED
  BY <1>2, <1>3, <1>4, <1>5, OperandFacts DEF Form

(* The modes that can be expected of an operand.                           *)
LEMMA ExpectedModes ==
  ASSUME NEW format, NEW n \in 1 .. OperandCount(format),
         NEW o \in Operand, Mode(o) \in Expected(format, n)
  PROVE  /\ o.form = Mode(o)
         /\ n < OperandCount(format) => o.form = "register"
         /\ o.form \in {"register", "offset", "label", "immediate"}
         /\ format = "R" => o.form = "register"
         /\ n = 3 /\ format \in {"I", "shift"} => o.form = "immediate"
         /\ n = OperandCount(format) /\ format \in {"load", "S", "SB"} =>
              o.form \in {"offset", "label"}
<1>1. Mode(o) \in {"register", "offset", "label", "immediate"}
  BY DEF Expected
<1>2. o.form = Mode(o)
  BY <1>1 DEF Mode
<1>3. OperandCount(format) = IF format \in {"load", "S"} THEN 2 ELSE 3
  BY DEF OperandCount
<1>8. n \in 1 .. 3
  BY <1>3
<1>4. n < OperandCount(format) => Expected(format, n) = {"register"}
  <2> SUFFICES ASSUME n < OperandCount(format)  PROVE  Expected(format, n) = {"register"}
    OBVIOUS
  <2> QED
    BY <1>3, <1>8 DEF Expected
<1>5. format = "R" => Expected(format, n) = {"register"}
  <2> SUFFICES ASSUME format = "R"  PROVE  Expected(format, n) = {"register"}
    OBVIOUS
  <2>1. OperandCount(format) = 3
    BY <1>3
  <2> QED
    BY <2>1, <1>8 DEF Expected
<1>6. n = 3 /\ format \in {"I", "shift"} => Expected(format, n) = {"immediate"}
  BY <1>3 DEF Expected
<1>7. n = OperandCount(format) /\ format \in {"load", "S", "SB"} =>
        Expected(format, n) = {"offset", "label"}
  BY <1>3 DEF Expected
<1> QED
  BY <1>1, <1>2, <1>4, <1>5, <1>6, <1>7

(* No operand reaches the opcode and funct3.                               *)
LEMMA FieldsOutside ==
  ASSUME NEW format \in Format \ {"other"}, NEW n \in 1 .. OperandCount(format),
         NEW o \in Operand, Mode(o) \in Expected(format, n),
         NEW set, set \subseteq 0 .. 63, o.form = "register" => set \subseteq 0 .. 4
  PROVE  \A b \in InstructionBit : b \notin OperandField(o, format, n, set)
<1> SUFFICES ASSUME NEW b \in Int, b \in InstructionBit
             PROVE  b \notin OperandField(o, format, n, set)
  BY DEF InstructionBit
<1>1. b \in Int /\ b \notin 7 .. 11 /\ b \notin 15 .. 31 /\ b <= 14
  BY DEF InstructionBit
<1>2. OperandCount(format) = IF format \in {"load", "S"} THEN 2 ELSE 3
  BY DEF OperandCount
<1>7. n \in 1 .. 3 /\ set \subseteq Int
  BY <1>2
<1>3. CASE o.form = "register"
  <2>1. OperandField(o, format, n, set) = Shifted(set, RegisterField(format, n))
    BY <1>3 DEF OperandField, Mode
  <2>2. PICK first \in {7, 15, 20} : first = RegisterField(format, n)
    BY <1>2, <1>7 DEF RegisterField
  <2>3. first \in Int /\ b - first \notin 0 .. 4
    BY <1>1, <2>2
  <2> QED
    BY <1>1, <1>3, <1>7, <2>1, <2>2, <2>3, ShiftedIs
<1>4. CASE o.form = "immediate"
  <2>1. n = 3
    <3>1. n = OperandCount(format)
      BY <1>2, <1>4, <1>7, ExpectedModes
    <3>2. format \notin {"load", "S"}
      BY <1>4, <3>1, ExpectedModes
    <3> QED
      BY <1>2, <3>1, <3>2
  <2>2. OperandField(o, format, n, set) = Shifted(set, 20)
    BY <1>4, <2>1 DEF OperandField, Mode, RegisterField
  <2>3. b - 20 \notin set
    BY <1>1
  <2>4. b \notin Shifted(set, 20)
    <3>1. PICK first \in Int : first = 20
      OBVIOUS
    <3>2. b \in Shifted(set, first) <=> b - first \in set
      BY <1>7, ShiftedIs
    <3> QED
      BY <2>3, <3>1, <3>2
  <2> QED
    BY <2>2, <2>4
<1>5. CASE o.form = "offset"
  <2>1. OperandField(o, format, n, set) = OffsetField(format, set)
    BY <1>5 DEF OperandField, Mode
  <2>2. /\ b \notin Shifted(Field(set, 0, 5), 15)
        /\ b \notin Shifted(Field(set, 0, 5), 20)
        /\ b \notin Shifted(Field(set, 5, 5), 7)
    <3>1. Field(set, 0, 5) \subseteq 0 .. 4 /\ Field(set, 5, 5) \subseteq 0 .. 4
      BY DEF Field
    <3>2. b - 15 \notin 0 .. 4 /\ b - 20 \notin 0 .. 4 /\ b - 7 \notin 0 .. 4
      BY <1>1
    <3> QED
      BY <1>1, <3>1, <3>2, ShiftedIs
  <2>3. b \notin Shifted(Field(set, 5, 12), 20) /\ b \notin Shifted(Field(set, 10, 7), 25)
    <3>1. Field(set, 5, 12) \subseteq 0 .. 11 /\ Field(set, 10, 7) \subseteq 0 .. 6
      BY DEF Field
    <3>2. b - 20 \notin 0 .. 11 /\ b - 25 \notin 0 .. 6
      BY <1>1
    <3> QED
      BY <1>1, <3>1, <3>2, ShiftedIs
  <2> QED
    BY <2>1, <2>2, <2>3 DEF OffsetField
<1>6. CASE o.form = "label"
  BY <1>6 DEF OperandField, Mode
<1> QED
  BY <1>3, <1>4, <1>5, <1>6, ExpectedModes

-----------------------------------------------------------------------------
(* The opcode and funct3 are kept.                                         *)

LEMMA SafeInit == Init => SafeInv
<1> SUFFICES ASSUME Init  PROVE  SafeInv
  OBVIOUS
<1>1. TypeOK
  <2>1. operands \in Seq(Operand) /\ Len(operands) = 0
    BY DEF Init
  <2>2. /\ pc = "parse" /\ textOpcode \in Mnemonic /\ machineInstruction = {}
        /\ machineCodeSize = 0 /\ bits = {} /\ segment = "none" /\ offset = 0
    BY DEF Init
  <2>3. labelOperand \in BOOLEAN /\ said \in BOOLEAN
    BY DEF Init
  <2> QED
    BY <2>1, <2>2, <2>3 DEF TypeOK
<1>2. Steps /\ KeptInv
  BY DEF Init, Steps, KeptInv
<1> QED
  BY <1>1, <1>2 DEF SafeInv, TypeInv

LEMMA OpcodeTyped ==
  ASSUME TypeInv, TranslateOpcode
  PROVE  TypeInv'
<1>1. /\ pc = "parse" /\ textOpcode \in Mnemonic
      /\ operands = << >> /\ bits = {} /\ ~ labelOperand
  BY DEF TypeInv, TypeOK, Steps, TranslateOpcode
<1>2. TypeOK'
  <2>1. machineInstruction' \subseteq 0 .. 31
    BY BaseBelow32 DEF TranslateOpcode
  <2>2. pc' \in {"translated", "operand"} /\ said' \in BOOLEAN /\ machineCodeSize' \in {0, 4}
    BY DEF TranslateOpcode
  <2> QED
    BY <1>1, <2>1, <2>2 DEF TypeInv, TypeOK, TranslateOpcode
<1>3. Steps'
  <2>1. 0 < OperandCount(FormatOf(textOpcode))
    BY DEF OperandCount
  <2> QED
    BY <1>1, <2>1 DEF Steps, TranslateOpcode
<1> QED
  BY <1>2, <1>3 DEF TypeInv

LEMMA OpcodeKept ==
  ASSUME SafeInv, TranslateOpcode
  PROVE  KeptInv'
<1>1. textOpcode \in Mnemonic
  BY DEF SafeInv, TypeInv, TypeOK
<1>2. FormatOf(textOpcode) \in Format
  BY <1>1, TableFacts
<1> QED
  BY <1>2 DEF KeptInv, Translatable, TranslateOpcode

(* What translateOperand() starts from.                                    *)
LEMMA OperandStart ==
  ASSUME TypeInv, NEW o \in Operand, TranslateOperand(o)
  PROVE  /\ pc = "operand" /\ textOpcode \in Mnemonic /\ textOpcode' = textOpcode
         /\ operands \in Seq(Operand)
         /\ Len(operands) + 1 \in 1 .. OperandCount(FormatOf(textOpcode))
         /\ OperandCount(FormatOf(textOpcode)) \in {2, 3}
         /\ bits \subseteq 0 .. 4 /\ bits \subseteq 0 .. 63
         /\ machineInstruction \subseteq 0 .. 31
         /\ ~ labelOperand /\ said \in BOOLEAN
<1>1. pc = "operand" /\ textOpcode' = textOpcode
  BY DEF TranslateOperand
<1>2. OperandCount(FormatOf(textOpcode)) \in {2, 3}
  BY DEF OperandCount
<1>3. Len(operands) \in Nat
  BY DEF TypeInv, TypeOK
<1> QED
  BY <1>1, <1>2, <1>3 DEF TypeInv, TypeOK, Steps

(* What translateOperand() and the method that calls it do.                *)
LEMMA OperandStep ==
  ASSUME TypeInv, NEW o \in Operand, TranslateOperand(o)
  PROVE  \E scanned \in Scanned(o) :
           /\ bits' = scanned.bits
           /\ scanned.bits \subseteq 0 .. 63 /\ scanned.said \in BOOLEAN
           /\ o.form = "register" => scanned.bits \subseteq 0 .. 4
           /\ IF Mode(o) \in Expected(FormatOf(textOpcode), Len(operands) + 1)
              THEN /\ machineInstruction' =
                        Word32(machineInstruction
                          \cup OperandField(o, FormatOf(textOpcode), Len(operands) + 1, scanned.bits))
                   /\ said' = (said \/ scanned.said)
                   /\ pc' = IF Len(operands) + 1 = OperandCount(FormatOf(textOpcode))
                            THEN "translated" ELSE "operand"
              ELSE /\ UNCHANGED machineInstruction
                   /\ said' = TRUE
                   /\ pc' = "translated"
  BY OperandStart, ScannedFacts DEF TranslateOperand

LEMMA OperandTyped ==
  ASSUME TypeInv, NEW o \in Operand, TranslateOperand(o)
  PROVE  TypeInv'
<1> DEFINE format == FormatOf(textOpcode)
           n == Len(operands) + 1
<1>1. /\ operands' = Append(operands, o)
      /\ labelOperand' = (labelOperand \/ o.form = "label")
      /\ UNCHANGED << textOpcode, machineCodeSize, segment, offset >>
  BY DEF TranslateOperand
<1>2. /\ bits' \subseteq 0 .. 63
      /\ machineInstruction' \subseteq 0 .. 31
      /\ said' \in BOOLEAN
      /\ pc' \in {"operand", "translated"}
      /\ pc' = "operand" => n # OperandCount(format) /\ Mode(o) \in Expected(format, n)
      /\ o.form = "register" => bits' \subseteq 0 .. 4
  <2>1. machineInstruction \subseteq 0 .. 31 /\ said \in BOOLEAN
    BY DEF TypeInv, TypeOK
  <2>2. CASE Mode(o) \in Expected(format, n)
    <3>1. PICK scanned \in Scanned(o) :
            /\ bits' = scanned.bits
            /\ scanned.bits \subseteq 0 .. 63 /\ scanned.said \in BOOLEAN
            /\ o.form = "register" => scanned.bits \subseteq 0 .. 4
            /\ machineInstruction' =
                 Word32(machineInstruction \cup OperandField(o, format, n, scanned.bits))
            /\ said' = (said \/ scanned.said)
            /\ pc' = IF n = OperandCount(format) THEN "translated" ELSE "operand"
      BY <2>2, OperandStep
    <3>2. machineInstruction' \subseteq 0 .. 31
      BY <3>1 DEF Word32
    <3> QED
      BY <2>1, <2>2, <3>1, <3>2
  <2>3. CASE Mode(o) \notin Expected(format, n)
    BY <2>1, <2>3, OperandStep
  <2> QED
    BY <2>2, <2>3
<1>3. TypeOK'
  <2>1. operands' \in Seq(Operand) /\ Len(operands') <= 3
    BY <1>1, OperandStart
  <2>2. labelOperand' \in BOOLEAN
    BY <1>1
  <2>3. /\ textOpcode' \in Mnemonic /\ machineCodeSize' \in {0, 4}
        /\ segment' \in {"none", "code", "data"} /\ offset' \in Offset \cup {0}
    BY <1>1 DEF TypeInv, TypeOK
  <2> QED
    BY <1>2, <2>1, <2>2, <2>3 DEF TypeOK
<1>4. Steps'
  <2> SUFFICES ASSUME pc' = "operand"
               PROVE  /\ Len(operands') < OperandCount(FormatOf(textOpcode'))
                      /\ bits' \subseteq 0 .. 4
                      /\ ~ labelOperand'
    BY <1>2 DEF Steps
  <2>1. o.form = "register"
    BY <1>2, OperandStart, ExpectedModes
  <2>2. Len(operands') = n
    BY <1>1, OperandStart
  <2>3. bits' \subseteq 0 .. 4 /\ ~ labelOperand'
    BY <1>1, <1>2, <2>1, OperandStart
  <2>4. n < OperandCount(format)
    <3>1. PICK count \in {2, 3} : count = OperandCount(format)
      BY OperandStart
    <3> QED
      BY <1>2, <3>1, OperandStart
  <2>5. textOpcode' = textOpcode
    BY <1>1
  <2> QED
    BY <2>2, <2>3, <2>4, <2>5
<1> QED
  BY <1>3, <1>4 DEF TypeInv

LEMMA OperandKept ==
  ASSUME SafeInv, NEW o \in Operand, TranslateOperand(o)
  PROVE  KeptInv'
<1> DEFINE format == FormatOf(textOpcode)
           n == Len(operands) + 1
<1>1. TypeInv /\ KeptInv
  BY DEF SafeInv
<1>2. pc = "operand" /\ textOpcode' = textOpcode
  BY <1>1, OperandStart
<1>3. format \in Format \ {"other"}
  BY <1>1, <1>2 DEF KeptInv, Translatable
<1>4. ASSUME NEW b \in InstructionBit
      PROVE  b \in machineInstruction' <=> b \in machineInstruction
  <2>1. PICK scanned \in Scanned(o) :
          /\ scanned.bits \subseteq 0 .. 63
          /\ o.form = "register" => scanned.bits \subseteq 0 .. 4
          /\ IF Mode(o) \in Expected(format, n)
             THEN machineInstruction' =
                    Word32(machineInstruction \cup OperandField(o, format, n, scanned.bits))
             ELSE UNCHANGED machineInstruction
    BY <1>1, OperandStep
  <2>2. CASE Mode(o) \in Expected(format, n)
    <3>1. b \notin OperandField(o, format, n, scanned.bits)
      BY <1>1, <1>3, <2>1, <2>2, OperandStart, FieldsOutside
    <3>2. b \in 0 .. 31
      BY DEF InstructionBit
    <3> QED
      BY <2>1, <2>2, <3>1, <3>2 DEF Word32
  <2> QED
    BY <2>1, <2>2
<1> QED
  BY <1>1, <1>2, <1>3, <1>4 DEF KeptInv, Translatable

(* Pass 2 puts an immediate operand and a register above bit 14, or, for a *)
(* store, the lower bits of the operand between the opcode and funct3.     *)
LEMMA ImmediateOutside ==
  ASSUME NEW format \in {"SB", "load", "S"}, NEW s, NEW n
  PROVE  /\ ImmediateField(format, s, n) \subseteq 0 .. 31
         /\ \A b \in InstructionBit : b \notin ImmediateField(format, s, n)
<1> DEFINE branch == Bits((CodeOffset(s, n) \div 2) - 2048, 12)
           imm == Bits(DataOffset(s, n) - 2048, 12)
           low == Shifted(Field(imm, 0, 5), 7)
           high == Shifted(Field(imm, 5, 7), 25)
<1>1. branch \subseteq 0 .. 11 /\ imm \subseteq 0 .. 11 /\ gp \subseteq 0 .. 4
  BY BitsBelow DEF gp
<1>2. Field(imm, 0, 5) \subseteq 0 .. 4 /\ Field(imm, 5, 7) \subseteq 0 .. 6
  BY DEF Field
<1>3. ImmediateField(format, s, n) \in
        {Shifted(branch, 20), Shifted(imm, 20) \cup Shifted(gp, 15),
         low \cup high \cup Shifted(gp, 15)}
  BY DEF ImmediateField
<1> HIDE DEF branch, imm
<1>4. Shifted(branch, 20) \subseteq 20 .. 31 /\ Shifted(imm, 20) \subseteq 20 .. 31
  BY <1>1 DEF Shifted
<1>5. Shifted(gp, 15) \subseteq 15 .. 19
  BY <1>1 DEF Shifted
<1>6. low \subseteq 7 .. 11 /\ high \subseteq 25 .. 31
  BY <1>2 DEF Shifted
<1> HIDE DEF low, high
<1> DEFINE Outside == 7 .. 11 \cup 15 .. 31
<1>7. /\ Shifted(branch, 20) \subseteq Outside
      /\ Shifted(imm, 20) \subseteq Outside
      /\ Shifted(gp, 15) \subseteq Outside
      /\ low \subseteq Outside /\ high \subseteq Outside
  BY <1>4, <1>5, <1>6
<1>8. Outside \subseteq 0 .. 31 /\ \A b \in InstructionBit : b \notin Outside
  BY DEF InstructionBit
<1> HIDE DEF Outside
<1>9. ImmediateField(format, s, n) \subseteq Outside
  BY <1>3, <1>7
<1> QED
  BY <1>8, <1>9

LEMMA ResolveSafe ==
  ASSUME TypeInv, NEW s \in {"code", "data"}, NEW n \in Offset, Resolve(s, n)
  PROVE  TypeInv' /\ (KeptInv => KeptInv')
<1>1. /\ pc = "translated" /\ pc' = "resolved"
      /\ segment' = s /\ offset' = n
      /\ machineInstruction' = machineInstruction \cup ImmediateField(FormatOf(textOpcode), s, n)
      /\ UNCHANGED << textOpcode, operands, machineCodeSize, bits, labelOperand, said >>
  BY DEF Resolve
<1>2. /\ ImmediateField(FormatOf(textOpcode), s, n) \subseteq 0 .. 31
      /\ \A b \in InstructionBit : b \notin ImmediateField(FormatOf(textOpcode), s, n)
  BY ImmediateOutside DEF Resolve
<1>3. TypeOK'
  BY <1>1, <1>2 DEF TypeInv, TypeOK
<1>4. Steps'
  BY <1>1 DEF Steps
<1>5. KeptInv => KeptInv'
  BY <1>1, <1>2 DEF KeptInv
<1> QED
  BY <1>3, <1>4, <1>5 DEF TypeInv

(* The other steps leave the word alone.                                   *)
LEMMA OtherSafe ==
  ASSUME TypeInv, DereferenceEnd \/ OperandMissing \/ BranchOperandMissing \/ UNCHANGED vars
  PROVE  TypeInv' /\ (KeptInv => KeptInv')
<1>1. CASE DereferenceEnd
  BY <1>1 DEF DereferenceEnd, TypeInv, TypeOK, Steps, KeptInv
<1>2. CASE OperandMissing
  BY <1>2 DEF OperandMissing, TypeInv, TypeOK, Steps, KeptInv
<1>3. CASE BranchOperandMissing
  <2>1. /\ labelOperand' \in BOOLEAN /\ said' = TRUE /\ pc = "operand" /\ pc' = "translated"
        /\ UNCHANGED << textOpcode, operands, machineInstruction, machineCodeSize, bits, segment,
                        offset >>
    BY <1>3 DEF BranchOperandMissing, TypeInv, TypeOK
  <2> QED
    BY <2>1 DEF TypeInv, TypeOK, Steps, KeptInv
<1>4. CASE UNCHANGED vars
  BY <1>4 DEF vars, TypeInv, TypeOK, Steps, Translatable, KeptInv
<1> QED
  BY <1>1, <1>2, <1>3, <1>4

LEMMA TypeStep == TypeInv /\ [Next]_vars => TypeInv'
  BY OpcodeTyped, OperandTyped, ResolveSafe, OtherSafe DEF Next

LEMMA SafeStep == SafeInv /\ [Next]_vars => SafeInv'
<1> SUFFICES ASSUME SafeInv, [Next]_vars
             PROVE  SafeInv'
  OBVIOUS
<1>1. TypeInv /\ KeptInv
  BY DEF SafeInv
<1>2. KeptInv'
  BY <1>1, OpcodeKept, OperandKept, ResolveSafe, OtherSafe DEF Next
<1> QED
  BY <1>1, <1>2, TypeStep DEF SafeInv

(* Whatever the operands are, a word has 32 bits, at most 3 operands are   *)
(* translated, and *bits has no more than its 64 bits.                     *)
THEOREM TypeCorrect == Spec => []TypeOK
<1>1. Init => TypeInv
  BY SafeInit DEF SafeInv
<1>2. TypeInv /\ [Next]_vars => TypeInv'
  BY TypeStep
<1>3. TypeInv => TypeOK
  BY DEF TypeInv
<1> QED
  BY <1>1, <1>2, <1>3, PTL DEF Spec

(* No operand, good or bad, and no label overwrites the bits from which    *)
(* pass 2 tells the instruction.                                           *)
THEOREM OperandsKeepTheInstruction == Spec => []InstructionKept
<1>1. Init => SafeInv
  BY SafeInit
<1>2. SafeInv /\ [Next]_vars => SafeInv'
  BY SafeStep
<1>3. SafeInv => InstructionKept
  BY TableFacts DEF SafeInv, TypeInv, TypeOK, KeptInv, InstructionKept
<1> QED
  BY <1>1, <1>2, <1>3, PTL DEF Spec

-----------------------------------------------------------------------------
(* What is in the word of an accepted statement.                           *)

LEMMA WordInit == Init => WordInv
  BY DEF Init, WordInv, InOrder

LEMMA OpcodeWord ==
  ASSUME SafeInv, TranslateOpcode
  PROVE  WordInv'
<1> SUFFICES ASSUME InOrder'
             PROVE  WordInv'
  BY DEF WordInv
<1>1. /\ pc = "parse" /\ operands = << >> /\ operands' = << >> /\ ~ labelOperand'
      /\ textOpcode \in Mnemonic /\ textOpcode' = textOpcode
      /\ machineInstruction' = Base(textOpcode)
  BY DEF SafeInv, TypeInv, TypeOK, Steps, TranslateOpcode
<1>2. FormatOf(textOpcode) # "other" /\ pc' = "operand"
  BY DEF TranslateOpcode, InOrder
<1>3. Translatable'
  BY <1>1, <1>2, TableFacts DEF Translatable
<1> QED
  BY <1>1, <1>2, <1>3 DEF WordInv, WordBit

(* The bits left by the operand before are not used in its place.          *)
LEMMA OperandFieldOwn ==
  ASSUME NEW o, NEW format, NEW n, NEW set,
         o.form \in {"register", "offset", "immediate"} => set = OwnBits(o)
  PROVE  OperandField(o, format, n, set) = OperandField(o, format, n, OwnBits(o))
<1>1. CASE o.form \in {"register", "offset", "immediate"}
  BY <1>1
<1>2. CASE o.form \notin {"register", "offset", "immediate"}
  BY <1>2 DEF OperandField, Mode
<1> QED
  BY <1>1, <1>2

LEMMA OperandWord ==
  ASSUME SafeInv, WordInv, NEW o \in Operand, TranslateOperand(o)
  PROVE  WordInv'
<1> SUFFICES ASSUME InOrder'
             PROVE  WordInv'
  BY DEF WordInv
<1> DEFINE format == FormatOf(textOpcode)
           n == Len(operands) + 1
<1>1. TypeInv /\ KeptInv
  BY DEF SafeInv
<1>2. /\ operands' = Append(operands, o)
      /\ labelOperand' = (labelOperand \/ o.form = "label")
      /\ UNCHANGED << textOpcode, segment, offset >>
  BY DEF TranslateOperand
<1>3. PICK scanned \in Scanned(o) :
        /\ bits' = scanned.bits
        /\ IF Mode(o) \in Expected(format, n)
           THEN /\ machineInstruction' =
                     Word32(machineInstruction \cup OperandField(o, format, n, scanned.bits))
                /\ said' = (said \/ scanned.said)
                /\ pc' = IF n = OperandCount(format) THEN "translated" ELSE "operand"
           ELSE /\ UNCHANGED machineInstruction
                /\ said' = TRUE
                /\ pc' = "translated"
  BY DEF TranslateOperand
<1>4. /\ operands \in Seq(Operand) /\ Len(operands) \in Nat
      /\ Len(operands') = n
      /\ operands'[n] = o
      /\ \A i \in 1 .. Len(operands) : operands'[i] = operands[i]
  BY <1>1, <1>2, OperandStart
<1>5. /\ Mode(o) \in Expected(format, n) /\ ~ said /\ ~ scanned.said
      /\ machineInstruction' =
           Word32(machineInstruction \cup OperandField(o, format, n, scanned.bits))
      /\ pc' = IF n = OperandCount(format) THEN "translated" ELSE "operand"
  BY <1>3 DEF InOrder
<1>6. o.scan = "whole" /\ \A i \in 1 .. Len(operands) : operands[i].scan = "whole"
  BY <1>4 DEF InOrder
<1>7. InOrder
  BY <1>1, <1>5, <1>6, OperandStart DEF InOrder
<1>8. Fits(o) /\ OperandField(o, format, n, scanned.bits) = OperandField(o, format, n, OwnBits(o))
  BY <1>1, <1>5, <1>6, OperandStart, ScannedFacts, OperandFieldOwn
<1>9. Translatable'
  BY <1>2, <1>7 DEF WordInv, Translatable
<1>10. \A i \in 1 .. Len(operands') :
         /\ Mode(operands'[i]) \in Expected(FormatOf(textOpcode'), i)
         /\ Fits(operands'[i])
  <2> SUFFICES ASSUME NEW i \in 1 .. n
               PROVE  Mode(operands'[i]) \in Expected(format, i) /\ Fits(operands'[i])
    BY <1>2, <1>4
  <2>1. CASE i = n
    BY <1>4, <1>5, <1>8, <2>1
  <2>2. CASE i # n
    <3>1. i \in 1 .. Len(operands)
      BY <1>4, <2>2
    <3> QED
      BY <1>4, <1>7, <3>1 DEF WordInv
  <2> QED
    BY <2>1, <2>2
<1>11. pc' # "operand" => Len(operands') = OperandCount(FormatOf(textOpcode'))
  BY <1>2, <1>4, <1>5
<1>12. labelOperand' => pc' # "operand" /\ operands'[OperandCount(FormatOf(textOpcode'))].form = "label"
  <2> SUFFICES ASSUME labelOperand'
               PROVE  n = OperandCount(format) /\ o.form = "label"
    BY <1>2, <1>4, <1>5
  <2>1. o.form = "label"
    BY <1>1, <1>2, OperandStart
  <2>2. ~ n < OperandCount(format)
    BY <1>1, <1>5, <2>1, OperandStart, ExpectedModes
  <2>3. PICK count \in {2, 3} : count = OperandCount(format)
    BY <1>1, OperandStart
  <2>4. n \in 1 .. OperandCount(format)
    BY <1>1, OperandStart
  <2> QED
    BY <2>1, <2>2, <2>3, <2>4
<1>13. ASSUME NEW b \in 0 .. 31
       PROVE  b \in machineInstruction' <=> WordBit(b)'
  <2>1. b \in machineInstruction' <=>
          b \in machineInstruction \/ b \in OperandField(o, format, n, OwnBits(o))
    BY <1>5, <1>8 DEF Word32
  <2>2. b \in machineInstruction <=>
          b \in Base(textOpcode) \/ \E i \in 1 .. Len(operands) : OperandBit(b, i)
    BY <1>1, <1>7, OperandStart DEF WordInv, WordBit
  <2>3. WordBit(b)' <=>
          \/ b \in Base(textOpcode)
          \/ \E i \in 1 .. n : b \in OperandField(operands'[i], format, i, OwnBits(operands'[i]))
    BY <1>2, <1>4, <1>5 DEF WordBit, OperandBit
  <2>4. (\E i \in 1 .. n : b \in OperandField(operands'[i], format, i, OwnBits(operands'[i]))) <=>
          \/ b \in OperandField(o, format, n, OwnBits(o))
          \/ \E i \in 1 .. Len(operands) : OperandBit(b, i)
    <3>1. \A i : i \in 1 .. n <=> i = n \/ i \in 1 .. Len(operands)
      BY <1>4
    <3> QED
      BY <1>4, <3>1 DEF OperandBit
  <2> QED
    BY <2>1, <2>2, <2>3, <2>4
<1>14. pc' # "resolved"
  BY <1>5
<1>15. \A i \in 1 .. Len(operands') : operands'[i].form = "label" => labelOperand'
  <2> SUFFICES ASSUME NEW i \in 1 .. n, operands'[i].form = "label"
               PROVE  labelOperand'
    BY <1>4
  <2>1. CASE i = n
    BY <1>2, <1>4, <2>1
  <2>2. CASE i # n
    <3>1. i \in 1 .. Len(operands)
      BY <1>4, <2>2
    <3> QED
      BY <1>2, <1>4, <1>7, <3>1 DEF WordInv
  <2> QED
    BY <2>1, <2>2
<1> QED
  BY <1>9, <1>10, <1>11, <1>12, <1>13, <1>14, <1>15 DEF WordInv

LEMMA ResolveWord ==
  ASSUME SafeInv, WordInv, NEW s \in {"code", "data"}, NEW m \in Offset, Resolve(s, m)
  PROVE  WordInv'
<1> SUFFICES ASSUME InOrder'
             PROVE  WordInv'
  BY DEF WordInv
<1>1. /\ pc = "translated" /\ pc' = "resolved" /\ labelOperand
      /\ FormatOf(textOpcode) \in {"SB", "load", "S"}
      /\ segment' = s /\ offset' = m
      /\ machineInstruction' = machineInstruction \cup ImmediateField(FormatOf(textOpcode), s, m)
      /\ UNCHANGED << textOpcode, operands, labelOperand, said >>
  BY DEF Resolve
<1>2. InOrder
  BY <1>1 DEF InOrder
<1>3. \A b \in 0 .. 31 : b \in machineInstruction' <=> WordBit(b)'
  BY <1>1, <1>2 DEF WordInv, WordBit, OperandBit
<1> QED
  BY <1>1, <1>2, <1>3 DEF WordInv, Translatable

LEMMA WordStep == SafeInv /\ WordInv /\ [Next]_vars => WordInv'
<1> SUFFICES ASSUME SafeInv, WordInv, [Next]_vars
             PROVE  WordInv'
  OBVIOUS
<1>1. CASE DereferenceEnd \/ OperandMissing \/ BranchOperandMissing
  BY <1>1 DEF DereferenceEnd, OperandMissing, BranchOperandMissing, WordInv, InOrder
<1>2. CASE UNCHANGED vars
  BY <1>2 DEF vars, WordInv, InOrder, Translatable, WordBit, OperandBit
<1> QED
  BY <1>1, <1>2, OpcodeWord, OperandWord, ResolveWord DEF Next

-----------------------------------------------------------------------------
(* The fields of the word.                                                 *)

LEMMA RegisterBit ==
  ASSUME NEW o, o.form = "register", NEW format, NEW n, NEW first \in Int,
         first = RegisterField(format, n), NEW b \in Int
  PROVE  b \in OperandField(o, format, n, OwnBits(o)) <=> b - first \in Bits(o.reg, 5)
<1>1. OwnBits(o) = Bits(o.reg, 5)
  BY DEF OwnBits
<1>2. OperandField(o, format, n, OwnBits(o)) = Shifted(Bits(o.reg, 5), first)
  BY <1>1 DEF OperandField, Mode
<1>3. Bits(o.reg, 5) \subseteq Int
  BY BitsBelow
<1> QED
  BY <1>2, <1>3, ShiftedIs

LEMMA ImmediateBit ==
  ASSUME NEW o, o.form = "immediate", NEW format, NEW first \in Int,
         first = RegisterField(format, 3), NEW b \in Int
  PROVE  b \in OperandField(o, format, 3, OwnBits(o)) <=> b - first \in Bits(o.value, 64)
<1>1. OwnBits(o) = Bits(o.value, 64)
  BY DEF OwnBits
<1>2. OperandField(o, format, 3, OwnBits(o)) = Shifted(Bits(o.value, 64), first)
  BY <1>1 DEF OperandField, Mode
<1>3. Bits(o.value, 64) \subseteq Int
  BY BitsBelow
<1> QED
  BY <1>2, <1>3, ShiftedIs

(* The parts of *bits, for an offset and its register.                     *)
LEMMA OffsetParts ==
  ASSUME NEW o, o.form = "offset", NEW k \in Int
  PROVE  /\ k \in Field(OwnBits(o), 0, 5) <=> k \in Bits(o.reg, 5)
         /\ k \in Field(OwnBits(o), 5, 12) <=> k \in Bits(o.value, 12)
         /\ k \in Field(OwnBits(o), 5, 5) <=> k \in 0 .. 4 /\ k \in Bits(o.value, 12)
         /\ k \in Field(OwnBits(o), 10, 7) <=> k \in 0 .. 6 /\ k + 5 \in Bits(o.value, 12)
<1>1. OwnBits(o) = Bits(o.reg, 5) \cup Shifted(Bits(o.value, 27), 5)
  BY DEF OwnBits
<1>2. Bits(o.reg, 5) \subseteq 0 .. 4 /\ Bits(o.value, 27) \subseteq 0 .. 26
      /\ Bits(o.value, 12) \subseteq 0 .. 11
  BY BitsBelow
<1>3. \A c \in 0 .. 11 : c \in Bits(o.value, 27) <=> c \in Bits(o.value, 12)
  BY DEF Bits
<1>4. \A c \in Int : c \in OwnBits(o) <=> c \in Bits(o.reg, 5) \/ c - 5 \in Bits(o.value, 27)
  <2> SUFFICES ASSUME NEW c \in Int
               PROVE  c \in OwnBits(o) <=> c \in Bits(o.reg, 5) \/ c - 5 \in Bits(o.value, 27)
    OBVIOUS
  <2>1. PICK five \in Int : five = 5
    OBVIOUS
  <2>2. c \in Shifted(Bits(o.value, 27), five) <=> c - five \in Bits(o.value, 27)
    BY <1>2, ShiftedIs
  <2> QED
    BY <1>1, <2>1, <2>2
<1>5. k \in Field(OwnBits(o), 0, 5) <=> k \in Bits(o.reg, 5)
  <2>1. k \in Field(OwnBits(o), 0, 5) <=> k \in 0 .. 4 /\ k \in OwnBits(o)
    BY DEF Field
  <2>2. k \in 0 .. 4 => k - 5 \notin Bits(o.value, 27)
    BY <1>2
  <2> QED
    BY <1>2, <1>4, <2>1, <2>2
<1>6. ASSUME k \in 0 .. 11
      PROVE  k + 5 \in OwnBits(o) <=> k \in Bits(o.value, 12)
  <2>1. k + 5 \notin Bits(o.reg, 5) /\ (k + 5) - 5 = k
    BY <1>2, <1>6
  <2>2. PICK c \in Int : c = k + 5 /\ c - 5 = k
    OBVIOUS
  <2>3. c \in OwnBits(o) <=> c \in Bits(o.reg, 5) \/ c - 5 \in Bits(o.value, 27)
    BY <1>4
  <2> QED
    BY <1>3, <1>6, <2>1, <2>2, <2>3
<1>7. k \in Field(OwnBits(o), 5, 12) <=> k \in Bits(o.value, 12)
  <2>1. k \in Field(OwnBits(o), 5, 12) <=> k \in 0 .. 11 /\ k + 5 \in OwnBits(o)
    BY DEF Field
  <2> QED
    BY <1>2, <1>6, <2>1
<1>8. k \in Field(OwnBits(o), 5, 5) <=> k \in 0 .. 4 /\ k \in Bits(o.value, 12)
  <2>1. k \in Field(OwnBits(o), 5, 5) <=> k \in 0 .. 4 /\ k + 5 \in OwnBits(o)
    BY DEF Field
  <2> QED
    BY <1>6, <2>1
<1>9. k \in Field(OwnBits(o), 10, 7) <=> k \in 0 .. 6 /\ k + 5 \in Bits(o.value, 12)
  <2>1. k \in Field(OwnBits(o), 10, 7) <=> k \in 0 .. 6 /\ k + 10 \in OwnBits(o)
    BY DEF Field
  <2>2. ASSUME k \in 0 .. 6
        PROVE  k + 10 \in OwnBits(o) <=> k + 5 \in Bits(o.value, 12)
    <3>1. PICK c \in Int : c = k + 10
      OBVIOUS
    <3>2. PICK d \in 0 .. 11 : d = k + 5
      BY <2>2
    <3>3. c - 5 = d /\ c \notin Bits(o.reg, 5)
      BY <1>2, <2>2, <3>1, <3>2
    <3>4. c \in OwnBits(o) <=> d \in Bits(o.value, 27)
      BY <1>4, <3>3
    <3> QED
      BY <1>3, <3>1, <3>2, <3>4
  <2> QED
    BY <2>1, <2>2
<1> QED
  BY <1>5, <1>7, <1>8, <1>9

LEMMA LoadBit ==
  ASSUME NEW o, o.form = "offset", NEW n, NEW b \in Int
  PROVE  b \in OperandField(o, "load", n, OwnBits(o)) <=>
           b - 15 \in Bits(o.reg, 5) \/ b - 20 \in Bits(o.value, 12)
<1> DEFINE reg == Field(OwnBits(o), 0, 5)
           imm == Field(OwnBits(o), 5, 12)
<1>1. OperandField(o, "load", n, OwnBits(o)) = Shifted(reg, 15) \cup Shifted(imm, 20)
  BY DEF OperandField, Mode, OffsetField
<1>2. reg \subseteq Int /\ imm \subseteq Int
  BY DEF Field
<1>3. PICK k1 \in Int, k2 \in Int : k1 = 15 /\ k2 = 20
  OBVIOUS
<1>4. b - k1 \in reg <=> b - k1 \in Bits(o.reg, 5)
  BY OffsetParts
<1>5. b - k2 \in imm <=> b - k2 \in Bits(o.value, 12)
  BY OffsetParts
<1> HIDE DEF reg, imm
<1>6. (b \in Shifted(reg, k1) <=> b - k1 \in reg) /\ (b \in Shifted(imm, k2) <=> b - k2 \in imm)
  BY <1>2, ShiftedIs
<1> QED
  BY <1>1, <1>3, <1>4, <1>5, <1>6

LEMMA StoreBit ==
  ASSUME NEW o, o.form = "offset", NEW n, NEW b \in Int
  PROVE  b \in OperandField(o, "S", n, OwnBits(o)) <=>
           \/ b - 20 \in Bits(o.reg, 5)
           \/ b - 25 \in 0 .. 6 /\ (b - 25) + 5 \in Bits(o.value, 12)
           \/ b - 7 \in 0 .. 4 /\ b - 7 \in Bits(o.value, 12)
<1> DEFINE reg == Field(OwnBits(o), 0, 5)
           high == Field(OwnBits(o), 10, 7)
           low == Field(OwnBits(o), 5, 5)
<1>1. OperandField(o, "S", n, OwnBits(o)) =
        Shifted(reg, 20) \cup Shifted(high, 25) \cup Shifted(low, 7)
  BY DEF OperandField, Mode, OffsetField
<1>2. reg \subseteq Int /\ high \subseteq Int /\ low \subseteq Int
  BY DEF Field
<1>3. PICK k1 \in Int, k2 \in Int, k3 \in Int : k1 = 20 /\ k2 = 25 /\ k3 = 7
  OBVIOUS
<1>4. b - k1 \in reg <=> b - k1 \in Bits(o.reg, 5)
  BY OffsetParts
<1>5. b - k2 \in high <=> b - k2 \in 0 .. 6 /\ (b - k2) + 5 \in Bits(o.value, 12)
  BY OffsetParts
<1>6. b - k3 \in low <=> b - k3 \in 0 .. 4 /\ b - k3 \in Bits(o.value, 12)
  BY OffsetParts
<1> HIDE DEF reg, high, low
<1>7. /\ b \in Shifted(reg, k1) <=> b - k1 \in reg
      /\ b \in Shifted(high, k2) <=> b - k2 \in high
      /\ b \in Shifted(low, k3) <=> b - k3 \in low
  BY <1>2, ShiftedIs
<1> QED
  BY <1>1, <1>3, <1>4, <1>5, <1>6, <1>7

LEMMA InFieldIs ==
  ASSUME NEW first \in Nat, NEW width \in Nat, NEW set, set \subseteq 0 .. width - 1,
         \A k \in 0 .. width - 1 : k + first \in machineInstruction <=> k \in set
  PROVE  InField(first, width, set)
  BY DEF InField, Field

RecoverInv == SafeInv /\ WordInv

(* An accepted statement has a format, and the operands the format asks    *)
(* for.                                                                    *)
LEMMA AcceptedFacts ==
  ASSUME RecoverInv, Accepted
  PROVE  /\ InOrder
         /\ FormatOf(textOpcode) \in Format \ {"other"}
         /\ Base(textOpcode) \subseteq BaseBit(FormatOf(textOpcode))
         /\ Len(operands) = OperandCount(FormatOf(textOpcode))
         /\ \A i \in 1 .. Len(operands) :
              /\ operands[i] \in Operand
              /\ Mode(operands[i]) \in Expected(FormatOf(textOpcode), i)
              /\ Fits(operands[i])
         /\ \A b \in 0 .. 31 : b \in machineInstruction <=> WordBit(b)
         /\ pc = "resolved" => labelOperand
<1>1. InOrder /\ pc # "operand"
  BY DEF Accepted, InOrder
<1>2. textOpcode \in Mnemonic /\ operands \in Seq(Operand)
  BY DEF RecoverInv, SafeInv, TypeInv, TypeOK
<1>3. FormatOf(textOpcode) \in Format \ {"other"}
  BY <1>1 DEF RecoverInv, WordInv, Translatable
<1>4. Base(textOpcode) \subseteq BaseBit(FormatOf(textOpcode))
  BY <1>2, <1>3, TableFacts DEF RecoverInv
<1>5. \A i \in 1 .. Len(operands) : operands[i] \in Operand
  BY <1>2
<1> QED
  BY <1>1, <1>3, <1>4, <1>5 DEF RecoverInv, WordInv

(* The word of three operands, and of two.                                 *)
LEMMA ThreeOperands ==
  ASSUME RecoverInv, Accepted, FormatOf(textOpcode) \in {"R", "I", "shift", "SB"},
         NEW b \in 0 .. 31
  PROVE  /\ Len(operands) = 3
         /\ operands[1].form = "register" /\ operands[2].form = "register"
         /\ operands[1] \in Operand /\ operands[2] \in Operand /\ operands[3] \in Operand
         /\ FormatOf(textOpcode) = "R" => operands[3].form = "register"
         /\ FormatOf(textOpcode) \in {"I", "shift"} => operands[3].form = "immediate"
         /\ b \in machineInstruction <=>
              \/ b \in Base(textOpcode)
              \/ OperandBit(b, 1) \/ OperandBit(b, 2) \/ OperandBit(b, 3)
              \/ pc = "resolved" /\ b \in ImmediateField(FormatOf(textOpcode), segment, offset)
<1>1. OperandCount(FormatOf(textOpcode)) = 3
  BY DEF OperandCount
<1>2. Len(operands) = 3
  BY <1>1, AcceptedFacts
<1>3. \A i \in {1, 2, 3} :
        operands[i] \in Operand /\ Mode(operands[i]) \in Expected(FormatOf(textOpcode), i)
  BY <1>2, AcceptedFacts
<1>4. operands[1].form = "register"
  BY <1>1, <1>3, ExpectedModes
<1>5. operands[2].form = "register"
  BY <1>1, <1>3, ExpectedModes
<1>6. /\ FormatOf(textOpcode) = "R" => operands[3].form = "register"
      /\ FormatOf(textOpcode) \in {"I", "shift"} => operands[3].form = "immediate"
  <2>1. Mode(operands[3]) \in Expected(FormatOf(textOpcode), 3)
    BY <1>3
  <2>2. 3 \in 1 .. OperandCount(FormatOf(textOpcode))
    BY <1>1
  <2> QED
    BY <1>3, <2>1, <2>2, ExpectedModes
<1>7. (\E i \in 1 .. Len(operands) : OperandBit(b, i)) <=>
        OperandBit(b, 1) \/ OperandBit(b, 2) \/ OperandBit(b, 3)
  <2>1. \A i : i \in 1 .. Len(operands) <=> i = 1 \/ i = 2 \/ i = 3
    BY <1>2
  <2> QED
    BY <2>1
<1>8. b \in machineInstruction <=> WordBit(b)
  BY AcceptedFacts
<1> QED
  BY <1>2, <1>3, <1>4, <1>5, <1>6, <1>7, <1>8 DEF WordBit

LEMMA TwoOperands ==
  ASSUME RecoverInv, Accepted, FormatOf(textOpcode) \in {"load", "S"}, NEW b \in 0 .. 31
  PROVE  /\ Len(operands) = 2
         /\ operands[1].form = "register" /\ operands[2].form \in {"offset", "label"}
         /\ operands[1] \in Operand /\ operands[2] \in Operand
         /\ b \in machineInstruction <=>
              \/ b \in Base(textOpcode)
              \/ OperandBit(b, 1) \/ OperandBit(b, 2)
              \/ pc = "resolved" /\ b \in ImmediateField(FormatOf(textOpcode), segment, offset)
<1>1. OperandCount(FormatOf(textOpcode)) = 2
  BY DEF OperandCount
<1>2. Len(operands) = 2
  BY <1>1, AcceptedFacts
<1>3. \A i \in {1, 2} :
        operands[i] \in Operand /\ Mode(operands[i]) \in Expected(FormatOf(textOpcode), i)
  BY <1>2, AcceptedFacts
<1>4. operands[1].form = "register"
  BY <1>1, <1>3, ExpectedModes
<1>5. operands[2].form \in {"offset", "label"}
  <2>1. Mode(operands[2]) \in Expected(FormatOf(textOpcode), 2)
    BY <1>3
  <2>2. 2 \in 1 .. OperandCount(FormatOf(textOpcode)) /\ 2 = OperandCount(FormatOf(textOpcode))
    BY <1>1
  <2> QED
    BY <1>3, <2>1, <2>2, ExpectedModes
<1>6. (\E i \in 1 .. Len(operands) : OperandBit(b, i)) <=> OperandBit(b, 1) \/ OperandBit(b, 2)
  <2>1. \A i : i \in 1 .. Len(operands) <=> i = 1 \/ i = 2
    BY <1>2
  <2> QED
    BY <2>1
<1>7. b \in machineInstruction <=> WordBit(b)
  BY AcceptedFacts
<1> QED
  BY <1>2, <1>3, <1>4, <1>5, <1>6, <1>7 DEF WordBit

(* The bits that a register operand adds, in numbers.                      *)
LEMMA RegisterBits ==
  ASSUME NEW i \in {1, 2, 3}, operands[i].form = "register", NEW b \in Int
  PROVE  OperandBit(b, i) <=>
           b - (CASE i = 1 -> IF FormatOf(textOpcode) \in {"S", "SB"} THEN 15 ELSE 7
                  [] i = 2 -> IF FormatOf(textOpcode) = "SB" THEN 7 ELSE 15
                  [] i = 3 -> 20) \in Reg(i)
<1>1. PICK first \in Int : first = RegisterField(FormatOf(textOpcode), i)
  BY DEF RegisterField
<1>2. OperandBit(b, i) <=> b - first \in Bits(operands[i].reg, 5)
  BY <1>1, RegisterBit DEF OperandBit
<1> QED
  BY <1>1, <1>2 DEF RegisterField, Reg

LEMMA RegBelow == ASSUME NEW i PROVE Reg(i) \subseteq 0 .. 4
  BY BitsBelow DEF Reg

(* The places of operands are free in the table.                           *)
LEMMA BaseWithin ==
  ASSUME RecoverInv, Accepted
  PROVE  /\ Base(textOpcode) \subseteq 0 .. 6 \cup 12 .. 14 \cup 25 .. 31
         /\ FormatOf(textOpcode) \notin {"R", "shift"} =>
              Base(textOpcode) \subseteq 0 .. 6 \cup 12 .. 14
<1>1. Base(textOpcode) \subseteq BaseBit(FormatOf(textOpcode))
  BY AcceptedFacts
<1>2. CASE FormatOf(textOpcode) \in {"R", "shift"}
  <2>1. BaseBit(FormatOf(textOpcode)) = 0 .. 6 \cup 12 .. 14 \cup 25 .. 31
    BY <1>2 DEF BaseBit, InstructionBit, Funct7Bit
  <2> QED
    BY <1>1, <1>2, <2>1
<1>3. CASE FormatOf(textOpcode) \notin {"R", "shift"}
  <2>1. BaseBit(FormatOf(textOpcode)) = 0 .. 6 \cup 12 .. 14
    BY <1>3 DEF BaseBit, InstructionBit
  <2> QED
    BY <1>1, <1>3, <2>1
<1> QED
  BY <1>2, <1>3

LEMMA RFields ==
  ASSUME RecoverInv, Accepted, ~ labelOperand, FormatOf(textOpcode) = "R"
  PROVE  InField(7, 5, Reg(1)) /\ InField(15, 5, Reg(2)) /\ InField(20, 5, Reg(3))
<1>1. /\ Reg(1) \subseteq 0 .. 4 /\ Reg(2) \subseteq 0 .. 4 /\ Reg(3) \subseteq 0 .. 4
      /\ Base(textOpcode) \subseteq 0 .. 6 \cup 12 .. 14 \cup 25 .. 31
  BY RegBelow, BaseWithin
<1>2. ASSUME NEW b \in 0 .. 31
      PROVE  b \in machineInstruction <=>
               \/ b \in Base(textOpcode)
               \/ b - 7 \in Reg(1) \/ b - 15 \in Reg(2) \/ b - 20 \in Reg(3)
  <2>1. /\ operands[1].form = "register" /\ operands[2].form = "register"
        /\ operands[3].form = "register"
        /\ b \in machineInstruction <=>
             b \in Base(textOpcode) \/ OperandBit(b, 1) \/ OperandBit(b, 2) \/ OperandBit(b, 3)
    BY ThreeOperands, AcceptedFacts
  <2>2. /\ OperandBit(b, 1) <=> b - 7 \in Reg(1)
        /\ OperandBit(b, 2) <=> b - 15 \in Reg(2)
        /\ OperandBit(b, 3) <=> b - 20 \in Reg(3)
    BY <2>1, RegisterBits
  <2> QED
    BY <2>1, <2>2
<1>3. \A k \in 0 .. 4 : k + 7 \in machineInstruction <=> k \in Reg(1)
  BY <1>1, <1>2
<1>4. \A k \in 0 .. 4 : k + 15 \in machineInstruction <=> k \in Reg(2)
  BY <1>1, <1>2
<1>5. \A k \in 0 .. 4 : k + 20 \in machineInstruction <=> k \in Reg(3)
  BY <1>1, <1>2
<1> QED
  BY <1>1, <1>3, <1>4, <1>5, InFieldIs

LEMMA IFields ==
  ASSUME RecoverInv, Accepted, ~ labelOperand, FormatOf(textOpcode) = "I"
  PROVE  /\ InField(7, 5, Reg(1)) /\ InField(15, 5, Reg(2))
         /\ InField(20, 12, Bits(operands[3].value, 12))
<1> DEFINE imm == Bits(operands[3].value, 12)
<1>1. /\ Reg(1) \subseteq 0 .. 4 /\ Reg(2) \subseteq 0 .. 4 /\ imm \subseteq 0 .. 11
      /\ Base(textOpcode) \subseteq 0 .. 6 \cup 12 .. 14
  BY RegBelow, BitsBelow, BaseWithin
<1>2. ASSUME NEW b \in 0 .. 31
      PROVE  b \in machineInstruction <=>
               \/ b \in Base(textOpcode)
               \/ b - 7 \in Reg(1) \/ b - 15 \in Reg(2) \/ b - 20 \in imm
  <2>1. /\ operands[1].form = "register" /\ operands[2].form = "register"
        /\ operands[3].form = "immediate"
        /\ b \in machineInstruction <=>
             b \in Base(textOpcode) \/ OperandBit(b, 1) \/ OperandBit(b, 2) \/ OperandBit(b, 3)
    BY ThreeOperands, AcceptedFacts
  <2>2. /\ OperandBit(b, 1) <=> b - 7 \in Reg(1)
        /\ OperandBit(b, 2) <=> b - 15 \in Reg(2)
    BY <2>1, RegisterBits
  <2>3. OperandBit(b, 3) <=> b - 20 \in Bits(operands[3].value, 64)
    <3>1. PICK first \in Int : first = RegisterField(FormatOf(textOpcode), 3) /\ first = 20
      BY DEF RegisterField
    <3> QED
      BY <2>1, <3>1, ImmediateBit DEF OperandBit
  <2>4. b - 20 \in Bits(operands[3].value, 64) <=> b - 20 \in imm
    BY DEF Bits
  <2> QED
    BY <2>1, <2>2, <2>3, <2>4
<1>3. \A k \in 0 .. 4 : k + 7 \in machineInstruction <=> k \in Reg(1)
  BY <1>1, <1>2
<1>4. \A k \in 0 .. 4 : k + 15 \in machineInstruction <=> k \in Reg(2)
  BY <1>1, <1>2
<1>5. \A k \in 0 .. 11 : k + 20 \in machineInstruction <=> k \in imm
  BY <1>1, <1>2
<1>6. InField(20, 12, imm)
  BY <1>1, <1>5, InFieldIs
<1> QED
  BY <1>1, <1>3, <1>4, <1>6, InFieldIs

LEMMA ShiftFields ==
  ASSUME RecoverInv, Accepted, ~ labelOperand, FormatOf(textOpcode) = "shift",
         operands[3].value \in 0 .. 31
  PROVE  /\ InField(7, 5, Reg(1)) /\ InField(15, 5, Reg(2))
         /\ InField(20, 5, Bits(operands[3].value, 5))
         /\ InField(25, 7, Field(Base(textOpcode), 25, 7))
<1> DEFINE amount == Bits(operands[3].value, 5)
           funct7 == Field(Base(textOpcode), 25, 7)
<1>1. /\ Reg(1) \subseteq 0 .. 4 /\ Reg(2) \subseteq 0 .. 4 /\ amount \subseteq 0 .. 4
      /\ Base(textOpcode) \subseteq 0 .. 6 \cup 12 .. 14 \cup 25 .. 31
      /\ funct7 \subseteq 0 .. 6
  BY RegBelow, BitsBelow, BaseWithin DEF Field
<1>2. ASSUME NEW b \in 0 .. 31
      PROVE  b \in machineInstruction <=>
               \/ b \in Base(textOpcode)
               \/ b - 7 \in Reg(1) \/ b - 15 \in Reg(2) \/ b - 20 \in amount
  <2>1. /\ operands[1].form = "register" /\ operands[2].form = "register"
        /\ operands[3].form = "immediate"
        /\ b \in machineInstruction <=>
             b \in Base(textOpcode) \/ OperandBit(b, 1) \/ OperandBit(b, 2) \/ OperandBit(b, 3)
    BY ThreeOperands, AcceptedFacts
  <2>2. /\ OperandBit(b, 1) <=> b - 7 \in Reg(1)
        /\ OperandBit(b, 2) <=> b - 15 \in Reg(2)
    BY <2>1, RegisterBits
  <2>3. OperandBit(b, 3) <=> b - 20 \in Bits(operands[3].value, 64)
    <3>1. PICK first \in Int : first = RegisterField(FormatOf(textOpcode), 3) /\ first = 20
      BY DEF RegisterField
    <3> QED
      BY <2>1, <3>1, ImmediateBit DEF OperandBit
  <2>4. b - 20 \in Bits(operands[3].value, 64) <=> b - 20 \in amount
    <3>1. PICK c \in Int : c = b - 20
      OBVIOUS
    <3>2. c <= 11
      BY <3>1
    <3>3. CASE c \in 0 .. 4
      BY <3>1, <3>3 DEF Bits
    <3>4. CASE c \in 5 .. 11
      <4>1. (operands[3].value \div 2^c) % 2 # 1
        BY <3>4, FiveBits
      <4>2. c \notin Bits(operands[3].value, 64) /\ c \notin amount
        BY <1>1, <3>4, <4>1, BitsAre
      <4> QED
        BY <3>1, <4>2
    <3>5. CASE c < 0
      BY <3>1, <3>5 DEF Bits
    <3> QED
      BY <3>2, <3>3, <3>4, <3>5
  <2> QED
    BY <2>1, <2>2, <2>3, <2>4
<1>3. \A k \in 0 .. 4 : k + 7 \in machineInstruction <=> k \in Reg(1)
  BY <1>1, <1>2
<1>4. \A k \in 0 .. 4 : k + 15 \in machineInstruction <=> k \in Reg(2)
  BY <1>1, <1>2
<1>5. \A k \in 0 .. 4 : k + 20 \in machineInstruction <=> k \in amount
  BY <1>1, <1>2
<1>6. \A k \in 0 .. 6 : k + 25 \in machineInstruction <=> k \in funct7
  <2>1. \A k \in 0 .. 6 : k + 25 \in machineInstruction <=> k + 25 \in Base(textOpcode)
    BY <1>1, <1>2
  <2> QED
    BY <2>1 DEF Field
<1>7. InField(20, 5, amount) /\ InField(25, 7, funct7)
  BY <1>1, <1>5, <1>6, InFieldIs
<1> QED
  BY <1>1, <1>3, <1>4, <1>7, InFieldIs

LEMMA LoadFields ==
  ASSUME RecoverInv, Accepted, ~ labelOperand, FormatOf(textOpcode) = "load",
         operands[2].form = "offset"
  PROVE  /\ InField(7, 5, Reg(1)) /\ InField(15, 5, Reg(2))
         /\ InField(20, 12, Bits(operands[2].value, 12))
<1> DEFINE imm == Bits(operands[2].value, 12)
<1>1. /\ Reg(1) \subseteq 0 .. 4 /\ Reg(2) \subseteq 0 .. 4 /\ imm \subseteq 0 .. 11
      /\ Base(textOpcode) \subseteq 0 .. 6 \cup 12 .. 14
  BY RegBelow, BitsBelow, BaseWithin
<1>2. ASSUME NEW b \in 0 .. 31
      PROVE  b \in machineInstruction <=>
               \/ b \in Base(textOpcode)
               \/ b - 7 \in Reg(1) \/ b - 15 \in Reg(2) \/ b - 20 \in imm
  <2>1. /\ operands[1].form = "register"
        /\ b \in machineInstruction <=>
             b \in Base(textOpcode) \/ OperandBit(b, 1) \/ OperandBit(b, 2)
    BY TwoOperands, AcceptedFacts
  <2>2. OperandBit(b, 1) <=> b - 7 \in Reg(1)
    BY <2>1, RegisterBits
  <2>3. OperandBit(b, 2) <=> b - 15 \in Reg(2) \/ b - 20 \in imm
    BY LoadBit DEF OperandBit, Reg
  <2> QED
    BY <2>1, <2>2, <2>3
<1>3. \A k \in 0 .. 4 : k + 7 \in machineInstruction <=> k \in Reg(1)
  BY <1>1, <1>2
<1>4. \A k \in 0 .. 4 : k + 15 \in machineInstruction <=> k \in Reg(2)
  BY <1>1, <1>2
<1>5. \A k \in 0 .. 11 : k + 20 \in machineInstruction <=> k \in imm
  BY <1>1, <1>2
<1>6. InField(20, 12, imm)
  BY <1>1, <1>5, InFieldIs
<1> QED
  BY <1>1, <1>3, <1>4, <1>6, InFieldIs

LEMMA StoreFields ==
  ASSUME RecoverInv, Accepted, ~ labelOperand, FormatOf(textOpcode) = "S",
         operands[2].form = "offset"
  PROVE  /\ InField(15, 5, Reg(1)) /\ InField(20, 5, Reg(2))
         /\ StoredOffset = Bits(operands[2].value, 12)
<1> DEFINE imm == Bits(operands[2].value, 12)
<1>1. /\ Reg(1) \subseteq 0 .. 4 /\ Reg(2) \subseteq 0 .. 4 /\ imm \subseteq 0 .. 11
      /\ Base(textOpcode) \subseteq 0 .. 6 \cup 12 .. 14
  BY RegBelow, BitsBelow, BaseWithin
<1>2. ASSUME NEW b \in 0 .. 31
      PROVE  b \in machineInstruction <=>
               \/ b \in Base(textOpcode)
               \/ b - 15 \in Reg(1) \/ b - 20 \in Reg(2)
               \/ b - 25 \in 0 .. 6 /\ (b - 25) + 5 \in imm
               \/ b - 7 \in 0 .. 4 /\ b - 7 \in imm
  <2>1. /\ operands[1].form = "register"
        /\ b \in machineInstruction <=>
             b \in Base(textOpcode) \/ OperandBit(b, 1) \/ OperandBit(b, 2)
    BY TwoOperands, AcceptedFacts
  <2>2. OperandBit(b, 1) <=> b - 15 \in Reg(1)
    BY <2>1, RegisterBits
  <2>3. OperandBit(b, 2) <=>
          \/ b - 20 \in Reg(2)
          \/ b - 25 \in 0 .. 6 /\ (b - 25) + 5 \in imm
          \/ b - 7 \in 0 .. 4 /\ b - 7 \in imm
    BY StoreBit DEF OperandBit, Reg
  <2> QED
    BY <2>1, <2>2, <2>3
<1>3. \A k \in 0 .. 4 : k + 15 \in machineInstruction <=> k \in Reg(1)
  BY <1>1, <1>2
<1>4. \A k \in 0 .. 4 : k + 20 \in machineInstruction <=> k \in Reg(2)
  BY <1>1, <1>2
<1>5. \A k \in 0 .. 4 : k + 7 \in machineInstruction <=> k \in imm
  BY <1>1, <1>2
<1>6. \A k \in 0 .. 6 : k + 25 \in machineInstruction <=> k + 5 \in imm
  BY <1>1, <1>2
<1>7. StoredOffset = imm
  <2> DEFINE low == Field(machineInstruction, 7, 5)
             high == Field(machineInstruction, 25, 7)
  <2>1. \A k \in Int : k \in low <=> k \in 0 .. 4 /\ k \in imm
    BY <1>5 DEF Field
  <2>2. \A k \in Int : k \in high <=> k \in 0 .. 6 /\ k + 5 \in imm
    BY <1>6 DEF Field
  <2>3. high \subseteq Int /\ low \subseteq Int
    BY DEF Field
  <2>4. StoredOffset = low \cup Shifted(high, 5)
    BY DEF StoredOffset
  <2> HIDE DEF low, high
  <2>5. ASSUME NEW k \in Int
        PROVE  k \in Shifted(high, 5) <=> k \in 5 .. 11 /\ k \in imm
    <3>1. PICK five \in Int : five = 5
      OBVIOUS
    <3>2. k \in Shifted(high, five) <=> k - five \in high
      BY <2>3, ShiftedIs
    <3>3. PICK c \in Int : c = k - 5 /\ c + 5 = k
      OBVIOUS
    <3>4. c \in high <=> c \in 0 .. 6 /\ c + 5 \in imm
      BY <2>2
    <3> QED
      BY <3>1, <3>2, <3>3, <3>4
  <2>6. Shifted(high, 5) \subseteq Int
    BY <2>3 DEF Shifted
  <2>7. ASSUME NEW k \in Int
        PROVE  k \in low \cup Shifted(high, 5) <=> k \in imm
    BY <1>1, <2>1, <2>5
  <2>8. \A k : k \in low \cup Shifted(high, 5) => k \in Int
    BY <2>3, <2>6
  <2>9. \A k : k \in imm => k \in Int
    BY <1>1
  <2>10. low \cup Shifted(high, 5) = imm
    BY <2>7, <2>8, <2>9
  <2> QED
    BY <2>4, <2>10
<1> QED
  BY <1>1, <1>3, <1>4, <1>7, InFieldIs

(* Pass 2: an immediate operand is put beside the registers of pass 1.     *)
LEMMA BranchLabelFields ==
  ASSUME RecoverInv, Accepted, pc = "resolved", FormatOf(textOpcode) = "SB", segment = "code"
  PROVE  /\ InField(15, 5, Reg(1)) /\ InField(7, 5, Reg(2))
         /\ InField(20, 12, Bits((offset \div 2) - 2048, 12))
<1> DEFINE imm == Bits((offset \div 2) - 2048, 12)
<1>1. /\ Reg(1) \subseteq 0 .. 4 /\ Reg(2) \subseteq 0 .. 4 /\ imm \subseteq 0 .. 11
      /\ Base(textOpcode) \subseteq 0 .. 6 \cup 12 .. 14
  BY RegBelow, BitsBelow, BaseWithin
<1>2. operands[3].form = "label"
  <2>1. OperandCount(FormatOf(textOpcode)) = 3
    BY DEF OperandCount
  <2> QED
    BY <2>1, AcceptedFacts DEF RecoverInv, WordInv
<1>3. ASSUME NEW b \in 0 .. 31
      PROVE  b \in machineInstruction <=>
               \/ b \in Base(textOpcode)
               \/ b - 15 \in Reg(1) \/ b - 7 \in Reg(2) \/ b - 20 \in imm
  <2>1. /\ operands[1].form = "register" /\ operands[2].form = "register"
        /\ b \in machineInstruction <=>
             \/ b \in Base(textOpcode)
             \/ OperandBit(b, 1) \/ OperandBit(b, 2) \/ OperandBit(b, 3)
             \/ b \in ImmediateField(FormatOf(textOpcode), segment, offset)
    BY ThreeOperands
  <2>2. /\ OperandBit(b, 1) <=> b - 15 \in Reg(1)
        /\ OperandBit(b, 2) <=> b - 7 \in Reg(2)
    BY <2>1, RegisterBits
  <2>3. ~ OperandBit(b, 3)
    BY <1>2 DEF OperandBit, OperandField, Mode
  <2>4. b \in ImmediateField(FormatOf(textOpcode), segment, offset) <=> b - 20 \in imm
    <3>1. ImmediateField(FormatOf(textOpcode), segment, offset) = Shifted(imm, 20)
      BY DEF ImmediateField, CodeOffset
    <3>2. PICK k \in Int : k = 20
      OBVIOUS
    <3>3. imm \subseteq Int
      BY <1>1
    <3>4. b \in Shifted(imm, k) <=> b - k \in imm
      BY <3>3, ShiftedIs
    <3> QED
      BY <3>1, <3>2, <3>4
  <2> QED
    BY <2>1, <2>2, <2>3, <2>4
<1>4. \A k \in 0 .. 4 : k + 15 \in machineInstruction <=> k \in Reg(1)
  BY <1>1, <1>3
<1>5. \A k \in 0 .. 4 : k + 7 \in machineInstruction <=> k \in Reg(2)
  BY <1>1, <1>3
<1>6. \A k \in 0 .. 11 : k + 20 \in machineInstruction <=> k \in imm
  BY <1>1, <1>3
<1>7. InField(20, 12, imm)
  BY <1>1, <1>6, InFieldIs
<1> QED
  BY <1>1, <1>4, <1>5, <1>7, InFieldIs

LEMMA LoadLabelFields ==
  ASSUME RecoverInv, Accepted, pc = "resolved", FormatOf(textOpcode) = "load", segment = "data"
  PROVE  /\ InField(7, 5, Reg(1)) /\ InField(15, 5, gp)
         /\ InField(20, 12, Bits(offset - 2048, 12))
<1> DEFINE base == Bits(3, 5)
           imm == Bits(offset - 2048, 12)
<1>1. /\ Reg(1) \subseteq 0 .. 4 /\ base \subseteq 0 .. 4 /\ imm \subseteq 0 .. 11
      /\ Base(textOpcode) \subseteq 0 .. 6 \cup 12 .. 14
  BY RegBelow, BitsBelow, BaseWithin
<1>2. operands[2].form = "label"
  <2>1. OperandCount(FormatOf(textOpcode)) = 2
    BY DEF OperandCount
  <2> QED
    BY <2>1, AcceptedFacts DEF RecoverInv, WordInv
<1>3. ASSUME NEW b \in 0 .. 31
      PROVE  b \in machineInstruction <=>
               \/ b \in Base(textOpcode)
               \/ b - 7 \in Reg(1) \/ b - 15 \in base \/ b - 20 \in imm
  <2>1. /\ operands[1].form = "register"
        /\ b \in machineInstruction <=>
             \/ b \in Base(textOpcode)
             \/ OperandBit(b, 1) \/ OperandBit(b, 2)
             \/ b \in ImmediateField(FormatOf(textOpcode), segment, offset)
    BY TwoOperands
  <2>2. OperandBit(b, 1) <=> b - 7 \in Reg(1)
    BY <2>1, RegisterBits
  <2>3. ~ OperandBit(b, 2)
    BY <1>2 DEF OperandBit, OperandField, Mode
  <2>4. b \in ImmediateField(FormatOf(textOpcode), segment, offset) <=>
          b - 15 \in base \/ b - 20 \in imm
    <3>1. ImmediateField(FormatOf(textOpcode), segment, offset) =
            Shifted(imm, 20) \cup Shifted(base, 15)
      BY DEF ImmediateField, DataOffset, gp
    <3>2. PICK k1 \in Int, k2 \in Int : k1 = 20 /\ k2 = 15
      OBVIOUS
    <3>3. imm \subseteq Int /\ base \subseteq Int
      BY <1>1
    <3>4. b \in Shifted(imm, k1) <=> b - k1 \in imm
      BY <3>3, ShiftedIs
    <3>5. b \in Shifted(base, k2) <=> b - k2 \in base
      BY <3>3, ShiftedIs
    <3> QED
      BY <3>1, <3>2, <3>4, <3>5
  <2> QED
    BY <2>1, <2>2, <2>3, <2>4
<1>4. \A k \in 0 .. 4 : k + 7 \in machineInstruction <=> k \in Reg(1)
  BY <1>1, <1>3
<1>5. \A k \in 0 .. 4 : k + 15 \in machineInstruction <=> k \in base
  BY <1>1, <1>3
<1>6. \A k \in 0 .. 11 : k + 20 \in machineInstruction <=> k \in imm
  BY <1>1, <1>3
<1>7. InField(20, 12, imm)
  BY <1>1, <1>6, InFieldIs
<1>9. InField(7, 5, Reg(1))
  BY <1>1, <1>4, InFieldIs
<1>10. InField(15, 5, base)
  BY <1>1, <1>5, InFieldIs
<1> QED
  BY <1>7, <1>9, <1>10 DEF gp

-----------------------------------------------------------------------------
(* The theorems.                                                           *)

LEMMA RecoverInit == Init => RecoverInv
  BY SafeInit, WordInit DEF RecoverInv

LEMMA RecoverStep == RecoverInv /\ [Next]_vars => RecoverInv'
  BY SafeStep, WordStep DEF RecoverInv

(* The operands of an accepted statement of format R, I, load or S, or of a*)
(* shift by at most 31, can be read back from their fields of the word: no *)
(* field is cut short, misplaced, or ORed over another one.                *)
THEOREM OperandsCanBeReadBack == Spec => []FieldsRecovered
<1>1. Init => RecoverInv
  BY RecoverInit
<1>2. RecoverInv /\ [Next]_vars => RecoverInv'
  BY RecoverStep
<1>3. RecoverInv => FieldsRecovered
  <2> SUFFICES ASSUME RecoverInv, Accepted, ~ labelOperand
               PROVE  FieldsRecovered
    BY DEF FieldsRecovered
  <2>1. FormatOf(textOpcode) \in Format \ {"other"}
    BY AcceptedFacts
  <2>2. FormatOf(textOpcode) \in {"load", "S"} => operands[2].form = "offset"
    <3>1. FormatOf(textOpcode) \in {"load", "S"} =>
            Len(operands) = 2 /\ operands[2].form \in {"offset", "label"}
      <4>1. 0 \in 0 .. 31
        OBVIOUS
      <4> QED
        BY <4>1, TwoOperands
    <3>2. \A i \in 1 .. Len(operands) : operands[i].form = "label" => labelOperand
      BY AcceptedFacts DEF RecoverInv, WordInv
    <3> QED
      BY <3>1, <3>2
  <2> QED
    BY <2>1, <2>2, RFields, IFields, ShiftFields, LoadFields, StoreFields
       DEF FieldsRecovered, Format
<1> QED
  BY <1>1, <1>2, <1>3, PTL DEF Spec

(* The word of a branch or a load through a label, when pass 2 is done with*)
(* it, has the registers of pass 1 and the immediate operand of pass 2.    *)
THEOREM LabelsAreResolved == Spec => []LabelResolved
<1>1. Init => RecoverInv
  BY RecoverInit
<1>2. RecoverInv /\ [Next]_vars => RecoverInv'
  BY RecoverStep
<1>3. RecoverInv => LabelResolved
  BY BranchLabelFields, LoadLabelFields DEF LabelResolved
<1> QED
  BY <1>1, <1>2, <1>3, PTL DEF Spec
=============================================================================
