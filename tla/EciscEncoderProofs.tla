------------------------- MODULE EciscEncoderProofs -------------------------
(***************************************************************************)
(* Proofs about EciscEncoder: what the members hold for each operand, from *)
(* the step that sets them to the step that writes them.                   *)
(***************************************************************************)
EXTENDS EciscEncoder, FiniteSetTheorems, SequenceFacts

(* What TypeOK needs of the members to be kept.                            *)
Steps ==
  /\ pc = "operands" => textOpcode \in Mnemonic /\ statements < MaxStatements
  /\ \A c \in Slot : Fits32(operandValue[c])

LabelText == { {} } \cup { {o.text} : o \in Operand }
Labels == label \in [Slot -> LabelText]

TypeInv == TypeOK /\ Steps /\ Labels

(* The opcode is the statement's own.                                      *)
OpcodeInv ==
  pc = "operands" /\ ~ reported =>
    /\ Known(textOpcode)
    /\ binaryOpcode = Entry(textOpcode).bin
    /\ dataSize = DataSize(binaryOpcode)

(* The members hold what this operand says.                                *)
Kept(o, mode, value, labels) ==
  /\ o.form \in RegisterForm /\ o.scan = "whole" /\ o.reg <= 15 => mode = RegisterMode(o.form) + o.reg
  /\ o.form \in OffsetForm /\ o.scan = "whole" /\ o.reg <= 15 => mode = MODE_OFFSET + o.reg
  /\ o.form \in {"memory", "immediate_address"} => mode = MODE_MEM_DIRECT
  /\ o.form = "memory_indirect" => mode = MODE_MEM_INDIRECT
  /\ o.form \in {"address_of", "immediate"} => mode = MODE_IMMEDIATE
  /\ o.form \in LabelForm => labels = {o.text}
  /\ o.form \in {"immediate", "immediate_address"} =>
       labels = {} /\ (o.scan = "whole" => value = o.value)

MembersInv ==
  pc = "operands" =>
    \A c \in 1 .. Len(operands) :
      Kept(operands[c], modeByte[c], operandValue[c], label[c])

FreshInv == TypeInv /\ OpcodeInv /\ MembersInv /\ CodeIsFresh

(* The bytes an operand is written with, in the mode byte and behind it.   *)
ByteCount(o, size) ==
  1 + IF o.form \in RegisterForm THEN 0 ELSE IF o.form = "immediate" THEN size ELSE 4

Bytes(o) == ByteCount(o, dataSize)

SizeInv ==
  pc = "operands" /\ ~ reported =>
    machineCodeSize = 1 + Total([c \in 1 .. Len(operands) |-> Bytes(operands[c])])

-----------------------------------------------------------------------------
(* Lemmas about bytes and digits.                                          *)

LEMMA OrIsByte ==
  ASSUME NEW m, NEW n
  PROVE  Or(m, n) \in Byte
<1> DEFINE bit(b) == IF (m \div b) % 2 = 1 \/ (n \div b) % 2 = 1 THEN b ELSE 0
<1>1. bit(1) \in {0, 1} /\ bit(2) \in {0, 2} /\ bit(4) \in {0, 4} /\ bit(8) \in {0, 8}
  OBVIOUS
<1>2. bit(16) \in {0, 16} /\ bit(32) \in {0, 32} /\ bit(64) \in {0, 64} /\ bit(128) \in {0, 128}
  OBVIOUS
<1>3. Or(m, n) = bit(1) + bit(2) + bit(4) + bit(8) + bit(16) + bit(32) + bit(64) + bit(128)
  BY DEF Or
<1> HIDE DEF bit
<1> QED
  BY <1>1, <1>2, <1>3 DEF Byte

(* A mode whose 4 lower bits are 0 and a register number do not overlap.   *)
LEMMA OrIsSum ==
  ASSUME NEW m \in {0, 16, 32, 48, 64}, NEW r \in 0 .. 15
  PROVE  Or(m, r) = m + r
<1>1. m \div 1 = m
  OBVIOUS
<1> QED
  BY SMTT(60) DEF Or

LEMMA Modes ==
  /\ MODE_MEM_DIRECT = 240 /\ MODE_MEM_INDIRECT = 224
  /\ MODE_AUTO_INCREMENT = 32 /\ MODE_OFFSET = 64
  /\ MODE_IMMEDIATE = 47
  BY OrIsSum DEF MODE_MEM_DIRECT, MODE_MEM_INDIRECT, MODE_AUTO_INCREMENT, MODE_OFFSET, MODE_IMMEDIATE

LEMMA DigitsAre ==
  ASSUME NEW n, Fits32(n)
  PROVE  DigitsOf(n) \in 1 .. 8
<1>1. n \in Nat /\ \E d \in 1 .. 8 : n < 16^d
  BY DEF Fits32
<1> DEFINE Enough == {d \in 1 .. 8 : n < 16^d}
<1>2. PICK d \in Enough : \A e \in Enough : d <= e
  <2>1. Enough \in SUBSET Nat /\ Enough # {}
    BY <1>1
  <2> QED
    BY <2>1
<1>3. \A e \in 1 .. d - 1 : 16^e <= n
  <2>1. SUFFICES ASSUME NEW e \in 1 .. d - 1  PROVE  16^e <= n
    OBVIOUS
  <2>2. e \in 1 .. 8 /\ e \notin Enough
    BY <1>2
  <2>3. 16^e \in Int
    OBVIOUS
  <2> QED
    BY <1>1, <2>2, <2>3
<1> QED
  BY <1>2, <1>3 DEF DigitsOf

-----------------------------------------------------------------------------
(* What a step of translateOperand() does, whatever the form: the next of  *)
(* the slots is given what the operand says.                               *)

OperandEffect(o, mode, bytes, labels, value) ==
  LET c == Len(operands) + 1 IN
  /\ pc = "operands" /\ pc' = "operands"
  /\ c \in Slot
  /\ operands' = Append(operands, o)
  /\ modeByte' = [modeByte EXCEPT ![c] = mode]
  /\ label' = [label EXCEPT ![c] = labels]
  /\ operandValue' = [operandValue EXCEPT ![c] = value]
  /\ machineCodeSize' = machineCodeSize + bytes
  /\ reported' \in BOOLEAN /\ (reported => reported')
  /\ UNCHANGED << statements, textOpcode, binaryOpcode, dataSize, machineCode >>
  /\ Kept(o, mode, value, labels)
  /\ ~ reported' => bytes = Bytes(o)

LEMMA OperandsAre ==
  ASSUME NEW o \in Operand
  PROVE  /\ o.form \in Form /\ o.reg \in 0 .. 95 /\ o.scan \in Scan /\ Fits32(o.value)
         /\ {o.text} \in LabelText /\ {} \in LabelText
  BY EncoderAssumption DEF LabelText

LEMMA SetOperandEffect ==
  ASSUME TypeInv, NEW o \in Operand, NEW mode, NEW bytes, NEW labels, NEW value,
         SetOperand(o, mode, bytes, labels),
         \/ operandValue' = operandValue /\ value = operandValue[Len(operands) + 1]
         \/ operandValue' = [operandValue EXCEPT ![Len(operands) + 1] = value],
         Kept(o, mode, value, labels), bytes = Bytes(o)
  PROVE  OperandEffect(o, mode, bytes, labels, value)
<1> DEFINE c == Len(operands) + 1
<1>1. operands \in Seq(Operand) /\ operandValue \in [Slot -> Nat] /\ reported \in BOOLEAN
  BY DEF TypeInv, TypeOK
<1>2. c \in Slot
  BY <1>1, EncoderAssumption DEF SetOperand, Slot
<1>3. operandValue' = [operandValue EXCEPT ![c] = value]
  <2>1. CASE operandValue' = operandValue /\ value = operandValue[c]
    BY <1>1, <2>1
  <2>2. CASE operandValue' = [operandValue EXCEPT ![c] = value]
    BY <2>2
  <2> QED
    BY <2>1, <2>2
<1> QED
  BY <1>1, <1>2, <1>3 DEF SetOperand, OperandEffect

LEMMA FitsIsNat ==
  ASSUME NEW v, Fits32(v)
  PROVE  v \in Nat
BY DEF Fits32

LEMMA OffsetMode ==
  ASSUME NEW o, o.reg \in 0 .. 95, o.scan = "whole", o.reg <= 15, NEW r \in RegNum(o)
  PROVE  Or(MODE_OFFSET, r) = MODE_OFFSET + o.reg
<1>1. r = o.reg /\ r \in 0 .. 15
  BY DEF RegNum
<1> QED
  BY <1>1, Modes, OrIsSum

LEMMA OperandStep ==
  ASSUME TypeInv, NEW o \in Operand, TranslateOperand(o)
  PROVE  \E mode \in Byte, bytes \in Nat, labels \in LabelText, value \in Nat :
           Fits32(value) /\ OperandEffect(o, mode, bytes, labels, value)
<1> DEFINE c == Len(operands) + 1
           Goal == \E mode \in Byte, bytes \in Nat, labels \in LabelText, value \in Nat :
                     Fits32(value) /\ OperandEffect(o, mode, bytes, labels, value)
<1>1. /\ operands \in Seq(Operand) /\ operandValue \in [Slot -> Nat] /\ reported \in BOOLEAN
      /\ modeByte \in [Slot -> Byte] /\ machineCodeSize \in Nat
      /\ dataSize \in Nat
      /\ \A i \in Slot : Fits32(operandValue[i])
  <2>1. TypeOK /\ Steps
    BY DEF TypeInv
  <2>2. dataSize \in {1, 2, 4, 8} \cup Garbage
    BY <2>1 DEF TypeOK
  <2>3. dataSize \in Nat
    <3>1. Garbage \subseteq Byte
      BY EncoderAssumption
    <3>2. Byte \subseteq Nat
      BY DEF Byte
    <3> QED
      BY <2>2, <3>1, <3>2
  <2>4. \A i \in Slot : Fits32(operandValue[i])
    BY <2>1 DEF Steps
  <2> QED
    BY <2>1, <2>3, <2>4 DEF TypeOK
<1>2. o.form \in Form /\ o.reg \in 0 .. 95 /\ o.scan \in Scan /\ Fits32(o.value)
        /\ {o.text} \in LabelText /\ {} \in LabelText
  BY OperandsAre
<1>3. MODE_MEM_DIRECT \in Byte /\ MODE_MEM_INDIRECT \in Byte /\ MODE_IMMEDIATE \in Byte
  BY Modes DEF Byte
<1>4. c \in Slot /\ Fits32(operandValue[c])
  <2>1. c <= MAX_OPERANDS
    BY DEF TranslateOperand, RegisterOperand, LabelOffset, NumericOffset, LabelOperand, Immediate,
           ImmediateAddress, InvalidOperand, SetOperand
  <2> QED
    BY <1>1, <2>1, EncoderAssumption DEF Slot
<1>5. CASE RegisterOperand(o)
  <2>1. PICK r \in RegNum(o) : SetOperand(o, Or(RegisterMode(o.form), r), 1, {})
    BY <1>5 DEF RegisterOperand
  <2>2. o.form \in RegisterForm /\ operandValue' = operandValue
    BY <1>5 DEF RegisterOperand
  <2>3. RegisterMode(o.form) \in {0, 16, 32, 48}
    BY <2>2, Modes DEF RegisterForm, RegisterMode
  <2>4. o.scan = "whole" /\ o.reg <= 15 => Or(RegisterMode(o.form), r) = RegisterMode(o.form) + o.reg
    <3>1. SUFFICES ASSUME o.scan = "whole", o.reg <= 15
                   PROVE  Or(RegisterMode(o.form), r) = RegisterMode(o.form) + o.reg
      OBVIOUS
    <3>2. r = o.reg /\ r \in 0 .. 15
      BY <1>2, <2>1, <3>1 DEF RegNum
    <3> QED
      BY <2>3, <3>2, OrIsSum
  <2>5. Kept(o, Or(RegisterMode(o.form), r), operandValue[c], {})
    BY <2>2, <2>4 DEF Kept, RegisterForm, LabelForm, OffsetForm
  <2>6. OperandEffect(o, Or(RegisterMode(o.form), r), 1, {}, operandValue[c])
    BY <2>1, <2>2, <2>5, SetOperandEffect DEF Bytes, ByteCount
  <2> QED
    BY <1>2, <1>4, <2>6, OrIsByte, FitsIsNat
<1>6. CASE LabelOffset(o)
  <2>1. PICK r \in RegNum(o) : SetOperand(o, Or(MODE_OFFSET, r), 1 + 4, {})
    BY <1>6 DEF LabelOffset
  <2>2. o.form = "label_offset" /\ operandValue' = operandValue
    BY <1>6 DEF LabelOffset
  <2>3. Kept(o, Or(MODE_OFFSET, r), operandValue[c], {})
    <3>1. o.scan = "whole" /\ o.reg <= 15 => Or(MODE_OFFSET, r) = MODE_OFFSET + o.reg
      BY <1>2, <2>1, OffsetMode
    <3> QED
      BY <2>2, <3>1 DEF Kept, RegisterForm, LabelForm, OffsetForm
  <2>4. OperandEffect(o, Or(MODE_OFFSET, r), 1 + 4, {}, operandValue[c])
    BY <2>1, <2>2, <2>3, SetOperandEffect DEF Bytes, ByteCount, RegisterForm, LabelForm
  <2>5. Or(MODE_OFFSET, r) \in Byte /\ 1 + 4 \in Nat
    BY OrIsByte
  <2> QED
    BY <1>2, <1>4, <2>4, <2>5, FitsIsNat
<1>7. CASE NumericOffset(o)
  <2>1. PICK r \in RegNum(o) : SetOperand(o, Or(MODE_OFFSET, r), 1 + 4, {o.text})
    BY <1>7 DEF NumericOffset
  <2>2. o.form = "numeric_offset" /\ operandValue' = operandValue
    BY <1>7 DEF NumericOffset
  <2>3. Kept(o, Or(MODE_OFFSET, r), operandValue[c], {o.text})
    <3>1. o.scan = "whole" /\ o.reg <= 15 => Or(MODE_OFFSET, r) = MODE_OFFSET + o.reg
      BY <1>2, <2>1, OffsetMode
    <3> QED
      BY <2>2, <3>1 DEF Kept, RegisterForm, LabelForm, OffsetForm
  <2>4. OperandEffect(o, Or(MODE_OFFSET, r), 1 + 4, {o.text}, operandValue[c])
    BY <2>1, <2>2, <2>3, SetOperandEffect DEF Bytes, ByteCount, RegisterForm, LabelForm
  <2>5. Or(MODE_OFFSET, r) \in Byte /\ 1 + 4 \in Nat
    BY OrIsByte
  <2> QED
    BY <1>2, <1>4, <2>4, <2>5, FitsIsNat
<1>8. CASE LabelOperand(o)
  <2> DEFINE mode == CASE o.form = "memory"          -> MODE_MEM_DIRECT
                       [] o.form = "memory_indirect" -> MODE_MEM_INDIRECT
                       [] o.form = "address_of"      -> MODE_IMMEDIATE
  <2>1. SetOperand(o, mode, 1 + 4, {o.text})
    BY <1>8 DEF LabelOperand
  <2>2. o.form \in LabelForm /\ operandValue' = operandValue
    BY <1>8 DEF LabelOperand
  <2>3. Kept(o, mode, operandValue[c], {o.text})
    BY <2>2 DEF Kept, RegisterForm, LabelForm, OffsetForm
  <2>4. mode \in Byte
    BY <1>3, <2>2 DEF LabelForm
  <2> HIDE DEF mode
  <2>5. OperandEffect(o, mode, 1 + 4, {o.text}, operandValue[c])
    BY <2>1, <2>2, <2>3, SetOperandEffect DEF Bytes, ByteCount, RegisterForm, LabelForm
  <2> QED
    BY <1>2, <1>4, <2>4, <2>5, FitsIsNat
<1>v. PICK value \in Nat : /\ value = IF o.scan = "none" THEN operandValue[c] ELSE o.value
                          /\ Fits32(value)
  BY <1>2, <1>4, FitsIsNat
<1>9. CASE Immediate(o)
  <2>1. /\ o.form = "immediate" /\ SetOperand(o, MODE_IMMEDIATE, 1 + dataSize, {})
        /\ operandValue' = [operandValue EXCEPT ![c] = value]
    BY <1>9, <1>v DEF Immediate, ReadValue
  <2>2. Kept(o, MODE_IMMEDIATE, value, {})
    BY <2>1, <1>v DEF Kept, RegisterForm, LabelForm, OffsetForm
  <2>3. OperandEffect(o, MODE_IMMEDIATE, 1 + dataSize, {}, value)
    BY <2>1, <2>2, SetOperandEffect DEF Bytes, ByteCount, RegisterForm
  <2>4. 1 + dataSize \in Nat
    BY <1>1
  <2> QED
    BY <1>2, <1>3, <1>v, <2>3, <2>4
<1>10. CASE ImmediateAddress(o)
  <2>1. /\ o.form = "immediate_address" /\ SetOperand(o, MODE_MEM_DIRECT, 1 + 4, {})
        /\ operandValue' = [operandValue EXCEPT ![c] = value]
    BY <1>10, <1>v DEF ImmediateAddress, ReadValue
  <2>2. Kept(o, MODE_MEM_DIRECT, value, {})
    BY <2>1, <1>v DEF Kept, RegisterForm, LabelForm, OffsetForm
  <2>3. OperandEffect(o, MODE_MEM_DIRECT, 1 + 4, {}, value)
    BY <2>1, <2>2, SetOperandEffect DEF Bytes, ByteCount, RegisterForm
  <2> QED
    BY <1>2, <1>3, <1>v, <2>3
<1>11. CASE InvalidOperand(o)
  <2>1. Kept(o, modeByte[c], operandValue[c], {})
    BY <1>11 DEF InvalidOperand, Kept, RegisterForm, LabelForm, OffsetForm
  <2>2. OperandEffect(o, modeByte[c], 0, {}, operandValue[c])
    BY <1>1, <1>4, <1>11, <2>1 DEF InvalidOperand, OperandEffect
  <2>3. modeByte[c] \in Byte
    BY <1>1, <1>4
  <2> QED
    BY <1>2, <1>4, <2>2, <2>3, FitsIsNat
<1> QED
  BY <1>5, <1>6, <1>7, <1>8, <1>9, <1>10, <1>11 DEF TranslateOperand

-----------------------------------------------------------------------------
(* Type correctness.                                                       *)

LEMMA AtMostOneLabel ==
  ASSUME NEW labels \in LabelText
  PROVE  Cardinality(labels) <= 1
<1>1. CASE labels = {}
  BY <1>1, FS_EmptySet
<1>2. CASE \E o \in Operand : labels = {o.text}
  <2>1. PICK o \in Operand : labels = {o.text}
    BY <1>2
  <2> QED
    BY <2>1, FS_Singleton
<1> QED
  BY <1>1, <1>2 DEF LabelText

LEMMA GarbageFits ==
  ASSUME NEW n \in Byte
  PROVE  Fits32(n)
<1>1. 16^2 = 256
  OBVIOUS
<1> QED
  BY <1>1 DEF Byte, Fits32

LEMMA TypeInit == Init => TypeInv
<1> SUFFICES ASSUME Init  PROVE  TypeInv
  OBVIOUS
<1>1. Labels
  BY DEF Init, Labels, LabelText
<1>2. \A c \in Slot : Cardinality(label[c]) <= 1
  BY <1>1, AtMostOneLabel DEF Labels
<1>3. operandValue \in [Slot -> Byte] /\ modeByte \in [Slot -> Byte]
  BY EncoderAssumption DEF Init
<1>4. Steps
  BY <1>3, GarbageFits DEF Init, Steps
<1>5. operandValue \in [Slot -> Nat]
  BY <1>3 DEF Byte
<1>6. operands \in Seq(Operand) /\ Len(operands) <= MAX_OPERANDS /\ machineCode = << >>
  BY EncoderAssumption DEF Init
<1>7. binaryOpcode \in Byte /\ dataSize \in Garbage
  BY EncoderAssumption DEF Init
<1> QED
  <2>1. 0 \in 0 .. MaxStatements
    BY EncoderAssumption
  <2>2. \A i \in 1 .. Len(machineCode) : \A j \in 1 .. Len(machineCode[i]) :
          machineCode[i][j].digits \in 1 .. 16
    BY <1>6
  <2>3. TypeOK
    BY <1>2, <1>3, <1>5, <1>6, <1>7, <2>1, <2>2 DEF Init, TypeOK
  <2> QED
    BY <1>1, <1>4, <2>3 DEF TypeInv

LEMMA ConcatIs ==
  ASSUME NEW S, NEW s \in Seq(S), NEW t \in Seq(S)
  PROVE  /\ s \o t \in Seq(S) /\ Len(s \o t) = Len(s) + Len(t)
         /\ \A i \in 1 .. Len(s) : (s \o t)[i] = s[i]
         /\ \A i \in 1 .. Len(t) : (s \o t)[Len(s) + i] = t[i]
  OBVIOUS

LEMMA OneAndOne ==
  ASSUME NEW x, NEW y
  PROVE  << x >> \o << y >> = << x, y >> /\ << x >> \o << >> = << x >>
<1>1. PICK s \in Seq({x, y}), t \in Seq({x, y}) :
        /\ s = << x >> /\ t = << y >>
        /\ Len(s) = 1 /\ Len(t) = 1 /\ s[1] = x /\ t[1] = y
  <2>1. << x >> \in Seq({x, y}) /\ << y >> \in Seq({x, y})
    OBVIOUS
  <2>2. Len(<< x >>) = 1 /\ Len(<< y >>) = 1 /\ << x >>[1] = x /\ << y >>[1] = y
    OBVIOUS
  <2> QED
    BY <2>1, <2>2
<1>2. s \o t = << x, y >>
  <2>1. s \o t \in Seq({x, y}) /\ Len(s \o t) = 2 /\ (s \o t)[1] = x /\ (s \o t)[2] = y
    BY <1>1, ConcatIs
  <2>2. << x, y >> \in Seq({x, y}) /\ Len(<< x, y >>) = 2
          /\ << x, y >>[1] = x /\ << x, y >>[2] = y
    OBVIOUS
  <2>3. \A i \in 1 .. 2 : (s \o t)[i] = << x, y >>[i]
    BY <2>1, <2>2
  <2> QED
    BY <2>1, <2>2, <2>3, SeqEqual
<1>3. << x >> \o << >> = << x >>
  OBVIOUS
<1> QED
  BY <1>1, <1>2, <1>3

(* The pieces of machine code written for an operand.                      *)
LEMMA OperandCodeIs ==
  ASSUME NEW c \in Slot, modeByte[c] \in Byte
  PROVE  /\ MODE_BITS(modeByte[c]) \in {240, 224, 64} =>
              OperandCode(c) = << Hex(modeByte[c], 2),
                                  IF label[c] # {} THEN Mark(label[c])
                                                   ELSE Padded(operandValue[c], 8) >>
         /\ modeByte[c] = 47 =>
              OperandCode(c) = << Hex(modeByte[c], 2),
                                  IF label[c] # {} THEN Mark(label[c])
                                                   ELSE Padded(operandValue[c], 2 * dataSize) >>
         /\ MODE_BITS(modeByte[c]) \notin {240, 224, 64} /\ modeByte[c] # 47 =>
              OperandCode(c) = << Hex(modeByte[c], 2) >>
<1> DEFINE m == modeByte[c]
           head == << Hex(m, 2) >>
<1>1. m \in 0 .. 255
  BY DEF Byte
<1>2. ASSUME NEW x  PROVE  head \o << x >> = << Hex(m, 2), x >>
  BY OneAndOne
<1>3. head \o << >> = << Hex(m, 2) >>
  BY OneAndOne
<1>4. m = 47 <=> MODE_BITS(m) = 32 /\ REG_NUM(m) = 15
  BY <1>1 DEF MODE_BITS, REG_NUM
<1>5. ASSUME MODE_BITS(m) \in {240, 224, 64}
      PROVE  OperandCode(c) = << Hex(m, 2), IF label[c] # {} THEN Mark(label[c])
                                            ELSE Padded(operandValue[c], 8) >>
  <2>1. OperandCode(c) = head \o IF label[c] # {} THEN << Mark(label[c]) >>
                                 ELSE << Padded(operandValue[c], 8) >>
    BY <1>5, Modes DEF OperandCode
  <2> QED
    BY <1>2, <2>1
<1>6. ASSUME m = 47
      PROVE  OperandCode(c) = << Hex(m, 2), IF label[c] # {} THEN Mark(label[c])
                                            ELSE Padded(operandValue[c], 2 * dataSize) >>
  <2>1. MODE_BITS(m) = 32 /\ REG_NUM(m) = 15
    BY <1>4, <1>6
  <2>2. OperandCode(c) = head \o IF label[c] # {} THEN << Mark(label[c]) >>
                                 ELSE << Padded(operandValue[c], 2 * dataSize) >>
    BY <2>1, Modes DEF OperandCode
  <2> QED
    BY <1>2, <2>2
<1>7. ASSUME MODE_BITS(m) \notin {240, 224, 64}, m # 47
      PROVE  OperandCode(c) = << Hex(m, 2) >>
  <2>1. OperandCode(c) = head \o << >>
    BY <1>4, <1>7, Modes DEF OperandCode
  <2> QED
    BY <1>3, <2>1
<1> QED
  BY <1>5, <1>6, <1>7

LEMMA PaddedDigits ==
  ASSUME NEW n, Fits32(n), NEW d \in 1 .. 16
  PROVE  /\ Padded(n, d).digits \in 1 .. 16
         /\ DigitsOf(n) <= d => Padded(n, d) = Hex(n, d)
<1>1. PICK k \in 1 .. 8 : k = DigitsOf(n)
  BY DigitsAre
<1>2. Max({d, k}) = IF k <= d THEN d ELSE k
  BY DEF Max
<1> QED
  BY <1>1, <1>2 DEF Padded, Hex

(* Pieces that have digits each.                                           *)
Legible(pieces) == \A j \in 1 .. Len(pieces) : pieces[j].digits \in 1 .. 16

LEMMA OpcodeIsLegible ==
  Legible(<< Hex(binaryOpcode, 2) >> \o IF IsRet THEN ReturnOperands ELSE << >>)
<1>1. Legible(<< Hex(binaryOpcode, 2) >>)
  <2>1. Len(<< Hex(binaryOpcode, 2) >>) = 1
    OBVIOUS
  <2>2. << Hex(binaryOpcode, 2) >>[1].digits = 2
    BY DEF Hex
  <2> QED
    BY <2>1, <2>2 DEF Legible
<1>2. Legible(<< Hex(binaryOpcode, 2) >> \o ReturnOperands)
  <2> DEFINE x == Hex(binaryOpcode, 2)
             y == Hex(46, 2)
             z == Hex(15, 2)
             s == << x >>
             t == << y, z >>
  <2>1. x.digits = 2 /\ y.digits = 2 /\ z.digits = 2
    BY DEF Hex
  <2> HIDE DEF x, y, z
  <2>2. s \in Seq({x, y, z}) /\ t \in Seq({x, y, z})
    OBVIOUS
  <2>3. s \o t \in Seq({x, y, z})
    BY <2>2, ConcatProperties
  <2>4. \A j \in 1 .. Len(s \o t) : (s \o t)[j] \in {x, y, z}
    BY <2>3
  <2>5. \A j \in 1 .. Len(s \o t) : (s \o t)[j].digits = 2
    BY <2>1, <2>4
  <2>6. ReturnOperands = t
    BY DEF ReturnOperands, y, z
  <2> QED
    BY <2>5, <2>6 DEF Legible, x
<1>3. << Hex(binaryOpcode, 2) >> \o << >> = << Hex(binaryOpcode, 2) >>
  BY OneAndOne
<1>4. CASE IsRet
  BY <1>2, <1>4
<1>5. CASE ~ IsRet
  BY <1>1, <1>3, <1>5
<1> QED
  BY <1>4, <1>5

LEMMA OperandIsLegible ==
  ASSUME TypeInv, pc = "operands", NEW c \in Slot
  PROVE  Legible(OperandCode(c))
<1>1. modeByte[c] \in Byte /\ Fits32(operandValue[c]) /\ dataSize \in {1, 2, 4, 8}
  BY OpcodeTableAssumption DEF TypeInv, TypeOK, Steps, NoMnemonic
<1>2. Padded(operandValue[c], 8).digits \in 1 .. 16
  BY <1>1, PaddedDigits
<1>3. Padded(operandValue[c], 2 * dataSize).digits \in 1 .. 16
  <2>1. PICK d \in 1 .. 16 : d = 2 * dataSize
    BY <1>1
  <2> QED
    BY <1>1, <2>1, PaddedDigits
<1>4. Hex(modeByte[c], 2).digits = 2 /\ Mark(label[c]).digits = 8
  BY DEF Hex, Mark
<1>5. ASSUME NEW x, NEW y, x.digits \in 1 .. 16, y.digits \in 1 .. 16
      PROVE  Legible(<< x >>) /\ Legible(<< x, y >>)
  <2>1. Len(<< x >>) = 1 /\ << x >>[1] = x /\ Len(<< x, y >>) = 2 /\ << x, y >>[1] = x
          /\ << x, y >>[2] = y
    OBVIOUS
  <2>2. 1 .. 1 = {1} /\ 1 .. 2 = {1, 2}
    OBVIOUS
  <2>3. Legible(<< x >>)
    BY <1>5, <2>1, <2>2 DEF Legible
  <2>4. Legible(<< x, y >>)
    BY <1>5, <2>1, <2>2 DEF Legible
  <2> QED
    BY <2>3, <2>4
<1> DEFINE x == Hex(modeByte[c], 2)
           y8 == IF label[c] # {} THEN Mark(label[c]) ELSE Padded(operandValue[c], 8)
           ys == IF label[c] # {} THEN Mark(label[c]) ELSE Padded(operandValue[c], 2 * dataSize)
<1>6. x.digits \in 1 .. 16 /\ y8.digits \in 1 .. 16 /\ ys.digits \in 1 .. 16
  BY <1>2, <1>3, <1>4
<1>7. OperandCode(c) \in {<< x, y8 >>, << x, ys >>, << x >>}
  BY <1>1, OperandCodeIs
<1> HIDE DEF x, y8, ys
<1>8. CASE OperandCode(c) = << x, y8 >>
  BY <1>5, <1>6, <1>8
<1>9. CASE OperandCode(c) = << x, ys >>
  BY <1>5, <1>6, <1>9
<1>10. CASE OperandCode(c) = << x >>
  BY <1>5, <1>6, <1>10
<1> QED
  BY <1>7, <1>8, <1>9, <1>10

LEMMA OutputIsLegible ==
  ASSUME TypeInv, OutputMl
  PROVE  \A i \in 1 .. Len(machineCode') : Legible(machineCode'[i])
<1> DEFINE a == << Hex(binaryOpcode, 2) >> \o IF IsRet THEN ReturnOperands ELSE << >>
           n == Len(operands)
           f == [c \in 1 .. n |-> OperandCode(c)]
           S == {a} \cup {OperandCode(c) : c \in 1 .. n}
<1>1. n \in Nat /\ 1 .. n \subseteq Slot
  BY EncoderAssumption DEF TypeInv, TypeOK, Slot
<1>2. Legible(a)
  BY OpcodeIsLegible
<1>3. \A c \in 1 .. n : Legible(OperandCode(c))
  BY <1>1, OperandIsLegible DEF OutputMl
<1>4. machineCode' = << a >> \o f
  BY DEF OutputMl
<1> HIDE DEF a, n
<1>5. << a >> \in Seq(S) /\ f \in Seq(S)
  BY <1>1
<1> HIDE DEF f
<1>6. << a >> \o f \in Seq(S)
  BY <1>5, ConcatProperties
<1>7. \A i \in 1 .. Len(machineCode') : machineCode'[i] \in S
  BY <1>4, <1>6
<1> QED
  BY <1>2, <1>3, <1>7

(* The constructor's sort and the search of translateOpcode() find an      *)
(* opcode exactly if it is in the table of awk's header, whatever the order*)
(* there, with the entry it has there.                                     *)
THEOREM SearchFindsOpcodes == SearchIsExact
<1> SUFFICES ASSUME NEW mn \in Mnemonic
             PROVE  /\ Found(mn) <=> Known(mn)
                    /\ Known(mn) => opcode_found(mn) = Entry(mn)
                    /\ lower_bound(mn) = end => BehindLast(mn)
  BY DEF SearchIsExact
<1>1. PICK place, found, N :
        N = Len(InitTable) /\ place = lower_bound(mn) /\ found = opcodeTable[place]
  OBVIOUS
<1>2. /\ place \in 1 .. N + 1
      /\ \A i \in 1 .. N : InitTable[i].assem = mn => place <= N /\ found = InitTable[i]
      /\ place # N + 1 => \E i \in 1 .. N : found = InitTable[i]
      /\ place = N + 1 => \A i \in 1 .. N : InitTable[i].assem < mn
  <2>m. /\ Mnemonic \subseteq Nat \ {0}
        /\ \A i \in 1 .. Len(InitTable) : InitTable[i].assem \in Mnemonic
    BY OpcodeTableAssumption, Zenon
  <2>n. \A x \in Mnemonic : x \in Int
    BY <2>m
  <2>a. mn \in Int /\ \A i \in 1 .. Len(InitTable) : InitTable[i].assem \in Int
    BY <2>m, <2>n, Zenon
  <2>b. /\ InitTable \in Seq(Range(InitTable))
        /\ \A i, j \in 1 .. Len(InitTable) : i # j => InitTable[i].assem # InitTable[j].assem
    BY OpcodeTableAssumption, Zenon
  <2>1. Unrepeated(InitTable) /\ mn \in Int
    BY <2>a, <2>b, Zenon DEF Unrepeated
  <2>2. SearchedFor(InitTable, mn, LowerBound(SortsTo(InitTable), mn),
                    SortsTo(InitTable)[LowerBound(SortsTo(InitTable), mn)])
    BY <2>1, SearchFacts
  <2>3. place = LowerBound(SortsTo(InitTable), mn) /\ found = SortsTo(InitTable)[place]
    BY <1>1 DEF lower_bound, opcodeTable
  <2> QED
    BY <1>1, <2>2, <2>3, Zenon DEF SearchedFor
<1>3. Known(mn) => place # N + 1 /\ found = Entry(mn) /\ found.assem = mn
  <2> SUFFICES ASSUME Known(mn)  PROVE place # N + 1 /\ found = Entry(mn) /\ found.assem = mn
    OBVIOUS
  <2>1. PICK k : k = CHOOSE i \in 1 .. Len(InitTable) : InitTable[i].assem = mn
    OBVIOUS
  <2>2. k \in 1 .. N /\ InitTable[k].assem = mn /\ Entry(mn) = InitTable[k]
    BY <1>1, <2>1 DEF Known, Entry
  <2>3. place <= N /\ N \in Nat
    BY <1>1, <1>2, <2>2, OpcodeTableAssumption
  <2> QED
    BY <1>2, <2>2, <2>3
<1>4. place # N + 1 /\ found.assem = mn => Known(mn)
  BY <1>1, <1>2 DEF Known
<1>5. Found(mn) <=> place # N + 1 /\ found.assem = mn
  BY <1>1 DEF Found, end
<1>6. opcode_found(mn) = found
  BY <1>1 DEF opcode_found
<1>7. lower_bound(mn) = end => BehindLast(mn)
  BY <1>1, <1>2 DEF end, BehindLast
<1> QED
  BY <1>3, <1>4, <1>5, <1>6, <1>7

(* What the table has for a mnemonic that it has.                          *)
LEMMA EntryIs ==
  ASSUME NEW mn, Known(mn)
  PROVE  Entry(mn).bin \in Byte /\ (mn = RET => Entry(mn).bin = OP_MOVL)
<1>1. \E i \in 1 .. Len(InitTable) : InitTable[i].assem = mn
  BY DEF Known
<1> DEFINE i == CHOOSE i \in 1 .. Len(InitTable) : InitTable[i].assem = mn
<1>2. i \in 1 .. Len(InitTable) /\ InitTable[i].assem = mn
  BY <1>1
<1>3. Entry(mn) = InitTable[i]
  BY DEF Entry
<1> HIDE DEF i
<1> QED
  BY <1>2, <1>3, EncoderAssumption

LEMMA TypeNext ==
  ASSUME TypeInv, [Next]_vars
  PROVE  TypeInv'
<1> USE DEF memberVars
<1>1. /\ pc \in {"parse", "operands", "crash"} /\ statements \in 0 .. MaxStatements
      /\ textOpcode \in Mnemonic \cup {NoMnemonic}
      /\ operands \in Seq(Operand) /\ Len(operands) <= MAX_OPERANDS
      /\ binaryOpcode \in Byte
      /\ modeByte \in [Slot -> Byte] /\ operandValue \in [Slot -> Nat]
      /\ machineCodeSize \in Nat /\ reported \in BOOLEAN /\ MaxStatements \in Nat
      /\ label \in [Slot -> LabelText]
  BY EncoderAssumption DEF TypeInv, TypeOK, Labels
<1>2. ASSUME NEW mn \in Mnemonic, TranslateOpcode(mn)  PROVE  TypeInv'
  <2>1. binaryOpcode' \in Byte /\ machineCodeSize' \in Nat /\ reported' \in BOOLEAN
    <3>1. CASE Found(mn)
      <4>1. opcode_found(mn).bin \in Byte
        <5>1. Known(mn) /\ opcode_found(mn) = Entry(mn)
          BY <3>1, SearchFindsOpcodes DEF SearchIsExact
        <5> QED
          BY <5>1, EntryIs
      <4>2. binaryOpcode' = opcode_found(mn).bin /\ machineCodeSize' = 1 /\ reported' = FALSE
        BY <1>2, <3>1, Zenon DEF TranslateOpcode
      <4> QED
        BY <4>1, <4>2
    <3>2. CASE ~ Found(mn)
      BY <1>1, <1>2, <3>2 DEF TranslateOpcode
    <3> QED
      BY <3>1, <3>2
  <2>2. dataSize' \in {1, 2, 4, 8}
    BY <1>2 DEF TranslateOpcode, DataSize
  <2>3. operands' = << >> /\ machineCode' = << >> /\ textOpcode' = mn /\ pc' = "operands"
          /\ UNCHANGED << statements, modeByte, operandValue, label >>
    BY <1>2 DEF TranslateOpcode
  <2>4. TypeOK'
    BY <1>1, <2>1, <2>2, <2>3, EncoderAssumption DEF TypeInv, TypeOK
  <2>5. Steps' /\ Labels'
    BY <1>2, <2>3 DEF TranslateOpcode, TypeInv, Steps, Labels
  <2> QED
    BY <2>4, <2>5 DEF TypeInv
<1>3. ASSUME NEW mn \in Mnemonic, DereferenceEnd(mn)  PROVE  TypeInv'
  <2>1. TypeOK'
    BY <1>3 DEF DereferenceEnd, TypeInv, TypeOK
  <2>2. Steps' /\ Labels'
    BY <1>3 DEF DereferenceEnd, TypeInv, Steps, Labels
  <2> QED
    BY <2>1, <2>2 DEF TypeInv
<1>4. ASSUME NEW o \in Operand, TranslateOperand(o)  PROVE  TypeInv'
  <2>1. PICK mode \in Byte, bytes \in Nat, labels \in LabelText, value \in Nat :
          Fits32(value) /\ OperandEffect(o, mode, bytes, labels, value)
    BY <1>4, OperandStep
  <2>2. value \in Nat
    BY <2>1 DEF Fits32
  <2> DEFINE c == Len(operands) + 1
  <2>3. /\ pc = "operands" /\ pc' = "operands" /\ c \in Slot /\ operands' = Append(operands, o)
        /\ modeByte' = [modeByte EXCEPT ![c] = mode]
        /\ label' = [label EXCEPT ![c] = labels]
        /\ operandValue' = [operandValue EXCEPT ![c] = value]
        /\ machineCodeSize' = machineCodeSize + bytes
        /\ reported' \in BOOLEAN
        /\ UNCHANGED << statements, textOpcode, binaryOpcode, dataSize, machineCode >>
    BY <2>1 DEF OperandEffect
  <2>4. operands' \in Seq(Operand) /\ Len(operands') <= MAX_OPERANDS
    BY <1>1, <2>3 DEF Slot
  <2>5. modeByte' \in [Slot -> Byte] /\ operandValue' \in [Slot -> Nat]
          /\ label' \in [Slot -> LabelText]
    BY <1>1, <2>2, <2>3
  <2>6. \A i \in Slot : Fits32(operandValue'[i])
    BY <1>1, <2>1, <2>3 DEF TypeInv, Steps
  <2>7. \A i \in Slot : Cardinality(label'[i]) <= 1
    BY <2>5, AtMostOneLabel
  <2>8. machineCodeSize' \in Nat
    BY <1>1, <2>3
  <2>9. TypeOK'
    BY <2>3, <2>4, <2>5, <2>7, <2>8 DEF TypeInv, TypeOK
  <2>10. Steps' /\ Labels'
    BY <2>3, <2>5, <2>6 DEF TypeInv, Steps, Labels
  <2> QED
    BY <2>9, <2>10 DEF TypeInv
<1>5. ASSUME OutputMl  PROVE  TypeInv'
  <2>1. UNCHANGED << textOpcode, operands, binaryOpcode, dataSize, modeByte, operandValue, label >>
          /\ pc = "operands" /\ pc' = "parse" /\ statements' = statements + 1
    BY <1>5 DEF OutputMl
  <2>2. machineCodeSize' \in Nat /\ reported' \in BOOLEAN
    BY <1>1, <1>5 DEF OutputMl
  <2>3. statements' \in 0 .. MaxStatements
    BY <1>1, <2>1 DEF TypeInv, Steps
  <2>4. TypeOK'
    BY <2>1, <2>2, <2>3, <1>5, OutputIsLegible DEF TypeInv, TypeOK, Legible
  <2>5. Steps' /\ Labels'
    BY <2>1 DEF TypeInv, Steps, Labels
  <2> QED
    BY <2>4, <2>5 DEF TypeInv
<1>6. CASE UNCHANGED vars
  BY <1>6 DEF vars, TypeInv, TypeOK, Steps, Labels
<1> QED
  BY <1>2, <1>3, <1>4, <1>5, <1>6 DEF Next

(* The sizes the encoder adds up are natural numbers, its members bytes    *)
(* and 32-bit numbers, and every piece it writes has a digit at least and  *)
(* 16 at most, uninitialized members and operands that are reported        *)
(* included.                                                               *)
THEOREM TypeCorrect == Spec => []TypeOK
<1>1. TypeInv => TypeOK
  BY DEF TypeInv
<1> QED
  BY TypeInit, TypeNext, <1>1, PTL DEF Spec

-----------------------------------------------------------------------------
(* The opcode that is found.                                               *)

LEMMA OpcodeFoundNext ==
  ASSUME TypeInv, OpcodeFound, [Next]_vars
  PROVE  OpcodeFound'
<1> USE DEF memberVars
<1>1. ASSUME NEW mn \in Mnemonic, TranslateOpcode(mn)  PROVE  OpcodeFound'
  <2>1. (Found(mn) <=> Known(mn)) /\ (Known(mn) => opcode_found(mn) = Entry(mn))
    BY SearchFindsOpcodes DEF SearchIsExact
  <2>2. textOpcode' = mn /\ pc' = "operands"
    BY <1>1 DEF TranslateOpcode
  <2>3. CASE Known(mn)
    BY <1>1, <2>1, <2>2, <2>3 DEF TranslateOpcode, OpcodeFound
  <2>4. CASE ~ Known(mn)
    BY <1>1, <2>1, <2>2, <2>4 DEF TranslateOpcode, OpcodeFound
  <2> QED
    BY <2>3, <2>4
<1>2. ASSUME NEW mn \in Mnemonic, DereferenceEnd(mn)  PROVE  OpcodeFound'
  <2>1. BehindLast(mn)
    BY <1>2, SearchFindsOpcodes DEF DereferenceEnd, SearchIsExact
  <2> QED
    BY <1>2, <2>1 DEF DereferenceEnd, OpcodeFound
<1>3. ASSUME NEW o \in Operand, TranslateOperand(o)  PROVE  OpcodeFound'
  <2>1. PICK mode, bytes, labels, value : OperandEffect(o, mode, bytes, labels, value)
    BY <1>3, OperandStep
  <2>2. operands' # << >> /\ pc' = "operands"
    BY <2>1 DEF OperandEffect, TypeInv, TypeOK
  <2> QED
    BY <2>2 DEF OpcodeFound
<1>4. ASSUME OutputMl  PROVE  OpcodeFound'
  BY <1>4 DEF OutputMl, OpcodeFound
<1>5. CASE UNCHANGED vars
  BY <1>5 DEF vars, OpcodeFound
<1> QED
  BY <1>1, <1>2, <1>3, <1>4, <1>5 DEF Next

(* An opcode is found exactly if the table has it, with its own byte, and  *)
(* only a name behind all of the table can end the program.                *)
THEOREM OpcodesAreFound == Spec => []OpcodeFound
<1>1. Init => OpcodeFound
  BY DEF Init, OpcodeFound
<1> QED
  BY TypeInit, TypeNext, OpcodeFoundNext, <1>1, PTL DEF Spec

-----------------------------------------------------------------------------
(* The machine code is fresh.                                              *)

LEMMA OpcodeInvNext ==
  ASSUME TypeInv, OpcodeInv, [Next]_vars
  PROVE  OpcodeInv'
<1> USE DEF memberVars
<1>1. ASSUME NEW mn \in Mnemonic, TranslateOpcode(mn)  PROVE  OpcodeInv'
  <2>1. (Found(mn) <=> Known(mn)) /\ (Known(mn) => opcode_found(mn) = Entry(mn))
    BY SearchFindsOpcodes DEF SearchIsExact
  <2>2. textOpcode' = mn /\ dataSize' = DataSize(binaryOpcode')
    BY <1>1 DEF TranslateOpcode
  <2>3. ~ reported' => Known(mn) /\ binaryOpcode' = Entry(mn).bin
    BY <1>1, <2>1 DEF TranslateOpcode
  <2> QED
    BY <2>2, <2>3 DEF OpcodeInv
<1>2. ASSUME NEW mn \in Mnemonic, DereferenceEnd(mn)  PROVE  OpcodeInv'
  BY <1>2 DEF DereferenceEnd, OpcodeInv
<1>3. ASSUME NEW o \in Operand, TranslateOperand(o)  PROVE  OpcodeInv'
  <2>1. PICK mode, bytes, labels, value : OperandEffect(o, mode, bytes, labels, value)
    BY <1>3, OperandStep
  <2>2. pc = "operands" /\ (reported => reported')
          /\ UNCHANGED << textOpcode, binaryOpcode, dataSize >>
    BY <2>1 DEF OperandEffect
  <2> QED
    BY <2>2 DEF OpcodeInv
<1>4. ASSUME OutputMl  PROVE  OpcodeInv'
  BY <1>4 DEF OutputMl, OpcodeInv
<1>5. CASE UNCHANGED vars
  BY <1>5 DEF vars, OpcodeInv
<1> QED
  BY <1>1, <1>2, <1>3, <1>4, <1>5 DEF Next

(* The operands before the next keep their slots.                          *)
LEMMA MembersInvNext ==
  ASSUME TypeInv, MembersInv, [Next]_vars
  PROVE  MembersInv'
<1> USE DEF memberVars
<1>1. ASSUME NEW mn \in Mnemonic, TranslateOpcode(mn)  PROVE  MembersInv'
  <2>1. Len(operands') = 0
    BY <1>1 DEF TranslateOpcode
  <2> QED
    BY <2>1 DEF MembersInv
<1>2. ASSUME NEW mn \in Mnemonic, DereferenceEnd(mn)  PROVE  MembersInv'
  BY <1>2 DEF DereferenceEnd, MembersInv
<1>3. ASSUME NEW o \in Operand, TranslateOperand(o)  PROVE  MembersInv'
  <2>1. PICK mode, bytes, labels, value : OperandEffect(o, mode, bytes, labels, value)
    BY <1>3, OperandStep
  <2> DEFINE n == Len(operands)
  <2>2. /\ operands \in Seq(Operand) /\ n \in Nat /\ 1 .. n \subseteq Slot
        /\ modeByte \in [Slot -> Byte] /\ operandValue \in [Slot -> Nat]
        /\ label \in [Slot -> LabelText]
    BY EncoderAssumption DEF TypeInv, TypeOK, Labels, Slot
  <2>3. /\ pc = "operands" /\ n + 1 \in Slot /\ operands' = Append(operands, o)
        /\ modeByte' = [modeByte EXCEPT ![n + 1] = mode]
        /\ label' = [label EXCEPT ![n + 1] = labels]
        /\ operandValue' = [operandValue EXCEPT ![n + 1] = value]
        /\ Kept(o, mode, value, labels)
    BY <2>1 DEF OperandEffect
  <2>4. SUFFICES ASSUME NEW c \in 1 .. Len(operands')
                 PROVE  Kept(operands'[c], modeByte'[c], operandValue'[c], label'[c])
    BY DEF MembersInv, Kept
  <2>5. Len(operands') = n + 1
    BY <2>2, <2>3
  <2>6. CASE c = n + 1
    <3>1. operands'[c] = o
      BY <2>2, <2>3, <2>6
    <3>2. modeByte'[c] = mode /\ operandValue'[c] = value /\ label'[c] = labels
      BY <2>2, <2>3, <2>6
    <3> QED
      BY <2>3, <3>1, <3>2
  <2>7. CASE c \in 1 .. n
    <3>1. operands'[c] = operands[c]
      BY <2>2, <2>3, <2>7
    <3>2. modeByte'[c] = modeByte[c] /\ operandValue'[c] = operandValue[c] /\ label'[c] = label[c]
      BY <2>2, <2>3, <2>7
    <3>3. Kept(operands[c], modeByte[c], operandValue[c], label[c])
      BY <2>3, <2>7 DEF MembersInv
    <3> QED
      BY <3>1, <3>2, <3>3
  <2> QED
    BY <2>2, <2>5, <2>6, <2>7
<1>4. ASSUME OutputMl  PROVE  MembersInv'
  BY <1>4 DEF OutputMl, MembersInv
<1>5. CASE UNCHANGED vars
  BY <1>5 DEF vars, MembersInv, Kept
<1> QED
  BY <1>1, <1>2, <1>3, <1>4, <1>5 DEF Next

(* An operand that is plain is written as it reads.                        *)
LEMMA OperandIsMeaning ==
  ASSUME TypeInv, OpcodeInv, MembersInv, pc = "operands", ~ reported,
         NEW c \in 1 .. Len(operands), Plain(operands[c]), operands[c].form \notin OffsetForm
  PROVE  OperandCode(c) = Meaning(operands[c])
<1> DEFINE m == modeByte[c]
<1>1. PICK o \in Operand : o = operands[c]
  <2>1. operands \in Seq(Operand)
    BY DEF TypeInv, TypeOK
  <2> QED
    BY <2>1
<1>2. c \in Slot /\ m \in Byte /\ Fits32(operandValue[c])
  <2>1. /\ operands \in Seq(Operand) /\ Len(operands) <= MAX_OPERANDS
        /\ modeByte \in [Slot -> Byte] /\ \A i \in Slot : Fits32(operandValue[i])
    BY DEF TypeInv, TypeOK, Steps
  <2>2. c \in Slot
    BY <2>1, EncoderAssumption DEF Slot
  <2> QED
    BY <2>1, <2>2
<1>3. Kept(o, m, operandValue[c], label[c])
  BY <1>1 DEF MembersInv
<1>4. binaryOpcode = Entry(textOpcode).bin /\ dataSize = DataSize(Entry(textOpcode).bin)
        /\ dataSize \in {1, 2, 4, 8}
  BY DEF OpcodeInv, DataSize
<1>5. o.form \in Form /\ o.reg \in 0 .. 95 /\ Fits32(o.value)
  BY OperandsAre
<1>w. o.scan = "whole"
  BY <1>1, Zenon DEF Plain
<1> HIDE DEF m
<1>6. CASE o.form \in RegisterForm
  <2>1. o.scan = "whole" /\ o.reg <= 15 /\ ~ (o.form = "increment" /\ o.reg = 15)
    <3>1. Plain(o)
      BY <1>1
    <3>2. o.form # "immediate" /\ o.form # "immediate_address" /\ o.form # "invalid"
      BY <1>6 DEF RegisterForm
    <3> QED
      BY <1>6, <3>1, <3>2, Zenon DEF Plain
  <2>2. m = RegisterMode(o.form) + o.reg
    BY <1>3, <1>6, <2>1 DEF Kept
  <2>3. RegisterMode(o.form) \in {0, 16, 32, 48} /\ (RegisterMode(o.form) = 32 => o.reg # 15)
    BY <1>6, <2>1, Modes DEF RegisterForm, RegisterMode
  <2>4. m \div 16 \in 0 .. 3 /\ m # 47
    <3>1. PICK mode \in {0, 16, 32, 48} : mode = RegisterMode(o.form)
      BY <2>3
    <3>2. PICK reg \in 0 .. 15 : reg = o.reg
      <4>1. o.reg \in 0 .. 15
        <5>1. PICK n \in 0 .. 95 : n = o.reg
          BY <1>5, Zenon
        <5>2. n <= 15
          BY <2>1, <5>1, Zenon
        <5>3. n \in 0 .. 15
          BY <5>2
        <5> QED
          BY <5>1, <5>3, Zenon
      <4> QED
        BY <4>1, Zenon
    <3>3. m = mode + reg /\ (mode = 32 => reg # 15)
      BY <2>2, <2>3, <3>1, <3>2
    <3> QED
      BY <3>3
  <2>5. MODE_BITS(m) \notin {240, 224, 64}
    BY <2>4 DEF MODE_BITS
  <2>6. OperandCode(c) = << Hex(m, 2) >>
    BY <1>2, <2>4, <2>5, OperandCodeIs DEF m
  <2>7. Meaning(o) = << Hex(RegisterMode(o.form) + o.reg, 2) >>
    BY <1>6 DEF Meaning, RegisterForm
  <2> QED
    BY <1>1, <2>2, <2>6, <2>7
<1>7. CASE o.form \in LabelForm
  <2>1. label[c] = {o.text} /\ Mark(label[c]) = Mark({o.text})
    BY <1>3, <1>7 DEF Kept
  <2>2. m = (CASE o.form = "memory"          -> 240
               [] o.form = "memory_indirect" -> 224
               [] o.form = "address_of"      -> 47)
    BY <1>3, <1>7, Modes DEF Kept, LabelForm
  <2>3. Meaning(o) = << Hex(m, 2), Mark({o.text}) >>
    BY <1>7, <2>2 DEF Meaning, LabelForm, RegisterForm
  <2>4. OperandCode(c) = << Hex(m, 2), Mark({o.text}) >>
    <3>1. CASE o.form = "address_of"
      <4>1. m = 47
        BY <2>2, <3>1
      <4> QED
        BY <1>2, <2>1, <4>1, OperandCodeIs DEF m
    <3>2. CASE o.form # "address_of"
      <4>1. MODE_BITS(m) \in {240, 224, 64}
        BY <1>7, <2>2, <3>2 DEF LabelForm, MODE_BITS
      <4> QED
        BY <1>2, <2>1, <4>1, OperandCodeIs DEF m
    <3> QED
      BY <3>1, <3>2
  <2> QED
    BY <1>1, <2>3, <2>4
<1>8. CASE o.form = "immediate"
  <2>1. m = 47 /\ label[c] = {} /\ operandValue[c] = o.value
    BY <1>3, <1>w, <1>8, Modes DEF Kept
  <2>2. PICK d \in 1 .. 16 : d = 2 * dataSize
    BY <1>4
  <2>3. DigitsOf(o.value) <= d
    BY <1>1, <1>4, <1>8, <2>2 DEF Plain, RegisterForm
  <2>4. Padded(o.value, d) = Hex(o.value, d)
    BY <1>5, <2>3, PaddedDigits
  <2>5. OperandCode(c) = << Hex(47, 2), Padded(o.value, d) >>
    BY <1>2, <2>1, <2>2, OperandCodeIs DEF m
  <2>6. Meaning(o) = << Hex(47, 2), Hex(o.value, d) >>
    BY <1>4, <1>8, <2>2 DEF Meaning, RegisterForm
  <2> QED
    BY <1>1, <2>4, <2>5, <2>6
<1>9. CASE o.form = "immediate_address"
  <2>1. m = 240 /\ label[c] = {} /\ operandValue[c] = o.value
    BY <1>3, <1>w, <1>9, Modes DEF Kept
  <2>2. MODE_BITS(m) \in {240, 224, 64}
    BY <2>1 DEF MODE_BITS
  <2>3. DigitsOf(o.value) <= 8
    BY <1>5, DigitsAre
  <2>4. Padded(o.value, 8) = Hex(o.value, 8)
    BY <1>5, <2>3, PaddedDigits
  <2>5. OperandCode(c) = << Hex(240, 2), Padded(o.value, 8) >>
    BY <1>2, <2>1, <2>2, OperandCodeIs DEF m
  <2>6. Meaning(o) = << Hex(240, 2), Hex(o.value, 8) >>
    BY <1>9 DEF Meaning, RegisterForm
  <2> QED
    BY <1>1, <2>4, <2>5, <2>6
<1>10. o.form # "invalid" /\ o.form \notin {"label_offset", "numeric_offset"}
  BY <1>1 DEF Plain, OffsetForm, RegisterForm
<1> QED
  BY <1>5, <1>6, <1>7, <1>8, <1>9, <1>10 DEF Form

LEMMA OutputIsMeaning ==
  ASSUME TypeInv, OpcodeInv, MembersInv, OutputMl, ~ reported,
         \A c \in 1 .. Len(operands) : Plain(operands[c]), ~ UsesForm(OffsetForm)
  PROVE  machineCode' = StatementMeaning
<1>1. pc = "operands"
  BY DEF OutputMl
<1>2. binaryOpcode = Entry(textOpcode).bin /\ (IsRet <=> textOpcode = RET)
  <2>1. Known(textOpcode) /\ binaryOpcode = Entry(textOpcode).bin
    BY <1>1 DEF OpcodeInv
  <2> QED
    BY <2>1, EntryIs DEF IsRet
<1> DEFINE code == [c \in 1 .. Len(operands) |-> OperandCode(c)]
           meaning == [c \in 1 .. Len(operands) |-> Meaning(operands[c])]
           a == << Hex(binaryOpcode, 2) >> \o IF IsRet THEN ReturnOperands ELSE << >>
           b == << Hex(Entry(textOpcode).bin, 2) >>
                  \o IF textOpcode = RET THEN ReturnOperands ELSE << >>
<1>3. code = meaning
  BY <1>1, OperandIsMeaning DEF UsesForm
<1>4. a = b
  BY <1>2
<1>5. machineCode' = << a >> \o code
  BY DEF OutputMl
<1>6. StatementMeaning = << b >> \o meaning
  BY DEF StatementMeaning
<1> HIDE DEF a, b, code, meaning
<1> QED
  BY <1>3, <1>4, <1>5, <1>6

LEMMA CodeIsFreshNext ==
  ASSUME FreshInv, [Next]_vars
  PROVE  CodeIsFresh'
<1> USE DEF memberVars
<1>1. ASSUME NEW mn \in Mnemonic, TranslateOpcode(mn)  PROVE  CodeIsFresh'
  BY <1>1 DEF TranslateOpcode, CodeIsFresh, Accepted, Translated
<1>2. ASSUME NEW mn \in Mnemonic, DereferenceEnd(mn)  PROVE  CodeIsFresh'
  BY <1>2 DEF DereferenceEnd, CodeIsFresh, Accepted, Translated
<1>3. ASSUME NEW o \in Operand, TranslateOperand(o)  PROVE  CodeIsFresh'
  <2>1. PICK mode, bytes, labels, value : OperandEffect(o, mode, bytes, labels, value)
    BY <1>3, OperandStep DEF FreshInv
  <2>2. pc' = "operands"
    BY <2>1 DEF OperandEffect
  <2> QED
    BY <2>2 DEF CodeIsFresh, Accepted, Translated
<1>4. ASSUME OutputMl  PROVE  CodeIsFresh'
  <2>1. UNCHANGED << textOpcode, operands >> /\ (reported => reported')
    BY <1>4 DEF OutputMl
  <2>2. SUFFICES ASSUME Accepted', ~ UsesForm(OffsetForm)'
                 PROVE  machineCode' = StatementMeaning'
    BY DEF CodeIsFresh
  <2>3. ~ reported /\ (\A c \in 1 .. Len(operands) : Plain(operands[c]))
          /\ ~ UsesForm(OffsetForm)
    BY <2>1, <2>2 DEF Accepted, Plain, UsesForm, OffsetForm
  <2>4. machineCode' = StatementMeaning
    BY <1>4, <2>3, OutputIsMeaning DEF FreshInv
  <2>5. StatementMeaning' = StatementMeaning
    BY <2>1 DEF StatementMeaning, Meaning
  <2> QED
    BY <2>4, <2>5
<1>5. CASE UNCHANGED vars
  <2>1. UNCHANGED << pc, statements, textOpcode, operands, machineCode, reported >>
    BY <1>5 DEF vars
  <2>2. Accepted' = Accepted
    BY <2>1 DEF Accepted, Translated, Plain
  <2>3. StatementMeaning' = StatementMeaning /\ UsesForm(OffsetForm)' = UsesForm(OffsetForm)
    BY <2>1 DEF StatementMeaning, Meaning, UsesForm, OffsetForm
  <2> QED
    BY <2>1, <2>2, <2>3 DEF FreshInv, CodeIsFresh
<1> QED
  BY <1>1, <1>2, <1>3, <1>4, <1>5 DEF Next

(* The machine code of an accepted statement without an offset, of whose   *)
(* operands sscanf reads the whole, is what its own text means, for any    *)
(* table, any such operands, any limit of operands and whatever the members*)
(* were left at by the statements before it.                               *)
THEOREM MembersDoNotLeak == Spec => []CodeIsFresh
<1>1. Init => FreshInv
  <2>1. Init => OpcodeInv /\ MembersInv /\ CodeIsFresh
    BY DEF Init, OpcodeInv, MembersInv, CodeIsFresh, Accepted, Translated
  <2> QED
    BY <2>1, TypeInit DEF FreshInv
<1>2. FreshInv /\ [Next]_vars => FreshInv'
  BY TypeNext, OpcodeInvNext, MembersInvNext, CodeIsFreshNext DEF FreshInv
<1>3. FreshInv => CodeIsFresh
  BY DEF FreshInv
<1> QED
  BY <1>1, <1>2, <1>3, PTL DEF Spec

-----------------------------------------------------------------------------
(* The size is the number of bytes.                                        *)

LEMMA BytesAreNat ==
  ASSUME NEW o, dataSize \in Nat
  PROVE  Bytes(o) \in Nat
BY DEF Bytes, ByteCount

(* The sizes of the operands so far.                                       *)
Sizes == [c \in 1 .. Len(operands) |-> Bytes(operands[c])]

LEMMA SizesAre ==
  ASSUME TypeInv, OpcodeInv, pc = "operands", ~ reported
  PROVE  /\ dataSize \in {1, 2, 4, 8} /\ Len(operands) \in Nat
         /\ Sizes \in Seq(Nat) /\ Len(Sizes) = Len(operands)
         /\ \A c \in 1 .. Len(operands) : Sizes[c] = Bytes(operands[c]) /\ Bytes(operands[c]) \in Nat
<1>1. dataSize \in {1, 2, 4, 8} /\ operands \in Seq(Operand)
  BY DEF OpcodeInv, DataSize, TypeInv, TypeOK
<1>2. \A c \in 1 .. Len(operands) : Bytes(operands[c]) \in Nat
  BY <1>1, BytesAreNat
<1> QED
  BY <1>1, <1>2 DEF Sizes

LEMMA SizeInvNext ==
  ASSUME TypeInv, OpcodeInv, SizeInv, [Next]_vars
  PROVE  SizeInv'
<1> USE DEF memberVars
<1>1. ASSUME NEW mn \in Mnemonic, TranslateOpcode(mn)  PROVE  SizeInv'
  <2>1. operands' = << >> /\ (~ reported' => machineCodeSize' = 1)
    BY <1>1 DEF TranslateOpcode
  <2>2. [c \in 1 .. Len(operands') |-> ByteCount(operands'[c], dataSize')] = << >>
    BY <2>1
  <2>3. Total(<< >>) = 0
    <3>1. << >> \in Seq(Nat)
      OBVIOUS
    <3> QED
      BY <3>1, TotalIsNat
  <2> QED
    BY <2>1, <2>2, <2>3 DEF SizeInv, Bytes
<1>2. ASSUME NEW mn \in Mnemonic, DereferenceEnd(mn)  PROVE  SizeInv'
  BY <1>2 DEF DereferenceEnd, SizeInv
<1>3. ASSUME NEW o \in Operand, TranslateOperand(o)  PROVE  SizeInv'
  <2>1. PICK mode, bytes, labels, value : OperandEffect(o, mode, bytes, labels, value)
    BY <1>3, OperandStep
  <2>2. SUFFICES ASSUME ~ reported'
                 PROVE  machineCodeSize' =
                          1 + Total([c \in 1 .. Len(operands') |-> ByteCount(operands'[c], dataSize')])
    BY DEF SizeInv, Bytes
  <2>3. /\ pc = "operands" /\ ~ reported /\ operands' = Append(operands, o) /\ dataSize' = dataSize
        /\ machineCodeSize' = machineCodeSize + Bytes(o)
    BY <2>1, <2>2 DEF OperandEffect
  <2>4. /\ Sizes \in Seq(Nat) /\ Len(Sizes) = Len(operands) /\ dataSize \in Nat
        /\ Len(operands) \in Nat /\ operands \in Seq(Operand)
        /\ \A c \in 1 .. Len(operands) : Sizes[c] = Bytes(operands[c])
        /\ machineCodeSize = 1 + Total(Sizes)
    <3>1. /\ dataSize \in {1, 2, 4, 8} /\ Len(operands) \in Nat
          /\ Sizes \in Seq(Nat) /\ Len(Sizes) = Len(operands)
          /\ \A c \in 1 .. Len(operands) : Sizes[c] = Bytes(operands[c])
      BY <2>3, SizesAre
    <3>2. machineCodeSize = 1 + Total(Sizes)
      BY <2>3, Zenon DEF SizeInv, Sizes
    <3>3. operands \in Seq(Operand)
      BY DEF TypeInv, TypeOK
    <3>4. \A n \in {1, 2, 4, 8} : n \in Nat
      OBVIOUS
    <3> QED
      BY <3>1, <3>2, <3>3, <3>4, Zenon
  <2>5. Bytes(o) \in Nat
    BY <2>4, BytesAreNat
  <2>6. [c \in 1 .. Len(operands') |-> ByteCount(operands'[c], dataSize')] = Append(Sizes, Bytes(o))
    <3> DEFINE t == Append(Sizes, Bytes(o))
    <3>1. Len(operands') = Len(operands) + 1
      BY <2>3, <2>4
    <3>2. t = [c \in 1 .. Len(operands) + 1 |-> t[c]]
      <4>1. t \in Seq(Nat) /\ Len(t) = Len(operands) + 1
        BY <2>4, <2>5
      <4> HIDE DEF t
      <4> QED
        BY <4>1
    <3>3. ASSUME NEW c \in 1 .. Len(operands) + 1
          PROVE  t[c] = ByteCount(operands'[c], dataSize')
      <4>1. CASE c = Len(operands) + 1
        <5>1. operands'[c] = o /\ t[c] = Bytes(o)
          BY <2>3, <2>4, <2>5, <4>1
        <5> QED
          BY <2>3, <5>1 DEF Bytes
      <4>2. CASE c # Len(operands) + 1
        <5>1. c \in 1 .. Len(operands)
          BY <2>4, <4>2
        <5>2. operands'[c] = operands[c] /\ t[c] = Sizes[c]
          BY <2>3, <2>4, <2>5, <5>1
        <5> QED
          BY <2>3, <2>4, <5>1, <5>2 DEF Bytes
      <4> QED
        BY <4>1, <4>2
    <3> HIDE DEF t
    <3>4. [c \in 1 .. Len(operands') |-> ByteCount(operands'[c], dataSize')] = t
      BY <3>1, <3>2, <3>3
    <3> QED
      BY <3>4 DEF t
  <2>7. Total(Append(Sizes, Bytes(o))) = Total(Sizes) + Bytes(o) /\ Total(Sizes) \in Nat
    BY <2>4, <2>5, TotalOfAppend, TotalIsNat
  <2>8. machineCodeSize' = 1 + Total(Append(Sizes, Bytes(o)))
    <3>1. machineCodeSize' = 1 + Total(Sizes) + Bytes(o)
      BY <2>3, <2>4
    <3>2. \A m, n \in Nat : 1 + m + n = 1 + (m + n)
      OBVIOUS
    <3> QED
      BY <2>5, <2>7, <3>1, <3>2, Zenon
  <2> QED
    BY <2>6, <2>8, Zenon
<1>4. ASSUME OutputMl  PROVE  SizeInv'
  BY <1>4 DEF OutputMl, SizeInv
<1>5. CASE UNCHANGED vars
  BY <1>5 DEF vars, SizeInv, Bytes
<1> QED
  BY <1>1, <1>2, <1>3, <1>4, <1>5 DEF Next

LEMMA HexDigits ==
  ASSUME NEW v, NEW d
  PROVE  Hex(v, d).digits = d /\ Mark(v).digits = 8
BY DEF Hex, Mark

LEMMA DigitsOfOne ==
  ASSUME NEW x, x.digits \in Nat
  PROVE  Digits(<< x >>) = x.digits
<1>1. Len(<< x >>) = 1 /\ \A j \in 1 .. 1 : << x >>[j].digits = x.digits
  OBVIOUS
<1>2. Digits(<< x >>) = 1 * x.digits
  BY <1>1, UniformDigits
<1> QED
  BY <1>2

(* The pieces of the opcode.                                               *)
LEMMA OpcodeDigits ==
  Digits(<< Hex(binaryOpcode, 2) >> \o IF IsRet THEN ReturnOperands ELSE << >>)
    = 2 * (1 + IF IsRet THEN 2 ELSE 0)
<1> DEFINE x == Hex(binaryOpcode, 2)
           y == Hex(46, 2)
           z == Hex(15, 2)
           s == << x >>
           t == << y, z >>
<1>1. x.digits = 2 /\ y.digits = 2 /\ z.digits = 2
  BY HexDigits
<1>2. s \in Seq({x, y, z}) /\ t \in Seq({x, y, z}) /\ Len(s) = 1 /\ Len(t) = 2
  OBVIOUS
<1>3. ReturnOperands = t
  BY DEF ReturnOperands
<1> HIDE DEF x, y, z
<1>4. CASE IsRet
  <2>1. s \o t \in Seq({x, y, z}) /\ Len(s \o t) = 3
    BY <1>2, ConcatProperties
  <2>2. \A j \in 1 .. 3 : (s \o t)[j].digits = 2
    <3>1. \A j \in 1 .. 3 : (s \o t)[j] \in {x, y, z}
      BY <2>1
    <3> QED
      BY <1>1, <3>1
  <2>3. Digits(s \o t) = 3 * 2
    BY <2>1, <2>2, UniformDigits
  <2> QED
    BY <1>3, <1>4, <2>3 DEF x
<1>5. CASE ~ IsRet
  <2>1. s \o << >> = s
    BY <1>2
  <2>2. Digits(s) = 2
    BY <1>1, DigitsOfOne
  <2> QED
    BY <1>5, <2>1, <2>2 DEF x
<1> QED
  BY <1>4, <1>5

(* The pieces of an operand.                                               *)
LEMMA OperandDigits ==
  ASSUME TypeInv, OpcodeInv, MembersInv, pc = "operands", ~ reported,
         NEW c \in 1 .. Len(operands), Plain(operands[c])
  PROVE  Digits(OperandCode(c)) = 2 * Bytes(operands[c])
<1>1. PICK o \in Operand : o = operands[c]
  <2>1. operands \in Seq(Operand)
    BY DEF TypeInv, TypeOK
  <2> QED
    BY <2>1
<1>2. o.form \in Form /\ o.reg \in 0 .. 95 /\ Fits32(o.value)
  BY OperandsAre
<1>3. dataSize = DataSize(Entry(textOpcode).bin) /\ dataSize \in {1, 2, 4, 8}
  BY DEF OpcodeInv, DataSize
<1>4. ASSUME o.form \notin OffsetForm
      PROVE  Digits(OperandCode(c)) = 2 * Bytes(o)
  <2>1. OperandCode(c) = Meaning(o)
    BY <1>1, <1>4, OperandIsMeaning
  <2>2. CASE o.form \in RegisterForm
    <3>1. Meaning(o) = << Hex(RegisterMode(o.form) + o.reg, 2) >>
      BY <2>2 DEF Meaning, RegisterForm
    <3>2. Digits(Meaning(o)) = 2
      BY <3>1, HexDigits, DigitsOfOne
    <3>3. Bytes(o) = 1
      BY <2>2 DEF Bytes, ByteCount
    <3> QED
      BY <2>1, <3>2, <3>3
  <2>3. CASE o.form \in LabelForm
    <3>1. PICK m : Meaning(o) = << Hex(m, 2), Mark({o.text}) >>
      BY <2>3 DEF Meaning, LabelForm, RegisterForm
    <3>2. Digits(Meaning(o)) = 2 + 8
      BY <3>1, HexDigits, DigitsOfTwo
    <3>3. Bytes(o) = 1 + 4
      BY <2>3 DEF Bytes, ByteCount, LabelForm, RegisterForm
    <3> QED
      BY <2>1, <3>2, <3>3
  <2>4. CASE o.form = "immediate"
    <3>1. PICK d \in {2, 4, 8, 16} : d = 2 * dataSize
      BY <1>3
    <3>2. Meaning(o) = << Hex(47, 2), Hex(o.value, d) >>
      BY <1>3, <2>4, <3>1 DEF Meaning, RegisterForm
    <3>3. Digits(Meaning(o)) = 2 + d
      BY <3>2, HexDigits, DigitsOfTwo
    <3>4. Bytes(o) = 1 + dataSize
      BY <2>4 DEF Bytes, ByteCount, RegisterForm
    <3> QED
      BY <1>3, <2>1, <3>1, <3>3, <3>4
  <2>5. CASE o.form = "immediate_address"
    <3>1. Meaning(o) = << Hex(240, 2), Hex(o.value, 8) >>
      BY <2>5 DEF Meaning, RegisterForm
    <3>2. Digits(Meaning(o)) = 2 + 8
      BY <3>1, HexDigits, DigitsOfTwo
    <3>3. Bytes(o) = 1 + 4
      BY <2>5 DEF Bytes, ByteCount, RegisterForm
    <3> QED
      BY <2>1, <3>2, <3>3
  <2>6. o.form # "invalid"
    BY <1>1 DEF Plain, RegisterForm
  <2> QED
    BY <1>2, <1>4, <2>2, <2>3, <2>4, <2>5, <2>6 DEF Form, OffsetForm
<1>5. ASSUME o.form \in OffsetForm
      PROVE  Digits(OperandCode(c)) = 2 * Bytes(o)
  <2>1. o.scan = "whole" /\ o.reg <= 15
    BY <1>1, <1>5 DEF Plain, OffsetForm, RegisterForm
  <2>2. c \in Slot /\ modeByte[c] \in Byte /\ Fits32(operandValue[c])
    <3>1. /\ operands \in Seq(Operand) /\ Len(operands) <= MAX_OPERANDS
          /\ modeByte \in [Slot -> Byte] /\ \A i \in Slot : Fits32(operandValue[i])
      BY DEF TypeInv, TypeOK, Steps
    <3>2. c \in Slot
      BY <3>1, EncoderAssumption DEF Slot
    <3> QED
      BY <3>1, <3>2
  <2>3. modeByte[c] = 64 + o.reg
    BY <1>1, <1>5, <2>1, Modes DEF MembersInv, Kept
  <2>4. MODE_BITS(modeByte[c]) = 64
    <3>1. PICK r \in 0 .. 95 : r = o.reg
      BY <1>2, Zenon
    <3>2. r <= 15 /\ modeByte[c] = 64 + r
      BY <2>1, <2>3, <3>1, Zenon
    <3>3. MODE_BITS(64 + r) = 64
      BY <3>2 DEF MODE_BITS
    <3> QED
      BY <3>2, <3>3, Zenon
  <2>5. Padded(operandValue[c], 8).digits = 8
    <3>1. PICK v : v = operandValue[c] /\ Fits32(v)
      BY <2>2
    <3>2. DigitsOf(v) \in 1 .. 8
      BY <3>1, DigitsAre
    <3>3. 8 \in 1 .. 16 /\ DigitsOf(v) <= 8
      BY <3>2
    <3>4. Padded(v, 8) = Hex(v, 8)
      BY <3>1, <3>3, PaddedDigits
    <3> QED
      <4>1. Hex(v, 8).digits = 8
        BY HexDigits
      <4> QED
        BY <3>1, <3>4, <4>1, Zenon
  <2>6. PICK x, y : OperandCode(c) = << x, y >> /\ x.digits = 2 /\ y.digits = 8
    <3> DEFINE x == Hex(modeByte[c], 2)
               y == IF label[c] # {} THEN Mark(label[c]) ELSE Padded(operandValue[c], 8)
    <3>1. OperandCode(c) = << x, y >>
      BY <2>2, <2>4, OperandCodeIs
    <3>2. x.digits = 2 /\ y.digits = 8
      BY <2>5, HexDigits
    <3> HIDE DEF x, y
    <3> QED
      BY <3>1, <3>2
  <2>7. Digits(OperandCode(c)) = 2 + 8
    BY <2>6, DigitsOfTwo
  <2>8. Bytes(o) = 1 + 4
    BY <1>5 DEF Bytes, ByteCount, OffsetForm, RegisterForm
  <2> QED
    BY <2>7, <2>8
<1> QED
  BY <1>1, <1>4, <1>5

(* outputMl() writes two digits for each byte that was added up.           *)
LEMMA OutputIsSize ==
  ASSUME TypeInv, OpcodeInv, MembersInv, SizeInv, OutputMl, ~ reported,
         \A c \in 1 .. Len(operands) : Plain(operands[c])
  PROVE  2 * machineCodeSize' = DigitsWritten(machineCode')
<1> DEFINE n == Len(operands)
           a == << Hex(binaryOpcode, 2) >> \o IF IsRet THEN ReturnOperands ELSE << >>
           f == [c \in 1 .. n |-> OperandCode(c)]
           code == << a >> \o f
           S == {a} \cup {OperandCode(c) : c \in 1 .. n}
           h == 1 + IF IsRet THEN 2 ELSE 0
           digits == [i \in 1 .. Len(code) |-> Digits(code[i])]
<1>1. pc = "operands"
  BY DEF OutputMl
<1>2. /\ n \in Nat /\ Sizes \in Seq(Nat) /\ Len(Sizes) = n
      /\ \A c \in 1 .. n : Sizes[c] = Bytes(operands[c]) /\ Bytes(operands[c]) \in Nat
  BY <1>1, SizesAre
<1>3. machineCode' = code /\ machineCodeSize' = machineCodeSize + (IF IsRet THEN 2 ELSE 0)
  BY DEF OutputMl
<1>4. machineCodeSize = 1 + Total(Sizes)
  BY <1>1 DEF SizeInv, Sizes
<1>5. Digits(a) = 2 * h
  BY OpcodeDigits
<1>6. \A c \in 1 .. n : Digits(OperandCode(c)) = 2 * Bytes(operands[c])
  BY <1>1, OperandDigits
<1> HIDE DEF a, n
<1>7. << a >> \in Seq(S) /\ f \in Seq(S) /\ Len(<< a >>) = 1 /\ Len(f) = n /\ << a >>[1] = a
      /\ \A c \in 1 .. n : f[c] = OperandCode(c)
  BY <1>2
<1> HIDE DEF f, S
<1>8. Len(code) = n + 1 /\ code[1] = a /\ \A c \in 1 .. n : code[c + 1] = OperandCode(c)
  <2>1. Len(code) = 1 + n /\ \A i \in 1 .. 1 : code[i] = << a >>[i]
    BY <1>7, ConcatIs
  <2>2. \A c \in 1 .. n : code[1 + c] = f[c]
    BY <1>7, ConcatIs
  <2>3. \A c \in 1 .. n : 1 + c = c + 1
    BY <1>2
  <2> QED
    BY <1>2, <1>7, <2>1, <2>2, <2>3
<1> HIDE DEF code
<1>9. h \in Nat
  OBVIOUS
<1> HIDE DEF h
<1>10. /\ digits \in Seq(Nat) /\ Len(digits) = n + 1 /\ digits[1] = 2 * h
       /\ \A c \in 1 .. n : digits[c + 1] = 2 * Sizes[c]
  <2>1. digits[1] = 2 * h
    BY <1>2, <1>5, <1>8
  <2>2. ASSUME NEW c \in 1 .. n  PROVE  digits[c + 1] = 2 * Sizes[c]
    <3>1. c + 1 \in 1 .. n + 1
      BY <1>2
    <3>2. digits[c + 1] = Digits(OperandCode(c))
      BY <1>8, <3>1
    <3> QED
      BY <1>2, <1>6, <3>2
  <2>3. \A i \in 1 .. n + 1 : digits[i] \in Nat
    <3>1. ASSUME NEW i \in 1 .. n + 1  PROVE  digits[i] \in Nat
      <4>1. CASE i = 1
        BY <1>9, <2>1, <4>1
      <4>2. CASE i # 1
        <5>1. i - 1 \in 1 .. n /\ (i - 1) + 1 = i
          BY <1>2, <4>2
        <5>2. digits[i] = 2 * Sizes[i - 1] /\ Sizes[i - 1] \in Nat
          BY <1>2, <2>2, <5>1
        <5> QED
          BY <5>2
      <4> QED
        BY <4>1, <4>2
    <3> QED
      BY <3>1
  <2>4. digits = [i \in 1 .. n + 1 |-> digits[i]]
    BY <1>8
  <2> HIDE DEF digits
  <2>5. digits \in Seq(Nat) /\ Len(digits) = n + 1
    <3>1. n + 1 \in Nat
      BY <1>2
    <3>2. \A g : g = [i \in 1 .. n + 1 |-> g[i]] /\ (\A i \in 1 .. n + 1 : g[i] \in Nat)
                => g \in [1 .. n + 1 -> Nat]
      OBVIOUS
    <3>3. \A g \in [1 .. n + 1 -> Nat] : g \in Seq(Nat) /\ Len(g) = n + 1
      BY <3>1
    <3> QED
      BY <2>3, <2>4, <3>2, <3>3, Zenon
  <2> QED
    BY <2>1, <2>2, <2>5
<1>11. DigitsWritten(code) = Total(digits)
  BY DEF DigitsWritten
<1> HIDE DEF digits
<1>12. Total(digits) = 2 * (h + Total(Sizes))
  <2>1. Len(digits) = Len(Sizes) + 1
    BY <1>2, <1>10
  <2>2. \A c \in 1 .. Len(Sizes) : digits[c + 1] = 2 * Sizes[c]
    BY <1>2, <1>10
  <2>3. 2 \in Nat
    OBVIOUS
  <2>4. Sizes \in Seq(Nat) /\ digits \in Seq(Nat) /\ digits[1] = 2 * h
    BY <1>2, <1>10
  <2> QED
    BY <1>9, <2>1, <2>2, <2>3, <2>4, TotalOfMultiples
<1>13. machineCodeSize' = h + Total(Sizes)
  <2>1. Total(Sizes) \in Nat
    BY <1>2, TotalIsNat
  <2> QED
    BY <1>3, <1>4, <2>1 DEF h
<1> QED
  BY <1>3, <1>11, <1>12, <1>13

LEMMA SizeIsBytesNext ==
  ASSUME FreshInv, SizeInv, SizeIsBytes, [Next]_vars
  PROVE  SizeIsBytes'
<1> USE DEF memberVars
<1>1. ASSUME NEW mn \in Mnemonic, TranslateOpcode(mn)  PROVE  SizeIsBytes'
  BY <1>1 DEF TranslateOpcode, SizeIsBytes, Accepted, Translated
<1>2. ASSUME NEW mn \in Mnemonic, DereferenceEnd(mn)  PROVE  SizeIsBytes'
  BY <1>2 DEF DereferenceEnd, SizeIsBytes, Accepted, Translated
<1>3. ASSUME NEW o \in Operand, TranslateOperand(o)  PROVE  SizeIsBytes'
  <2>1. PICK mode, bytes, labels, value : OperandEffect(o, mode, bytes, labels, value)
    BY <1>3, OperandStep DEF FreshInv
  <2>2. pc' = "operands"
    BY <2>1 DEF OperandEffect
  <2> QED
    BY <2>2 DEF SizeIsBytes, Accepted, Translated
<1>4. ASSUME OutputMl  PROVE  SizeIsBytes'
  <2>1. UNCHANGED << textOpcode, operands >> /\ (reported => reported')
    BY <1>4 DEF OutputMl
  <2>2. SUFFICES ASSUME Accepted'
                 PROVE  2 * machineCodeSize' = DigitsWritten(machineCode')
    BY DEF SizeIsBytes, DigitsWritten
  <2>3. ~ reported /\ (\A c \in 1 .. Len(operands) : Plain(operands[c]))
    BY <2>1, <2>2 DEF Accepted, Plain
  <2> QED
    BY <1>4, <2>3, OutputIsSize DEF FreshInv
<1>5. CASE UNCHANGED vars
  <2>1. UNCHANGED << pc, statements, textOpcode, operands, machineCode, machineCodeSize, reported >>
    BY <1>5 DEF vars
  <2>2. Accepted' = Accepted
    BY <2>1 DEF Accepted, Translated, Plain
  <2> QED
    BY <2>1, <2>2 DEF SizeIsBytes
<1> QED
  BY <1>1, <1>2, <1>3, <1>4, <1>5 DEF Next

(* The size that translateOpcode(), translateOperand() and outputMl() add  *)
(* up a byte here and four there, before any code is written, is the number*)
(* of bytes that are written for an accepted statement, with or without an *)
(* offset in it: every later address is computed from it.                  *)
THEOREM SizesAreBytes == Spec => []SizeIsBytes
<1>1. Init => FreshInv /\ SizeInv /\ SizeIsBytes
  <2>1. Init => OpcodeInv /\ MembersInv /\ CodeIsFresh /\ SizeInv /\ SizeIsBytes
    BY DEF Init, OpcodeInv, MembersInv, CodeIsFresh, SizeInv, SizeIsBytes, Accepted, Translated
  <2> QED
    BY <2>1, TypeInit DEF FreshInv
<1>2. FreshInv /\ SizeInv /\ SizeIsBytes /\ [Next]_vars => (FreshInv /\ SizeInv /\ SizeIsBytes)'
  BY TypeNext, OpcodeInvNext, MembersInvNext, CodeIsFreshNext, SizeInvNext, SizeIsBytesNext
    DEF FreshInv
<1> QED
  BY <1>1, <1>2, PTL DEF Spec
=============================================================================
