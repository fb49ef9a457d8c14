---------------------------- MODULE EciscEncoder ----------------------------
(***************************************************************************)
(* Class statement_ecisc (ecisc.cc): the translation of one statement      *)
(* after another.  The binary opcode, the data size, the mode bytes, the   *)
(* operand values and the labels are members of the one object that        *)
(* translates the whole source: what a statement does not set, it finds as *)
(* the previous one left it.                                               *)
(*                                                                         *)
(* An operand is the form of the first pattern it matches and what sscanf  *)
(* reads from it.  An entry of the table is a mnemonic and its byte, bin.  *)
(***************************************************************************)
EXTENDS OpcodeTable, FiniteSetsExt, SequencesExt, Sums

CONSTANTS
  RET,            (* The mnemonic "ret".                                   *)
  Operand,        (* The operands a statement can be given.                *)
  Garbage,        (* What an uninitialized number may hold.                *)
  MAX_OPERANDS,   (* How many operands are translated; the code has 3.     *)
  MaxStatements   (* Bound: the number of statements.                      *)

Byte == 0 .. 255
OP_MOVL == \h12

RegisterForm == {"direct", "indirect", "increment", "decrement"}
LabelForm == {"memory", "memory_indirect", "address_of"}
Form == RegisterForm \cup LabelForm
          \cup {"label_offset", "numeric_offset", "immediate", "immediate_address", "invalid"}

(* An operand: its form, the register in it, the number it gives, the text *)
(* of the label or of the number, and how much of the register or, in the  *)
(* immediate forms, of the number sscanf reads.  The patterns accept more  *)
(* than sscanf: R5, and $0x10 or label(0x10), whose second alternative is  *)
(* not tied to the start, of which it reads nothing ("none"); 3.14, 5x and *)
(* (16)x, whose first is not tied to the end, of which it reads the integer*)
(* in front ("part").                                                      *)
OperandField == {"form", "reg", "scan", "value", "text"}
Scan == {"whole", "part", "none"}

(* A number is stored in 32 bits.                                          *)
Fits32(n) == n \in Nat /\ \E d \in 1 .. 8 : n < 16^d

(* "ret" is defined as another name of "movl".                             *)
ASSUME EncoderAssumption ==
  /\ RET \in Mnemonic
  /\ \A i \in 1 .. Len(InitTable) :
       InitTable[i].bin \in Byte /\ (InitTable[i].assem = RET => InitTable[i].bin = OP_MOVL)
  /\ \A o \in Operand :
       DOMAIN o = OperandField /\ o.form \in Form /\ o.reg \in 0 .. 95 /\ o.scan \in Scan
         /\ Fits32(o.value)
  /\ Garbage \subseteq Byte
  /\ MAX_OPERANDS \in Nat /\ MaxStatements \in Nat

VARIABLES
  pc,                (* "parse", "operands" or "crash".                    *)
  statements,        (* Statements translated.                             *)
  textOpcode,        (* The statement: its opcode                          *)
  operands,          (* and the operands translated so far.                *)
  binaryOpcode, dataSize, modeByte, operandValue,
  label,             (* A set of at most one label for each operand.       *)
  machineCodeSize,
  machineCode,       (* The pieces written for the opcode and each operand.*)
  reported           (* errorMessage() was called for this statement.      *)

memberVars == << binaryOpcode, dataSize, modeByte, operandValue, label >>
vars == << pc, statements, textOpcode, operands, memberVars, machineCodeSize, machineCode,
           reported >>

Slot == 1 .. MAX_OPERANDS

(* A piece of machine code: hexadecimal digits for a value, or a label     *)
(* between a mark and a space, which pass 2 replaces by 8 digits.          *)
Hex(value, digits) == [value |-> value, digits |-> digits, mark |-> {}]
Mark(labels) == [value |-> 0, digits |-> 8, mark |-> labels]

(* The constructor sets none of the numbers.                               *)
Init ==
  /\ pc = "parse"
  /\ statements = 0
  /\ textOpcode = NoMnemonic
  /\ operands = << >>
  /\ binaryOpcode \in Garbage
  /\ dataSize \in Garbage
  /\ modeByte \in [Slot -> Garbage]
  /\ operandValue \in [Slot -> Garbage]
  /\ label = [c \in Slot |-> {}]
  /\ machineCodeSize = 0
  /\ machineCode = << >>
  /\ reported = FALSE

-----------------------------------------------------------------------------
(* translateOpcode().                                                      *)

(* The opcodes with operands of 1, 2 and 8 bytes; 4 is for all others, the *)
(* exclusive ors (\h3c to \h3f) of every size among them.                  *)
ByteOps == {\h10, \h20, \h30, \h34, \h38, \h40, \h44, \h48, \h4c, \h60, \h70, \h80, \h90, \ha0,
            \hb0, \hb4}
ShortOps == {\h11, \h21, \h31, \h35, \h39, \h41, \h45, \h49, \h4d, \h61, \h71, \h81, \h91, \ha1,
             \hb1, \hb5}
QuadOps == {\h13, \h23, \h33, \h37, \h3b, \h43, \h47, \h4b, \h4f, \h63, \h73, \h83, \h93, \ha3,
            \h25, \h65, \h75, \h85, \h95}

DataSize(op) ==
  CASE op \in ByteOps  -> 1
    [] op \in ShortOps -> 2
    [] op \in QuadOps  -> 8
    [] OTHER           -> 4

(* parse() clears the machine code; an opcode that is not in the table is  *)
(* reported, and the byte of the statement before it stays.                *)
TranslateOpcode(mn) ==
  /\ pc = "parse"
  /\ statements < MaxStatements
  /\ textOpcode' = mn
  /\ operands' = << >>
  /\ IF Found(mn)
     THEN binaryOpcode' = opcode_found(mn).bin /\ machineCodeSize' = 1 /\ reported' = FALSE
     ELSE UNCHANGED binaryOpcode /\ machineCodeSize' = 0 /\ reported' = TRUE
  /\ dataSize' = DataSize(binaryOpcode')
  /\ machineCode' = << >>
  /\ pc' = "operands"
  /\ UNCHANGED << statements, modeByte, operandValue, label >>

(* An opcode behind the last of the table may end the program at once.     *)
DereferenceEnd(mn) ==
  /\ pc = "parse"
  /\ statements < MaxStatements
  /\ lower_bound(mn) = end
  /\ textOpcode' = mn
  /\ pc' = "crash"
  /\ UNCHANGED << statements, operands, memberVars, machineCodeSize, machineCode, reported >>

-----------------------------------------------------------------------------
(* translateOperand().                                                     *)

Or(m, n) ==
  LET bit(b) == IF (m \div b) % 2 = 1 \/ (n \div b) % 2 = 1 THEN b ELSE 0
  IN bit(1) + bit(2) + bit(4) + bit(8) + bit(16) + bit(32) + bit(64) + bit(128)

MODE_OFFSET == \h40
MODE_MEM_DIRECT == \hf0
MODE_MEM_INDIRECT == \he0
MODE_AUTO_INCREMENT == \h20
MODE_IMMEDIATE == Or(MODE_AUTO_INCREMENT, 15)

RegisterMode(form) ==
  CASE form = "direct"    -> 0
    [] form = "indirect"  -> \h10
    [] form = "increment" -> MODE_AUTO_INCREMENT
    [] form = "decrement" -> \h30

(* The register number: uninitialized, if sscanf does not read it.         *)
RegNum(o) == IF o.scan = "none" THEN Garbage ELSE {o.reg}

(* Fault: the operands are not limited to the slots there are for them.    *)
SetOperand_NoLimit(o, mode, bytes, labels) ==
  LET c == Len(operands) + 1 IN
  /\ pc = "operands"
  /\ operands' = Append(operands, o)
  /\ modeByte' = [modeByte EXCEPT ![c] = mode]
  /\ machineCodeSize' = machineCodeSize + bytes
  /\ label' = [label EXCEPT ![c] = labels]
  /\ UNCHANGED << pc, statements, textOpcode, binaryOpcode, dataSize, machineCode, reported >>

(* The next operand is given a mode, bytes to count, and a label or none.  *)
SetOperand(o, mode, bytes, labels) ==
  LET c == Len(operands) + 1 IN
  /\ pc = "operands"
  /\ c <= MAX_OPERANDS
  /\ operands' = Append(operands, o)
  /\ modeByte' = [modeByte EXCEPT ![c] = mode]
  /\ machineCodeSize' = machineCodeSize + bytes
  /\ label' = [label EXCEPT ![c] = labels]
  /\ UNCHANGED << pc, statements, textOpcode, binaryOpcode, dataSize, machineCode, reported >>

(* The value of an operand that sscanf does not read stays as it was.      *)
ReadValue(o) ==
  operandValue' =
    [operandValue EXCEPT ![Len(operands) + 1] = IF o.scan = "none" THEN @ ELSE o.value]

RegisterOperand(o) ==
  /\ o.form \in RegisterForm
  /\ \E r \in RegNum(o) : SetOperand(o, Or(RegisterMode(o.form), r), 1, {})
  /\ UNCHANGED operandValue

(* sscanf("%i") reads nothing from a label: the value stays as it was.     *)
LabelOffset(o) ==
  /\ o.form = "label_offset"
  /\ \E r \in RegNum(o) : SetOperand(o, Or(MODE_OFFSET, r), 1 + 4, {})
  /\ UNCHANGED operandValue

(* The digits in front of the register become the label.                   *)
NumericOffset(o) ==
  /\ o.form = "numeric_offset"
  /\ \E r \in RegNum(o) : SetOperand(o, Or(MODE_OFFSET, r), 1 + 4, {o.text})
  /\ UNCHANGED operandValue

LabelOperand(o) ==
  /\ o.form \in LabelForm
  /\ LET mode == CASE o.form = "memory"          -> MODE_MEM_DIRECT
                   [] o.form = "memory_indirect" -> MODE_MEM_INDIRECT
                   [] o.form = "address_of"      -> MODE_IMMEDIATE
     IN SetOperand(o, mode, 1 + 4, {o.text})
  /\ UNCHANGED operandValue

(* Fault: the label of the slot is not cleared.                            *)
Immediate_KeepsLabel(o) ==
  /\ o.form = "immediate"
  /\ SetOperand(o, MODE_IMMEDIATE, 1 + dataSize, label[Len(operands) + 1])
  /\ ReadValue(o)

(* Fault: an immediate operand is taken to have 4 bytes.                   *)
Immediate_FourBytes(o) ==
  /\ o.form = "immediate"
  /\ SetOperand(o, MODE_IMMEDIATE, 1 + 4, {})
  /\ ReadValue(o)

(* An integer, or a float without digits in front of its point, like .5,   *)
(* which is stored as a 32-bit pattern: any other is taken for its integer.*)
Immediate(o) ==
  /\ o.form = "immediate"
  /\ SetOperand(o, MODE_IMMEDIATE, 1 + dataSize, {})
  /\ ReadValue(o)

ImmediateAddress(o) ==
  /\ o.form = "immediate_address"
  /\ SetOperand(o, MODE_MEM_DIRECT, 1 + 4, {})
  /\ ReadValue(o)

(* No pattern matches.  The operand is counted all the same, with the mode *)
(* and the value of the operand before it in this place.                   *)
InvalidOperand(o) ==
  LET c == Len(operands) + 1 IN
  /\ o.form = "invalid"
  /\ pc = "operands"
  /\ c <= MAX_OPERANDS
  /\ operands' = Append(operands, o)
  /\ label' = [label EXCEPT ![c] = {}]
  /\ reported' = TRUE
  /\ UNCHANGED << pc, statements, textOpcode, binaryOpcode, dataSize, modeByte, operandValue,
                  machineCodeSize, machineCode >>

TranslateOperand(o) ==
  \/ RegisterOperand(o)
  \/ LabelOffset(o)
  \/ NumericOffset(o)
  \/ LabelOperand(o)
  \/ Immediate(o)
  \/ ImmediateAddress(o)
  \/ InvalidOperand(o)

-----------------------------------------------------------------------------
(* outputMl().                                                             *)

MODE_BITS(m) == (m \div 16) * 16
REG_NUM(m) == m % 16

(* setw() is a minimum: a value with more digits is written in full.       *)
DigitsOf(v) == CHOOSE d \in 1 .. 8 : v < 16^d /\ \A e \in 1 .. d - 1 : 16^e <= v
Padded(v, digits) == Hex(v, Max({digits, DigitsOf(v)}))

OperandCode(c) ==
  << Hex(modeByte[c], 2) >> \o
    CASE MODE_BITS(modeByte[c]) \in {MODE_MEM_DIRECT, MODE_MEM_INDIRECT, MODE_OFFSET} ->
           IF label[c] # {} THEN << Mark(label[c]) >> ELSE << Padded(operandValue[c], 8) >>
      [] MODE_BITS(modeByte[c]) = MODE_AUTO_INCREMENT /\ REG_NUM(modeByte[c]) = 15 ->
           IF label[c] # {} THEN << Mark(label[c]) >>
           ELSE << Padded(operandValue[c], 2 * dataSize) >>
      [] OTHER -> << >>

ReturnOperands == << Hex(\h2e, 2), Hex(\h0f, 2) >>
IsRet == binaryOpcode = OP_MOVL /\ textOpcode = RET

(* "ret" is movl (sp)+, pc, and takes no operands, but writes those it has.*)
OutputMl ==
  /\ pc = "operands"
  /\ machineCode' =
       << << Hex(binaryOpcode, 2) >> \o IF IsRet THEN ReturnOperands ELSE << >> >>
         \o [c \in 1 .. Len(operands) |-> OperandCode(c)]
  /\ machineCodeSize' = machineCodeSize + IF IsRet THEN 2 ELSE 0
  /\ reported' = (reported \/ (IsRet /\ operands # << >>))
  /\ statements' = statements + 1
  /\ pc' = "parse"
  /\ UNCHANGED << textOpcode, operands, memberVars >>

Next ==
  \/ \E mn \in Mnemonic : TranslateOpcode(mn) \/ DereferenceEnd(mn)
  \/ \E o \in Operand : TranslateOperand(o)
  \/ OutputMl

Spec == Init /\ [][Next]_vars

-----------------------------------------------------------------------------
(* What a statement stands for, read off its text alone.                   *)

(* Operands that sscanf reads as a whole, with registers r0 to r15; (r15)+ *)
(* is how an immediate operand is written in machine code, and no operand  *)
(* of its own.                                                             *)
Plain(o) ==
  /\ o.scan = "whole"
  /\ CASE o.form \in RegisterForm -> o.reg <= 15 /\ ~ (o.form = "increment" /\ o.reg = 15)
       [] o.form = "immediate"    -> DigitsOf(o.value) <= 2 * DataSize(Entry(textOpcode).bin)
       [] o.form = "immediate_address" -> TRUE
       [] o.form = "invalid"      -> FALSE
       [] OTHER                   -> o.reg <= 15

OffsetForm == {"label_offset", "numeric_offset"}

Meaning(o) ==
  CASE o.form \in RegisterForm        -> << Hex(RegisterMode(o.form) + o.reg, 2) >>
    [] o.form = "label_offset"        -> << Hex(MODE_OFFSET + o.reg, 2), Mark({o.text}) >>
    [] o.form = "numeric_offset"      -> << Hex(MODE_OFFSET + o.reg, 2), Hex(o.value, 8) >>
    [] o.form = "memory"              -> << Hex(\hf0, 2), Mark({o.text}) >>
    [] o.form = "memory_indirect"     -> << Hex(\he0, 2), Mark({o.text}) >>
    [] o.form = "address_of"          -> << Hex(\h2f, 2), Mark({o.text}) >>
    [] o.form = "immediate_address"   -> << Hex(\hf0, 2), Hex(o.value, 8) >>
    [] o.form = "immediate"           ->
         << Hex(\h2f, 2), Hex(o.value, 2 * DataSize(Entry(textOpcode).bin)) >>

Translated == pc = "parse" /\ statements > 0
Accepted == Translated /\ ~ reported /\ \A c \in 1 .. Len(operands) : Plain(operands[c])
StatementMeaning ==
  << << Hex(Entry(textOpcode).bin, 2) >> \o IF textOpcode = RET THEN ReturnOperands ELSE << >> >>
    \o [c \in 1 .. Len(operands) |-> Meaning(operands[c])]

UsesForm(forms) == \E c \in 1 .. Len(operands) : operands[c].form \in forms

-----------------------------------------------------------------------------
(* Properties.                                                             *)

TypeOK ==
  /\ pc \in {"parse", "operands", "crash"}
  /\ statements \in 0 .. MaxStatements
  /\ textOpcode \in Mnemonic \cup {NoMnemonic}
  /\ operands \in Seq(Operand) /\ Len(operands) <= MAX_OPERANDS
  /\ binaryOpcode \in Byte
  /\ dataSize \in {1, 2, 4, 8} \cup (IF textOpcode = NoMnemonic \/ pc = "crash" THEN Garbage ELSE {})
  /\ modeByte \in [Slot -> Byte]
  /\ operandValue \in [Slot -> Nat]
  /\ \A c \in Slot : Cardinality(label[c]) <= 1
  /\ machineCodeSize \in Nat
  /\ \A i \in 1 .. Len(machineCode) : \A j \in 1 .. Len(machineCode[i]) :
       machineCode[i][j].digits \in 1 .. 16
  /\ reported \in BOOLEAN

(* The search of the sorted table finds an opcode exactly if the header    *)
(* defines it, with the byte defined there; only a name behind all others  *)
(* can end the program.                                                    *)
OpcodeFound ==
  /\ pc = "operands" /\ operands = << >> =>
       /\ reported <=> ~ Known(textOpcode)
       /\ Known(textOpcode) => binaryOpcode = Entry(textOpcode).bin
  /\ pc = "crash" => BehindLast(textOpcode)

(* The machine code of a statement that is accepted is what its own text   *)
(* means, whatever the statements before it left in the members, if sscanf *)
(* reads its operands as a whole.                                          *)
CodeIsFresh == Accepted /\ ~ UsesForm(OffsetForm) => machineCode = StatementMeaning

(* The size translateOpcode(), translateOperand() and outputMl() add up,   *)
(* from which every later address is computed, is the number of bytes that *)
(* outputMl() and pass 2 write, if the operands fit their fields.          *)
SizeIsBytes ==
  Accepted => 2 * machineCodeSize = DigitsWritten(machineCode)

(* An operand with an offset is written with that offset (torture.ecisc:40,*)
(* torture.ecisc:44): the label's address, or the number.                  *)
OffsetsAreWritten == Accepted /\ UsesForm(OffsetForm) => machineCode = StatementMeaning
=============================================================================
