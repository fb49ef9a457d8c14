---------------------------- MODULE RiscvEncoder ----------------------------
(***************************************************************************)
(* Class statement_riscv (riscv.cc): the translation of one statement, an  *)
(* operand a step, and what pass 2 of assem() (plasm.cc) does to its word  *)
(* when it is marked with a label.                                         *)
(*                                                                         *)
(* A machine word is the set of its one bits: the code only ever ORs       *)
(* fields into it, which is union, and what overlaps is lost.  An operand  *)
(* is the form of the first pattern it matches and what sscanf reads.  An  *)
(* entry of the table is a mnemonic, its word without operands, base, and  *)
(* the format by which the code chooses the method that translates it.     *)
(***************************************************************************)
EXTENDS OpcodeTable

CONSTANTS
  Operand,      (* The operands a statement can be given.                  *)
  Garbage,      (* What an uninitialized register number may hold.         *)
  GarbageInt,   (* What an uninitialized int may hold.                     *)
  Offset        (* Offsets of labels.                                      *)

(* Two's complement: every number has 32 bits, and is sign extended.       *)
Bits(n, width) == { b \in 0 .. width - 1 : IF b < 31 THEN (n \div 2^b) % 2 = 1 ELSE n < 0 }
Shifted(set, k) == { b + k : b \in set }
Field(set, first, width) == { b \in 0 .. width - 1 : b + first \in set }

(* Fault: machineInstruction is as wide as the bits ORed into it.          *)
Word32_Wide(set) == set

Word32(set) == set \cap 0 .. 31

Format == {"R", "I", "shift", "load", "S", "SB", "other"}
Form == {"register", "indirect", "offset", "label", "immediate", "float", "invalid"}

(* How much of the register or of the immediate operand sscanf reads, which*)
(* is not all that the patterns accept: nothing of X5 and $0x10 ("none"),  *)
(* and of 3.14 and 5x the integer in front ("part").                       *)
Scan == {"whole", "part", "none"}
OperandType == [form : Form, reg : 0 .. 99, scan : Scan, value : Int]

(* The opcode and funct3 of a word, and funct7, which only some formats    *)
(* have: no entry of the table has a bit in the place of an operand.       *)
InstructionBit == 0 .. 6 \cup 12 .. 14
Funct7Bit == 25 .. 31
BaseBit(format) == InstructionBit \cup (IF format \in {"R", "shift"} THEN Funct7Bit ELSE {})

ASSUME EncoderAssumption ==
  /\ \A i \in 1 .. Len(InitTable) :
       /\ InitTable[i].base \in Nat
       /\ InitTable[i].format \in Format
       /\ InitTable[i].format # "other" =>
            Bits(InitTable[i].base, 32) \subseteq BaseBit(InitTable[i].format)
  /\ Operand \subseteq OperandType
  /\ Garbage \subseteq Nat /\ GarbageInt \subseteq Int
  /\ Offset \subseteq Nat

VARIABLES
  pc,                 (* "parse", "operand", "translated", "resolved" or   *)
                      (* "crash".                                          *)
  textOpcode,
  operands,           (* The operands translateOperand() has seen.         *)
  machineInstruction, (* The word.                                         *)
  machineCodeSize,
  bits,               (* *bits: 64 bits, kept from operand to operand.     *)
  labelOperand,       (* The word is marked with a label.                  *)
  said,               (* Something was said on stderr about the statement. *)
  segment, offset     (* Where pass 2 finds the label.                     *)

vars == << pc, textOpcode, operands, machineInstruction, machineCodeSize, bits, labelOperand,
           said, segment, offset >>

FormatOf(mn) == IF Found(mn) THEN opcode_found(mn).format ELSE "other"
Base(mn) == IF Found(mn) THEN Bits(opcode_found(mn).base, 32) ELSE {}

Init ==
  /\ pc = "parse"
  /\ textOpcode \in Mnemonic
  /\ operands = << >>
  /\ machineInstruction = {}
  /\ machineCodeSize = 0
  /\ bits = {}
  /\ labelOperand = FALSE
  /\ said = FALSE
  /\ segment = "none"
  /\ offset = 0

-----------------------------------------------------------------------------
(* translateOpcode() and the switch of translateInstruction().  An opcode  *)
(* of the table that the switch does not know is reported, but counted.    *)
TranslateOpcode ==
  /\ pc = "parse"
  /\ machineInstruction' = Base(textOpcode)
  /\ machineCodeSize' = IF Found(textOpcode) THEN 4 ELSE 0
  /\ said' = (FormatOf(textOpcode) = "other")
  /\ pc' = IF FormatOf(textOpcode) = "other" THEN "translated" ELSE "operand"
  /\ UNCHANGED << textOpcode, operands, bits, labelOperand, segment, offset >>

(* An opcode behind the last of the table may end the program at once.     *)
DereferenceEnd ==
  /\ pc = "parse"
  /\ lower_bound(textOpcode) = end
  /\ pc' = "crash"
  /\ UNCHANGED << textOpcode, operands, machineInstruction, machineCodeSize, bits, labelOperand,
                  said, segment, offset >>

-----------------------------------------------------------------------------
(* translateOperand().                                                     *)

InRange(n) == n \in -2048 .. 2047

RegNum(o) == IF o.scan = "none" THEN Garbage ELSE {o.reg}
Number(o) == IF o.scan = "none" THEN GarbageInt ELSE {o.value}

(* What it leaves in *bits, and whether it says something.                 *)
Scanned(o) ==
  CASE o.form = "register"  ->
         { IF r <= 31 THEN [bits |-> Bits(r, 5), said |-> FALSE]
                      ELSE [bits |-> bits, said |-> TRUE] : r \in RegNum(o) }
    [] o.form = "offset"    ->
         { IF InRange(o.value) /\ r <= 31
           THEN [bits |-> Bits(r, 5) \cup Shifted(Bits(o.value, 27), 5), said |-> FALSE]
           ELSE [bits |-> bits, said |-> TRUE] : r \in RegNum(o) }
    [] o.form = "immediate" ->
         { IF InRange(v) THEN [bits |-> Bits(v, 64), said |-> FALSE]
                         ELSE [bits |-> {}, said |-> TRUE] : v \in Number(o) }
    [] o.form = "invalid"   -> { [bits |-> bits, said |-> TRUE] }
    [] OTHER                -> { [bits |-> bits, said |-> FALSE] }

(* The mode it returns: that of the form, which an operand out of range    *)
(* has all the same, but none for forms the instructions do not have.      *)
Mode(o) == IF o.form \in {"register", "offset", "label", "immediate"} THEN o.form ELSE "unknown"

-----------------------------------------------------------------------------
(* translateRtype(), translateItype(), translateLoad(), translateStype()   *)
(* and translateSBtype().                                                  *)

OperandCount(format) == IF format \in {"load", "S"} THEN 2 ELSE 3

(* The modes the n-th operand may have.                                    *)
Expected(format, n) ==
  CASE n < OperandCount(format)            -> {"register"}
    [] n = 3 /\ format = "R"               -> {"register"}
    [] n = 3 /\ format \in {"I", "shift"}  -> {"immediate"}
    [] OTHER                               -> {"offset", "label"}

(* Fault: rs1 is put where it overlaps with funct3.                        *)
RegisterField_RsOffByOne(format, n) ==
  CASE n = 1 -> IF format \in {"S", "SB"} THEN 14 ELSE 7
    [] n = 2 -> IF format = "SB" THEN 7 ELSE 14
    [] n = 3 -> 20

(* Where a register, or an immediate operand, goes.                        *)
RegisterField(format, n) ==
  CASE n = 1 -> IF format \in {"S", "SB"} THEN 15 ELSE 7
    [] n = 2 -> IF format = "SB" THEN 7 ELSE 15
    [] n = 3 -> 20

(* Fault: the offset of a store is cut after its 6 upper bits.             *)
OffsetField_SixBits(format, b) ==
  IF format = "load"
  THEN Shifted(Field(b, 0, 5), 15) \cup Shifted(Field(b, 5, 12), 20)
  ELSE Shifted(Field(b, 0, 5), 20) \cup Shifted(Field(b, 11, 6), 26)
         \cup Shifted(Field(b, 5, 5), 7)

(* Where an offset and its register go: immediate7 and immediate5 of a     *)
(* store or branch, the 12 bits of a load.                                 *)
OffsetField(format, b) ==
  IF format = "load"
  THEN Shifted(Field(b, 0, 5), 15) \cup Shifted(Field(b, 5, 12), 20)
  ELSE Shifted(Field(b, 0, 5), 20) \cup Shifted(Field(b, 10, 7), 25)
         \cup Shifted(Field(b, 5, 5), 7)

(* Bits that one operand adds to the word.                                 *)
OperandField(o, format, n, b) ==
  CASE Mode(o) \in {"register", "immediate"} -> Shifted(b, RegisterField(format, n))
    [] Mode(o) = "offset"                    -> OffsetField(format, b)
    [] OTHER                                 -> {}

(* An operand of a mode that is not expected is reported, and ends the     *)
(* statement.  A label is remembered even then.                            *)
TranslateOperand(o) ==
  LET format == FormatOf(textOpcode)
      n == Len(operands) + 1
  IN
  /\ pc = "operand"
  /\ operands' = Append(operands, o)
  /\ labelOperand' = (labelOperand \/ o.form = "label")
  /\ \E scanned \in Scanned(o) :
       /\ bits' = scanned.bits
       /\ IF Mode(o) \in Expected(format, n)
          THEN /\ machineInstruction' =
                    Word32(machineInstruction \cup OperandField(o, format, n, scanned.bits))
               /\ said' = (said \/ scanned.said)
               /\ pc' = IF n = OperandCount(format) THEN "translated" ELSE "operand"
          ELSE /\ UNCHANGED machineInstruction
               /\ said' = TRUE
               /\ pc' = "translated"
  /\ UNCHANGED << textOpcode, machineCodeSize, segment, offset >>

(* There is no operand left on the line.                                   *)
OperandMissing ==
  /\ pc = "operand"
  /\ FormatOf(textOpcode) = "SB" => Len(operands) # 1
  /\ said' = TRUE
  /\ pc' = "translated"
  /\ UNCHANGED << textOpcode, operands, machineInstruction, machineCodeSize, bits, labelOperand,
                  segment, offset >>

(* For the second operand of a branch the search goes on at end_operand+1, *)
(* which is the start of the line when end_operand is npos: the first word *)
(* of the line, the opcode or a label and its colon, is refused, and the   *)
(* opcode is remembered as a label.                                        *)
BranchOperandMissing ==
  /\ pc = "operand"
  /\ FormatOf(textOpcode) = "SB"
  /\ Len(operands) = 1
  /\ labelOperand' \in {labelOperand, TRUE}
  /\ said' = TRUE
  /\ pc' = "translated"
  /\ UNCHANGED << textOpcode, operands, machineInstruction, machineCodeSize, bits, segment,
                  offset >>

-----------------------------------------------------------------------------
(* Pass 2: the word behind a mark, for the opcodes its switch knows (but   *)
(* jalr, for which an address is written).                                 *)

CodeOffset(s, n) == IF s = "code" THEN n ELSE 0
DataOffset(s, n) == IF s = "data" THEN n ELSE 0
gp == Bits(3, 5)

(* Fault: the upper bits of a load are put as those of a store are.        *)
ImmediateField_LoadAsStore(format, s, n) ==
  CASE format = "SB"           -> Shifted(Bits((CodeOffset(s, n) \div 2) - 2048, 12), 20)
    [] format \in {"load", "S"} ->
         LET imm == Bits(DataOffset(s, n) - 2048, 12) IN
         Shifted(Field(imm, 0, 5), 7) \cup Shifted(Field(imm, 5, 7), 25) \cup Shifted(gp, 15)

ImmediateField(format, s, n) ==
  CASE format = "SB"   -> Shifted(Bits((CodeOffset(s, n) \div 2) - 2048, 12), 20)
    [] format = "load" -> Shifted(Bits(DataOffset(s, n) - 2048, 12), 20) \cup Shifted(gp, 15)
    [] format = "S"    ->
         LET imm == Bits(DataOffset(s, n) - 2048, 12) IN
         Shifted(Field(imm, 0, 5), 7) \cup Shifted(Field(imm, 5, 7), 25) \cup Shifted(gp, 15)

Resolve(s, n) ==
  /\ pc = "translated"
  /\ labelOperand
  /\ FormatOf(textOpcode) \in {"SB", "load", "S"}
  /\ segment' = s
  /\ offset' = n
  /\ machineInstruction' = machineInstruction \cup ImmediateField(FormatOf(textOpcode), s, n)
  /\ pc' = "resolved"
  /\ UNCHANGED << textOpcode, operands, machineCodeSize, bits, labelOperand, said >>

Next ==
  \/ TranslateOpcode \/ DereferenceEnd
  \/ \E o \in Operand : TranslateOperand(o)
  \/ OperandMissing
  \/ BranchOperandMissing
  \/ \E s \in {"code", "data"}, n \in Offset : Resolve(s, n)

Spec == Init /\ [][Next]_vars

-----------------------------------------------------------------------------
(* Properties.                                                             *)

TypeOK ==
  /\ pc \in {"parse", "operand", "translated", "resolved", "crash"}
  /\ textOpcode \in Mnemonic
  /\ operands \in Seq(Operand) /\ Len(operands) <= 3
  /\ machineInstruction \subseteq 0 .. 31
  /\ machineCodeSize \in {0, 4}
  /\ bits \subseteq 0 .. 63
  /\ labelOperand \in BOOLEAN /\ said \in BOOLEAN
  /\ segment \in {"none", "code", "data"} /\ offset \in Offset \cup {0}

(* The opcode and funct3 of a word, from which pass 2 tells what to do with*)
(* it, are those of the table, however bad the operands of the statement   *)
(* were; without an entry the word is 0.                                   *)
InstructionKept ==
  pc \notin {"parse", "crash"} =>
    \A b \in InstructionBit :
      b \in machineInstruction <=>
        Known(textOpcode) /\ b \in Bits(Entry(textOpcode).base, 32)

(* A statement that nothing was said about and that sscanf reads as a      *)
(* whole.                                                                  *)
Accepted == pc \in {"translated", "resolved"} /\ ~ said
              /\ \A i \in 1 .. Len(operands) : operands[i].scan = "whole"
Reg(i) == Bits(operands[i].reg, 5)
InField(first, width, set) == Field(machineInstruction, first, width) = set
StoredOffset == Field(machineInstruction, 7, 5)
                  \cup Shifted(Field(machineInstruction, 25, 7), 5)

(* Every operand can be read back from its field of the word: no field is  *)
(* cut short, misplaced, or ORed over another one.  (A shift by more than  *)
(* 31 and a branch with an offset in figures are not covered.)             *)
FieldsRecovered ==
  Accepted /\ ~ labelOperand =>
    CASE FormatOf(textOpcode) = "R" ->
           InField(7, 5, Reg(1)) /\ InField(15, 5, Reg(2)) /\ InField(20, 5, Reg(3))
      [] FormatOf(textOpcode) = "I" ->
           /\ InField(7, 5, Reg(1)) /\ InField(15, 5, Reg(2))
           /\ InField(20, 12, Bits(operands[3].value, 12))
      [] FormatOf(textOpcode) = "shift" /\ operands[3].value \in 0 .. 31 ->
           /\ InField(7, 5, Reg(1)) /\ InField(15, 5, Reg(2))
           /\ InField(20, 5, Bits(operands[3].value, 5))
           /\ InField(25, 7, Field(Base(textOpcode), 25, 7))
      [] FormatOf(textOpcode) = "load" ->
           /\ InField(7, 5, Reg(1)) /\ InField(15, 5, Reg(2))
           /\ InField(20, 12, Bits(operands[2].value, 12))
      [] FormatOf(textOpcode) = "S" ->
           /\ InField(15, 5, Reg(1)) /\ InField(20, 5, Reg(2))
           /\ StoredOffset = Bits(operands[2].value, 12)
      [] OTHER -> TRUE

(* A branch to code, or a load of data, through a label: the word keeps    *)
(* the registers of pass 1 and has the immediate operand, and for a load   *)
(* the base register gp, of pass 2.                                        *)
LabelResolved ==
  Accepted /\ pc = "resolved" =>
    /\ FormatOf(textOpcode) = "SB" /\ segment = "code" =>
         /\ InField(15, 5, Reg(1)) /\ InField(7, 5, Reg(2))
         /\ InField(20, 12, Bits((offset \div 2) - 2048, 12))
    /\ FormatOf(textOpcode) = "load" /\ segment = "data" =>
         /\ InField(7, 5, Reg(1)) /\ InField(15, 5, gp)
         /\ InField(20, 12, Bits(offset - 2048, 12))
=============================================================================
