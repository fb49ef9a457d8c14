--------------------------- MODULE MCEciscEncoder ---------------------------
(***************************************************************************)
(* Instance of EciscEncoder for TLC: an opcode of each data size, "ret"    *)
(* and opcodes that are not in the table; an operand of each form,         *)
(* registers and values at and beyond the limits of their fields, and      *)
(* operands that sscanf reads in part (3.14) or not at all (-(R5), $0x10,  *)
(* label(0x10)).                                                           *)
(***************************************************************************)
EXTENDS EciscEncoder

(* In lexical order, with one behind all of the table.                     *)
movb == 1
movl == 2
movq == 3
movs == 4
nop == 5
MCRET == 6
zzz == 7
MCMnemonic == 1 .. 7
MCInitTable ==
  << [assem |-> movb, bin |-> \h10], [assem |-> movs, bin |-> \h11],
     [assem |-> movl, bin |-> OP_MOVL], [assem |-> movq, bin |-> \h13],
     [assem |-> MCRET, bin |-> OP_MOVL] >>

Reg(form, reg) == [form |-> form, reg |-> reg, scan |-> "whole", value |-> 0, text |-> ""]
Val(form, value) == [form |-> form, reg |-> 0, scan |-> "whole", value |-> value, text |-> ""]
Lab(form, text) == [form |-> form, reg |-> 0, scan |-> "whole", value |-> 0, text |-> text]

MCOperand ==
  { Reg("direct", 15), Reg("direct", 65), Reg("increment", 15), Reg("increment", 0),
    [Reg("decrement", 5) EXCEPT !.scan = "none"],
    [Reg("label_offset", 1) EXCEPT !.text = "ch"],
    [Reg("numeric_offset", 1) EXCEPT !.text = "4", !.value = 4],
    Lab("memory", "num"), Lab("address_of", "ch"),
    Val("immediate", 5), Val("immediate", 300), Val("immediate_address", 4096),
    [Val("immediate", 3) EXCEPT !.scan = "part"], [Val("immediate", 16) EXCEPT !.scan = "none"],
    [Val("immediate_address", 16) EXCEPT !.scan = "none"],
    Val("invalid", 0) }
MCGarbage == {15, 64}
=============================================================================
