--------------------------- MODULE MCRiscvEncoder ---------------------------
(***************************************************************************)
(* Instance of RiscvEncoder for TLC: opcodes of each format, one with bits *)
(* of its own in the field of an operand (srai), one the switch does not   *)
(* know (jal) and two that are not in the table; operands of each form, at *)
(* and beyond the limits of their fields, and some that sscanf reads in    *)
(* part (3.14) or not at all (X5, 4(X5), $0x10).                           *)
(***************************************************************************)
EXTENDS RiscvEncoder

(* In lexical order, with one behind all of the table.                     *)
addi == 1
bgeu == 2
jal == 3
lw == 4
nop == 5
sd == 6
srai == 7
sub == 8
zzz == 9
MCMnemonic == 1 .. 9
Defines(mn, base, format) == [assem |-> mn, base |-> base, format |-> format]
MCInitTable ==
  << Defines(sub, \h40000033, "R"), Defines(lw, \h2003, "load"), Defines(addi, \h13, "I"),
     Defines(srai, \h40005013, "shift"), Defines(sd, \h3023, "S"), Defines(bgeu, \h7063, "SB"),
     Defines(jal, \h6f, "other") >>

Op(form, reg, value) == [form |-> form, reg |-> reg, scan |-> "whole", value |-> value]

MCOperand ==
  { Op("register", r, 0) : r \in {0, 4, 21, 31, 40} }
    \cup { Op("offset", r, v) : r \in {10, 31}, v \in {-2048, -1, 1365, 2047, 2048} }
    \cup { Op("immediate", 0, v) : v \in {-2048, -1, 21, 2047, 2048} }
    \cup { Op(f, 0, 0) : f \in {"indirect", "label", "float", "invalid"} }
    \cup { [o EXCEPT !.scan = "none"] :
              o \in {Op("register", 5, 0), Op("offset", 5, 4), Op("immediate", 0, 16)} }
    \cup { [Op("immediate", 0, 3) EXCEPT !.scan = "part"] }
MCGarbage == {0, 17, 1000}
MCGarbageInt == {-1, 1365, 2048}
MCOffset == {0, 4, 2730, 4095, 4096}
=============================================================================
