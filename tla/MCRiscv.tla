------------------------------ MODULE MCRiscv ------------------------------
(***************************************************************************)
(* Instance of Assem for TLC: small RISC-V programs.                       *)
(*                                                                         *)
(* The texts: instructions that refer to a label in each way pass 2 knows  *)
(* (branch, load, store) and in the two it is left with after an operand   *)
(* was refused (jalr, any other), an instruction without label, data of 1  *)
(* and of 4097 bytes, and an opcode that is not in the table (a machine    *)
(* word of zeros that is not counted).                                     *)
(***************************************************************************)
EXTENDS Image

MCName == 1 .. 3

Marks(op, n, reg) == << [refs |-> {n}, bytes |-> 4, op |-> op, reg |-> reg] >>
Lit(k) == << [refs |-> {}, bytes |-> k, op |-> "copy", reg |-> 0] >>
Instr(code, error) == { [instr |-> TRUE, size |-> 4, code |-> code, error |-> error] }
Data(size) == { [instr |-> FALSE, size |-> size, code |-> Lit(size), error |-> FALSE] }

MCText == {"add", "beq 1", "lw 2", "sd 2", "jalr 3", "and 2", "int8", "block+", "junk"}
MCTranslation == [t \in MCText |->
  CASE t = "add"    -> Instr(Lit(4), FALSE)
    [] t = "beq 1"  -> Instr(Marks("branch", 1, 0), FALSE)
    [] t = "lw 2"   -> Instr(Marks("load", 2, 0), FALSE)
    [] t = "sd 2"   -> Instr(Marks("store", 2, 4), FALSE)
    [] t = "jalr 3" -> Instr(Marks("jalr", 3, 0), TRUE)
    [] t = "and 2"  -> Instr(Marks("other", 2, 0), TRUE)
    [] t = "int8"   -> Data(1)
    [] t = "block+" -> Data(4097)
    [] t = "junk"   -> { [instr |-> TRUE, size |-> 0, code |-> Lit(4), error |-> TRUE] }]

MCClip == [t \in MCText |-> "junk"]
MCMangle == [t \in MCText \cup {NoText, CommentText}, gap \in BOOLEAN |-> "junk"]

Plain(t) == [col1 |-> "space", name |-> 0, gap |-> TRUE, text |-> t]
Labels(n, t) == [col1 |-> "label", name |-> n, gap |-> TRUE, text |-> t]

(* Lines of all kinds but labels on a line of their own.                   *)
AllLines ==
  { Plain(t) : t \in {"beq 1", "lw 2", "sd 2", "jalr 3", "and 2", "junk", CommentText} }
    \cup { Labels(1, "add"), Labels(2, "int8"), Plain("block+"),
           [col1 |-> "bad",  name |-> 3, gap |-> FALSE, text |-> "int8"] }

(* A label on a line of its own, in front of data.                         *)
LabelAloneLines ==
  { Labels(1, "add"), Labels(2, NoText), Plain("int8"), Plain("lw 2") }
=============================================================================
