------------------------------ MODULE MCEcisc ------------------------------
(***************************************************************************)
(* Instance of Assem for TLC: small ECISC programs.                        *)
(*                                                                         *)
(* The texts: a move that refers to two labels, an instruction without     *)
(* operands, a byte of data, and what is left of them when the reader      *)
(* mistakes one text for another: an opcode that is not in the table, for  *)
(* which one stale byte is written and not counted, and operands, which    *)
(* are translated all the same, at the data size of an earlier statement.  *)
(***************************************************************************)
EXTENDS Image

MCName == 1 .. 3

Lit(k) == [refs |-> {}, bytes |-> k, op |-> "copy", reg |-> 0]
Ref(n) == [refs |-> {n}, bytes |-> 4, op |-> "address", reg |-> 0]

Instr(size, code) == { [instr |-> TRUE, size |-> size, code |-> code, error |-> FALSE] }
Junk(size, code) == { [instr |-> TRUE, size |-> size, code |-> code, error |-> TRUE] }

MCText == {"movl 2, 1", "ret", ".int8 5", "junk", "junk 2, 1", "junk 5", "junk movl, 2, 1",
           "junk ret", "junk .int8, 5"}
MCTranslation == [t \in MCText |->
  CASE t = "movl 2, 1"       -> Instr(11, << Lit(2), Ref(2), Lit(1), Ref(1) >>)
    [] t = "ret"             -> Instr(3, << Lit(3) >>)
    [] t = ".int8 5"         -> { [instr |-> FALSE, size |-> 1, code |-> << Lit(1) >>,
                                   error |-> FALSE] }
    [] t = "junk"            -> Junk(0, << Lit(1) >>)
    [] t = "junk 2, 1"       -> Junk(10, << Lit(2), Ref(2), Lit(1), Ref(1) >>)
    [] t = "junk 5"          -> Junk(2, << Lit(3) >>) \cup Junk(5, << Lit(6) >>)
    [] t = "junk movl, 2, 1" -> Junk(15, << Lit(2), Ref(3), Lit(1), Ref(2), Lit(1), Ref(1) >>)
    [] t = "junk ret"        -> Junk(5, << Lit(2), Ref(3) >>)
    [] t = "junk .int8, 5"   -> Junk(5, << Lit(7) >>) \cup Junk(2, << Lit(3), Lit(1) >>)]

(* One character less: the opcode is none any more.                        *)
MCClip == [t \in MCText |->
  CASE t = "movl 2, 1" -> "junk 2, 1"
    [] t = ".int8 5"   -> "junk 5"
    [] t = "ret"       -> "junk"
    [] OTHER           -> t]

(* The label is taken for an opcode, and, if there is a gap between the    *)
(* two, the opcode for its first operand.                                  *)
MCMangle == [t \in MCText \cup {NoText, CommentText}, gap \in BOOLEAN |->
  CASE t \in {NoText, CommentText} -> "junk"
    [] t \in MCText /\ ~ gap       -> MCClip[t]
    [] t = "movl 2, 1" /\ gap      -> "junk movl, 2, 1"
    [] t = "ret" /\ gap            -> "junk ret"
    [] t = ".int8 5" /\ gap        -> "junk .int8, 5"
    [] OTHER                       -> t]

Plain(t) == [col1 |-> "space", name |-> 0, gap |-> TRUE, text |-> t]
Labels(n, t) == [col1 |-> "label", name |-> n, gap |-> TRUE, text |-> t]

(* Lines of all kinds.                                                     *)
AllLines ==
  { Plain(t) : t \in {"movl 2, 1", "ret", CommentText} }
    \cup { Labels(1, "ret"), Labels(1, NoText), Labels(1, ".int8 5"), Labels(2, ".int8 5"),
           [col1 |-> "bad",  name |-> 2, gap |-> FALSE, text |-> ".int8 5"],
           [col1 |-> "text", name |-> 0, gap |-> TRUE,  text |-> "ret"],
           [col1 |-> "text", name |-> 0, gap |-> TRUE,  text |-> CommentText] }
=============================================================================
