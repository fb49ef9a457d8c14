------------------------------- MODULE Source -------------------------------
(***************************************************************************)
(* Source lines, as far as class statement tells them apart, and the       *)
(* translation of a statement, as far as assem() does.                     *)
(*                                                                         *)
(* A line is its first column, the label in front of the colon, and the    *)
(* text that follows.  What a text can be translated to is a constant: a   *)
(* set of results, more than one for a text whose errors make the encoder  *)
(* use what earlier statements left in its members.                        *)
(***************************************************************************)
EXTENDS Symbols

CONSTANTS
  ISA,          (* "ecisc" or "riscv": the class behind *stmnt.            *)
  Text,         (* Statements: an opcode or a directive, and its operands. *)
  Translation,  (* What a statement can be translated to.                  *)
  Clip,         (* What is left of a statement without its first character.*)
  Mangle,       (* The statement a label, or a RISC-V comment behind one,  *)
                (* and the text on its line are mistaken for; it matters   *)
                (* whether there is a gap between the two.                 *)
  Line,         (* The lines a program is written with.                    *)
  MaxLines      (* Bound: the number of lines of a program.                *)

(* The text of a blank line and of a comment.                              *)
NoText == "none"
CommentText == "comment"
Blank == [col1 |-> "space", name |-> 0, gap |-> TRUE, text |-> NoText]

(* First column: white space, or a label up to a colon, one that badLabel()*)
(* accepts or not, or other text (or a comment) on a line without a colon. *)
(* gap: the text does not touch the colon.                                 *)
LineType ==
  [col1 : {"space", "label", "bad", "text"}, name : Name \cup {0}, gap : BOOLEAN,
   text : Text \cup {NoText, CommentText}]

(* A piece of machine code: bytes to copy, or (refs not empty) a marked    *)
(* label for pass 2.  op and reg matter to a marked RISC-V instruction: the*)
(* fields of the machine word that follows the mark.                       *)
Op == {"copy", "address", "branch", "load", "store", "jalr", "other"}

Piece ==
  [refs : {{}} \cup { {n} : n \in Name }, bytes : Nat, op : Op, reg : 0 .. 31]

(* What parse() leaves behind: isInstruction(), get_machineCodeSize(),     *)
(* get_machineCode(), and whether errorMessage() was called.               *)
Outcome == [instr : BOOLEAN, size : Nat, code : Seq(Piece), error : BOOLEAN]

ASSUME SourceAssumption ==
  /\ ISA \in {"ecisc", "riscv"}
  /\ NoText \notin Text /\ CommentText \notin Text
  /\ \A t \in Text :
       /\ Translation[t] # {} /\ Translation[t] \subseteq Outcome
       /\ \A o, u \in Translation[t] : o.instr = u.instr
       /\ \A o \in Translation[t] : \A p \in Range(o.code) :
            p.refs # {} => o.instr /\ (p.op = "address" <=> ISA = "ecisc")
  /\ Clip \in [Text -> Text \cup {NoText}]
  /\ Mangle \in [(Text \cup {NoText, CommentText}) \X BOOLEAN -> Text]
  /\ Line \subseteq LineType
  /\ \A line \in Line :
       /\ line.col1 = "text" => line.text # NoText
       /\ line.col1 \in {"label", "bad"} => line.name \in Name
  /\ Blank \in LineType
  /\ MaxLines \in Nat

(* isComment(start_pos).  The ECISC method looks at what follows start_pos,*)
(* which is column 1 or (afterColon) the end of the label; the RISC-V      *)
(* method ignores its argument and always starts in column 1.              *)
IsComment(line, afterColon) ==
  /\ line.text \in {NoText, CommentText}
  /\ line.col1 \in {"space", "text"} \/ (afterColon /\ ISA = "ecisc")

(* The text parse() finds behind endLabel, which is either the start of    *)
(* the line, whose first character parse() always skips, or its colon.     *)
TextAfter(line, endLabel) ==
  CASE endLabel = "colon" /\ line.text = NoText      -> NoText
    [] endLabel = "colon" /\ line.text = CommentText -> Mangle[<< line.text, line.gap >>]
    [] endLabel = "colon" /\ line.text \in Text      ->
         IF line.gap THEN line.text ELSE Clip[line.text]
    [] endLabel = "start" /\ line.col1 = "space"     -> line.text
    [] endLabel = "start" /\ line.col1 = "text"      -> Clip[line.text]
    [] OTHER                                         -> Mangle[<< line.text, line.gap >>]
=============================================================================
