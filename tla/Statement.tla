----------------------------- MODULE Statement -----------------------------
(***************************************************************************)
(* The reader of class statement (statement.cc): read() collects the label *)
(* and the source line of the next statement, parse() translates it.  Both *)
(* are called from the loop of pass 1 in assem(), modelled in Assem.       *)
(*                                                                         *)
(* One step is one getline() with what follows it, up to the next.         *)
(***************************************************************************)
EXTENDS Source

VARIABLES
  pc,             (* Where assem() is.                                     *)
  program,        (* The source file: its lines, all of them.              *)
  terminated,     (* The last line ends with a newline.                    *)
  pos,            (* Lines read so far: the number of the last one.        *)
  sourceCode,     (* The last line read.                                   *)
  label,          (* A set of at most one name: empty for "".              *)
  endLabel,       (* "start" of the line, or its "colon".                  *)
  sourceLines,    (* Lines of this statement, as read() counts them.       *)
  sourceLine,     (* TranslationUnit's line number.                        *)
  isAnInstruction,
  parseStatus,    (* Set to STATEMENT_OK by parse(), and to nothing else.  *)
  machineCodeSize,
  machineCode,
  messages        (* errorMessage(): what, the line number it prints, and  *)
                  (* the number of the line it is about.                   *)

readVars == << pos, sourceCode, label, endLabel, sourceLines >>
parseVars == << isAnInstruction, parseStatus, machineCodeSize, machineCode >>
statementVars ==
  << pc, program, terminated, sourceLine, messages, readVars, parseVars >>

Message == [what : {"bad_label", "missing_colon", "in_statement"}, line : Nat, about : Nat]

(* The members of *stmnt that no constructor sets start as anything.       *)
StatementInit ==
  /\ pc = "begin"
  /\ program \in UNION { [1 .. n -> Line] : n \in 0 .. MaxLines }
  /\ terminated \in BOOLEAN
  /\ pos = 0
  /\ sourceCode = Blank
  /\ label = {}
  /\ endLabel = "start"
  /\ sourceLines = 0
  /\ sourceLine = 0
  /\ isAnInstruction \in BOOLEAN
  /\ parseStatus = "STATEMENT_OK"
  /\ machineCodeSize = 0
  /\ machineCode = << >>
  /\ messages = {}

-----------------------------------------------------------------------------
(* read().                                                                 *)

More == pos < Len(program)
NextLine == program[pos + 1]

Report(what, about) ==
  messages' = messages \cup {[what |-> what, line |-> sourceLine, about |-> about]}

(* Fault: a line is lost to a second getline().                            *)
GetLine_Twice ==
  /\ More
  /\ pos' = pos + 2
  /\ sourceCode' = NextLine

(* getline() with a line left to read.                                     *)
GetLine ==
  /\ More
  /\ pos' = pos + 1
  /\ sourceCode' = NextLine

BeginRead ==
  /\ pc = "begin"
  /\ pc' = "read"
  /\ sourceLines' = 0
  /\ endLabel' = "start"
  /\ label' = {}
  /\ UNCHANGED << program, terminated, pos, sourceCode, sourceLine, messages, parseVars >>

(* Fault: a comment is not counted.                                        *)
ReadComment_NotCounted ==
  /\ pc = "read"
  /\ GetLine
  /\ IsComment(NextLine, FALSE)
  /\ UNCHANGED << pc, program, terminated, label, endLabel, sourceLines, sourceLine,
                  messages, parseVars >>

(* Fault: the loop tests the line it has, and never reads on.              *)
ReadComment_Again ==
  /\ pc = "read"
  /\ More
  /\ IsComment(NextLine, FALSE)
  /\ sourceCode' = NextLine
  /\ UNCHANGED << pc, program, terminated, pos, label, endLabel, sourceLines, sourceLine,
                  messages, parseVars >>

ReadComment ==
  /\ pc = "read"
  /\ GetLine
  /\ IsComment(NextLine, FALSE)
  /\ sourceLines' = sourceLines + 1
  /\ UNCHANGED << pc, program, terminated, label, endLabel, sourceLine, messages, parseVars >>

(* A line without a label: white space in column 1, or a missing colon,    *)
(* for which find() returns npos and ++endLabel makes that 0.              *)
ReadUnlabelled ==
  /\ pc = "read"
  /\ GetLine
  /\ ~ IsComment(NextLine, FALSE)
  /\ \/ NextLine.col1 = "space" /\ UNCHANGED messages
     \/ NextLine.col1 = "text"  /\ Report("missing_colon", pos + 1)
  /\ pc' = "return"
  /\ sourceLines' = sourceLines + 1
  /\ UNCHANGED << program, terminated, label, endLabel, sourceLine, parseVars >>

(* Fault: the statement is always looked for on the line of the label.     *)
ReadLabel_NoSkip ==
  /\ pc = "read"
  /\ GetLine
  /\ NextLine.col1 \in {"label", "bad"}
  /\ label' = {NextLine.name}
  /\ endLabel' = "colon"
  /\ IF NextLine.col1 = "bad" THEN Report("bad_label", pos + 1) ELSE UNCHANGED messages
  /\ pc' = "return"
  /\ sourceLines' = sourceLines + 1
  /\ UNCHANGED << program, terminated, sourceLine, parseVars >>

(* A line with a label.  A bad one is reported and kept.  When nothing but *)
(* a comment follows the colon, read() goes on to the next line.           *)
ReadLabel ==
  /\ pc = "read"
  /\ GetLine
  /\ NextLine.col1 \in {"label", "bad"}
  /\ label' = {NextLine.name}
  /\ endLabel' = "colon"
  /\ IF NextLine.col1 = "bad" THEN Report("bad_label", pos + 1) ELSE UNCHANGED messages
  /\ IF IsComment(NextLine, TRUE)
     THEN pc' = "skip"   /\ UNCHANGED sourceLines
     ELSE pc' = "return" /\ sourceLines' = sourceLines + 1
  /\ UNCHANGED << program, terminated, sourceLine, parseVars >>

(* Fault: the loop tests the line it has, and never reads on.              *)
SkipComment_Again ==
  /\ pc = "skip"
  /\ More
  /\ IsComment(NextLine, FALSE)
  /\ sourceCode' = NextLine
  /\ endLabel' = "start"
  /\ UNCHANGED << pc, program, terminated, pos, label, sourceLines, sourceLine, messages,
                  parseVars >>

(* Skip forward to the next line that is not a comment.  The lines skipped *)
(* are not counted, and a label on the line found is not looked for.       *)
SkipComment ==
  /\ pc = "skip"
  /\ GetLine
  /\ IsComment(NextLine, FALSE)
  /\ endLabel' = "start"
  /\ UNCHANGED << pc, program, terminated, label, sourceLines, sourceLine, messages, parseVars >>

SkipToStatement ==
  /\ pc = "skip"
  /\ GetLine
  /\ ~ IsComment(NextLine, FALSE)
  /\ endLabel' = "start"
  /\ pc' = "return"
  /\ sourceLines' = sourceLines + 1
  /\ UNCHANGED << program, terminated, label, sourceLine, messages, parseVars >>

(* No line is left: getline() fails and so does read(), whatever label it  *)
(* has found, and pass 1 is over.  After a last line with a newline        *)
(* getline() empties sourceCode, otherwise it leaves it as it was; then,   *)
(* outside the skipping loop, the line, even a comment, is searched for a  *)
(* label once more.                                                        *)
ReadEnd ==
  /\ pc \in {"read", "skip"}
  /\ ~ More
  /\ LET again == pc = "read" /\ ~ terminated IN
     /\ sourceCode' = IF terminated THEN Blank ELSE sourceCode
     /\ label' = IF again /\ sourceCode.col1 \in {"label", "bad"}
                 THEN {sourceCode.name} ELSE label
     /\ CASE again /\ sourceCode.col1 = "bad"  -> Report("bad_label", pos)
          [] again /\ sourceCode.col1 = "text" -> Report("missing_colon", pos)
          [] OTHER                             -> UNCHANGED messages
  /\ pc' = "sort"
  /\ sourceLines' = sourceLines + 1
  /\ UNCHANGED << program, terminated, pos, endLabel, sourceLine, parseVars >>

(* read() has returned a statement: assem() counts its lines.              *)
CountLines ==
  /\ pc = "return"
  /\ sourceLine' = sourceLine + sourceLines
  /\ pc' = IF IsComment(sourceCode, FALSE) THEN "begin" ELSE "parse"
  /\ UNCHANGED << program, terminated, readVars, messages, parseVars >>

-----------------------------------------------------------------------------
(* parse().  Without a text behind endLabel it returns before it has       *)
(* decided whether this is an instruction.                                 *)
Parse ==
  /\ pc = "parse"
  /\ pc' = "emit"
  /\ parseStatus' = "STATEMENT_OK"
  /\ LET text == TextAfter(sourceCode, endLabel) IN
     IF text = NoText
     THEN /\ machineCodeSize' = 0
          /\ machineCode' = << >>
          /\ UNCHANGED << isAnInstruction, messages >>
     ELSE \E result \in Translation[text] :
            /\ machineCodeSize' = result.size
            /\ machineCode' = result.code
            /\ isAnInstruction' = result.instr
            /\ IF result.error THEN Report("in_statement", pos) ELSE UNCHANGED messages
  /\ UNCHANGED << program, terminated, readVars, sourceLine >>

ReadNext ==
  \/ BeginRead
  \/ ReadComment \/ ReadUnlabelled \/ ReadLabel
  \/ SkipComment \/ SkipToStatement
  \/ ReadEnd
  \/ CountLines
  \/ Parse

-----------------------------------------------------------------------------
StatementTypeOK ==
  /\ program \in Seq(Line) /\ Len(program) <= MaxLines
  /\ terminated \in BOOLEAN
  /\ pos \in 0 .. Len(program)
  /\ sourceCode \in Line \cup {Blank}
  /\ label \in {{}} \cup { {n} : n \in Name }
  /\ endLabel \in {"start", "colon"}
  /\ sourceLines \in Nat /\ sourceLine \in Nat
  /\ isAnInstruction \in BOOLEAN
  /\ parseStatus = "STATEMENT_OK"
  /\ machineCodeSize \in Nat
  /\ machineCode \in Seq(Piece)
  /\ messages \subseteq Message
=============================================================================
