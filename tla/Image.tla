------------------------------- MODULE Image -------------------------------
(***************************************************************************)
(* What assem() has to produce, read off the program: which line a label   *)
(* belongs to, where a statement goes, and the image of a whole program.   *)
(* Nothing here looks at how the two passes work.                          *)
(***************************************************************************)
EXTENDS Assem, FiniteSets, Sums

Lines == 1 .. Len(program)

LinesOf(n) == { i \in Lines : program[i].col1 \in {"label", "bad"} /\ program[i].name = n }
IsStatement(i) == program[i].text \in Text

(* Its translation: the only one, in a well-formed program.                *)
Translated(i) == CHOOSE o \in Translation[program[i].text] : TRUE
IsInstruction(i) == IsStatement(i) /\ Translated(i).instr
SizeOf(i) == Translated(i).size

(* The statement a label belongs to: the one on its own line, or the next. *)
Labelled(i) == { j \in Lines : j >= i /\ IsStatement(j)
                                /\ \A k \in i .. j - 1 : ~ IsStatement(k) }

(* There is such a statement, and no other label on the way to it.         *)
Bound(i) ==
  \E j \in Labelled(i) : \A k \in i + 1 .. j : program[k].col1 \notin {"label", "bad"}

(* Code comes first, in the order of the source, and the data after it.    *)
CodeLines == { i \in Lines : IsInstruction(i) }
DataLines == { i \in Lines : IsStatement(i) /\ ~ IsInstruction(i) }
SizeBefore(i, lines) == Total([j \in 1 .. i - 1 |-> IF j \in lines THEN SizeOf(j) ELSE 0])
AddressOf(i) == IF IsInstruction(i) THEN SizeBefore(i, CodeLines)
                ELSE SizeBefore(Len(program) + 1, CodeLines) + SizeBefore(i, DataLines)

-----------------------------------------------------------------------------
(* The programs the description of the language allows.                    *)

(* Text in column 1 is a label or a comment, labels do not touch the text, *)
(* each is defined once, and what follows it, after comments, is a         *)
(* statement without another label (on the same line, in RISC-V).          *)
WellFormedLine(i) ==
  LET l == program[i] IN
  /\ l.col1 \in {"space", "label"} \/ IsComment(l, FALSE)
  /\ IsStatement(i) => l.gap /\ Translation[l.text] = {Translated(i)} /\ ~ Translated(i).error
  /\ l.col1 = "label" =>
       /\ LinesOf(l.name) = {i}
       /\ Bound(i)
       /\ ISA = "riscv" => IsStatement(i)

Refs(i) == Range(Translated(i).code)
Referenced == UNION { UNION { p.refs : p \in Refs(i) } : i \in CodeLines }

(* A reference that assem() accepts: any in ECISC, in RISC-V a branch to   *)
(* code below 8192 and a load or store of data within reach of gp.         *)
Encodable(op, i) ==
  CASE op = "address"           -> TRUE
    [] op = "branch"            -> IsInstruction(i) /\ AddressOf(i) < 8192
    [] op \in {"load", "store"} ->
         ~ IsInstruction(i) /\ SizeBefore(i, DataLines) < 4096
    [] OTHER                    -> FALSE

(* A comment in column 1 of an unfinished last line is taken for a label.  *)
WellFormed ==
  /\ terminated \/ \A i \in Lines : i = Len(program) => program[i].col1 # "text"
  /\ \A i \in Lines : WellFormedLine(i)
  /\ \A i \in CodeLines : \A p \in Refs(i) : \A n \in p.refs :
       \E d \in LinesOf(n) : \E j \in Labelled(d) : Encodable(p.op, j)
  \* Names are looked up among the labels of code first: there must be one.
  /\ Referenced # {} => \E n \in Name : \E d \in LinesOf(n) : Labelled(d) \cap CodeLines # {}

-----------------------------------------------------------------------------
(* The image of a well-formed program.                                     *)

TargetOf(n) == CHOOSE j \in UNION { Labelled(d) : d \in LinesOf(n) } : TRUE

(* Where the assembler's own comments contradict what it writes, the image *)
(* leaves it open: the operand of a branch (the property BranchesHitLabels)*)
(* and the base register of a store, which is gp ORed over the register to *)
(* be stored (plasm.cc:324 and riscv.cc:418 say gp).                       *)
Settled(p) ==
  CASE p.op = "branch" -> [p EXCEPT !.value = {}]
    [] p.op = "store"  -> [p EXCEPT !.base = 0]
    [] OTHER           -> p

(* The address of statement j, or the operand that reaches it from gp, 2048*)
(* past the start of the data.                                             *)
ValueOf(op, j) ==
  CASE op = "address" -> {AddressOf(j)}
    [] op = "branch"  -> {}
    [] OTHER          -> {(SizeBefore(j, DataLines) + 2048) % 4096}
BaseOf(p) ==
  CASE p.op = "branch" -> p.reg
    [] p.op = "load"   -> 3
    [] OTHER           -> 0

Resolved(p, n) ==
  [refs |-> {n}, bytes |-> 4, op |-> p.op, value |-> ValueOf(p.op, TargetOf(n)),
   base |-> BaseOf(p)]

SettledRow(r) == [r EXCEPT !.code = [k \in 1 .. Len(r.code) |-> Settled(r.code[k])]]

PieceOf(p) == IF p.refs = {} THEN Copied(p) ELSE Resolved(p, CHOOSE n \in p.refs : TRUE)
PiecesOf(code) == [k \in 1 .. Len(code) |-> PieceOf(code[k])]

ImageOf(i) == [offset |-> AddressOf(i), code |-> PiecesOf(Translated(i).code), line |-> i]

-----------------------------------------------------------------------------
(* Safety.                                                                 *)

(* For a well-formed program the output of the two passes is the image     *)
(* read off its source: code then data, every statement at the address the *)
(* sizes before it add up to, every reference at the label's statement, but*)
(* for what Settled leaves open.                                           *)
ImageIsRight ==
  pc = "done" /\ WellFormed =>
    LET rows    == [i \in CodeLines \cup DataLines |-> ImageOf(i)]
        settled == [i \in 1 .. Len(outfile) |-> SettledRow(outfile[i])] IN
    /\ Range(settled) = Range(rows)
    /\ Len(outfile) = Cardinality(CodeLines \cup DataLines)
    /\ \A i, j \in 1 .. Len(outfile) : i < j =>
         \/ IsInstruction(outfile[i].line) /\ ~ IsInstruction(outfile[j].line)
         \/ /\ IsInstruction(outfile[i].line) = IsInstruction(outfile[j].line)
            /\ outfile[i].line < outfile[j].line

(* A well-formed program is assembled: no crash, no message.               *)
WellFormedIsAccepted ==
  WellFormed => pc # "crash" /\ messages = {} /\ complaints = {}

Names(table) == { s.name : s \in Range(table) }

(* The references that are promised to be resolved: the addresses of ECISC,*)
(* and a load whose label is one of data.  Of the first offset that is out *)
(* of reach nothing is said: it passes the test, and wraps to 0.           *)
InReach(p, n) ==
  \/ p.op = "address" /\ ISA = "ecisc"
  \/ /\ p.op = "load"
     /\ n \in Names(dataSymTable) \ Names(codeSymTable)
     /\ [name |-> n, offset |-> 4096] \notin Range(dataSymTable)

(* Whatever the program, well formed or not: an address (ECISC) or a load  *)
(* (RISC-V) that is resolved without complaint points at the row of a      *)
(* statement that the label it names belongs to, if its labels have        *)
(* statements of their own.                                                *)
RefsHitLabels ==
  pc = "done" =>
    \A r \in Range(outfile) : \A p \in Range(r.code) : \A n \in p.refs :
      /\ InReach(p, n)
      /\ \A c \in complaints : c.name # n
      /\ \A d \in LinesOf(n) : Bound(d)
      =>
        \E target \in Range(outfile) :
          /\ target.offset \in PointsTo(p, r.offset)
          /\ \E d \in LinesOf(n) : target.line \in Labelled(d)

(* What the comment at plasm.cc:283-285 says of branches, in a well-formed *)
(* program: the offset stored is PC-relative, and half of what the branch  *)
(* jumps by.                                                               *)
BranchesHitLabels ==
  pc = "done" /\ WellFormed =>
    \A r \in Range(outfile) : \A p \in Range(r.code) : \A n \in p.refs :
      p.op = "branch" => PointsTo(p, r.offset) = {AddressOf(TargetOf(n))}

(* Pass 2 reports as undefined exactly the names that the code refers to   *)
(* and no symbol table has.                                                *)
UndefinedExactly ==
  pc = "done" =>
    { c.name : c \in { d \in complaints : d.what = "undefined" } } =
      (UNION { UNION { p.refs : p \in Range(r.code) } : r \in Range(codePass1File) })
        \ (Names(codeSymTable) \cup Names(dataSymTable))

(* A message about a statement gives the number of the line it stands on;  *)
(* those about a label or a missing colon come before the lines are added. *)
ErrorLineRight ==
  \A m \in messages : m.what = "in_statement" => m.line = m.about

-----------------------------------------------------------------------------
(* Liveness.                                                               *)

(* Both passes come to an end.                                             *)
Terminates == <>(pc \in {"done", "crash"})
=============================================================================
