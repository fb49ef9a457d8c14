------------------------------- MODULE Assem -------------------------------
(***************************************************************************)
(* assem() (plasm.cc): the two passes of the assembler.  Pass 1 reads and  *)
(* translates the statements, writes code and data to two files, marking   *)
(* the labels used, and collects the labels defined.  Pass 2 copies both   *)
(* files to the output, code first, replacing each marked label.           *)
(*                                                                         *)
(* Looking a name up is one step here: class SymTable implements the map   *)
(* SymMap, which answers with some definition of the name (ImplementsMap   *)
(* in SymTable), except that a lookup in an empty table crashes.           *)
(***************************************************************************)
EXTENDS Statement

VARIABLES
  codeOffset, dataOffset,       (* TranslationUnit's running offsets.      *)
  codePass1File, dataPass1File, (* The files of pass 1, a row a statement. *)
  codeSymTable, dataSymTable,   (* Vectors of symbols.                     *)
  assemStatus,                  (* The exit status.                        *)
  row,                          (* Rows of the current file copied so far. *)
  todo,                         (* Pieces of the current row still to copy.*)
  outfile,                      (* The image, row by row.                  *)
  complaints                    (* What pass 2 has said on stderr.         *)

pass1Vars == << codeOffset, dataOffset, codePass1File, dataPass1File, assemStatus >>
tableVars == << codeSymTable, dataSymTable >>
pass2Vars == << row, todo, outfile, complaints >>
vars == << statementVars, pass1Vars, tableVars, pass2Vars >>

(* A symbol: a label and its offset in its segment.                        *)
Symbol == [name : Name, offset : Nat]

(* A row: the offset in front, the machine code, and the line listed.      *)
Row == [offset : Nat, code : Seq(Piece), line : Nat]

(* What pass 2 puts in the place of a piece: bytes, the address or the     *)
(* immediate operand written there, and the base register it is added to.  *)
(* refs, the label replaced, is not printed: it is kept for the properties.*)
OutPiece ==
  [refs : {{}} \cup { {n} : n \in Name }, bytes : Nat, op : Op,
   value : SUBSET Nat, base : 0 .. 31]
OutRow == [offset : Nat, code : Seq(OutPiece), line : Nat]

Complaint == [what : {"undefined", "branch_8192", "data_4096", "unsupported"}, name : Name]

Init ==
  /\ StatementInit
  /\ codeOffset = 0 /\ dataOffset = 0
  /\ codePass1File = << >> /\ dataPass1File = << >>
  /\ codeSymTable = << >> /\ dataSymTable = << >>
  /\ assemStatus = "EX_OK"
  /\ row = 0
  /\ todo = << >>
  /\ outfile = << >>
  /\ complaints = {}

-----------------------------------------------------------------------------
(* Pass 1.                                                                 *)

ReadStatement == ReadNext /\ UNCHANGED << pass1Vars, tableVars, pass2Vars >>

(* addLabel(), if the statement has a label.                               *)
WithLabel(table, offset) ==
  table \o IF label = {} THEN << >>
           ELSE << [name |-> CHOOSE n \in label : TRUE, offset |-> offset] >>

EmitStatus ==
  assemStatus' = IF parseStatus = "STATEMENT_OK" THEN assemStatus ELSE "EX_DATAERR"

(* Fault: the label is added after the offset has moved on.                *)
EmitCode_LateLabel ==
  /\ pc = "emit"
  /\ isAnInstruction
  /\ codePass1File' =
       Append(codePass1File, [offset |-> codeOffset, code |-> machineCode, line |-> pos])
  /\ codeOffset' = codeOffset + machineCodeSize
  /\ codeSymTable' = WithLabel(codeSymTable, codeOffset')
  /\ EmitStatus
  /\ pc' = "begin"
  /\ UNCHANGED << program, terminated, sourceLine, messages, readVars, parseVars,
                  dataOffset, dataPass1File, dataSymTable, pass2Vars >>

EmitCode ==
  /\ pc = "emit"
  /\ isAnInstruction
  /\ codeSymTable' = WithLabel(codeSymTable, codeOffset)
  /\ codePass1File' =
       Append(codePass1File, [offset |-> codeOffset, code |-> machineCode, line |-> pos])
  /\ codeOffset' = codeOffset + machineCodeSize
  /\ EmitStatus
  /\ pc' = "begin"
  /\ UNCHANGED << program, terminated, sourceLine, messages, readVars, parseVars,
                  dataOffset, dataPass1File, dataSymTable, pass2Vars >>

EmitData ==
  /\ pc = "emit"
  /\ ~ isAnInstruction
  /\ dataSymTable' = WithLabel(dataSymTable, dataOffset)
  /\ dataPass1File' =
       Append(dataPass1File, [offset |-> dataOffset, code |-> machineCode, line |-> pos])
  /\ dataOffset' = dataOffset + machineCodeSize
  /\ EmitStatus
  /\ pc' = "begin"
  /\ UNCHANGED << program, terminated, sourceLine, messages, readVars, parseVars,
                  codeOffset, codePass1File, codeSymTable, pass2Vars >>

SortTables ==
  /\ pc = "sort"
  /\ codeSymTable' \in SortsOf(codeSymTable)
  /\ dataSymTable' \in SortsOf(dataSymTable)
  /\ pc' = IF assemStatus = "EX_OK" THEN "code" ELSE "done"
  /\ UNCHANGED << program, terminated, sourceLine, messages, readVars, parseVars,
                  pass1Vars, pass2Vars >>

-----------------------------------------------------------------------------
(* Pass 2, the code: one step per piece of a row.                          *)

pass2Fixed ==
  << program, terminated, sourceLine, messages, readVars, parseVars, pass1Vars, tableVars >>

NextCodeRow ==
  /\ pc = "code"
  /\ todo = << >>
  /\ row < Len(codePass1File)
  /\ LET r == codePass1File[row + 1] IN
     /\ outfile' = Append(outfile, [offset |-> r.offset, code |-> << >>, line |-> r.line])
     /\ todo' = r.code
  /\ row' = row + 1
  /\ UNCHANGED << pc, complaints, pass2Fixed >>

(* Replace the next piece by these, none or one.                           *)
Write(pieces) ==
  /\ outfile' = [outfile EXCEPT ![Len(outfile)].code = @ \o pieces]
  /\ todo' = Tail(todo)
  /\ UNCHANGED row

Copied(piece) ==
  [refs |-> {}, bytes |-> piece.bytes, op |-> "copy", value |-> {}, base |-> 0]

CopyPiece ==
  /\ pc = "code"
  /\ todo # << >>
  /\ Head(todo).refs = {}
  /\ Write(<< Copied(Head(todo)) >>)
  /\ UNCHANGED << pc, complaints, pass2Fixed >>

(* What stands for a marked label: '@' and 8 digits, or a machine word with*)
(* an immediate operand and a base register.                               *)
Address(piece, a) ==
  [refs |-> piece.refs, bytes |-> 4, op |-> "address", value |-> {a}, base |-> 0]
Word(piece, imm, base) ==
  [refs |-> piece.refs, bytes |-> 4, op |-> piece.op, value |-> {imm}, base |-> base]

(* Fault: the mask & 0xfff is missing.                                     *)
Imm12_Unmasked(n) == n

(* The 12-bit immediate operand of a RISC-V instruction: & 0xfff.          *)
Imm12(n) == n % 4096

(* gp, ORed into a 5-bit register field that holds r: r | 3.               *)
OrGp(r) == (r \div 4) * 4 + 3

(* Fault: gp is taken to point to the start of the data.                   *)
Encode_NoBias(piece, code_offset, data_offset) ==
  CASE piece.op = "branch" ->
         << Word(piece, Imm12((code_offset \div 2) - 2048), piece.reg) >>
    [] piece.op = "load"   -> << Word(piece, Imm12(data_offset), OrGp(0)) >>
    [] piece.op = "store"  -> << Word(piece, Imm12(data_offset), OrGp(piece.reg)) >>
    [] piece.op = "jalr"   -> << Address(piece, code_offset + data_offset) >>
    [] OTHER               -> << >>

(* What a marked RISC-V instruction becomes, from the label's offset in    *)
(* the code or in the data segment (0 for the one it is not in).  For an   *)
(* opcode the switch does not know, nothing.                               *)
Encode(piece, code_offset, data_offset) ==
  CASE piece.op = "branch" ->
         << Word(piece, Imm12((code_offset \div 2) - 2048), piece.reg) >>
    [] piece.op = "load"   -> << Word(piece, Imm12(data_offset - 2048), OrGp(0)) >>
    [] piece.op = "store"  -> << Word(piece, Imm12(data_offset - 2048), OrGp(piece.reg)) >>
    [] piece.op = "jalr"   -> << Address(piece, code_offset + data_offset) >>
    [] OTHER               -> << >>

(* What takes the place of a marked label at an offset of the code.        *)
AtCode(piece, a) ==
  IF ISA = "ecisc" THEN << Address(piece, a) >> ELSE Encode(piece, a, 0)

(* Fault: the offset of data is left relative to its segment.              *)
AtData_NotRelocated(piece, a) ==
  IF ISA = "ecisc" THEN << Address(piece, a) >> ELSE Encode(piece, 0, a)

(* Fault: loads and stores get the address in the image, as ECISC does.    *)
AtData_Relocated(piece, a) ==
  IF ISA = "ecisc" THEN << Address(piece, a + codeOffset) >>
  ELSE Encode(piece, 0, a + codeOffset)

(* The same at an offset of the data, which follow the code in the image.  *)
AtData(piece, a) ==
  IF ISA = "ecisc" THEN << Address(piece, a + codeOffset) >> ELSE Encode(piece, 0, a)

(* The messages of the RISC-V branch: the default of the switch, and the   *)
(* two tests of the range.                                                 *)
Unsupported(piece) ==
  IF ISA = "riscv" /\ piece.op \notin {"branch", "load", "store", "jalr"}
  THEN {"unsupported"} ELSE {}
CodeComplaints(piece, a) ==
  (IF ISA = "riscv" /\ a > 8192 THEN {"branch_8192"} ELSE {}) \cup Unsupported(piece)
DataComplaints(piece, a) ==
  (IF ISA = "riscv" /\ a > 4096 THEN {"data_4096"} ELSE {}) \cup Unsupported(piece)

Complain(whats, n) ==
  complaints' = complaints \cup { [what |-> w, name |-> n] : w \in whats }

DefinitionsOf(n, table) == { s \in Range(table) : s.name = n }

(* The label the next piece marks.                                         *)
Marked(n) == pc = "code" /\ todo # << >> /\ n \in Head(todo).refs

(* Fault: both tables are searched before either answer is used.           *)
LookupCrashes_SearchesBoth(n) == codeSymTable = << >> \/ dataSymTable = << >>

(* lookupByName() in the code table, and if that returns NULL in the data  *)
(* table: neither may be empty.                                            *)
LookupCrashes(n) ==
  \/ codeSymTable = << >>
  \/ DefinitionsOf(n, codeSymTable) = {} /\ dataSymTable = << >>

FoundInCode(n) ==
  /\ Marked(n)
  /\ ~ LookupCrashes(n)
  /\ \E match \in DefinitionsOf(n, codeSymTable) :
       /\ Write(AtCode(Head(todo), match.offset))
       /\ Complain(CodeComplaints(Head(todo), match.offset), n)
  /\ UNCHANGED << pc, pass2Fixed >>

FoundInData(n) ==
  /\ Marked(n)
  /\ ~ LookupCrashes(n)
  /\ DefinitionsOf(n, codeSymTable) = {}
  /\ \E match \in DefinitionsOf(n, dataSymTable) :
       /\ Write(AtData(Head(todo), match.offset))
       /\ Complain(DataComplaints(Head(todo), match.offset), n)
  /\ UNCHANGED << pc, pass2Fixed >>

(* Fault: nothing is said of an undefined label.                           *)
NotFound_Silent(n) ==
  /\ Marked(n)
  /\ ~ LookupCrashes(n)
  /\ DefinitionsOf(n, codeSymTable) = {} /\ DefinitionsOf(n, dataSymTable) = {}
  /\ Head(todo).op # "jalr"
  /\ Write(IF ISA = "ecisc" THEN << >> ELSE Encode(Head(todo), 0, 0))
  /\ UNCHANGED << pc, complaints, pass2Fixed >>

(* Fault: a label that is not in the code is reported at once.             *)
NotFound_CodeOnly(n) ==
  /\ Marked(n)
  /\ ~ LookupCrashes(n)
  /\ DefinitionsOf(n, codeSymTable) = {}
  /\ Head(todo).op # "jalr"
  /\ Write(IF ISA = "ecisc" THEN << >> ELSE Encode(Head(todo), 0, 0))
  /\ Complain({"undefined"}, n)
  /\ UNCHANGED << pc, pass2Fixed >>

(* Neither table has the name.  The RISC-V branch goes on with offset 0;   *)
(* only jalr uses the symbol that was not found, and crashes.              *)
NotFound(n) ==
  /\ Marked(n)
  /\ ~ LookupCrashes(n)
  /\ DefinitionsOf(n, codeSymTable) = {} /\ DefinitionsOf(n, dataSymTable) = {}
  /\ Head(todo).op # "jalr"
  /\ Write(IF ISA = "ecisc" THEN << >> ELSE Encode(Head(todo), 0, 0))
  /\ Complain({"undefined"} \cup Unsupported(Head(todo)), n)
  /\ UNCHANGED << pc, pass2Fixed >>

NullSymbolUsed(n) ==
  /\ Marked(n)
  /\ ~ LookupCrashes(n)
  /\ DefinitionsOf(n, codeSymTable) = {} /\ DefinitionsOf(n, dataSymTable) = {}
  /\ Head(todo).op = "jalr"
  /\ Complain({"undefined"}, n)
  /\ pc' = "crash"
  /\ UNCHANGED << row, todo, outfile, pass2Fixed >>

EmptyTableSearched(n) ==
  /\ Marked(n)
  /\ LookupCrashes(n)
  /\ pc' = "crash"
  /\ UNCHANGED << pass2Vars, pass2Fixed >>

EndOfCode ==
  /\ pc = "code"
  /\ todo = << >>
  /\ row = Len(codePass1File)
  /\ pc' = "data"
  /\ row' = 0
  /\ UNCHANGED << todo, outfile, complaints, pass2Fixed >>

-----------------------------------------------------------------------------
(* Pass 2, the data: the rows follow the code.                             *)

CopyDataRow ==
  /\ pc = "data"
  /\ row < Len(dataPass1File)
  /\ LET r == dataPass1File[row + 1] IN
     outfile' = Append(outfile, [offset |-> codeOffset + r.offset,
                                 code   |-> [i \in 1 .. Len(r.code) |-> Copied(r.code[i])],
                                 line   |-> r.line])
  /\ row' = row + 1
  /\ UNCHANGED << pc, todo, complaints, pass2Fixed >>

(* The symbols are listed, and assem() returns.                            *)
EndOfData ==
  /\ pc = "data"
  /\ row = Len(dataPass1File)
  /\ pc' = "done"
  /\ UNCHANGED << pass2Vars, pass2Fixed >>

Next ==
  \/ ReadStatement
  \/ EmitCode \/ EmitData
  \/ SortTables
  \/ NextCodeRow \/ CopyPiece
  \/ \E n \in Name :
       \/ FoundInCode(n) \/ FoundInData(n) \/ NotFound(n)
       \/ NullSymbolUsed(n) \/ EmptyTableSearched(n)
  \/ EndOfCode
  \/ CopyDataRow \/ EndOfData

Spec == Init /\ [][Next]_vars

(* One thread runs, and it keeps running.                                  *)
FairSpec == Spec /\ WF_vars(Next)

-----------------------------------------------------------------------------
PC == {"begin", "read", "skip", "return", "parse", "emit", "sort", "code", "data",
       "done", "crash"}

TypeOK ==
  /\ StatementTypeOK
  /\ pc \in PC
  /\ codeOffset \in Nat /\ dataOffset \in Nat
  /\ codePass1File \in Seq(Row) /\ dataPass1File \in Seq(Row)
  /\ codeSymTable \in Seq(Symbol) /\ dataSymTable \in Seq(Symbol)
  /\ assemStatus = "EX_OK"
  /\ row \in Nat
  /\ todo \in Seq(Piece)
  /\ outfile \in Seq(OutRow)
  /\ complaints \subseteq Complaint

-----------------------------------------------------------------------------
(* The two passes implement Assembly.  A row is written when its last piece*)
(* is.                                                                     *)

(* A 12-bit immediate operand is sign extended.                            *)
Signed(v) == IF v < 2048 THEN v ELSE v - 4096

(* Where the machine that runs a piece, in the row at this address, finds  *)
(* what the piece refers to: an address says it, "branch immediates are    *)
(* PC-relative, stored offset is multiplied by 2" (plasm.cc:283-285), and  *)
(* loads and stores add to gp, 2048 past the start of the data (:324, and  *)
(* riscv.cc:418).                                                          *)
PointsTo(p, at) ==
  CASE p.op = "address" -> p.value
    [] p.op = "branch"  -> { at + 2 * Signed(v) : v \in p.value }
    [] p.op \in {"load", "store"} /\ p.base = 3 ->
         { codeOffset + 2048 + Signed(v) : v \in p.value }
    [] OTHER            -> {}

RefsOf(code) ==
  UNION { { [name |-> n, kind |-> p.op] : n \in p.refs } : p \in Range(code) }

Rows(file) ==
  [i \in 1 .. Len(file) |->
     [start |-> file[i].offset, line |-> file[i].line, refs |-> RefsOf(file[i].code)]]

Phase ==
  CASE pc \in {"code", "data"} -> "write"
    [] pc = "done"             -> "done"
    [] pc = "crash"            -> "failed"
    [] OTHER                   -> "collect"

Targets(code, at) ==
  UNION { { [name |-> n, address |-> a] : n \in p.refs, a \in PointsTo(p, at) } :
            p \in Range(code) }

(* After a crash, too, the row that is not finished does not count.        *)
Written ==
  [i \in 1 .. Len(outfile) - (IF todo = << >> THEN 0 ELSE 1) |->
     [address |-> outfile[i].offset, line |-> outfile[i].line,
      targets |-> Targets(outfile[i].code, outfile[i].offset)]]

Abstract == INSTANCE Assembly WITH
  phase <- Phase,
  code <- Rows(codePass1File), data <- Rows(dataPass1File),
  codeEnd <- codeOffset, dataEnd <- dataOffset,
  codeLabels <- Range(codeSymTable), dataLabels <- Range(dataSymTable),
  image <- Written

(* Whatever is in the source, well formed or not: pass 1 lays the segments *)
(* out without a gap, in the order of the source, and pass 2 writes each   *)
(* row once, at the address its segment ends up at; an address, and a load *)
(* of data within reach, points to a meaning of its label; and it crashes  *)
(* only where a definition is missing.                                     *)
ImplementsAssembly == Abstract!AssemblySpec
=============================================================================
