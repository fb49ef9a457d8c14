---------------------------- MODULE AssemProofs ----------------------------
(***************************************************************************)
(* Theorems about Assem, for every program, however long, and whatever its *)
(* statements are translated to: both passes implement Assembly.           *)
(***************************************************************************)
EXTENDS Assem, SequenceFacts

(* The conjuncts of the inductive invariant.                               *)

Reading == pc \in {"begin", "read", "skip", "return", "parse", "emit", "sort"}
Copying == pc \in {"code", "crash"}
CopyingData == pc \in {"data", "done"}

(* The rows of pass 1 are of lines that have been read, and before the one *)
(* whose statement is still to come.                                       *)
LineAhead == pc \in {"skip", "return", "parse", "emit"}
RowsBehind(file) ==
  \A i \in 1 .. Len(file) : file[i].line <= pos /\ (LineAhead => file[i].line < pos)

(* A comment is not parsed.                                                *)
ParsesStatement == pc = "parse" => ~ IsComment(sourceCode, FALSE)

(* A marked label of ECISC is an address, one of RISC-V is not.            *)
MarksFit(code) == \A q \in Range(code) : q.refs # {} => (q.op = "address" <=> ISA = "ecisc")

(* Pass 2 has not begun.                                                   *)
NothingWritten == Reading => row = 0 /\ todo = << >> /\ outfile = << >> /\ complaints = {}

(* What pass 2 has written are the rows of pass 1, code first.             *)
RowOfImage(i) ==
  IF i <= Len(codePass1File)
  THEN [offset |-> codePass1File[i].offset, line |-> codePass1File[i].line]
  ELSE [offset |-> codeOffset + dataPass1File[i - Len(codePass1File)].offset,
        line   |-> dataPass1File[i - Len(codePass1File)].line]

RowsWritten ==
  /\ Copying     => row <= Len(codePass1File) /\ Len(outfile) = row
  /\ CopyingData => row <= Len(dataPass1File) /\ Len(outfile) = Len(codePass1File) + row
                      /\ todo = << >>
  /\ \A i \in 1 .. Len(outfile) :
       outfile[i].offset = RowOfImage(i).offset /\ outfile[i].line = RowOfImage(i).line

(* Every instruction of the row that refers to n can reach it.             *)
Linkable(code, n) == \A q \in Range(code) : n \in q.refs => Abstract!Reaches(q.op, n)

(* Wherever its row is, a piece points to a meaning of n.                  *)
Means(p, n) ==
  \A at : PointsTo(p, at) # {} /\ PointsTo(p, at) \subseteq Abstract!Meanings(n)

(* A row in progress: the pieces to do are of the row, those that are done *)
(* refer to what the row refers to, and stand for a meaning of the name.   *)
InProgress(code, done, rest) ==
  /\ Range(rest) \subseteq Range(code)
  /\ \A p \in Range(done) : \A n \in p.refs : \E q \in Range(code) : n \in q.refs
  /\ \A q \in Range(code) : \A n \in q.refs :
       q \in Range(rest) \/ ~ Linkable(code, n)
         \/ \E p \in Range(done) : n \in p.refs
  /\ \A p \in Range(done) : \A n \in p.refs : Linkable(code, n) => Means(p, n)

RowLinked ==
  Copying =>
    IF row = 0 THEN todo = << >> ELSE InProgress(codePass1File[row].code, outfile[row].code, todo)

AssemInv ==
  /\ TypeOK
  /\ RowsBehind(codePass1File) /\ RowsBehind(dataPass1File)
  /\ ParsesStatement
  /\ MarksFit(machineCode)
  /\ \A i \in 1 .. Len(codePass1File) : MarksFit(codePass1File[i].code)
  /\ NothingWritten
  /\ RowsWritten
  /\ RowLinked

-----------------------------------------------------------------------------
(* Pass 1: reading and parsing.                                            *)

LEMMA InitInv == Init => AssemInv
<1> SUFFICES ASSUME Init  PROVE AssemInv
  OBVIOUS
<1> USE DEF Init, StatementInit
<1>1. StatementTypeOK
  <2>1. PICK n \in 0 .. MaxLines : program \in [1 .. n -> Line]
    OBVIOUS
  <2>2. program \in Seq(Line) /\ Len(program) = n /\ n \in Nat /\ n <= MaxLines
    BY <2>1, SourceAssumption
  <2> QED
    BY <2>2 DEF StatementTypeOK
<1>2. TypeOK
  BY <1>1 DEF TypeOK, PC
<1>3. MarksFit(machineCode)
  BY RangeOfFew DEF MarksFit
<1> QED
  BY <1>2, <1>3 DEF AssemInv, RowsBehind, ParsesStatement, NothingWritten, RowsWritten,
     RowLinked, Reading, Copying, CopyingData

(* What a step of the reader keeps of the invariant.                       *)
LEMMA ReaderStep ==
  ASSUME AssemInv, Reading, Reading', UNCHANGED << pass1Vars, tableVars, pass2Vars >>,
         StatementTypeOK', pos' >= pos, LineAhead' => pos' > pos \/ LineAhead,
         MarksFit(machineCode)', ParsesStatement'
  PROVE  AssemInv'
<1> USE DEF pass1Vars, tableVars, pass2Vars
<1>1. TypeOK'
  BY DEF AssemInv, TypeOK, Reading, PC
<1>2. RowsBehind(codePass1File)' /\ RowsBehind(dataPass1File)'
  <2>1. pos \in Nat /\ pos' \in Nat
    BY DEF AssemInv, TypeOK, StatementTypeOK
  <2>2. ASSUME NEW file \in Seq(Row), RowsBehind(file), NEW i \in 1 .. Len(file)
        PROVE  file[i].line <= pos' /\ (LineAhead' => file[i].line < pos')
    <3>1. file[i] \in Row
      OBVIOUS
    <3>2. file[i].line \in Nat
      BY <3>1 DEF Row
    <3> QED
      BY <2>1, <2>2, <3>2 DEF RowsBehind
  <2> QED
    BY <2>2 DEF AssemInv, TypeOK, RowsBehind
<1>3. \A i \in 1 .. Len(codePass1File') : MarksFit(codePass1File[i].code)'
  BY DEF AssemInv, MarksFit
<1>4. NothingWritten' /\ RowsWritten' /\ RowLinked'
  BY DEF AssemInv, NothingWritten, RowsWritten, RowLinked, Reading, Copying, CopyingData
<1> QED
  BY <1>1, <1>2, <1>3, <1>4 DEF AssemInv

(* The line that getline() reads.                                          *)
LEMMA LineRead ==
  ASSUME StatementTypeOK, GetLine
  PROVE  /\ NextLine \in Line /\ NextLine \in LineType
         /\ sourceCode' \in Line \cup {Blank}
         /\ pos' \in 0 .. Len(program) /\ pos' \in Nat /\ pos' > pos /\ pos' >= pos
         /\ NextLine.col1 \in {"label", "bad"} => NextLine.name \in Name
BY SourceAssumption DEF StatementTypeOK, GetLine, More, NextLine

LEMMA Reported ==
  ASSUME StatementTypeOK, NEW what \in {"bad_label", "missing_colon", "in_statement"},
         NEW about \in Nat, Report(what, about)
  PROVE  messages' \subseteq Message
<1>1. [what |-> what, line |-> sourceLine, about |-> about] \in Message
  BY DEF StatementTypeOK, Message
<1> QED
  BY <1>1 DEF StatementTypeOK, Report

(* The text that parse() translates is a statement.                        *)
LEMMA TextAfterType ==
  ASSUME NEW line \in Line \cup {Blank}, NEW from \in {"start", "colon"},
         ~ IsComment(line, FALSE), TextAfter(line, from) # NoText
  PROVE  TextAfter(line, from) \in Text
<1>1. line \in LineType
  BY SourceAssumption
<1>2. /\ line.text \in Text \cup {NoText, CommentText} /\ line.gap \in BOOLEAN
      /\ line.col1 \in {"space", "label", "bad", "text"}
  BY <1>1 DEF LineType
<1>3. << line.text, line.gap >> \in (Text \cup {NoText, CommentText}) \X BOOLEAN
  BY <1>2
<1>4. Mangle[<< line.text, line.gap >>] \in Text
  BY <1>3, SourceAssumption
<1>5. line.text \in Text => Clip[line.text] \in Text \cup {NoText}
  BY SourceAssumption
<1>6. line.text \in Text \/ line.col1 \in {"label", "bad"}
  BY <1>2 DEF IsComment
<1>7. CASE from = "colon"
  BY <1>2, <1>4, <1>5, <1>7 DEF TextAfter
<1>8. CASE from = "start"
  BY <1>2, <1>4, <1>5, <1>6, <1>8 DEF TextAfter
<1> QED
  BY <1>7, <1>8

LEMMA ReadInv == AssemInv /\ ReadStatement => AssemInv'
<1> SUFFICES ASSUME AssemInv, ReadStatement  PROVE AssemInv'
  OBVIOUS
<1> USE DEF readVars, parseVars
<1>0. /\ StatementTypeOK /\ MarksFit(machineCode)
      /\ pc = "parse" => ~ IsComment(sourceCode, FALSE)
      /\ UNCHANGED << pass1Vars, tableVars, pass2Vars >>
  BY DEF AssemInv, TypeOK, ReadStatement, ParsesStatement
<1>a. pos \in Nat /\ sourceLine \in Nat /\ sourceLines \in Nat
  BY <1>0 DEF StatementTypeOK
<1>1. CASE BeginRead
  <2>1. StatementTypeOK' /\ MarksFit(machineCode)'
    BY <1>0, <1>a, <1>1 DEF StatementTypeOK, BeginRead, MarksFit
  <2> QED
    BY <1>0, <1>a, <1>1, <2>1, ReaderStep DEF ParsesStatement, BeginRead, Reading, LineAhead
<1>2. CASE ReadComment
  <2>1. StatementTypeOK' /\ MarksFit(machineCode)' /\ pos' >= pos
    BY <1>0, <1>a, <1>2, LineRead DEF StatementTypeOK, ReadComment, MarksFit
  <2> QED
    BY <1>0, <1>a, <1>2, <2>1, ReaderStep DEF ParsesStatement, ReadComment, Reading, LineAhead
<1>3. CASE ReadUnlabelled
  <2>0. pos + 1 \in Nat /\ messages \subseteq Message
    BY <1>0, <1>a DEF StatementTypeOK
  <2>1. messages' \subseteq Message
    BY <1>0, <1>a, <1>3, <2>0, Reported DEF ReadUnlabelled
  <2>2. /\ pc = "read" /\ pc' = "return" /\ sourceLines' = sourceLines + 1 /\ GetLine
        /\ UNCHANGED << program, terminated, label, endLabel, sourceLine, parseVars >>
    BY <1>3 DEF ReadUnlabelled
  <2>3. StatementTypeOK' /\ MarksFit(machineCode)' /\ pos' >= pos /\ pos' > pos
    BY <1>0, <1>a, <2>1, <2>2, LineRead DEF StatementTypeOK, MarksFit
  <2> QED
    BY <1>0, <1>a, <2>2, <2>3, ReaderStep DEF ParsesStatement, Reading, LineAhead
<1>4. CASE ReadLabel
  <2>0. pos + 1 \in Nat /\ messages \subseteq Message
    BY <1>0, <1>a DEF StatementTypeOK
  <2>1. messages' \subseteq Message
    BY <1>0, <1>a, <1>4, <2>0, Reported DEF ReadLabel
  <2>2. /\ pc' \in {"skip", "return"} /\ pc = "read" /\ GetLine /\ endLabel' = "colon"
        /\ NextLine.col1 \in {"label", "bad"} /\ label' = {NextLine.name}
        /\ sourceLines' \in {sourceLines, sourceLines + 1}
        /\ UNCHANGED << program, terminated, sourceLine, parseVars >>
    BY <1>4, Zenon DEF ReadLabel
  <2>3. label' \in {{}} \cup { {n} : n \in Name }
    BY <1>0, <1>a, <2>2, LineRead
  <2>4. StatementTypeOK' /\ MarksFit(machineCode)' /\ pos' >= pos /\ pos' > pos
    BY <1>0, <1>a, <2>1, <2>2, <2>3, LineRead DEF StatementTypeOK, MarksFit
  <2> QED
    BY <1>0, <1>a, <2>2, <2>4, ReaderStep DEF ParsesStatement, Reading, LineAhead
<1>5. CASE SkipComment
  <2>1. StatementTypeOK' /\ MarksFit(machineCode)' /\ pos' >= pos /\ pos' > pos
    BY <1>0, <1>a, <1>5, LineRead DEF StatementTypeOK, SkipComment, MarksFit
  <2> QED
    BY <1>0, <1>a, <1>5, <2>1, ReaderStep DEF ParsesStatement, SkipComment, Reading, LineAhead
<1>6. CASE SkipToStatement
  <2>1. StatementTypeOK' /\ MarksFit(machineCode)' /\ pos' >= pos /\ pos' > pos
    BY <1>0, <1>a, <1>6, LineRead DEF StatementTypeOK, SkipToStatement, MarksFit
  <2> QED
    BY <1>0, <1>a, <1>6, <2>1, ReaderStep DEF ParsesStatement, SkipToStatement, Reading, LineAhead
<1>7. CASE ReadEnd
  <2>1. messages' \subseteq Message
    BY <1>0, <1>a, <1>7, Reported DEF ReadEnd, StatementTypeOK
  <2>2. label' \in {{}} \cup { {n} : n \in Name }
    <3>1. sourceCode \in Line \/ sourceCode.col1 = "space"
      BY <1>0 DEF StatementTypeOK, Blank
    <3>2. sourceCode.col1 \in {"label", "bad"} => sourceCode.name \in Name
      BY <3>1, SourceAssumption
    <3> QED
      BY <1>0, <1>a, <1>7, <3>2 DEF ReadEnd, StatementTypeOK
  <2>3. sourceCode' \in Line \cup {Blank}
    BY <1>0, <1>a, <1>7 DEF ReadEnd, StatementTypeOK
  <2>4. /\ pc \in {"read", "skip"} /\ pc' = "sort" /\ sourceLines' = sourceLines + 1
        /\ UNCHANGED << program, terminated, pos, endLabel, sourceLine, parseVars >>
    BY <1>7, Zenon DEF ReadEnd
  <2>5. StatementTypeOK' /\ MarksFit(machineCode)'
    BY <1>0, <1>a, <2>1, <2>2, <2>3, <2>4 DEF StatementTypeOK, MarksFit
  <2> QED
    BY <1>0, <1>a, <2>4, <2>5, ReaderStep DEF ParsesStatement, Reading, LineAhead
<1>8. CASE CountLines
  <2>1. StatementTypeOK' /\ MarksFit(machineCode)'
    BY <1>0, <1>a, <1>8 DEF StatementTypeOK, CountLines, MarksFit
  <2> QED
    BY <1>0, <1>a, <1>8, <2>1, ReaderStep DEF ParsesStatement, CountLines, Reading, LineAhead
<1>9. CASE Parse
  <2> DEFINE text == TextAfter(sourceCode, endLabel)
  <2>1. /\ pc = "parse" /\ pc' = "emit" /\ parseStatus' = "STATEMENT_OK"
        /\ UNCHANGED << program, terminated, readVars, sourceLine >>
    BY <1>9 DEF Parse
  <2>2. /\ machineCodeSize' \in Nat /\ machineCode' \in Seq(Piece)
        /\ isAnInstruction' \in BOOLEAN /\ messages' \subseteq Message
        /\ MarksFit(machineCode)'
    <3>1. CASE text = NoText
      BY <1>0, <1>a, <1>9, <3>1, RangeOfFew DEF Parse, StatementTypeOK, MarksFit
    <3>2. CASE text # NoText
      <4>1. PICK result \in Translation[text] :
              /\ machineCodeSize' = result.size
              /\ machineCode' = result.code
              /\ isAnInstruction' = result.instr
              /\ IF result.error THEN Report("in_statement", pos) ELSE UNCHANGED messages
        BY <1>9, <3>2 DEF Parse
      <4>2. text \in Text
        BY <1>0, <1>a, <2>1, <3>2, TextAfterType DEF StatementTypeOK
      <4>3. /\ result \in Outcome
            /\ \A p \in Range(result.code) : p.refs # {} => (p.op = "address" <=> ISA = "ecisc")
        BY <4>2, SourceAssumption
      <4>4. /\ result.size \in Nat /\ result.code \in Seq(Piece)
            /\ result.instr \in BOOLEAN
        BY <4>3 DEF Outcome
      <4>5. messages' \subseteq Message
        BY <1>0, <1>a, <4>1, Reported DEF StatementTypeOK
      <4> QED
        BY <4>1, <4>3, <4>4, <4>5 DEF MarksFit
    <3> QED
      BY <3>1, <3>2
  <2>3. StatementTypeOK'
    BY <1>0, <1>a, <2>1, <2>2 DEF StatementTypeOK
  <2> QED
    BY <1>0, <1>a, <2>1, <2>2, <2>3, ReaderStep DEF ParsesStatement, Reading, LineAhead
<1> QED
  BY <1>1, <1>2, <1>3, <1>4, <1>5, <1>6, <1>7, <1>8, <1>9 DEF ReadStatement, ReadNext

-----------------------------------------------------------------------------
(* Pass 1: emitting, and sorting the tables.                               *)

LEMMA SortFacts ==
  ASSUME NEW S, NEW table \in Seq(S), NEW sorted \in SortsOf(table)
  PROVE  sorted \in Seq(S) /\ Range(sorted) = Range(table)
<1>1. PICK f \in Bijection(1 .. Len(table), 1 .. Len(table)) :
        sorted = [i \in 1 .. Len(table) |-> table[f[i]]]
  BY DEF SortsOf
<1> QED
  BY <1>1, RearrangedFacts

(* addLabel() adds one symbol, or none.                                    *)
LEMMA WithLabelFacts ==
  ASSUME NEW table \in Seq(Symbol), NEW offset \in Nat,
         label \in {{}} \cup { {n} : n \in Name }
  PROVE  /\ WithLabel(table, offset) \in Seq(Symbol)
         /\ Range(WithLabel(table, offset)) =
              Range(table) \cup Abstract!AtStart(label, offset)
<1> DEFINE added == IF label = {} THEN << >>
                    ELSE << [name |-> CHOOSE n \in label : TRUE, offset |-> offset] >>
<1>1. added \in Seq(Symbol) /\ Range(added) = Abstract!AtStart(label, offset)
  <2>1. CASE label = {}
    BY <2>1, RangeOfFew DEF Abstract!AtStart
  <2>2. CASE label # {}
    <3>1. PICK n \in Name : label = {n}
      BY <2>2
    <3>2. added = << [name |-> n, offset |-> offset] >>
      BY <3>1
    <3>3. [name |-> n, offset |-> offset] \in Symbol
      BY DEF Symbol
    <3> QED
      BY <3>1, <3>2, <3>3, RangeOfFew DEF Abstract!AtStart
  <2> QED
    BY <2>1, <2>2
<1>2. WithLabel(table, offset) = table \o added
  BY DEF WithLabel
<1> HIDE DEF added
<1> QED
  BY <1>1, <1>2, RangeFacts

LEMMA EmitCodeInv == AssemInv /\ EmitCode => AssemInv'
<1> SUFFICES ASSUME AssemInv, EmitCode  PROVE AssemInv'
  OBVIOUS
<1> DEFINE r == [offset |-> codeOffset, code |-> machineCode, line |-> pos]
<1>1. /\ TypeOK /\ StatementTypeOK /\ pc = "emit" /\ pos \in Nat /\ machineCode \in Seq(Piece)
      /\ codeOffset \in Nat /\ machineCodeSize \in Nat
      /\ label \in {{}} \cup { {n} : n \in Name }
      /\ codePass1File \in Seq(Row) /\ codeSymTable \in Seq(Symbol)
  BY DEF AssemInv, TypeOK, StatementTypeOK, EmitCode
<1>2. /\ codePass1File' = Append(codePass1File, r) /\ pc' = "begin" /\ assemStatus' = assemStatus
      /\ UNCHANGED << program, terminated, sourceLine, messages, readVars, parseVars,
                      dataOffset, dataPass1File, dataSymTable, pass2Vars >>
  BY <1>1 DEF EmitCode, EmitStatus, StatementTypeOK
<1>3. codeOffset' \in Nat /\ codeSymTable' \in Seq(Symbol)
  BY <1>1, WithLabelFacts DEF EmitCode
<1>4. r \in Row /\ r.line = pos /\ MarksFit(r.code)
  BY <1>1 DEF Row, AssemInv
<1> HIDE DEF r
<1>5. /\ codePass1File' \in Seq(Row) /\ Len(codePass1File') = Len(codePass1File) + 1
      /\ \A i \in 1 .. Len(codePass1File) : codePass1File'[i] = codePass1File[i]
      /\ codePass1File'[Len(codePass1File) + 1] = r
  BY <1>1, <1>2, <1>4
<1>6. TypeOK'
  BY <1>1, <1>2, <1>3, <1>5 DEF TypeOK, StatementTypeOK, readVars, parseVars, pass2Vars, PC
<1>7. RowsBehind(codePass1File)' /\ RowsBehind(dataPass1File)'
  BY <1>1, <1>2, <1>4, <1>5 DEF AssemInv, RowsBehind, LineAhead, readVars
<1>8. MarksFit(machineCode)' /\ \A i \in 1 .. Len(codePass1File') : MarksFit(codePass1File[i].code)'
  <2>1. MarksFit(machineCode)' /\ MarksFit(r.code)
    BY <1>2, <1>4 DEF AssemInv, MarksFit, parseVars
  <2>2. \A i \in 1 .. Len(codePass1File) : MarksFit(codePass1File'[i].code)
    BY <1>5 DEF AssemInv
  <2> QED
    BY <1>1, <1>4, <1>5, <2>1, <2>2 DEF MarksFit
<1>9. ParsesStatement' /\ NothingWritten' /\ RowsWritten' /\ RowLinked'
  BY <1>1, <1>2 DEF AssemInv, ParsesStatement, NothingWritten, RowsWritten, RowLinked,
     Reading, Copying, CopyingData, pass2Vars
<1> QED
  BY <1>6, <1>7, <1>8, <1>9 DEF AssemInv

LEMMA EmitDataInv == AssemInv /\ EmitData => AssemInv'
<1> SUFFICES ASSUME AssemInv, EmitData  PROVE AssemInv'
  OBVIOUS
<1> DEFINE r == [offset |-> dataOffset, code |-> machineCode, line |-> pos]
<1>1. /\ TypeOK /\ StatementTypeOK /\ pc = "emit" /\ pos \in Nat /\ machineCode \in Seq(Piece)
      /\ dataOffset \in Nat /\ machineCodeSize \in Nat
      /\ label \in {{}} \cup { {n} : n \in Name }
      /\ dataPass1File \in Seq(Row) /\ dataSymTable \in Seq(Symbol)
  BY DEF AssemInv, TypeOK, StatementTypeOK, EmitData
<1>2. /\ dataPass1File' = Append(dataPass1File, r) /\ pc' = "begin" /\ assemStatus' = assemStatus
      /\ UNCHANGED << program, terminated, sourceLine, messages, readVars, parseVars,
                      codeOffset, codePass1File, codeSymTable, pass2Vars >>
  BY <1>1 DEF EmitData, EmitStatus, StatementTypeOK
<1>3. dataOffset' \in Nat /\ dataSymTable' \in Seq(Symbol)
  BY <1>1, WithLabelFacts DEF EmitData
<1>4. r \in Row /\ r.line = pos
  BY <1>1 DEF Row
<1> HIDE DEF r
<1>5. /\ dataPass1File' \in Seq(Row) /\ Len(dataPass1File') = Len(dataPass1File) + 1
      /\ \A i \in 1 .. Len(dataPass1File) : dataPass1File'[i] = dataPass1File[i]
      /\ dataPass1File'[Len(dataPass1File) + 1] = r
  BY <1>1, <1>2, <1>4
<1>6. TypeOK'
  BY <1>1, <1>2, <1>3, <1>5 DEF TypeOK, StatementTypeOK, readVars, parseVars, pass2Vars, PC
<1>7. RowsBehind(codePass1File)' /\ RowsBehind(dataPass1File)'
  BY <1>1, <1>2, <1>4, <1>5 DEF AssemInv, RowsBehind, LineAhead, readVars
<1>8. MarksFit(machineCode)' /\ \A i \in 1 .. Len(codePass1File') : MarksFit(codePass1File[i].code)'
  BY <1>2 DEF AssemInv, MarksFit, parseVars
<1>9. ParsesStatement' /\ NothingWritten' /\ RowsWritten' /\ RowLinked'
  BY <1>1, <1>2 DEF AssemInv, ParsesStatement, NothingWritten, RowsWritten, RowLinked,
     Reading, Copying, CopyingData, pass2Vars
<1> QED
  BY <1>6, <1>7, <1>8, <1>9 DEF AssemInv

LEMMA SortInv == AssemInv /\ SortTables => AssemInv'
<1> SUFFICES ASSUME AssemInv, SortTables  PROVE AssemInv'
  OBVIOUS
<1>1. /\ TypeOK /\ StatementTypeOK /\ pc = "sort" /\ pc' = "code"
      /\ UNCHANGED << program, terminated, sourceLine, messages, readVars, parseVars,
                      pass1Vars, pass2Vars >>
  BY DEF AssemInv, TypeOK, SortTables
<1>2. codeSymTable' \in Seq(Symbol) /\ dataSymTable' \in Seq(Symbol)
  BY SortFacts DEF SortTables, AssemInv, TypeOK
<1>3. TypeOK'
  BY <1>1, <1>2 DEF TypeOK, StatementTypeOK, readVars, parseVars, pass1Vars, pass2Vars, PC
<1>4. RowsBehind(codePass1File)' /\ RowsBehind(dataPass1File)' /\ MarksFit(machineCode)'
  BY <1>1 DEF AssemInv, RowsBehind, LineAhead, readVars, parseVars, pass1Vars, MarksFit
<1>5. \A i \in 1 .. Len(codePass1File') : MarksFit(codePass1File[i].code)'
  BY <1>1 DEF AssemInv, MarksFit, pass1Vars
<1>6. row' = 0 /\ todo' = << >> /\ outfile' = << >> /\ pc' = "code"
  BY <1>1 DEF AssemInv, NothingWritten, Reading, pass2Vars
<1>7. Len(codePass1File') \in Nat
  BY <1>3 DEF TypeOK
<1>8. ParsesStatement' /\ NothingWritten' /\ RowsWritten' /\ RowLinked'
  BY <1>6, <1>7 DEF ParsesStatement, NothingWritten, RowsWritten, RowLinked,
     Reading, Copying, CopyingData
<1> QED
  BY <1>3, <1>4, <1>5, <1>8 DEF AssemInv

-----------------------------------------------------------------------------
(* Pass 2: what its steps have in common.                                  *)

LEMMA Pass2Fixed ==
  ASSUME UNCHANGED pass2Fixed
  PROVE  /\ \A i : RowOfImage(i)' = RowOfImage(i)
         /\ \A n : Abstract!Meanings(n)' = Abstract!Meanings(n)
         /\ \A kind, n : Abstract!Reaches(kind, n)' <=> Abstract!Reaches(kind, n)
         /\ \A p, at : PointsTo(p, at)' = PointsTo(p, at)
         /\ \A p, n : Means(p, n)' <=> Means(p, n)
<1> USE DEF pass2Fixed, pass1Vars, tableVars
<1>1. \A i : RowOfImage(i)' = RowOfImage(i)
  BY DEF RowOfImage
<1>2. \A n : Abstract!Meanings(n)' = Abstract!Meanings(n)
  BY DEF Abstract!Meanings, Abstract!InCode, Abstract!InData
<1>3. \A kind, n : Abstract!Reaches(kind, n)' <=> Abstract!Reaches(kind, n)
  BY DEF Abstract!Reaches, Abstract!InCode, Abstract!InData
<1>4. \A p, at : PointsTo(p, at)' = PointsTo(p, at)
  BY DEF PointsTo
<1>5. \A p, n : Means(p, n)' <=> Means(p, n)
  BY <1>2, <1>4 DEF Means
<1> QED
  BY <1>1, <1>2, <1>3, <1>4, <1>5

LEMMA InProgressNext ==
  ASSUME UNCHANGED pass2Fixed, NEW code, NEW done, NEW rest,
         codePass1File'[row'].code = code, outfile'[row'].code = done, todo' = rest,
         InProgress(code, done, rest)
  PROVE  InProgress(codePass1File[row].code, outfile[row].code, todo)'
<1>1. \A n : Linkable(code, n)' <=> Linkable(code, n)
  BY Pass2Fixed DEF Linkable
<1>2. ASSUME NEW c, NEW d, NEW t, c = code, d = done, t = rest  PROVE  InProgress(c, d, t)'
  BY <1>1, <1>2, Pass2Fixed DEF InProgress
<1> QED
  BY <1>2

(* What a step of pass 2 keeps of the invariant.                           *)
LEMMA Pass2Step ==
  ASSUME AssemInv, UNCHANGED pass2Fixed, pc \in {"code", "data"},
         pc' \in {"code", "data", "done", "crash"},
         row' \in Nat, todo' \in Seq(Piece), outfile' \in Seq(OutRow),
         complaints' \subseteq Complaint, RowsWritten', RowLinked'
  PROVE  AssemInv'
<1> USE DEF pass2Fixed, pass1Vars, tableVars, readVars, parseVars
<1>1. TypeOK'
  BY DEF AssemInv, TypeOK, StatementTypeOK, PC
<1>2. RowsBehind(codePass1File)' /\ RowsBehind(dataPass1File)' /\ MarksFit(machineCode)'
  BY DEF AssemInv, RowsBehind, LineAhead, MarksFit
<1>3. \A i \in 1 .. Len(codePass1File') : MarksFit(codePass1File[i].code)'
  BY DEF AssemInv, MarksFit
<1>4. ParsesStatement' /\ NothingWritten'
  BY DEF ParsesStatement, NothingWritten, Reading
<1> QED
  BY <1>1, <1>2, <1>3, <1>4 DEF AssemInv

LEMMA NextCodeRowInv == AssemInv /\ NextCodeRow => AssemInv'
<1> SUFFICES ASSUME AssemInv, NextCodeRow  PROVE AssemInv'
  OBVIOUS
<1> DEFINE r == codePass1File[row + 1]
           written == [offset |-> r.offset, code |-> << >>, line |-> r.line]
<1>1. /\ TypeOK /\ pc = "code" /\ pc' = "code" /\ UNCHANGED << complaints, pass2Fixed >>
      /\ row \in Nat /\ row < Len(codePass1File) /\ row' = row + 1
      /\ codePass1File \in Seq(Row) /\ todo' = r.code
      /\ outfile \in Seq(OutRow) /\ outfile' = Append(outfile, written)
      /\ Len(outfile) = row /\ Len(codePass1File) \in Nat
  BY DEF AssemInv, TypeOK, NextCodeRow, RowsWritten, Copying
<1>2. r \in Row
  BY <1>1
<1>3. r.offset \in Nat /\ r.line \in Nat /\ r.code \in Seq(Piece) /\ written \in OutRow
  BY <1>2 DEF Row, OutRow
<1>4. written.offset = r.offset /\ written.line = r.line /\ written.code = << >>
  OBVIOUS
<1> HIDE DEF written
<1>5. /\ outfile' \in Seq(OutRow) /\ Len(outfile') = row + 1 /\ outfile'[row + 1] = written
      /\ \A i \in 1 .. Len(outfile) : outfile'[i] = outfile[i]
  BY <1>1, <1>3
<1>6. RowsWritten'
  <2>1. codePass1File' = codePass1File /\ \A i : RowOfImage(i)' = RowOfImage(i)
    BY <1>1, Pass2Fixed DEF pass2Fixed, pass1Vars
  <2>2. RowOfImage(row + 1) = [offset |-> r.offset, line |-> r.line]
    BY <1>1 DEF RowOfImage
  <2>3. ASSUME NEW i \in 1 .. Len(outfile')
        PROVE  outfile'[i].offset = RowOfImage(i).offset /\ outfile'[i].line = RowOfImage(i).line
    <3>1. CASE i = row + 1
      BY <1>4, <1>5, <2>2, <3>1
    <3>2. CASE i \in 1 .. Len(outfile)
      BY <1>5, <3>2 DEF AssemInv, RowsWritten
    <3> QED
      BY <1>1, <1>5, <3>1, <3>2
  <2> QED
    BY <1>1, <1>5, <2>1, <2>3 DEF RowsWritten, Copying, CopyingData
<1>7. RowLinked'
  <2>1. InProgress(r.code, << >>, r.code)
    BY RangeOfFew DEF InProgress
  <2>2. codePass1File'[row'].code = r.code /\ outfile'[row'].code = << >>
    BY <1>1, <1>4, <1>5 DEF pass2Fixed, pass1Vars
  <2>3. InProgress(codePass1File[row].code, outfile[row].code, todo)'
    BY <1>1, <2>1, <2>2, InProgressNext
  <2> QED
    BY <1>1, <2>3 DEF RowLinked
<1>8. row' \in Nat /\ todo' \in Seq(Piece) /\ complaints' \subseteq Complaint
  BY <1>1, <1>3 DEF TypeOK
<1> QED
  BY <1>1, <1>5, <1>6, <1>7, <1>8, Pass2Step

-----------------------------------------------------------------------------
(* Pass 2: replacing a piece.                                              *)

(* What is written for q refers to what q refers to, and stands for a      *)
(* meaning of the name if q can reach all that the name may mean.          *)
Resolves(q, pieces) ==
  /\ pieces \in Seq(OutPiece)
  /\ \A p \in Range(pieces) : p.refs \subseteq q.refs
  /\ \A n \in q.refs : Abstract!Reaches(q.op, n) =>
       /\ \E p \in Range(pieces) : n \in p.refs
       /\ \A p \in Range(pieces) : Means(p, n)

LEMMA ProgressStep ==
  ASSUME NEW code, NEW done \in Seq(OutPiece), NEW rest \in Seq(Piece), rest # << >>,
         NEW pieces, Resolves(Head(rest), pieces), InProgress(code, done, rest)
  PROVE  InProgress(code, done \o pieces, Tail(rest))
<1> DEFINE q == Head(rest)
<1>1. Range(done \o pieces) = Range(done) \cup Range(pieces)
  BY RangeFacts DEF Resolves
<1>2. Range(rest) = {q} \cup Range(Tail(rest)) /\ Range(rest) \subseteq Range(code)
  BY RangeFacts DEF InProgress
<1> HIDE DEF q
<1>3. /\ \A p \in Range(pieces) : p.refs \subseteq q.refs
      /\ \A n \in q.refs : Abstract!Reaches(q.op, n) =>
           /\ \E p \in Range(pieces) : n \in p.refs
           /\ \A p \in Range(pieces) : Means(p, n)
  BY DEF Resolves, q
<1>4. q \in Range(code) /\ \A n \in q.refs : Linkable(code, n) => Abstract!Reaches(q.op, n)
  BY <1>2 DEF Linkable
<1>5. ASSUME NEW p \in Range(done \o pieces), NEW n \in p.refs
      PROVE  \E r \in Range(code) : n \in r.refs
  BY <1>1, <1>3, <1>4 DEF InProgress
<1>6. ASSUME NEW r \in Range(code), NEW n \in r.refs, r \notin Range(Tail(rest)), Linkable(code, n)
      PROVE  \E p \in Range(done \o pieces) : n \in p.refs
  <2>1. CASE r = q
    BY <1>1, <1>3, <1>4, <1>6, <2>1
  <2>2. CASE r # q
    BY <1>1, <1>2, <1>6, <2>2 DEF InProgress
  <2> QED
    BY <2>1, <2>2
<1>7. ASSUME NEW p \in Range(done \o pieces), NEW n \in p.refs, Linkable(code, n)
      PROVE  Means(p, n)
  <2>1. CASE p \in Range(done)
    BY <1>7, <2>1 DEF InProgress
  <2>2. CASE p \in Range(pieces)
    BY <1>3, <1>4, <1>7, <2>2
  <2> QED
    BY <1>1, <2>1, <2>2
<1> QED
  BY <1>2, <1>5, <1>6, <1>7 DEF InProgress

(* A row is being copied.                                                  *)
LEMMA RowBegun ==
  ASSUME AssemInv, pc = "code", todo # << >>
  PROVE  /\ row \in 1 .. Len(codePass1File) /\ row = Len(outfile) /\ row \in Nat
         /\ outfile \in Seq(OutRow) /\ outfile[row] \in OutRow
         /\ outfile[row].code \in Seq(OutPiece) /\ todo \in Seq(Piece)
         /\ codePass1File \in Seq(Row) /\ Len(codePass1File) \in Nat
         /\ InProgress(codePass1File[row].code, outfile[row].code, todo)
         /\ Head(todo) \in Piece /\ Head(todo) \in Range(codePass1File[row].code)
         /\ MarksFit(codePass1File[row].code)
<1>1. /\ row \in Nat /\ outfile \in Seq(OutRow) /\ todo \in Seq(Piece)
      /\ codePass1File \in Seq(Row) /\ Len(codePass1File) \in Nat
  BY DEF AssemInv, TypeOK
<1>2. row # 0 /\ row <= Len(codePass1File) /\ row = Len(outfile)
  BY DEF AssemInv, RowLinked, RowsWritten, Copying
<1>3. row \in 1 .. Len(codePass1File)
  BY <1>1, <1>2
<1>4. outfile[row] \in OutRow
  BY <1>1, <1>2
<1>5. outfile[row].code \in Seq(OutPiece)
  BY <1>4 DEF OutRow
<1>6. InProgress(codePass1File[row].code, outfile[row].code, todo)
  BY <1>2 DEF AssemInv, RowLinked, Copying
<1>7. Head(todo) \in Piece /\ Head(todo) \in Range(todo)
  BY <1>1, RangeFacts
<1>8. Head(todo) \in Range(codePass1File[row].code)
  BY <1>6, <1>7 DEF InProgress
<1>9. MarksFit(codePass1File[row].code)
  BY <1>3 DEF AssemInv
<1> QED
  BY <1>1, <1>2, <1>3, <1>4, <1>5, <1>6, <1>7, <1>8, <1>9

(* What is in the output after a piece is replaced.                        *)
LEMMA WriteFacts ==
  ASSUME AssemInv, pc = "code", todo # << >>, NEW pieces \in Seq(OutPiece), Write(pieces)
  PROVE  /\ outfile' \in Seq(OutRow) /\ Len(outfile') = Len(outfile)
         /\ \A i \in 1 .. Len(outfile) : i # row => outfile'[i] = outfile[i]
         /\ outfile'[row].offset = outfile[row].offset /\ outfile'[row].line = outfile[row].line
         /\ outfile'[row].code = outfile[row].code \o pieces
         /\ todo' = Tail(todo) /\ todo' \in Seq(Piece) /\ row' = row
<1> DEFINE new == [outfile[row] EXCEPT !.code = outfile[row].code \o pieces]
<1>1. row = Len(outfile) /\ row \in 1 .. Len(outfile) /\ outfile \in Seq(OutRow)
  BY RowBegun
<1>2. outfile[row] \in OutRow /\ outfile[row].code \in Seq(OutPiece)
  BY RowBegun
<1>3. outfile[row].code \o pieces \in Seq(OutPiece)
  BY <1>2
<1>4. /\ new \in OutRow /\ new.code = outfile[row].code \o pieces
      /\ new.offset = outfile[row].offset /\ new.line = outfile[row].line
  BY <1>2, <1>3 DEF OutRow
<1>5. outfile' = [outfile EXCEPT ![row] = new] /\ todo' = Tail(todo) /\ row' = row
  BY <1>1 DEF Write
<1> HIDE DEF new
<1>6. /\ outfile' \in Seq(OutRow) /\ Len(outfile') = Len(outfile)
      /\ outfile'[row] = new /\ \A i \in 1 .. Len(outfile) : i # row => outfile'[i] = outfile[i]
  BY <1>1, <1>4, <1>5
<1>7. todo' \in Seq(Piece)
  BY <1>5, RowBegun, RangeFacts
<1> QED
  BY <1>4, <1>5, <1>6, <1>7

LEMMA WriteInv ==
  ASSUME AssemInv, pc = "code", todo # << >>, UNCHANGED << pc, pass2Fixed >>,
         NEW pieces, Resolves(Head(todo), pieces), Write(pieces), complaints' \subseteq Complaint
  PROVE  AssemInv'
<1>1. pieces \in Seq(OutPiece)
  BY DEF Resolves
<1>2. /\ row \in 1 .. Len(codePass1File) /\ row = Len(outfile) /\ row \in Nat
      /\ Len(codePass1File) \in Nat
      /\ outfile[row].code \in Seq(OutPiece) /\ todo \in Seq(Piece)
      /\ InProgress(codePass1File[row].code, outfile[row].code, todo)
  BY RowBegun
<1>3. /\ outfile' \in Seq(OutRow) /\ Len(outfile') = Len(outfile)
      /\ \A i \in 1 .. Len(outfile) : i # row => outfile'[i] = outfile[i]
      /\ outfile'[row].offset = outfile[row].offset /\ outfile'[row].line = outfile[row].line
      /\ outfile'[row].code = outfile[row].code \o pieces
      /\ todo' = Tail(todo) /\ todo' \in Seq(Piece) /\ row' = row
  BY <1>1, WriteFacts
<1>4. codePass1File' = codePass1File /\ pc' = "code" /\ \A i : RowOfImage(i)' = RowOfImage(i)
  BY Pass2Fixed DEF pass2Fixed, pass1Vars
<1>5. RowsWritten'
  <2>1. ASSUME NEW i \in 1 .. Len(outfile')
        PROVE  outfile'[i].offset = RowOfImage(i).offset /\ outfile'[i].line = RowOfImage(i).line
    BY <1>3 DEF AssemInv, RowsWritten
  <2>2. row' <= Len(codePass1File') /\ Len(outfile') = row'
    BY <1>2, <1>3, <1>4
  <2>3. ~ CopyingData'
    BY <1>4 DEF CopyingData
  <2>4. \A i \in 1 .. Len(outfile') : /\ outfile'[i].offset = RowOfImage(i)'.offset
                                     /\ outfile'[i].line = RowOfImage(i)'.line
    BY <1>4, <2>1
  <2> QED
    BY <2>2, <2>3, <2>4 DEF RowsWritten
<1>6. RowLinked'
  <2>1. InProgress(codePass1File[row].code, outfile[row].code \o pieces, Tail(todo))
    BY <1>2, ProgressStep
  <2>2. InProgress(codePass1File[row].code, outfile[row].code, todo)'
    BY <1>3, <1>4, <2>1, InProgressNext
  <2> QED
    BY <1>2, <1>3, <2>2 DEF RowLinked
<1> QED
  BY <1>2, <1>3, <1>4, <1>5, <1>6, Pass2Step

-----------------------------------------------------------------------------
(* Pass 2: what stands for a marked label.                                 *)

LEMMA OrGpFacts == \A r \in 0 .. 31 : OrGp(r) \in 0 .. 31
BY DEF OrGp

LEMMA AddressFacts ==
  ASSUME NEW q \in Piece, NEW a \in Nat
  PROVE  /\ << Address(q, a) >> \in Seq(OutPiece)
         /\ Address(q, a).refs = q.refs
         /\ \A at : PointsTo(Address(q, a), at) = {a}
<1>1. q.refs \in {{}} \cup { {n} : n \in Name }
  BY DEF Piece
<1>2. Address(q, a) \in OutPiece
  BY <1>1 DEF Address, OutPiece, Op
<1>3. Address(q, a).op = "address" /\ Address(q, a).value = {a}
  BY DEF Address
<1> QED
  BY <1>2, <1>3 DEF Address, PointsTo

LEMMA WordFacts ==
  ASSUME codeOffset \in Nat, NEW q \in Piece, NEW imm \in Nat, imm < 4096, NEW base,
         base \in 0 .. 31, NEW w, w = Word(q, imm, base), NEW x, x = (imm + 2048) % 4096
  PROVE  /\ << w >> \in Seq(OutPiece) /\ Range(<< w >>) = {w}
         /\ w.refs = q.refs
         /\ q.op = "load" /\ base = 3 => \A at : PointsTo(w, at) = {codeOffset + x}
<1>1. q.refs \in {{}} \cup { {n} : n \in Name } /\ q.op \in Op
  BY DEF Piece
<1>2. w \in OutPiece
  BY <1>1 DEF Word, OutPiece
<1>3. w.op = q.op /\ w.value = {imm} /\ w.refs = q.refs /\ w.base = base
  BY DEF Word
<1>4. codeOffset + 2048 + Signed(imm) = codeOffset + x
  BY DEF Signed
<1>5. { codeOffset + 2048 + Signed(v) : v \in {imm} } = {codeOffset + x}
  BY <1>4
<1>6. ASSUME q.op = "load", base = 3, NEW at  PROVE PointsTo(w, at) = {codeOffset + x}
  BY <1>3, <1>5, <1>6 DEF PointsTo
<1> QED
  BY <1>2, <1>3, <1>6, RangeOfFew

(* Pieces that stand for q, and if q is a load for d in the data.          *)
StandFor(pieces, q, d) ==
  /\ pieces \in Seq(OutPiece)
  /\ \A p \in Range(pieces) : p.refs = q.refs
  /\ q.op = "load" /\ d < 4096 =>
       Range(pieces) # {} /\ \A p \in Range(pieces) : \A at : PointsTo(p, at) = {codeOffset + d}

LEMMA EncodeFacts ==
  ASSUME codeOffset \in Nat, NEW q \in Piece, NEW c \in Nat, NEW d \in Nat
  PROVE  StandFor(Encode(q, c, d), q, d)
<1>0. q.reg \in 0 .. 31 /\ OrGp(0) = 3 /\ OrGp(q.reg) \in 0 .. 31
  BY OrGpFacts DEF Piece, OrGp
<1>1. CASE q.op = "branch"
  <2>1. PICK imm \in Nat : imm = Imm12((c \div 2) - 2048) /\ imm < 4096
    BY DEF Imm12
  <2>2. PICK w : w = Word(q, imm, q.reg)
    OBVIOUS
  <2>3. Encode(q, c, d) = << w >>
    BY <1>1, <2>1, <2>2 DEF Encode
  <2>4. PICK x : x = (imm + 2048) % 4096
    OBVIOUS
  <2>5. << w >> \in Seq(OutPiece) /\ Range(<< w >>) = {w} /\ w.refs = q.refs
    BY <1>0, <2>1, <2>2, <2>4, WordFacts
  <2> QED
    BY <1>1, <2>3, <2>5 DEF StandFor
<1>2. CASE q.op \in {"load", "store"}
  <2>1. PICK imm \in Nat : imm = Imm12(d - 2048) /\ imm < 4096
    BY DEF Imm12
  <2>2. PICK x : x = (imm + 2048) % 4096
    OBVIOUS
  <2>3. d < 4096 => x = d
    BY <2>1, <2>2 DEF Imm12
  <2>4. PICK base : /\ base \in 0 .. 31 /\ Encode(q, c, d) = << Word(q, imm, base) >>
                    /\ q.op = "load" => base = 3
    <3>1. CASE q.op = "load"
      BY <1>0, <2>1, <3>1 DEF Encode
    <3>2. CASE q.op = "store"
      BY <1>0, <2>1, <3>2 DEF Encode
    <3> QED
      BY <1>2, <3>1, <3>2
  <2>5. PICK w : w = Word(q, imm, base)
    OBVIOUS
  <2>6. << w >> \in Seq(OutPiece) /\ Range(<< w >>) = {w} /\ w.refs = q.refs
        /\ (q.op = "load" => \A at : PointsTo(w, at) = {codeOffset + x})
    BY <2>1, <2>2, <2>4, <2>5, WordFacts
  <2> QED
    BY <1>2, <2>3, <2>4, <2>5, <2>6 DEF StandFor
<1>3. CASE q.op = "jalr"
  <2>1. Encode(q, c, d) = << Address(q, c + d) >> /\ c + d \in Nat
    BY <1>3 DEF Encode
  <2> QED
    BY <1>3, <2>1, AddressFacts, RangeOfFew DEF StandFor
<1>4. CASE q.op \notin {"branch", "load", "store", "jalr"}
  <2>1. Encode(q, c, d) = << >>
    BY <1>4 DEF Encode
  <2> QED
    BY <1>4, <2>1, RangeOfFew DEF StandFor
<1> QED
  BY <1>1, <1>2, <1>3, <1>4

(* The next piece marks n, and nothing else.                               *)
LEMMA MarkedFacts ==
  ASSUME AssemInv, NEW n \in Name, Marked(n)
  PROVE  /\ pc = "code" /\ todo # << >>
         /\ Head(todo) \in Piece /\ Head(todo).refs = {n}
         /\ Head(todo).op = "address" <=> ISA = "ecisc"
<1>1. pc = "code" /\ todo # << >> /\ n \in Head(todo).refs
  BY DEF Marked
<1>2. /\ Head(todo) \in Piece /\ Head(todo) \in Range(codePass1File[row].code)
      /\ MarksFit(codePass1File[row].code)
  BY <1>1, RowBegun
<1>3. Head(todo).refs \in {{}} \cup { {m} : m \in Name }
  BY <1>2 DEF Piece
<1> QED
  BY <1>1, <1>2, <1>3 DEF MarksFit

LEMMA DefinitionFacts ==
  ASSUME TypeOK, NEW n \in Name
  PROVE  /\ \A s \in DefinitionsOf(n, codeSymTable) : s.offset \in Nat /\ s.offset \in Abstract!InCode(n)
         /\ \A s \in DefinitionsOf(n, dataSymTable) : s.offset \in Nat /\ s.offset \in Abstract!InData(n)
         /\ DefinitionsOf(n, codeSymTable) = {} <=> Abstract!InCode(n) = {}
         /\ DefinitionsOf(n, dataSymTable) = {} <=> Abstract!InData(n) = {}
<1>1. Range(codeSymTable) \subseteq Symbol /\ Range(dataSymTable) \subseteq Symbol
  BY RangeFacts DEF TypeOK
<1>2. ASSUME NEW s \in Symbol  PROVE s.offset \in Nat
  BY DEF Symbol
<1> QED
  BY <1>1, <1>2 DEF DefinitionsOf, Abstract!InCode, Abstract!InData

LEMMA CodeResolves ==
  ASSUME TypeOK, NEW n \in Name, NEW q \in Piece, q.refs = {n}, q.op = "address" <=> ISA = "ecisc",
         NEW match \in DefinitionsOf(n, codeSymTable), NEW pieces,
         pieces = AtCode(q, match.offset)
  PROVE  Resolves(q, pieces)
<1>1. PICK c \in Nat : /\ c = match.offset /\ c \in Abstract!InCode(n)
                       /\ Abstract!Meanings(n) = Abstract!InCode(n) /\ codeOffset \in Nat
  BY DefinitionFacts DEF Abstract!Meanings, TypeOK
<1>2. CASE ISA = "ecisc"
  <2>1. PICK p : p = Address(q, c)
    OBVIOUS
  <2>2. << p >> \in Seq(OutPiece) /\ p.refs = q.refs /\ (\A at : PointsTo(p, at) = {c})
        /\ pieces = << p >>
    BY <1>1, <1>2, <2>1, AddressFacts DEF AtCode
  <2>3. Range(pieces) = {p}
    BY <2>2, RangeOfFew
  <2> QED
    BY <1>1, <2>2, <2>3 DEF Resolves, Means
<1>3. CASE ISA # "ecisc"
  <2>1. pieces = Encode(q, c, 0)
    BY <1>1, <1>3 DEF AtCode
  <2>2. pieces \in Seq(OutPiece) /\ \A p \in Range(pieces) : p.refs = q.refs
    <3>1. StandFor(pieces, q, 0)
      BY <1>1, <2>1, EncodeFacts
    <3> QED
      BY <3>1 DEF StandFor
  <2>3. ~ Abstract!Reaches(q.op, n)
    BY <1>1, <1>3 DEF Abstract!Reaches
  <2> QED
    BY <2>2, <2>3 DEF Resolves
<1> QED
  BY <1>2, <1>3

LEMMA DataResolves ==
  ASSUME TypeOK, NEW n \in Name, NEW q \in Piece, q.refs = {n}, q.op = "address" <=> ISA = "ecisc",
         DefinitionsOf(n, codeSymTable) = {}, NEW match \in DefinitionsOf(n, dataSymTable),
         NEW pieces,
         pieces = AtData(q, match.offset)
  PROVE  Resolves(q, pieces)
<1>1. PICK d \in Nat : /\ d = match.offset /\ d \in Abstract!InData(n)
                       /\ Abstract!InCode(n) = {} /\ codeOffset \in Nat
  BY DefinitionFacts DEF TypeOK
<1>2. PICK a \in Nat : a = codeOffset + d /\ a = match.offset + codeOffset /\ a \in Abstract!Meanings(n)
  BY <1>1 DEF Abstract!Meanings
<1>3. CASE ISA = "ecisc"
  <2>1. PICK p : p = Address(q, a)
    OBVIOUS
  <2>2. << p >> \in Seq(OutPiece) /\ p.refs = q.refs /\ (\A at : PointsTo(p, at) = {a})
        /\ pieces = << p >>
    BY <1>2, <1>3, <2>1, AddressFacts DEF AtData
  <2>3. Range(pieces) = {p}
    BY <2>2, RangeOfFew
  <2> QED
    BY <1>2, <2>2, <2>3 DEF Resolves, Means
<1>4. CASE ISA # "ecisc"
  <2>1. pieces = Encode(q, 0, d)
    BY <1>1, <1>4 DEF AtData
  <2>2. StandFor(pieces, q, d)
    BY <1>1, <2>1, EncodeFacts
  <2>3. Abstract!Reaches(q.op, n) => q.op = "load" /\ d < 4096
    BY <1>1, <1>4 DEF Abstract!Reaches
  <2>4. Abstract!Reaches(q.op, n) =>
          Range(pieces) # {} /\ \A p \in Range(pieces) : \A at : PointsTo(p, at) = {a}
    BY <1>2, <2>2, <2>3 DEF StandFor
  <2>5. pieces \in Seq(OutPiece) /\ \A p \in Range(pieces) : p.refs = {n}
    BY <2>2 DEF StandFor
  <2>6. ASSUME Abstract!Reaches(q.op, n)
        PROVE  (\E p \in Range(pieces) : n \in p.refs) /\ \A p \in Range(pieces) : Means(p, n)
    BY <1>2, <2>4, <2>5, <2>6 DEF Means
  <2> QED
    BY <2>5, <2>6 DEF Resolves
<1> QED
  BY <1>3, <1>4

LEMMA NothingResolves ==
  ASSUME TypeOK, NEW n \in Name, NEW q \in Piece, q.refs = {n},
         DefinitionsOf(n, codeSymTable) = {}, DefinitionsOf(n, dataSymTable) = {},
         NEW pieces, pieces = IF ISA = "ecisc" THEN << >> ELSE Encode(q, 0, 0)
  PROVE  Resolves(q, pieces)
<1>1. Abstract!InCode(n) = {} /\ Abstract!InData(n) = {}
  BY DefinitionFacts
<1>2. ~ Abstract!Reaches(q.op, n)
  BY <1>1 DEF Abstract!Reaches
<1>4. pieces \in Seq(OutPiece) /\ \A p \in Range(pieces) : p.refs = q.refs
  <2>1. CASE ISA = "ecisc"
    BY <2>1, RangeOfFew
  <2>2. CASE ISA # "ecisc"
    <3>1. StandFor(pieces, q, 0)
      BY <2>2, EncodeFacts DEF TypeOK
    <3> QED
      BY <3>1 DEF StandFor
  <2> QED
    BY <2>1, <2>2
<1> QED
  BY <1>2, <1>4 DEF Resolves

LEMMA CopyResolves ==
  ASSUME NEW q \in Piece, q.refs = {}
  PROVE  Resolves(q, << Copied(q) >>)
<1>1. Copied(q) \in OutPiece /\ Copied(q).refs = {}
  BY DEF Copied, Piece, OutPiece, Op
<1> QED
  BY <1>1, RangeOfFew DEF Resolves

(* What is complained about.                                               *)
LEMMA ComplainType ==
  ASSUME TypeOK, NEW n \in Name,
         NEW whats \in SUBSET {"undefined", "branch_8192", "data_4096", "unsupported"},
         Complain(whats, n)
  PROVE  complaints' \subseteq Complaint
<1>1. \A w \in whats : [what |-> w, name |-> n] \in Complaint
  BY DEF Complaint
<1> QED
  BY <1>1 DEF TypeOK, Complain

(* The pieces written in pass 2, whichever action writes them.             *)
LEMMA Replacing ==
  ASSUME AssemInv,
         CopyPiece \/ \E n \in Name : FoundInCode(n) \/ FoundInData(n) \/ NotFound(n)
  PROVE  /\ pc = "code" /\ todo # << >> /\ UNCHANGED << pc, pass2Fixed >>
         /\ complaints' \subseteq Complaint
         /\ \E pieces : Resolves(Head(todo), pieces) /\ Write(pieces)
<1>0. TypeOK
  BY DEF AssemInv
<1>1. CASE CopyPiece
  <2>1. /\ pc = "code" /\ todo # << >> /\ UNCHANGED << pc, complaints, pass2Fixed >>
        /\ Head(todo).refs = {} /\ Write(<< Copied(Head(todo)) >>)
    BY <1>1 DEF CopyPiece
  <2>2. Head(todo) \in Piece
    BY <2>1, RowBegun
  <2> QED
    BY <1>0, <2>1, <2>2, CopyResolves DEF TypeOK
<1>2. ASSUME NEW n \in Name, FoundInCode(n)
      PROVE  /\ pc = "code" /\ todo # << >> /\ UNCHANGED << pc, pass2Fixed >>
             /\ complaints' \subseteq Complaint
             /\ \E pieces : Resolves(Head(todo), pieces) /\ Write(pieces)
  <2>1. Marked(n) /\ UNCHANGED << pc, pass2Fixed >>
    BY <1>2 DEF FoundInCode
  <2>2. PICK match \in DefinitionsOf(n, codeSymTable) :
          /\ Write(AtCode(Head(todo), match.offset))
          /\ Complain(CodeComplaints(Head(todo), match.offset), n)
    BY <1>2 DEF FoundInCode
  <2>3. PICK pieces : pieces = AtCode(Head(todo), match.offset)
    OBVIOUS
  <2>4. Write(pieces)
    BY <2>2, <2>3
  <2>5. complaints' \subseteq Complaint
    <3> DEFINE whats == CodeComplaints(Head(todo), match.offset)
    <3>0. match.offset \in Nat
      BY <1>0, DefinitionFacts
    <3>1. whats \in SUBSET {"undefined", "branch_8192", "data_4096", "unsupported"}
      BY <3>0 DEF CodeComplaints, Unsupported
    <3>2. Complain(whats, n)
      BY <2>2
    <3> HIDE DEF whats
    <3> QED
      BY <1>0, <3>1, <3>2, ComplainType
  <2>6. Resolves(Head(todo), pieces)
    BY <1>0, <2>1, <2>3, MarkedFacts, CodeResolves
  <2> QED
    BY <2>1, <2>4, <2>5, <2>6, MarkedFacts
<1>3. ASSUME NEW n \in Name, FoundInData(n)
      PROVE  /\ pc = "code" /\ todo # << >> /\ UNCHANGED << pc, pass2Fixed >>
             /\ complaints' \subseteq Complaint
             /\ \E pieces : Resolves(Head(todo), pieces) /\ Write(pieces)
  <2>1. Marked(n) /\ UNCHANGED << pc, pass2Fixed >> /\ DefinitionsOf(n, codeSymTable) = {}
    BY <1>3 DEF FoundInData
  <2>2. PICK match \in DefinitionsOf(n, dataSymTable) :
          /\ Write(AtData(Head(todo), match.offset))
          /\ Complain(DataComplaints(Head(todo), match.offset), n)
    BY <1>3 DEF FoundInData
  <2>3. PICK pieces : pieces = AtData(Head(todo), match.offset)
    OBVIOUS
  <2>4. Write(pieces)
    BY <2>2, <2>3
  <2>5. complaints' \subseteq Complaint
    <3> DEFINE whats == DataComplaints(Head(todo), match.offset)
    <3>0. match.offset \in Nat
      BY <1>0, DefinitionFacts
    <3>1. whats \in SUBSET {"undefined", "branch_8192", "data_4096", "unsupported"}
      BY <3>0 DEF DataComplaints, Unsupported
    <3>2. Complain(whats, n)
      BY <2>2
    <3> HIDE DEF whats
    <3> QED
      BY <1>0, <3>1, <3>2, ComplainType
  <2>6. Resolves(Head(todo), pieces)
    BY <1>0, <2>1, <2>3, MarkedFacts, DataResolves
  <2> QED
    BY <2>1, <2>4, <2>5, <2>6, MarkedFacts
<1>4. ASSUME NEW n \in Name, NotFound(n)
      PROVE  /\ pc = "code" /\ todo # << >> /\ UNCHANGED << pc, pass2Fixed >>
             /\ complaints' \subseteq Complaint
             /\ \E pieces : Resolves(Head(todo), pieces) /\ Write(pieces)
  <2>1. PICK whats, pieces :
          /\ Marked(n) /\ UNCHANGED << pc, pass2Fixed >>
          /\ DefinitionsOf(n, codeSymTable) = {} /\ DefinitionsOf(n, dataSymTable) = {}
          /\ whats \in SUBSET {"undefined", "branch_8192", "data_4096", "unsupported"}
          /\ pieces = IF ISA = "ecisc" THEN << >> ELSE Encode(Head(todo), 0, 0)
          /\ Write(pieces) /\ Complain(whats, n)
    BY <1>4 DEF NotFound, Unsupported
  <2>2. complaints' \subseteq Complaint
    BY <1>0, <2>1, ComplainType
  <2>3. Resolves(Head(todo), pieces)
    BY <1>0, <2>1, MarkedFacts, NothingResolves
  <2> QED
    BY <2>1, <2>2, <2>3, MarkedFacts
<1> QED
  BY <1>1, <1>2, <1>3, <1>4

LEMMA ReplaceInv ==
  AssemInv /\ (CopyPiece \/ \E n \in Name : FoundInCode(n) \/ FoundInData(n) \/ NotFound(n))
    => AssemInv'
BY Replacing, WriteInv

(* A crash in pass 2 leaves the output as it is.                           *)
LEMMA CrashInv ==
  ASSUME AssemInv, NEW n \in Name, NullSymbolUsed(n) \/ EmptyTableSearched(n)
  PROVE  AssemInv'
<1>1. /\ pc = "code" /\ pc' = "crash" /\ UNCHANGED << row, todo, outfile, pass2Fixed >>
  BY DEF NullSymbolUsed, EmptyTableSearched, Marked, pass2Vars
<1>2. TypeOK /\ RowsWritten /\ RowLinked
  BY DEF AssemInv
<1>3. complaints' \subseteq Complaint
  BY <1>2, ComplainType DEF NullSymbolUsed, EmptyTableSearched, pass2Vars, TypeOK
<1>4. RowsWritten'
  BY <1>1, <1>2, Pass2Fixed DEF RowsWritten, Copying, CopyingData, pass2Fixed, pass1Vars
<1>5. RowLinked'
  <2>1. CASE row = 0
    BY <1>1, <1>2, <2>1 DEF RowLinked, Copying
  <2>2. CASE row # 0
    <3>1. InProgress(codePass1File[row].code, outfile[row].code, todo)
      BY <1>1, <1>2, <2>2 DEF RowLinked, Copying
    <3>2. InProgress(codePass1File[row].code, outfile[row].code, todo)'
      BY <1>1, <3>1, InProgressNext DEF pass2Fixed, pass1Vars
    <3> QED
      BY <1>1, <2>2, <3>2 DEF RowLinked
  <2> QED
    BY <2>1, <2>2
<1> QED
  BY <1>1, <1>2, <1>3, <1>4, <1>5, Pass2Step DEF TypeOK

LEMMA EndOfCodeInv == AssemInv /\ EndOfCode => AssemInv'
<1> SUFFICES ASSUME AssemInv, EndOfCode  PROVE AssemInv'
  OBVIOUS
<1>1. /\ pc = "code" /\ pc' = "data" /\ todo = << >> /\ row = Len(codePass1File) /\ row' = 0
      /\ UNCHANGED << todo, outfile, complaints, pass2Fixed >>
  BY DEF EndOfCode
<1>2. /\ TypeOK /\ RowsWritten /\ Len(outfile) = row
      /\ Len(codePass1File) \in Nat /\ Len(dataPass1File) \in Nat
  BY <1>1 DEF AssemInv, TypeOK, RowsWritten, Copying
<1>3. RowsWritten'
  BY <1>1, <1>2, Pass2Fixed DEF RowsWritten, Copying, CopyingData, pass2Fixed, pass1Vars
<1>4. RowLinked'
  BY <1>1 DEF RowLinked, Copying
<1> QED
  BY <1>1, <1>2, <1>3, <1>4, Pass2Step DEF TypeOK

(* A row of data is copied whole, without any label.                       *)
LEMMA CopyDataRowFacts ==
  ASSUME AssemInv, CopyDataRow
  PROVE  \E new \in OutRow :
           /\ outfile' = Append(outfile, new)
           /\ new.offset = codeOffset + dataPass1File[row + 1].offset
           /\ new.line = dataPass1File[row + 1].line
           /\ \A p \in Range(new.code) : p.refs = {}
           /\ dataPass1File[row + 1] \in Row
<1> DEFINE r == dataPass1File[row + 1]
           code == [i \in 1 .. Len(r.code) |-> Copied(r.code[i])]
           new == [offset |-> codeOffset + r.offset, code |-> code, line |-> r.line]
<1>1. /\ outfile' = Append(outfile, new) /\ row \in Nat /\ row < Len(dataPass1File)
      /\ dataPass1File \in Seq(Row) /\ codeOffset \in Nat
  BY DEF AssemInv, TypeOK, CopyDataRow
<1>2. r \in Row
  BY <1>1
<1>3. r.offset \in Nat /\ r.line \in Nat /\ r.code \in Seq(Piece)
  BY <1>2 DEF Row
<1>4. ASSUME NEW q \in Piece  PROVE Copied(q) \in OutPiece /\ Copied(q).refs = {}
  BY DEF Copied, Piece, OutPiece, Op
<1>5. code \in Seq(OutPiece) /\ \A p \in Range(code) : p.refs = {}
  <2>1. \A i \in 1 .. Len(r.code) : r.code[i] \in Piece
    BY <1>3
  <2>2. Len(r.code) \in Nat
    BY <1>3
  <2>3. code \in [1 .. Len(r.code) -> OutPiece] /\ \A i \in 1 .. Len(r.code) : code[i].refs = {}
    BY <1>4, <2>1
  <2> HIDE DEF code
  <2>4. code \in Seq(OutPiece) /\ DOMAIN code = 1 .. Len(r.code)
    BY <2>2, <2>3
  <2> QED
    BY <2>3, <2>4 DEF Range
<1> HIDE DEF code
<1>6. new \in OutRow /\ new.offset = codeOffset + r.offset /\ new.line = r.line /\ new.code = code
  BY <1>1, <1>3, <1>5 DEF OutRow
<1> HIDE DEF new
<1> QED
  BY <1>1, <1>2, <1>5, <1>6

LEMMA CopyDataRowInv == AssemInv /\ CopyDataRow => AssemInv'
<1> SUFFICES ASSUME AssemInv, CopyDataRow  PROVE AssemInv'
  OBVIOUS
<1>1. /\ pc = "data" /\ pc' = "data" /\ row' = row + 1 /\ UNCHANGED << todo, complaints, pass2Fixed >>
      /\ row \in Nat /\ row < Len(dataPass1File)
      /\ TypeOK /\ RowsWritten
  BY DEF AssemInv, TypeOK, CopyDataRow
<1>2. /\ Len(outfile) = Len(codePass1File) + row /\ todo = << >>
      /\ outfile \in Seq(OutRow) /\ Len(codePass1File) \in Nat /\ Len(dataPass1File) \in Nat
  BY <1>1 DEF TypeOK, RowsWritten, CopyingData
<1>3. PICK new \in OutRow :
        /\ outfile' = Append(outfile, new)
        /\ new.offset = codeOffset + dataPass1File[row + 1].offset
        /\ new.line = dataPass1File[row + 1].line
  BY CopyDataRowFacts
<1>4. /\ outfile' \in Seq(OutRow) /\ Len(outfile') = Len(outfile) + 1
      /\ outfile'[Len(outfile) + 1] = new
      /\ \A i \in 1 .. Len(outfile) : outfile'[i] = outfile[i]
  BY <1>2, <1>3
<1>5. RowsWritten'
  <2>1. /\ codePass1File' = codePass1File /\ dataPass1File' = dataPass1File
        /\ \A i : RowOfImage(i)' = RowOfImage(i)
    BY <1>1, Pass2Fixed DEF pass2Fixed, pass1Vars
  <2>2. RowOfImage(Len(outfile) + 1) =
          [offset |-> codeOffset + dataPass1File[row + 1].offset, line |-> dataPass1File[row + 1].line]
    BY <1>1, <1>2 DEF RowOfImage
  <2>3. ASSUME NEW i \in 1 .. Len(outfile')
        PROVE  outfile'[i].offset = RowOfImage(i).offset /\ outfile'[i].line = RowOfImage(i).line
    <3>1. CASE i = Len(outfile) + 1
      BY <1>3, <1>4, <2>2, <3>1
    <3>2. CASE i \in 1 .. Len(outfile)
      BY <1>1, <1>4, <3>2 DEF RowsWritten
    <3> QED
      BY <1>2, <1>4, <3>1, <3>2
  <2> QED
    BY <1>1, <1>2, <1>4, <2>1, <2>3 DEF RowsWritten, Copying, CopyingData
<1>6. RowLinked'
  BY <1>1 DEF RowLinked, Copying
<1> QED
  BY <1>1, <1>4, <1>5, <1>6, Pass2Step DEF TypeOK

LEMMA EndOfDataInv == AssemInv /\ EndOfData => AssemInv'
<1> SUFFICES ASSUME AssemInv, EndOfData  PROVE AssemInv'
  OBVIOUS
<1>1. /\ pc = "data" /\ pc' = "done" /\ UNCHANGED << row, todo, outfile, complaints, pass2Fixed >>
      /\ TypeOK /\ RowsWritten
  BY DEF AssemInv, EndOfData, pass2Vars
<1>2. RowsWritten'
  BY <1>1, Pass2Fixed DEF RowsWritten, Copying, CopyingData, pass2Fixed, pass1Vars
<1>3. RowLinked'
  BY <1>1 DEF RowLinked, Copying
<1> QED
  BY <1>1, <1>2, <1>3, Pass2Step DEF TypeOK

(* AssemInv is inductive.                                                  *)
LEMMA StepInv == AssemInv /\ [Next]_vars => AssemInv'
<1> SUFFICES ASSUME AssemInv, [Next]_vars  PROVE AssemInv'
  OBVIOUS
<1>1. CASE UNCHANGED vars
  <2> USE DEF vars, statementVars, pass1Vars, tableVars, pass2Vars, readVars, parseVars
  <2>1. TypeOK'
    BY <1>1 DEF AssemInv, TypeOK, StatementTypeOK
  <2>2. RowsBehind(codePass1File)' /\ RowsBehind(dataPass1File)' /\ ParsesStatement'
    BY <1>1 DEF AssemInv, RowsBehind, LineAhead, ParsesStatement
  <2>3. MarksFit(machineCode)' /\ \A i \in 1 .. Len(codePass1File') : MarksFit(codePass1File[i].code)'
    BY <1>1 DEF AssemInv, MarksFit
  <2>4. UNCHANGED pass2Fixed
    BY <1>1 DEF pass2Fixed
  <2>5. NothingWritten' /\ RowsWritten'
    BY <1>1, <2>4, Pass2Fixed DEF AssemInv, NothingWritten, Reading, RowsWritten, Copying, CopyingData
  <2>6. RowLinked'
    <3>1. CASE row = 0 \/ ~ Copying
      BY <1>1, <3>1 DEF AssemInv, RowLinked, Copying
    <3>2. CASE row # 0 /\ Copying
      <4>1. InProgress(codePass1File[row].code, outfile[row].code, todo)
        BY <3>2 DEF AssemInv, RowLinked
      <4>2. InProgress(codePass1File[row].code, outfile[row].code, todo)'
        BY <1>1, <2>4, <4>1, InProgressNext
      <4> QED
        BY <1>1, <3>2, <4>2 DEF RowLinked
    <3> QED
      BY <3>1, <3>2
  <2> QED
    BY <2>1, <2>2, <2>3, <2>5, <2>6 DEF AssemInv
<1> QED
  BY <1>1, ReadInv, EmitCodeInv, EmitDataInv, SortInv, NextCodeRowInv, ReplaceInv, CrashInv,
     EndOfCodeInv, CopyDataRowInv, EndOfDataInv DEF Next

(* The members of class statement, the files, the tables and the output    *)
(* keep their types, whatever the program.                                 *)
THEOREM TypeCorrect == Spec => []TypeOK
<1>1. AssemInv => TypeOK
  BY DEF AssemInv
<1> QED
  BY <1>1, InitInv, StepInv, PTL DEF Spec

-----------------------------------------------------------------------------
(* The refinement mapping: rows of pass 1 and rows of the image.           *)

RowSeen(r) == [start |-> r.offset, line |-> r.line, refs |-> RefsOf(r.code)]

LEMMA RowsFacts ==
  ASSUME NEW file \in Seq(Row)
  PROVE  /\ Rows(file) \in Seq({ RowSeen(r) : r \in Row })
         /\ Len(Rows(file)) = Len(file) /\ DOMAIN Rows(file) = 1 .. Len(file)
         /\ \A i \in 1 .. Len(file) : Rows(file)[i] = RowSeen(file[i])
<1> DEFINE R == { RowSeen(r) : r \in Row }
<1>1. Rows(file) = [i \in 1 .. Len(file) |-> RowSeen(file[i])]
  BY DEF Rows, RowSeen
<1>2. \A i \in 1 .. Len(file) : file[i] \in Row
  OBVIOUS
<1>3. \A i \in 1 .. Len(file) : RowSeen(file[i]) \in R
  BY <1>2
<1>4. Len(file) \in Nat
  OBVIOUS
<1> HIDE DEF R
<1>5. Rows(file) \in [1 .. Len(file) -> R]
  BY <1>1, <1>3
<1>6. Rows(file) \in Seq(R) /\ Len(Rows(file)) = Len(file) /\ DOMAIN Rows(file) = 1 .. Len(file)
  BY <1>4, <1>5
<1> QED
  BY <1>1, <1>6 DEF R

LEMMA RowsAppend ==
  ASSUME NEW file \in Seq(Row), NEW r \in Row
  PROVE  Rows(Append(file, r)) = Append(Rows(file), RowSeen(r))
<1> DEFINE R == { RowSeen(q) : q \in Row }
           longer == Append(file, r)
<1>1. /\ longer \in Seq(Row) /\ Len(longer) = Len(file) + 1 /\ longer[Len(file) + 1] = r
      /\ \A i \in 1 .. Len(file) : longer[i] = file[i]
  OBVIOUS
<1> HIDE DEF longer
<1>2. Rows(longer) = [i \in 1 .. Len(longer) |-> RowSeen(longer[i])]
  BY DEF Rows, RowSeen
<1>3. Rows(file) \in Seq(R) /\ Len(Rows(file)) = Len(file)
      /\ \A i \in 1 .. Len(file) : Rows(file)[i] = RowSeen(file[i])
  BY RowsFacts
<1>4. RowSeen(r) \in R
  OBVIOUS
<1> HIDE DEF R
<1>5. PICK x : x = RowSeen(r)
  OBVIOUS
<1>6. PICK n \in Nat : n = Len(file)
  OBVIOUS
<1>a. Len(Rows(file)) = n /\ Rows(file) \in Seq(R) /\ x \in R
  BY <1>3, <1>4, <1>5, <1>6
<1>7. Append(Rows(file), x) = [i \in 1 .. n + 1 |-> IF i = n + 1 THEN x ELSE Rows(file)[i]]
  BY <1>6, <1>a, AppendIs
<1>8. \A i \in 1 .. n + 1 : RowSeen(longer[i]) = IF i = n + 1 THEN x ELSE Rows(file)[i]
  BY <1>1, <1>3, <1>5, <1>6
<1> QED
  BY <1>1, <1>2, <1>5, <1>6, <1>7, <1>8 DEF longer

RowShown(o) == [address |-> o.offset, line |-> o.line, targets |-> Targets(o.code, o.offset)]
Shown(out, n) == [i \in 1 .. n |-> RowShown(out[i])]

(* The rows that are finished.                                             *)
Finished(out, rest) == Len(out) - (IF rest = << >> THEN 0 ELSE 1)

LEMMA WrittenIsShown == Written = Shown(outfile, Finished(outfile, todo))
BY DEF Written, Shown, RowShown, Finished

LEMMA WrittenNext ==
  ASSUME UNCHANGED pass2Fixed
  PROVE  Written' = Shown(outfile', Finished(outfile', todo'))
<1>1. \A code, at : Targets(code, at)' = Targets(code, at)
  BY Pass2Fixed DEF Targets
<1>2. ASSUME NEW out, NEW rest, out = outfile', rest = todo'
      PROVE  Written' = Shown(out, Finished(out, rest))
  BY <1>1, <1>2 DEF Written, Shown, RowShown, Finished
<1> QED
  BY <1>2

LEMMA ShownFacts ==
  ASSUME NEW out \in Seq(OutRow), NEW n \in Nat, n <= Len(out)
  PROVE  /\ Shown(out, n) \in Seq({ RowShown(o) : o \in OutRow })
         /\ Len(Shown(out, n)) = n
         /\ \A i \in 1 .. n : Shown(out, n)[i] = RowShown(out[i])
<1> DEFINE R == { RowShown(o) : o \in OutRow }
<1>1. \A i \in 1 .. n : out[i] \in OutRow
  OBVIOUS
<1>2. \A i \in 1 .. n : RowShown(out[i]) \in R
  BY <1>1
<1> HIDE DEF R
<1>3. Shown(out, n) \in [1 .. n -> R]
  BY <1>2 DEF Shown
<1>4. Shown(out, n) \in Seq(R) /\ Len(Shown(out, n)) = n
  BY <1>3
<1>5. \A i \in 1 .. n : Shown(out, n)[i] = RowShown(out[i])
  BY DEF Shown
<1> QED
  BY <1>4, <1>5 DEF R

LEMMA ShownSame ==
  ASSUME NEW a, NEW b, NEW n, \A i \in 1 .. n : b[i] = a[i]
  PROVE  Shown(b, n) = Shown(a, n)
BY DEF Shown

LEMMA ShownAppend ==
  ASSUME NEW a \in Seq(OutRow), NEW b \in Seq(OutRow), NEW n \in Nat,
         n <= Len(a), n + 1 <= Len(b), \A i \in 1 .. n : b[i] = a[i]
  PROVE  Shown(b, n + 1) = Append(Shown(a, n), RowShown(b[n + 1]))
<1> DEFINE R == { RowShown(o) : o \in OutRow }
           x == RowShown(b[n + 1])
<1>1. Shown(a, n) \in Seq(R) /\ Len(Shown(a, n)) = n
      /\ \A i \in 1 .. n : Shown(a, n)[i] = RowShown(a[i])
  BY ShownFacts
<1>2. b[n + 1] \in OutRow
  OBVIOUS
<1>3. x \in R
  BY <1>2
<1> HIDE DEF R
<1>4. Append(Shown(a, n), x) = [i \in 1 .. n + 1 |-> IF i = n + 1 THEN x ELSE Shown(a, n)[i]]
  BY <1>1, <1>3
<1>5. \A i \in 1 .. n + 1 : RowShown(b[i]) = IF i = n + 1 THEN x ELSE Shown(a, n)[i]
  BY <1>1
<1> QED
  BY <1>4, <1>5 DEF Shown

LEMMA TargetsFacts ==
  ASSUME NEW code, NEW at
  PROVE  \A t : t \in Targets(code, at) <=>
           \E p \in Range(code) : \E n \in p.refs : \E a \in PointsTo(p, at) :
             t = [name |-> n, address |-> a]
BY DEF Targets

LEMMA RefsFacts ==
  ASSUME NEW code
  PROVE  \A s : s \in RefsOf(code) <=>
           \E q \in Range(code) : \E n \in q.refs : s = [name |-> n, kind |-> q.op]
BY DEF RefsOf

(* A row with nothing left to do is linked.                                *)
LEMMA RowDone ==
  ASSUME NEW r, NEW out, InProgress(r.code, out.code, << >>), out.line = r.line
  PROVE  Abstract!Linked(RowSeen(r), RowShown(out))
<1> DEFINE S == RowSeen(r)
           W == RowShown(out)
<1>1. /\ S.line = r.line /\ S.refs = RefsOf(r.code)
      /\ W.line = out.line /\ W.targets = Targets(out.code, out.offset)
  BY DEF RowSeen, RowShown
<1> HIDE DEF S, W
<1>2. ASSUME NEW t \in W.targets  PROVE \E s \in S.refs : s.name = t.name
  <2>1. PICK p \in Range(out.code) : \E n \in p.refs : \E a \in PointsTo(p, out.offset) :
          t = [name |-> n, address |-> a]
    BY <1>1, TargetsFacts
  <2>2. PICK n \in p.refs : t.name = n
    BY <2>1
  <2>3. PICK q \in Range(r.code) : n \in q.refs
    BY <2>2 DEF InProgress
  <2>4. [name |-> n, kind |-> q.op] \in S.refs
    BY <1>1, <2>3, RefsFacts
  <2> QED
    BY <2>2, <2>4
<1>3. ASSUME NEW s \in S.refs,
             \A u \in S.refs : u.name = s.name => Abstract!Reaches(u.kind, u.name)
      PROVE  LET targets == { t \in W.targets : t.name = s.name } IN
             targets # {} /\ \A t \in targets : t.address \in Abstract!Meanings(s.name)
  <2>1. PICK q \in Range(r.code) : \E n \in q.refs : s = [name |-> n, kind |-> q.op]
    BY <1>1, RefsFacts
  <2>2. PICK n \in q.refs : s = [name |-> n, kind |-> q.op]
    BY <2>1
  <2>3. s.name = n
    BY <2>2
  <2>4. Linkable(r.code, n)
    <3>1. ASSUME NEW o \in Range(r.code), n \in o.refs  PROVE Abstract!Reaches(o.op, n)
      <4>1. PICK u : u = [name |-> n, kind |-> o.op]
        OBVIOUS
      <4>2. u \in S.refs /\ u.name = n /\ u.kind = o.op
        BY <1>1, <3>1, <4>1, RefsFacts
      <4> QED
        BY <1>3, <2>3, <4>2
    <3> QED
      BY <3>1 DEF Linkable
  <2>5. PICK p \in Range(out.code) : n \in p.refs
    BY <2>4, RangeOfFew DEF InProgress
  <2>a. Means(p, n)
    BY <2>4, <2>5 DEF InProgress
  <2>6. PICK a \in PointsTo(p, out.offset) : TRUE
    BY <2>a DEF Means
  <2>7. [name |-> n, address |-> a] \in W.targets
    BY <1>1, <2>5, TargetsFacts
  <2>8. ASSUME NEW t \in W.targets, t.name = n  PROVE t.address \in Abstract!Meanings(n)
    <3>1. PICK o \in Range(out.code) : \E m \in o.refs : \E b \in PointsTo(o, out.offset) :
            t = [name |-> m, address |-> b]
      BY <1>1, TargetsFacts
    <3>2. n \in o.refs /\ t.address \in PointsTo(o, out.offset)
      BY <2>8, <3>1
    <3>3. Means(o, n)
      BY <2>4, <3>2 DEF InProgress
    <3> QED
      BY <3>2, <3>3 DEF Means
  <2> QED
    BY <2>3, <2>7, <2>8
<1> QED
  BY <1>1, <1>2, <1>3 DEF Abstract!Linked, S, W

-----------------------------------------------------------------------------
(* Every step is a step of Assembly, or leaves its state as it is.         *)

LEMMA InitRefines == Init => Abstract!AssemblyInit
<1> SUFFICES ASSUME Init  PROVE Abstract!AssemblyInit
  OBVIOUS
<1>1. /\ pc = "begin" /\ codeOffset = 0 /\ dataOffset = 0 /\ outfile = << >> /\ todo = << >>
      /\ codePass1File = << >> /\ dataPass1File = << >>
      /\ codeSymTable = << >> /\ dataSymTable = << >>
  BY DEF Init, StatementInit
<1>2. Rows(<< >>) = << >> /\ Written = << >>
  BY <1>1 DEF Rows, Written
<1> QED
  BY <1>1, <1>2, RangeOfFew DEF Abstract!AssemblyInit, Phase

(* Nothing is shown in pass 1.                                             *)
LEMMA NothingShown == outfile = << >> /\ todo = << >> => Written = << >>
BY DEF Written

LEMMA NothingShownNext == outfile' = << >> /\ todo' = << >> => Written' = << >>
BY DEF Written

LEMMA ReadRefines == AssemInv /\ ReadStatement => UNCHANGED Abstract!assemblyVars
<1> SUFFICES ASSUME AssemInv, ReadStatement  PROVE UNCHANGED Abstract!assemblyVars
  OBVIOUS
<1>1. UNCHANGED << pass1Vars, tableVars, pass2Vars >> /\ Reading /\ Reading'
  BY DEF ReadStatement, ReadNext, BeginRead, ReadComment, ReadUnlabelled, ReadLabel, SkipComment,
     SkipToStatement, ReadEnd, CountLines, Parse, Reading
<1>2. Phase' = Phase
  BY <1>1 DEF Phase, Reading
<1>3. Written' = Written
  BY <1>1, NothingShown, NothingShownNext DEF AssemInv, NothingWritten, pass2Vars
<1> QED
  BY <1>1, <1>2, <1>3 DEF Abstract!assemblyVars, Abstract!segments, Rows, pass1Vars, tableVars

(* A row that is later than all there are.                                 *)
LEMMA LaterFacts ==
  ASSUME AssemInv, LineAhead, NEW r, r.line = pos
  PROVE  Abstract!Later(RowSeen(r))
<1>1. codePass1File \in Seq(Row) /\ dataPass1File \in Seq(Row)
  BY DEF AssemInv, TypeOK
<1>2. RowSeen(r).line = pos
  BY DEF RowSeen
<1>3. ASSUME NEW file \in Seq(Row), RowsBehind(file), NEW i \in DOMAIN Rows(file)
      PROVE  Rows(file)[i].line < RowSeen(r).line
  <2>1. i \in 1 .. Len(file) /\ Rows(file)[i] = RowSeen(file[i])
    BY <1>3, RowsFacts
  <2> QED
    BY <1>2, <1>3, <2>1 DEF RowSeen, RowsBehind
<1> QED
  BY <1>1, <1>3 DEF Abstract!Later, AssemInv

LEMMA EmitCodeRefines == AssemInv /\ EmitCode => Abstract!TakeInstruction
<1> SUFFICES ASSUME AssemInv, EmitCode  PROVE Abstract!TakeInstruction
  OBVIOUS
<1> DEFINE r == [offset |-> codeOffset, code |-> machineCode, line |-> pos]
           R == { RowSeen(q) : q \in Row }
<1>1. /\ TypeOK /\ pc = "emit" /\ pc' = "begin" /\ codeOffset \in Nat /\ machineCodeSize \in Nat
      /\ codeOffset' = codeOffset + machineCodeSize
      /\ codeSymTable' = WithLabel(codeSymTable, codeOffset) /\ codeSymTable \in Seq(Symbol)
      /\ codePass1File' = Append(codePass1File, r) /\ codePass1File \in Seq(Row)
      /\ pos \in Nat /\ machineCode \in Seq(Piece)
      /\ label \in {{}} \cup { {n} : n \in Name }
      /\ UNCHANGED << dataOffset, dataPass1File, dataSymTable, pass2Vars >>
  BY DEF AssemInv, TypeOK, StatementTypeOK, EmitCode
<1>2. r \in Row /\ r.line = pos /\ r.offset = codeOffset
  BY <1>1 DEF Row
<1> HIDE DEF r
<1>3. PICK row0 : row0 = RowSeen(r)
  OBVIOUS
<1>4. row0.start = codeOffset /\ Abstract!Later(row0)
  BY <1>1, <1>2, <1>3, LaterFacts DEF RowSeen, LineAhead
<1>5. Rows(codePass1File') = Append(Rows(codePass1File), row0)
  BY <1>1, <1>2, <1>3, RowsAppend
<1>6. Rows(codePass1File) \in Seq(R) /\ row0 \in R
  BY <1>1, <1>2, <1>3, RowsFacts
<1> HIDE DEF R
<1>7. /\ Len(Rows(codePass1File')) = Len(Rows(codePass1File)) + 1
      /\ Rows(codePass1File')[Len(Rows(codePass1File'))] = row0
  BY <1>5, <1>6
<1>8. Range(codeSymTable') = Range(codeSymTable) \cup Abstract!AtStart(label, codeOffset)
  BY <1>1, WithLabelFacts
<1>9. codeOffset' >= codeOffset
  BY <1>1
<1>10. Phase = "collect" /\ Phase' = "collect" /\ Written' = Written
  BY <1>1, NothingShown, NothingShownNext DEF Phase, AssemInv, NothingWritten, Reading, pass2Vars
<1> QED
  BY <1>1, <1>4, <1>5, <1>7, <1>8, <1>9, <1>10
  DEF Abstract!TakeInstruction, Abstract!AtMostOne, Abstract!AtStart, Rows

LEMMA EmitDataRefines == AssemInv /\ EmitData => Abstract!TakeData
<1> SUFFICES ASSUME AssemInv, EmitData  PROVE Abstract!TakeData
  OBVIOUS
<1> DEFINE r == [offset |-> dataOffset, code |-> machineCode, line |-> pos]
           R == { RowSeen(q) : q \in Row }
<1>1. /\ TypeOK /\ pc = "emit" /\ pc' = "begin" /\ dataOffset \in Nat /\ machineCodeSize \in Nat
      /\ dataOffset' = dataOffset + machineCodeSize
      /\ dataSymTable' = WithLabel(dataSymTable, dataOffset) /\ dataSymTable \in Seq(Symbol)
      /\ dataPass1File' = Append(dataPass1File, r) /\ dataPass1File \in Seq(Row)
      /\ pos \in Nat /\ machineCode \in Seq(Piece)
      /\ label \in {{}} \cup { {n} : n \in Name }
      /\ UNCHANGED << codeOffset, codePass1File, codeSymTable, pass2Vars >>
  BY DEF AssemInv, TypeOK, StatementTypeOK, EmitData
<1>2. r \in Row /\ r.line = pos /\ r.offset = dataOffset
  BY <1>1 DEF Row
<1> HIDE DEF r
<1>3. PICK row0 : row0 = RowSeen(r)
  OBVIOUS
<1>4. row0.start = dataOffset /\ Abstract!Later(row0)
  BY <1>1, <1>2, <1>3, LaterFacts DEF RowSeen, LineAhead
<1>5. Rows(dataPass1File') = Append(Rows(dataPass1File), row0)
  BY <1>1, <1>2, <1>3, RowsAppend
<1>6. Rows(dataPass1File) \in Seq(R) /\ row0 \in R
  BY <1>1, <1>2, <1>3, RowsFacts
<1> HIDE DEF R
<1>7. /\ Len(Rows(dataPass1File')) = Len(Rows(dataPass1File)) + 1
      /\ Rows(dataPass1File')[Len(Rows(dataPass1File'))] = row0
  BY <1>5, <1>6
<1>8. Range(dataSymTable') = Range(dataSymTable) \cup Abstract!AtStart(label, dataOffset)
  BY <1>1, WithLabelFacts
<1>9. dataOffset' >= dataOffset
  BY <1>1
<1>10. Phase = "collect" /\ Phase' = "collect" /\ Written' = Written
  BY <1>1, NothingShown, NothingShownNext DEF Phase, AssemInv, NothingWritten, Reading, pass2Vars
<1> QED
  BY <1>1, <1>4, <1>5, <1>7, <1>8, <1>9, <1>10
  DEF Abstract!TakeData, Abstract!AtMostOne, Abstract!AtStart, Rows

LEMMA SortRefines == AssemInv /\ SortTables => Abstract!Link
<1> SUFFICES ASSUME AssemInv, SortTables  PROVE Abstract!Link
  OBVIOUS
<1>1. /\ TypeOK /\ pc = "sort" /\ pc' = "code" /\ UNCHANGED << pass1Vars, pass2Vars >>
      /\ codeSymTable' \in SortsOf(codeSymTable) /\ dataSymTable' \in SortsOf(dataSymTable)
  BY DEF AssemInv, TypeOK, SortTables
<1>2. Range(codeSymTable') = Range(codeSymTable) /\ Range(dataSymTable') = Range(dataSymTable)
  BY <1>1, SortFacts DEF TypeOK
<1>3. Phase = "collect" /\ Phase' = "write" /\ Written' = Written
  BY <1>1, NothingShown, NothingShownNext DEF Phase, AssemInv, NothingWritten, Reading, pass2Vars
<1> QED
  BY <1>1, <1>2, <1>3 DEF Abstract!Link, Abstract!segments, Rows, pass1Vars

(* Pass 2 leaves the segments as they are.                                 *)
LEMMA SegmentsFixed == UNCHANGED pass2Fixed => UNCHANGED Abstract!segments
BY DEF pass2Fixed, pass1Vars, tableVars, Abstract!segments, Rows

(* The row in progress is finished, and becomes visible.                   *)
LEMMA RowFinished ==
  ASSUME AssemInv, AssemInv', UNCHANGED << pc, pass2Fixed >>, pc = "code", todo' = << >>,
         row' \in 1 .. Len(codePass1File), Finished(outfile, todo) = row' - 1,
         Finished(outfile, todo) <= Len(outfile), \A i \in 1 .. row' - 1 : outfile'[i] = outfile[i],
         InProgress(codePass1File[row'].code, outfile'[row'].code, << >>)
  PROVE  Abstract!WriteInstruction
<1>1. /\ outfile \in Seq(OutRow) /\ outfile' \in Seq(OutRow) /\ Len(outfile') = row'
      /\ codePass1File \in Seq(Row) /\ row' \in Nat
      /\ codePass1File' = codePass1File /\ Len(codePass1File) \in Nat
  BY DEF AssemInv, TypeOK, RowsWritten, Copying, pass2Fixed, pass1Vars
<1>2. PICK n \in Nat : /\ n + 1 = row' /\ n <= Len(outfile) /\ n + 1 \in 1 .. Len(codePass1File)
                       /\ Finished(outfile, todo) = n
  BY <1>1
<1>3. PICK new \in Seq(OutRow) : new = outfile'
  BY <1>1
<1>4. Len(new) = n + 1 /\ \A i \in 1 .. n : new[i] = outfile[i]
  BY <1>1, <1>2, <1>3
<1>5. PICK w : w = RowShown(new[n + 1])
  OBVIOUS
<1>6. Written = Shown(outfile, n) /\ Written' = Shown(new, n + 1)
  BY <1>1, <1>2, <1>3, WrittenIsShown, WrittenNext DEF Finished
<1>7. Written' = Append(Written, w)
  BY <1>1, <1>2, <1>4, <1>5, <1>6, ShownAppend
<1>8. Len(Written) = n /\ Len(Written') = n + 1 /\ Written'[n + 1] = w
  <2>1. Len(Shown(outfile, n)) = n
    BY <1>1, <1>2, ShownFacts
  <2>2. PICK m \in Nat : m = n + 1 /\ m <= Len(new) /\ n + 1 \in 1 .. m
    BY <1>4
  <2>3. /\ Len(Shown(new, m)) = m
        /\ \A i \in 1 .. m : Shown(new, m)[i] = RowShown(new[i])
    BY <1>3, <2>2, ShownFacts
  <2> QED
    BY <1>5, <1>6, <2>1, <2>2, <2>3
<1>9. PICK r : r = codePass1File[n + 1]
  OBVIOUS
<1>10. Len(Rows(codePass1File)) = Len(codePass1File) /\ Rows(codePass1File)[n + 1] = RowSeen(r)
  BY <1>1, <1>2, <1>9, RowsFacts
<1>11. new[n + 1].offset = r.offset /\ new[n + 1].line = r.line
  <2>1. PICK i : i = n + 1
    OBVIOUS
  <2>2. outfile'[i].offset = RowOfImage(i)'.offset /\ outfile'[i].line = RowOfImage(i)'.line
    BY <1>1, <1>2, <2>1 DEF AssemInv, RowsWritten
  <2> QED
    BY <1>1, <1>2, <1>3, <1>9, <2>1, <2>2 DEF RowOfImage
<1>12. InProgress(r.code, new[n + 1].code, << >>)
  BY <1>2, <1>3, <1>9
<1>13. Abstract!Linked(Rows(codePass1File)[n + 1], w)
  BY <1>5, <1>10, <1>11, <1>12, RowDone
<1>14. w.address = Rows(codePass1File)[n + 1].start
  BY <1>5, <1>10, <1>11 DEF RowShown, RowSeen
<1>15. Phase = "write" /\ Phase' = "write" /\ UNCHANGED Abstract!segments
  BY SegmentsFixed DEF Phase
<1> QED
  BY <1>2, <1>7, <1>8, <1>10, <1>13, <1>14, <1>15 DEF Abstract!WriteInstruction

LEMMA NextCodeRowRefines ==
  AssemInv /\ AssemInv' /\ NextCodeRow
    => Abstract!WriteInstruction \/ UNCHANGED Abstract!assemblyVars
<1> SUFFICES ASSUME AssemInv, AssemInv', NextCodeRow
             PROVE  Abstract!WriteInstruction \/ UNCHANGED Abstract!assemblyVars
  OBVIOUS
<1>1. /\ pc = "code" /\ todo = << >> /\ UNCHANGED << pc, complaints, pass2Fixed >>
      /\ row \in Nat /\ row < Len(codePass1File) /\ row' = row + 1
      /\ codePass1File \in Seq(Row) /\ Len(codePass1File) \in Nat
      /\ outfile \in Seq(OutRow) /\ outfile' \in Seq(OutRow) /\ Len(outfile) = row
      /\ Len(outfile') = row'
  BY DEF AssemInv, TypeOK, NextCodeRow, RowsWritten, Copying
<1>2. \A i \in 1 .. row : outfile'[i] = outfile[i]
  <2>1. PICK o : outfile' = Append(outfile, o)
    BY DEF NextCodeRow
  <2> QED
    BY <1>1, <2>1
<1>3. PICK k \in Nat : k = row' /\ k = row + 1 /\ k \in 1 .. Len(codePass1File)
  BY <1>1
<1>4. Finished(outfile, todo) = row
  BY <1>1 DEF Finished
<1>5. CASE todo' = << >>
  <2>1. InProgress(codePass1File[row].code, outfile[row].code, todo)'
    BY <1>1 DEF AssemInv, RowLinked, Copying
  <2>2. InProgress(codePass1File[row'].code, outfile'[row'].code, << >>)
    <3>1. PICK code, done, rest :
            /\ code = codePass1File'[row'].code /\ done = outfile'[row'].code /\ rest = todo'
      OBVIOUS
    <3>2. \A n : Linkable(code, n)' <=> Linkable(code, n)
      BY <1>1, Pass2Fixed DEF Linkable
    <3>3. InProgress(code, done, rest)'
      BY <2>1, <3>1
    <3>4. InProgress(code, done, rest)
      BY <1>1, <3>2, <3>3, Pass2Fixed DEF InProgress
    <3> QED
      BY <1>1, <1>5, <3>1, <3>4 DEF pass2Fixed, pass1Vars
  <2> QED
    BY <1>1, <1>2, <1>3, <1>4, <1>5, <2>2, RowFinished
<1>6. CASE todo' # << >>
  <2>1. PICK new, rest : new = outfile' /\ rest = todo'
    OBVIOUS
  <2>2. Finished(new, rest) = row
    BY <1>1, <1>6, <2>1 DEF Finished
  <2>3. Shown(new, row) = Shown(outfile, row)
    BY <1>2, <2>1, ShownSame
  <2>4. Written' = Shown(new, Finished(new, rest))
    BY <1>1, <2>1, WrittenNext
  <2>5. Written' = Written
    BY <1>4, <2>2, <2>3, <2>4, WrittenIsShown
  <2> QED
    BY <1>1, <2>5, SegmentsFixed DEF Abstract!assemblyVars, Phase
<1> QED
  BY <1>5, <1>6

(* The last piece of a row finishes it.                                    *)
LEMMA ReplaceRefines ==
  ASSUME AssemInv, AssemInv',
         CopyPiece \/ \E n \in Name : FoundInCode(n) \/ FoundInData(n) \/ NotFound(n)
  PROVE  Abstract!WriteInstruction \/ UNCHANGED Abstract!assemblyVars
<1>1. pc = "code" /\ todo # << >> /\ UNCHANGED << pc, pass2Fixed >>
  BY Replacing
<1>2. PICK pieces : Resolves(Head(todo), pieces) /\ Write(pieces)
  BY Replacing
<1>3. pieces \in Seq(OutPiece)
  BY <1>2 DEF Resolves
<1>4. /\ outfile' \in Seq(OutRow) /\ Len(outfile') = Len(outfile)
      /\ \A i \in 1 .. Len(outfile) : i # row => outfile'[i] = outfile[i]
      /\ outfile'[row].code = outfile[row].code \o pieces
      /\ todo' = Tail(todo) /\ row' = row
  BY <1>1, <1>2, <1>3, WriteFacts
<1>5. /\ row \in 1 .. Len(codePass1File) /\ row = Len(outfile) /\ row \in Nat
      /\ outfile[row].code \in Seq(OutPiece) /\ todo \in Seq(Piece)
      /\ InProgress(codePass1File[row].code, outfile[row].code, todo)
      /\ outfile \in Seq(OutRow)
  BY <1>1, RowBegun
<1>6. InProgress(codePass1File[row].code, outfile[row].code \o pieces, Tail(todo))
  BY <1>1, <1>2, <1>5, ProgressStep
<1>7. Finished(outfile, todo) = row - 1 /\ \A i \in 1 .. row - 1 : outfile'[i] = outfile[i]
  BY <1>1, <1>4, <1>5 DEF Finished
<1>8. CASE todo' = << >>
  <2>1. InProgress(codePass1File[row'].code, outfile'[row'].code, << >>)
    BY <1>4, <1>6, <1>8
  <2> QED
    BY <1>1, <1>4, <1>5, <1>7, <1>8, <2>1, RowFinished
<1>9. CASE todo' # << >>
  <2>1. PICK new, rest : new = outfile' /\ rest = todo'
    OBVIOUS
  <2>2. PICK n \in Int : n = row - 1
    BY <1>5
  <2>3. Finished(new, rest) = n
    BY <1>4, <1>5, <1>9, <2>1, <2>2 DEF Finished
  <2>4. Shown(new, n) = Shown(outfile, n)
    BY <1>7, <2>1, <2>2, ShownSame
  <2>5. Written' = Shown(new, Finished(new, rest))
    BY <1>1, <2>1, WrittenNext
  <2>6. Written' = Written
    BY <1>7, <2>2, <2>3, <2>4, <2>5, WrittenIsShown
  <2> QED
    BY <1>1, <2>6, SegmentsFixed DEF Abstract!assemblyVars, Phase
<1> QED
  BY <1>8, <1>9

(* Pass 2 crashes only for want of a definition or of a label in the code. *)
LEMMA CrashRefines ==
  ASSUME AssemInv, AssemInv', NEW n \in Name, NullSymbolUsed(n) \/ EmptyTableSearched(n)
  PROVE  Abstract!Fail
<1>1. /\ Marked(n) /\ pc = "code" /\ pc' = "crash" /\ todo # << >> /\ n \in Head(todo).refs
      /\ UNCHANGED << row, todo, outfile, pass2Fixed >>
  BY DEF NullSymbolUsed, EmptyTableSearched, Marked, pass2Vars
<1>2. Abstract!Meanings(n) = {} \/ Range(codeSymTable) = {}
  <2>1. CASE NullSymbolUsed(n)
    BY <2>1, DefinitionFacts DEF NullSymbolUsed, AssemInv, Abstract!Meanings
  <2>2. CASE EmptyTableSearched(n)
    <3>1. CASE codeSymTable = << >>
      BY <3>1, RangeOfFew
    <3>2. CASE codeSymTable # << >>
      <4>1. DefinitionsOf(n, codeSymTable) = {} /\ dataSymTable = << >>
        BY <2>2, <3>2 DEF EmptyTableSearched, LookupCrashes
      <4>2. DefinitionsOf(n, dataSymTable) = {}
        BY <4>1, RangeOfFew DEF DefinitionsOf
      <4> QED
        BY <4>1, <4>2, DefinitionFacts DEF AssemInv, Abstract!Meanings
    <3> QED
      BY <3>1, <3>2
  <2> QED
    BY <2>1, <2>2
<1>3. PICK i \in 1 .. Len(codePass1File) :
        /\ Head(todo) \in Range(codePass1File[i].code) /\ codePass1File \in Seq(Row)
  BY <1>1, RowBegun
<1>4. PICK ref : ref = [name |-> n, kind |-> Head(todo).op]
  OBVIOUS
<1>5. ref \in RefsOf(codePass1File[i].code) /\ ref.name = n
  BY <1>1, <1>3, <1>4, RefsFacts
<1>6. i \in DOMAIN Rows(codePass1File) /\ Rows(codePass1File)[i] = RowSeen(codePass1File[i])
  BY <1>3, RowsFacts
<1>7. ref \in Rows(codePass1File)[i].refs
  BY <1>5, <1>6 DEF RowSeen
<1>8. UNCHANGED Abstract!segments /\ Phase = "write" /\ Phase' = "failed"
  BY <1>1, SegmentsFixed DEF Phase
<1>9. Written' = Written
  BY <1>1, WrittenNext, WrittenIsShown
<1> QED
  BY <1>2, <1>5, <1>6, <1>7, <1>8, <1>9 DEF Abstract!Fail

LEMMA EndOfCodeRefines == AssemInv /\ EndOfCode => UNCHANGED Abstract!assemblyVars
<1> SUFFICES ASSUME AssemInv, EndOfCode  PROVE UNCHANGED Abstract!assemblyVars
  OBVIOUS
<1>1. pc = "code" /\ pc' = "data" /\ UNCHANGED << todo, outfile, complaints, pass2Fixed >>
  BY DEF EndOfCode
<1>2. Written' = Written
  BY <1>1, WrittenNext, WrittenIsShown
<1> QED
  BY <1>1, <1>2, SegmentsFixed DEF Abstract!assemblyVars, Phase

LEMMA CopyDataRowRefines == AssemInv /\ CopyDataRow => Abstract!WriteData
<1> SUFFICES ASSUME AssemInv, CopyDataRow  PROVE Abstract!WriteData
  OBVIOUS
<1>1. /\ pc = "data" /\ pc' = "data" /\ UNCHANGED << todo, pass2Fixed >>
      /\ row \in Nat /\ row < Len(dataPass1File) /\ codePass1File \in Seq(Row)
      /\ dataPass1File \in Seq(Row) /\ outfile \in Seq(OutRow)
      /\ Len(outfile) = Len(codePass1File) + row /\ todo = << >>
      /\ Len(codePass1File) \in Nat /\ Len(dataPass1File) \in Nat /\ codeOffset \in Nat
  BY DEF AssemInv, TypeOK, CopyDataRow, RowsWritten, CopyingData
<1>2. PICK o \in OutRow :
        /\ outfile' = Append(outfile, o)
        /\ o.offset = codeOffset + dataPass1File[row + 1].offset
        /\ o.line = dataPass1File[row + 1].line
        /\ \A p \in Range(o.code) : p.refs = {}
  BY CopyDataRowFacts
<1>3. PICK n \in Nat : n = Len(outfile) /\ n <= Len(outfile)
  BY <1>1
<1>4. PICK new : new = Append(outfile, o) /\ new = outfile'
  BY <1>2
<1>a. /\ new \in Seq(OutRow) /\ Len(new) = n + 1 /\ n + 1 <= Len(new) /\ new[n + 1] = o
      /\ \A i \in 1 .. n : new[i] = outfile[i]
  BY <1>1, <1>2, <1>3, <1>4
<1>5. PICK w : w = RowShown(o)
  OBVIOUS
<1>6. Written = Shown(outfile, n) /\ Written' = Shown(new, n + 1)
  BY <1>1, <1>3, <1>4, <1>a, WrittenIsShown, WrittenNext DEF Finished
<1>7. Written' = Append(Written, w)
  <2>1. Shown(new, n + 1) = Append(Shown(outfile, n), RowShown(new[n + 1]))
    BY <1>1, <1>3, <1>a, ShownAppend
  <2> QED
    BY <1>5, <1>6, <1>a, <2>1
<1>8. Len(Written) = n
  <2>1. Len(Shown(outfile, n)) = n
    BY <1>1, <1>3, ShownFacts
  <2> QED
    BY <1>6, <2>1
<1>9. Targets(o.code, o.offset) = {}
  BY <1>2, TargetsFacts
<1>10. PICK r : r = dataPass1File[row + 1]
  OBVIOUS
<1>11. /\ Len(Rows(codePass1File)) = Len(codePass1File) /\ Len(Rows(dataPass1File)) = Len(dataPass1File)
       /\ Rows(dataPass1File)[row + 1] = RowSeen(r)
  <2>1. PICK i \in 1 .. Len(dataPass1File) : i = row + 1
    BY <1>1
  <2>2. Rows(dataPass1File)[i] = RowSeen(dataPass1File[i])
    BY <1>1, RowsFacts
  <2>3. Len(Rows(codePass1File)) = Len(codePass1File) /\ Len(Rows(dataPass1File)) = Len(dataPass1File)
    BY <1>1, RowsFacts
  <2> QED
    BY <1>10, <2>1, <2>2, <2>3
<1>12. w = [address |-> codeOffset + RowSeen(r).start, line |-> RowSeen(r).line, targets |-> {}]
  BY <1>2, <1>5, <1>9, <1>10 DEF RowShown, RowSeen
<1>13. Phase = "write" /\ Phase' = "write" /\ UNCHANGED Abstract!segments
  BY <1>1, SegmentsFixed DEF Phase
<1>14. n + 1 - Len(codePass1File) = row + 1
       /\ n \in Len(codePass1File) .. Len(codePass1File) + Len(dataPass1File) - 1
  BY <1>1, <1>3
<1> QED
  BY <1>7, <1>8, <1>11, <1>12, <1>13, <1>14 DEF Abstract!WriteData

LEMMA EndOfDataRefines == AssemInv /\ EndOfData => Abstract!Finish
<1> SUFFICES ASSUME AssemInv, EndOfData  PROVE Abstract!Finish
  OBVIOUS
<1>1. /\ pc = "data" /\ pc' = "done" /\ UNCHANGED << row, todo, outfile, pass2Fixed >>
      /\ codePass1File \in Seq(Row) /\ dataPass1File \in Seq(Row) /\ outfile \in Seq(OutRow)
      /\ Len(outfile) = Len(codePass1File) + Len(dataPass1File) /\ todo = << >>
  BY DEF AssemInv, TypeOK, EndOfData, RowsWritten, CopyingData, pass2Vars
<1>2. PICK n \in Nat : n = Len(outfile) /\ n <= Len(outfile) /\ Finished(outfile, todo) = n
  BY <1>1 DEF Finished
<1>3. Written' = Written /\ Written = Shown(outfile, n)
  BY <1>1, <1>2, WrittenNext, WrittenIsShown
<1>4. Len(Written) = n
  <2>1. Len(Shown(outfile, n)) = n
    BY <1>1, <1>2, ShownFacts
  <2> QED
    BY <1>3, <2>1
<1>5. /\ Len(Rows(codePass1File)) = Len(codePass1File)
      /\ Len(Rows(dataPass1File)) = Len(dataPass1File)
  BY <1>1, RowsFacts
<1>6. Phase = "write" /\ Phase' = "done" /\ UNCHANGED Abstract!segments
  BY <1>1, SegmentsFixed DEF Phase
<1> QED
  BY <1>1, <1>2, <1>3, <1>4, <1>5, <1>6 DEF Abstract!Finish

LEMMA StutterRefines == UNCHANGED vars => UNCHANGED Abstract!assemblyVars
<1> SUFFICES ASSUME UNCHANGED vars  PROVE UNCHANGED Abstract!assemblyVars
  OBVIOUS
<1>1. UNCHANGED << pc, todo, outfile, pass2Fixed >>
  BY DEF vars, statementVars, pass2Vars, pass2Fixed
<1>2. Written' = Written
  BY <1>1, WrittenNext, WrittenIsShown
<1> QED
  BY <1>1, <1>2, SegmentsFixed DEF Abstract!assemblyVars, Phase

(* Every step of the two passes is one of Assembly, or changes nothing.    *)
LEMMA StepRefines ==
  AssemInv /\ AssemInv' /\ [Next]_vars => [Abstract!AssemblyNext]_(Abstract!assemblyVars)
<1> SUFFICES ASSUME AssemInv, AssemInv', [Next]_vars
             PROVE  Abstract!AssemblyNext \/ UNCHANGED Abstract!assemblyVars
  OBVIOUS
<1> USE DEF Abstract!AssemblyNext
<1>1. CASE ReadStatement
  BY <1>1, ReadRefines
<1>2. CASE EmitCode
  BY <1>2, EmitCodeRefines
<1>3. CASE EmitData
  BY <1>3, EmitDataRefines
<1>4. CASE SortTables
  BY <1>4, SortRefines
<1>5. CASE NextCodeRow
  BY <1>5, NextCodeRowRefines
<1>6. CASE CopyPiece \/ \E n \in Name : FoundInCode(n) \/ FoundInData(n) \/ NotFound(n)
  BY <1>6, ReplaceRefines
<1>7. ASSUME NEW n \in Name, NullSymbolUsed(n) \/ EmptyTableSearched(n)
      PROVE  Abstract!AssemblyNext \/ UNCHANGED Abstract!assemblyVars
  BY <1>7, CrashRefines
<1>8. CASE EndOfCode
  BY <1>8, EndOfCodeRefines
<1>9. CASE CopyDataRow
  BY <1>9, CopyDataRowRefines
<1>10. CASE EndOfData
  BY <1>10, EndOfDataRefines
<1>11. CASE UNCHANGED vars
  BY <1>11, StutterRefines
<1> QED
  BY <1>1, <1>2, <1>3, <1>4, <1>5, <1>6, <1>7, <1>8, <1>9, <1>10, <1>11 DEF Next

(* The two passes of assem() lay the segments out without a gap, write each*)
(* row once and in order at the address it ends up at, link every reference*)
(* that can reach its label, and crash only where a definition is missing. *)
THEOREM TwoPassesImplementAssembly == Spec => ImplementsAssembly
<1>1. Init => Abstract!AssemblyInit
  BY InitRefines
<1>2. AssemInv /\ AssemInv' /\ [Next]_vars => [Abstract!AssemblyNext]_(Abstract!assemblyVars)
  BY StepRefines
<1> QED
  BY <1>1, <1>2, InitInv, StepInv, PTL DEF Spec, ImplementsAssembly, Abstract!AssemblySpec
=============================================================================
