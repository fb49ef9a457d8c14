---------------------------- MODULE ImageProofs ----------------------------
(***************************************************************************)
(* Theorems about what assem() produces, for every program, however long,  *)
(* and whatever its statements are translated to: line numbers, undefined  *)
(* names, the targets of references, and, for a program without errors,    *)
(* the whole image.                                                        *)
(***************************************************************************)
EXTENDS Image, AssemProofs, FiniteSetTheorems

(* A label is followed by its statement on its own line: read() skips no   *)
(* line.  In RISC-V it never does, since isComment() looks at column 1.    *)
NoLabelAlone == \A line \in Line : line.col1 \in {"label", "bad"} => ~ IsComment(line, TRUE)

LEMMA RiscvSkipsNothing == ISA = "riscv" => NoLabelAlone
BY DEF NoLabelAlone, IsComment

-----------------------------------------------------------------------------
(* Line numbers in messages.                                               *)

(* The lines that assem() and read() have counted are all the lines read.  *)
LinesCounted ==
  /\ pc \in {"read", "return"}          => sourceLine + sourceLines = pos
  /\ pc \in {"begin", "parse", "emit"}  => sourceLine = pos
  /\ pc # "skip"

LineInv == LinesCounted /\ ErrorLineRight

LEMMA MessagesKept ==
  ASSUME ErrorLineRight,
         \/ UNCHANGED messages
         \/ \E what \in {"bad_label", "missing_colon"} : \E about \in Nat : Report(what, about)
         \/ sourceLine = pos /\ Report("in_statement", pos)
  PROVE  ErrorLineRight'
BY DEF ErrorLineRight, Report

LEMMA LineReadInv == NoLabelAlone /\ AssemInv /\ LineInv /\ ReadStatement => LineInv'
<1> SUFFICES ASSUME NoLabelAlone, AssemInv, LineInv, ReadStatement  PROVE LineInv'
  OBVIOUS
<1> USE DEF readVars, parseVars
<1>0. /\ StatementTypeOK /\ pos \in Nat /\ pos + 1 \in Nat /\ sourceLine \in Nat /\ sourceLines \in Nat
      /\ LinesCounted /\ ErrorLineRight
  BY DEF AssemInv, TypeOK, StatementTypeOK, LineInv
<1>1. CASE BeginRead
  BY <1>0, <1>1, MessagesKept DEF BeginRead, LineInv, LinesCounted
<1>2. CASE ReadComment
  BY <1>0, <1>2, MessagesKept DEF ReadComment, GetLine, LineInv, LinesCounted
<1>3. CASE ReadUnlabelled
  <2>1. ErrorLineRight'
    BY <1>0, <1>3, MessagesKept DEF ReadUnlabelled
  <2> QED
    BY <1>0, <1>3, <2>1 DEF ReadUnlabelled, GetLine, LineInv, LinesCounted
<1>4. CASE ReadLabel
  <2>1. ErrorLineRight'
    BY <1>0, <1>4, MessagesKept DEF ReadLabel
  <2>2. pc = "read" /\ GetLine /\ NextLine.col1 \in {"label", "bad"} /\ UNCHANGED sourceLine
    BY <1>4 DEF ReadLabel
  <2>3. ~ IsComment(NextLine, TRUE)
    BY <1>0, <2>2, LineRead DEF NoLabelAlone
  <2>4. pc' = "return" /\ sourceLines' = sourceLines + 1
    BY <1>4, <2>3 DEF ReadLabel
  <2> QED
    BY <1>0, <2>1, <2>2, <2>4 DEF GetLine, LineInv, LinesCounted
<1>5. CASE SkipComment
  BY <1>0, <1>5 DEF SkipComment, LinesCounted
<1>6. CASE SkipToStatement
  BY <1>0, <1>6 DEF SkipToStatement, LinesCounted
<1>7. CASE ReadEnd
  <2>1. ErrorLineRight'
    BY <1>0, <1>7, MessagesKept DEF ReadEnd
  <2> QED
    BY <1>7, <2>1 DEF ReadEnd, LineInv, LinesCounted
<1>8. CASE CountLines
  BY <1>0, <1>8, MessagesKept DEF CountLines, LineInv, LinesCounted
<1>9. CASE Parse
  <2>1. /\ pc = "parse" /\ pc' = "emit" /\ UNCHANGED << pos, sourceLine >>
        /\ UNCHANGED messages \/ Report("in_statement", pos)
    BY <1>9 DEF Parse
  <2>2. ErrorLineRight'
    BY <1>0, <2>1, MessagesKept DEF LinesCounted
  <2> QED
    BY <1>0, <2>1, <2>2 DEF LineInv, LinesCounted
<1> QED
  BY <1>1, <1>2, <1>3, <1>4, <1>5, <1>6, <1>7, <1>8, <1>9 DEF ReadStatement, ReadNext

(* The steps of pass 2.                                                    *)
Pass2Next ==
  \/ NextCodeRow \/ CopyPiece
  \/ \E n \in Name :
       \/ FoundInCode(n) \/ FoundInData(n) \/ NotFound(n)
       \/ NullSymbolUsed(n) \/ EmptyTableSearched(n)
  \/ EndOfCode
  \/ CopyDataRow \/ EndOfData

LEMMA Pass2Leaves ==
  Pass2Next => UNCHANGED pass2Fixed /\ pc' \in {"code", "data", "done", "crash"}
<1>1. CASE NextCodeRow \/ CopyPiece \/ EndOfCode \/ CopyDataRow \/ EndOfData
  BY <1>1 DEF NextCodeRow, CopyPiece, EndOfCode, CopyDataRow, EndOfData
<1>2. ASSUME NEW n \in Name,
             FoundInCode(n) \/ FoundInData(n) \/ NotFound(n)
      PROVE  UNCHANGED << pc, pass2Fixed >> /\ pc = "code"
  BY <1>2 DEF FoundInCode, FoundInData, NotFound, Marked
<1>3. ASSUME NEW n \in Name, NullSymbolUsed(n) \/ EmptyTableSearched(n)
      PROVE  UNCHANGED pass2Fixed /\ pc' = "crash"
  BY <1>3 DEF NullSymbolUsed, EmptyTableSearched
<1> QED
  BY <1>1, <1>2, <1>3 DEF Pass2Next

LEMMA LineStepInv == NoLabelAlone /\ AssemInv /\ LineInv /\ [Next]_vars => LineInv'
<1> SUFFICES ASSUME NoLabelAlone, AssemInv, LineInv, [Next]_vars  PROVE LineInv'
  OBVIOUS
<1> USE DEF LineInv, LinesCounted, readVars
<1>0. UNCHANGED messages => ErrorLineRight'
  BY DEF ErrorLineRight
<1>1. CASE ReadStatement
  BY <1>1, LineReadInv
<1>2. CASE EmitCode \/ EmitData
  BY <1>0, <1>2 DEF EmitCode, EmitData
<1>3. CASE SortTables
  BY <1>0, <1>3 DEF SortTables
<1>4. CASE Pass2Next
  BY <1>0, <1>4, Pass2Leaves DEF pass2Fixed
<1>6. CASE UNCHANGED vars
  BY <1>0, <1>6 DEF vars, statementVars
<1> QED
  BY <1>1, <1>2, <1>3, <1>4, <1>6 DEF Next, Pass2Next

(* The line number in a message about a statement is that of the line it   *)
(* stands on, if no label is followed by comments or blank lines: then     *)
(* read() counts the lines it reads, and assem() adds them up.  (Messages  *)
(* about a label or a missing colon are not about statements.)             *)
THEOREM MessagesGiveTheLine ==
  ASSUME NoLabelAlone
  PROVE  Spec => []ErrorLineRight
<1>1. Init => LineInv
  BY DEF Init, StatementInit, LineInv, LinesCounted, ErrorLineRight
<1>2. AssemInv /\ LineInv /\ [Next]_vars => LineInv'
  BY LineStepInv
<1>3. LineInv => ErrorLineRight
  BY DEF LineInv
<1> QED
  BY <1>1, <1>2, <1>3, InitInv, StepInv, PTL DEF Spec

(* So it always is, of messages about statements, in RISC-V.               *)
THEOREM RiscvMessagesGiveTheLine == ISA = "riscv" /\ Spec => []ErrorLineRight
<1>1. SUFFICES ASSUME ISA = "riscv"  PROVE Spec => []ErrorLineRight
  OBVIOUS
<1>2. NoLabelAlone
  BY <1>1, RiscvSkipsNothing
<1> QED
  BY <1>2, MessagesGiveTheLine

-----------------------------------------------------------------------------
(* Undefined labels.                                                       *)

DefinedNames == Names(codeSymTable) \cup Names(dataSymTable)
UndefinedNames == { c.name : c \in { d \in complaints : d.what = "undefined" } }
CodeRefs == UNION { UNION { p.refs : p \in Range(r.code) } : r \in Range(codePass1File) }

(* What is reported is referred to and has no definition; and every piece  *)
(* behind us refers to what is defined or has been reported.               *)
NoneReportedWrongly == UndefinedNames \subseteq CodeRefs \ DefinedNames
Ahead(i, q) == pc = "code" /\ (i > row \/ (i = row /\ q \in Range(todo)))
AllReported ==
  \A i \in 1 .. Len(codePass1File) : \A q \in Range(codePass1File[i].code) :
    q.refs \subseteq DefinedNames \cup UndefinedNames \/ Ahead(i, q)

UndefinedInv == pc \in {"code", "data", "done"} => NoneReportedWrongly /\ AllReported

LEMMA CodeRefsFacts ==
  ASSUME AssemInv
  PROVE  \A n : n \in CodeRefs <=>
           \E i \in 1 .. Len(codePass1File) : \E q \in Range(codePass1File[i].code) : n \in q.refs
<1>1. codePass1File \in Seq(Row)
  BY DEF AssemInv, TypeOK
<1>2. \A r : r \in Range(codePass1File) <=> \E i \in 1 .. Len(codePass1File) : r = codePass1File[i]
  BY <1>1 DEF Range
<1> QED
  BY <1>2 DEF CodeRefs

LEMMA NamesFacts == \A n, table : DefinitionsOf(n, table) = {} <=> n \notin Names(table)
BY DEF DefinitionsOf, Names

LEMMA ComplainFacts ==
  ASSUME NEW n, NEW whats, Complain(whats, n)
  PROVE  UndefinedNames' = UndefinedNames \cup IF "undefined" \in whats THEN {n} ELSE {}
<1> DEFINE said == { [what |-> w, name |-> n] : w \in whats }
           news == { c.name : c \in { d \in said : d.what = "undefined" } }
<1>1. news = IF "undefined" \in whats THEN {n} ELSE {}
  <2>1. ASSUME NEW m \in news  PROVE m = n /\ "undefined" \in whats
    OBVIOUS
  <2>2. ASSUME "undefined" \in whats  PROVE n \in news
    <3>1. PICK c : c = [what |-> "undefined", name |-> n]
      OBVIOUS
    <3>2. c \in said /\ c.what = "undefined" /\ c.name = n
      BY <2>2, <3>1
    <3> QED
      BY <3>2
  <2> HIDE DEF news
  <2> QED
    BY <2>1, <2>2
<1>2. complaints' = complaints \cup said
  BY DEF Complain
<1> HIDE DEF said
<1>3. UndefinedNames' = UndefinedNames \cup news
  BY <1>2 DEF UndefinedNames
<1> HIDE DEF news
<1> QED
  BY <1>1, <1>3

(* A label that is replaced has a definition or is reported.               *)
LEMMA Answered ==
  ASSUME AssemInv,
         CopyPiece \/ \E n \in Name : FoundInCode(n) \/ FoundInData(n) \/ NotFound(n)
  PROVE  /\ todo' = Tail(todo) /\ row' = row
         /\ \E new \in SUBSET (Head(todo).refs \ DefinedNames) :
              /\ UndefinedNames' = UndefinedNames \cup new
              /\ Head(todo).refs \subseteq DefinedNames \cup new
<1>0. todo' = Tail(todo) /\ row' = row
  BY Replacing DEF Write
<1>1. CASE CopyPiece
  <2>1. UndefinedNames' = UndefinedNames /\ Head(todo).refs = {}
    BY <1>1 DEF CopyPiece, UndefinedNames
  <2> QED
    BY <1>0, <2>1
<1>2. ASSUME NEW n \in Name, FoundInCode(n) \/ FoundInData(n) \/ NotFound(n)
      PROVE  \E new \in SUBSET (Head(todo).refs \ DefinedNames) :
               /\ UndefinedNames' = UndefinedNames \cup new
               /\ Head(todo).refs \subseteq DefinedNames \cup new
  <2>0. Marked(n)
    BY <1>2 DEF FoundInCode, FoundInData, NotFound
  <2>1. Head(todo).refs = {n}
    BY <2>0, MarkedFacts
  <2>2. CASE FoundInCode(n)
    <3>1. n \in DefinedNames
      BY <2>2, NamesFacts DEF FoundInCode, DefinedNames
    <3>2. PICK whats : "undefined" \notin whats /\ Complain(whats, n)
      BY <2>2 DEF FoundInCode, CodeComplaints, Unsupported
    <3> QED
      BY <2>1, <3>1, <3>2, ComplainFacts
  <2>3. CASE FoundInData(n)
    <3>1. n \in DefinedNames
      BY <2>3, NamesFacts DEF FoundInData, DefinedNames
    <3>2. PICK whats : "undefined" \notin whats /\ Complain(whats, n)
      BY <2>3 DEF FoundInData, DataComplaints, Unsupported
    <3> QED
      BY <2>1, <3>1, <3>2, ComplainFacts
  <2>4. CASE NotFound(n)
    <3>1. n \notin DefinedNames
      BY <2>4, NamesFacts DEF NotFound, DefinedNames
    <3>2. PICK whats : "undefined" \in whats /\ Complain(whats, n)
      BY <2>4 DEF NotFound
    <3> QED
      BY <2>1, <3>1, <3>2, ComplainFacts
  <2> QED
    BY <1>2, <2>2, <2>3, <2>4
<1> QED
  BY <1>0, <1>1, <1>2

LEMMA UndefinedFixed ==
  ASSUME UNCHANGED pass2Fixed
  PROVE  /\ DefinedNames' = DefinedNames /\ CodeRefs' = CodeRefs
         /\ codePass1File' = codePass1File
         /\ UNCHANGED complaints => UndefinedNames' = UndefinedNames
BY DEF pass2Fixed, pass1Vars, tableVars, DefinedNames, CodeRefs, UndefinedNames, Names

LEMMA UndefinedReplace ==
  ASSUME AssemInv, UndefinedInv,
         CopyPiece \/ \E n \in Name : FoundInCode(n) \/ FoundInData(n) \/ NotFound(n)
  PROVE  UndefinedInv'
<1> DEFINE q0 == Head(todo)
<1>1. pc = "code" /\ todo # << >> /\ UNCHANGED << pc, pass2Fixed >>
  BY Replacing
<1>2. PICK new \in SUBSET (q0.refs \ DefinedNames) :
        /\ UndefinedNames' = UndefinedNames \cup new
        /\ q0.refs \subseteq DefinedNames \cup new
  BY Answered
<1>3. todo' = Tail(todo) /\ row' = row
  BY Answered
<1>4. /\ row \in 1 .. Len(codePass1File) /\ q0 \in Range(codePass1File[row].code)
      /\ todo \in Seq(Piece)
  BY <1>1, RowBegun
<1>5. Range(todo) = {q0} \cup Range(Tail(todo))
  BY <1>1, <1>4, RangeFacts
<1>6. /\ DefinedNames' = DefinedNames /\ CodeRefs' = CodeRefs /\ codePass1File' = codePass1File
      /\ pc' = "code"
  BY <1>1, UndefinedFixed
<1> HIDE DEF q0
<1>7. NoneReportedWrongly'
  <2>1. q0.refs \subseteq CodeRefs
    BY <1>4, CodeRefsFacts
  <2> QED
    BY <1>1, <1>2, <1>6, <2>1 DEF UndefinedInv, NoneReportedWrongly
<1>8. AllReported'
  <2>1. ASSUME NEW i \in 1 .. Len(codePass1File), NEW q \in Range(codePass1File[i].code)
        PROVE  \/ q.refs \subseteq DefinedNames' \cup UndefinedNames'
               \/ i > row' \/ (i = row' /\ q \in Range(todo'))
    <3>1. CASE q = q0
      BY <1>2, <1>6, <3>1
    <3>2. CASE q # q0
      <4>1. \/ q.refs \subseteq DefinedNames \cup UndefinedNames
            \/ i > row \/ (i = row /\ q \in Range(todo))
        BY <1>1 DEF UndefinedInv, AllReported, Ahead
      <4> QED
        BY <1>2, <1>3, <1>5, <1>6, <3>2, <4>1
    <3> QED
      BY <3>1, <3>2
  <2> QED
    BY <1>6, <2>1 DEF AllReported, Ahead
<1> QED
  BY <1>7, <1>8 DEF UndefinedInv

LEMMA UndefinedStepInv == AssemInv /\ UndefinedInv /\ [Next]_vars => UndefinedInv'
<1> SUFFICES ASSUME AssemInv, UndefinedInv, [Next]_vars  PROVE UndefinedInv'
  OBVIOUS
<1> USE DEF UndefinedInv
<1>1. CASE ReadStatement \/ EmitCode \/ EmitData
  BY <1>1 DEF ReadStatement, ReadNext, BeginRead, ReadComment, ReadUnlabelled, ReadLabel,
     SkipComment, SkipToStatement, ReadEnd, CountLines, Parse, EmitCode, EmitData
<1>2. CASE SortTables
  <2>1. pc' = "code" /\ row' = 0 /\ complaints' = {} /\ codePass1File' = codePass1File
        /\ codePass1File \in Seq(Row)
    BY <1>2 DEF AssemInv, TypeOK, SortTables, NothingWritten, Reading, pass1Vars, pass2Vars
  <2>2. UndefinedNames' = {}
    BY <2>1 DEF UndefinedNames
  <2> QED
    BY <2>1, <2>2 DEF NoneReportedWrongly, AllReported, Ahead
<1>3. CASE NextCodeRow
  <2>1. /\ pc = "code" /\ todo = << >> /\ row \in Nat /\ row' = row + 1
        /\ todo' = codePass1File[row + 1].code /\ UNCHANGED << pc, complaints, pass2Fixed >>
    BY <1>3 DEF AssemInv, TypeOK, NextCodeRow
  <2>2. /\ DefinedNames' = DefinedNames /\ CodeRefs' = CodeRefs
        /\ codePass1File' = codePass1File /\ UndefinedNames' = UndefinedNames
    BY <2>1, UndefinedFixed
  <2>3. ASSUME NEW i \in 1 .. Len(codePass1File), NEW q \in Range(codePass1File[i].code)
        PROVE  q.refs \subseteq DefinedNames \cup UndefinedNames \/ i > row + 1
                 \/ (i = row + 1 /\ q \in Range(codePass1File[row + 1].code))
    BY <2>1, RangeOfFew DEF AllReported, Ahead
  <2>4. AllReported'
    BY <2>1, <2>2, <2>3 DEF AllReported, Ahead
  <2> QED
    BY <2>1, <2>2, <2>4 DEF NoneReportedWrongly
<1>4. CASE CopyPiece \/ \E n \in Name : FoundInCode(n) \/ FoundInData(n) \/ NotFound(n)
  BY <1>4, UndefinedReplace
<1>5. ASSUME NEW n \in Name, NullSymbolUsed(n) \/ EmptyTableSearched(n)  PROVE UndefinedInv'
  BY <1>5 DEF NullSymbolUsed, EmptyTableSearched
<1>6. CASE EndOfCode
  <2>1. /\ pc = "code" /\ pc' = "data" /\ todo = << >> /\ row = Len(codePass1File)
        /\ UNCHANGED << complaints, pass2Fixed >> /\ Len(codePass1File) \in Nat
    BY <1>6 DEF AssemInv, TypeOK, EndOfCode
  <2>2. /\ DefinedNames' = DefinedNames /\ CodeRefs' = CodeRefs
        /\ codePass1File' = codePass1File /\ UndefinedNames' = UndefinedNames
    BY <2>1, UndefinedFixed
  <2>3. ASSUME NEW i \in 1 .. Len(codePass1File), NEW q \in Range(codePass1File[i].code)
        PROVE  q.refs \subseteq DefinedNames \cup UndefinedNames
    BY <2>1, RangeOfFew DEF AllReported, Ahead
  <2> QED
    BY <2>1, <2>2, <2>3 DEF NoneReportedWrongly, AllReported
<1>7. CASE CopyDataRow \/ EndOfData
  <2>1. /\ pc = "data" /\ pc' \in {"data", "done"} /\ UNCHANGED << complaints, pass2Fixed >>
    BY <1>7 DEF CopyDataRow, EndOfData, pass2Vars
  <2>2. /\ DefinedNames' = DefinedNames /\ CodeRefs' = CodeRefs
        /\ codePass1File' = codePass1File /\ UndefinedNames' = UndefinedNames
    BY <2>1, UndefinedFixed
  <2> QED
    BY <2>1, <2>2 DEF NoneReportedWrongly, AllReported, Ahead
<1>8. CASE UNCHANGED vars
  <2>1. UNCHANGED << pc, row, todo, complaints, pass2Fixed >>
    BY <1>8 DEF vars, statementVars, pass2Vars, pass2Fixed
  <2>2. /\ DefinedNames' = DefinedNames /\ CodeRefs' = CodeRefs
        /\ codePass1File' = codePass1File /\ UndefinedNames' = UndefinedNames
    BY <2>1, UndefinedFixed
  <2> QED
    BY <2>1, <2>2 DEF NoneReportedWrongly, AllReported, Ahead
<1> QED
  BY <1>1, <1>2, <1>3, <1>4, <1>5, <1>6, <1>7, <1>8 DEF Next

(* Pass 2 reports as undefined every name the code refers to that no label *)
(* defines, and no other.                                                  *)
THEOREM ReportsUndefinedExactly == Spec => []UndefinedExactly
<1>1. Init => UndefinedInv
  BY DEF Init, StatementInit, UndefinedInv
<1>2. AssemInv /\ UndefinedInv => UndefinedExactly
  <2> SUFFICES ASSUME AssemInv, UndefinedInv, pc = "done"
               PROVE  UndefinedNames = CodeRefs \ DefinedNames
    BY Zenon DEF UndefinedExactly, UndefinedNames, DefinedNames, CodeRefs
  <2>1. NoneReportedWrongly /\ AllReported
    BY DEF UndefinedInv
  <2>2. ASSUME NEW n \in CodeRefs, n \notin DefinedNames  PROVE n \in UndefinedNames
    BY <2>1, <2>2, CodeRefsFacts DEF AllReported, Ahead
  <2> QED
    BY <2>1, <2>2 DEF NoneReportedWrongly
<1> QED
  BY <1>1, <1>2, InitInv, StepInv, UndefinedStepInv, PTL DEF Spec

-----------------------------------------------------------------------------
(* Labels and the rows they stand for.                                     *)

(* In RISC-V a label without a statement behind it, on the same line, is   *)
(* given to whichever segment the last statement was in.                   *)
LabelsHaveStatements ==
  ISA = "riscv" => \A line \in Line : line.col1 \in {"label", "bad"} => line.text \in Text

AllBound(n) == \A d \in LinesOf(n) : Bound(d)
BelongsTo(n, i) == \E d \in LinesOf(n) : i \in Labelled(d)

(* No statement yet behind the label.                                      *)
OnTheWay(n) == \E d \in LinesOf(n) : d <= pos /\ \A k \in d .. pos : ~ IsStatement(k)

LabelRead ==
  /\ pc = "read" => label = {}
  /\ pc = "skip" => \A n \in label : OnTheWay(n)
  /\ pc \in {"return", "parse", "emit"} =>
       \A n \in label : AllBound(n) => BelongsTo(n, pos)

LEMMA ProgramFixed ==
  ASSUME program' = program
  PROVE  /\ \A n : LinesOf(n)' = LinesOf(n)
         /\ \A k : IsStatement(k)' <=> IsStatement(k)
         /\ \A n : AllBound(n)' <=> AllBound(n)
         /\ \A n, i : BelongsTo(n, i)' <=> BelongsTo(n, i)
<1> USE DEF Lines, LinesOf, IsStatement
<1>1. \A n : LinesOf(n)' = LinesOf(n)
  OBVIOUS
<1>2. \A d : Labelled(d)' = Labelled(d)
  BY DEF Labelled
<1>3. \A n : AllBound(n)' <=> AllBound(n)
  BY <1>2 DEF AllBound, Bound
<1>4. \A n, i : BelongsTo(n, i)' <=> BelongsTo(n, i)
  BY <1>2 DEF BelongsTo
<1> QED
  BY <1>1, <1>3, <1>4

(* The line found behind a label that stands alone is its statement, or the*)
(* line of another label.                                                  *)
LEMMA NextIsStatement ==
  ASSUME NEW n, OnTheWay(n), AllBound(n), pos \in Nat, Len(program) \in Nat, pos < Len(program),
         IsStatement(pos + 1) \/ program[pos + 1].col1 \in {"label", "bad"}
  PROVE  BelongsTo(n, pos + 1)
<1>1. PICK d \in LinesOf(n) : d <= pos /\ \A k \in d .. pos : ~ IsStatement(k)
  BY DEF OnTheWay
<1>2. d \in 1 .. Len(program) /\ d \in Nat /\ pos + 1 \in Lines
  BY DEF LinesOf, Lines
<1>3. IsStatement(pos + 1)
  <2> SUFFICES ASSUME ~ IsStatement(pos + 1)  PROVE FALSE
    OBVIOUS
  <2>1. PICK j \in Labelled(d) :
          \A k \in d + 1 .. j : program[k].col1 \notin {"label", "bad"}
    BY <1>1 DEF AllBound, Bound
  <2>2. j \in Nat /\ j >= d /\ IsStatement(j)
    BY <2>1 DEF Labelled, Lines
  <2>3. ~ (j \in d .. pos) /\ j # pos + 1
    BY <1>1, <2>2
  <2>4. pos + 1 \in d + 1 .. j
    BY <1>1, <1>2, <2>2, <2>3
  <2> QED
    BY <2>1, <2>4
<1>4. pos + 1 >= d /\ \A k \in d .. pos + 1 - 1 : ~ IsStatement(k)
  BY <1>1, <1>2
<1>5. pos + 1 \in Labelled(d)
  BY <1>2, <1>3, <1>4 DEF Labelled
<1> QED
  BY <1>5 DEF BelongsTo

LEMMA LabelReadStep ==
  LabelsHaveStatements /\ AssemInv /\ LabelRead /\ ReadStatement => LabelRead'
<1> SUFFICES ASSUME LabelsHaveStatements, AssemInv, LabelRead, ReadStatement  PROVE LabelRead'
  OBVIOUS
<1> USE DEF readVars, parseVars
<1>0. /\ StatementTypeOK /\ pos \in Nat /\ Len(program) \in Nat /\ program \in Seq(Line)
  BY DEF AssemInv, TypeOK, StatementTypeOK
<1>p. program' = program
  BY DEF ReadStatement, ReadNext, BeginRead, ReadComment, ReadUnlabelled, ReadLabel,
     SkipComment, SkipToStatement, ReadEnd, CountLines, Parse
<1>1. CASE BeginRead
  BY <1>1 DEF BeginRead, LabelRead
<1>2. CASE ReadComment
  BY <1>2 DEF ReadComment, LabelRead
<1>3. CASE ReadUnlabelled
  BY <1>3 DEF ReadUnlabelled, LabelRead
<1>4. CASE ReadLabel
  <2>1. /\ pos < Len(program) /\ pos' = pos + 1 /\ label' = {NextLine.name} /\ NextLine \in Line
        /\ NextLine.col1 \in {"label", "bad"} /\ NextLine = program[pos + 1]
        /\ NextLine \in LineType
    BY <1>0, <1>4, LineRead DEF ReadLabel, GetLine, More, NextLine
  <2>2. PICK k \in Nat : k = pos + 1 /\ k \in Lines
    BY <1>0, <2>1 DEF Lines
  <2>n. PICK n : n = NextLine.name /\ label' = {n}
    BY <2>1
  <2>3. k \in LinesOf(n)
    BY <2>1, <2>2, <2>n DEF LinesOf
  <2>4. CASE IsComment(NextLine, TRUE)
    <3>1. pc' = "skip"
      BY <1>4, <2>4 DEF ReadLabel
    <3>2. ~ IsStatement(k)
      BY <2>1, <2>2, <2>4, SourceAssumption DEF IsComment, IsStatement
    <3>3. \A m \in k .. k : ~ IsStatement(m)
      BY <2>2, <3>2
    <3>4. OnTheWay(n)'
      BY <1>p, <2>1, <2>2, <2>3, <3>3, ProgramFixed DEF OnTheWay
    <3> QED
      BY <2>n, <3>1, <3>4 DEF LabelRead
  <2>5. CASE ~ IsComment(NextLine, TRUE)
    <3>1. pc' = "return"
      BY <1>4, <2>5 DEF ReadLabel
    <3>2. NextLine.text \in Text
      BY <2>1, <2>5, SourceAssumption DEF IsComment, LineType, LabelsHaveStatements
    <3>3. k \in Labelled(k)
      BY <2>1, <2>2, <3>2 DEF Labelled, IsStatement
    <3>4. BelongsTo(n, k)
      BY <2>3, <3>3 DEF BelongsTo
    <3>5. PICK i : i = k /\ i = pos'
      BY <2>1, <2>2
    <3>6. BelongsTo(n, i)'
      BY <1>p, <3>4, <3>5, ProgramFixed
    <3> QED
      BY <2>n, <3>1, <3>5, <3>6 DEF LabelRead
  <2> QED
    BY <2>4, <2>5
<1>5. CASE SkipComment
  <2>1. /\ pc = "skip" /\ pc' = "skip" /\ pos < Len(program) /\ pos' = pos + 1 /\ label' = label
        /\ IsComment(program[pos + 1], FALSE)
    BY <1>5 DEF SkipComment, GetLine, More, NextLine
  <2>2. ~ IsStatement(pos + 1)
    BY <2>1, SourceAssumption DEF IsComment, IsStatement
  <2>3. ASSUME NEW n \in label  PROVE OnTheWay(n)'
    <3>1. PICK d \in LinesOf(n) : d <= pos /\ \A k \in d .. pos : ~ IsStatement(k)
      BY <2>1 DEF LabelRead, OnTheWay
    <3>2. d \in Nat
      BY <3>1 DEF LinesOf, Lines
    <3>3. d <= pos + 1 /\ \A k \in d .. pos + 1 : ~ IsStatement(k)
      BY <1>0, <2>2, <3>1, <3>2
    <3> QED
      BY <1>p, <2>1, <3>1, <3>3, ProgramFixed DEF OnTheWay
  <2> QED
    BY <2>1, <2>3 DEF LabelRead
<1>6. CASE SkipToStatement
  <2>1. /\ pc = "skip" /\ pc' = "return" /\ pos < Len(program) /\ pos' = pos + 1 /\ label' = label
        /\ ~ IsComment(program[pos + 1], FALSE) /\ program[pos + 1] \in LineType
    BY <1>0, <1>6, LineRead DEF SkipToStatement, GetLine, More, NextLine
  <2>2. IsStatement(pos + 1) \/ program[pos + 1].col1 \in {"label", "bad"}
    BY <2>1 DEF IsComment, IsStatement, LineType
  <2>3. ASSUME NEW n \in label, AllBound(n)  PROVE BelongsTo(n, pos + 1)
    BY <1>0, <2>1, <2>2, <2>3, NextIsStatement DEF LabelRead
  <2>4. PICK i : i = pos + 1
    OBVIOUS
  <2>5. \A n \in label : AllBound(n)' => BelongsTo(n, i)'
    BY <1>p, <2>3, <2>4, ProgramFixed
  <2> QED
    BY <2>1, <2>4, <2>5 DEF LabelRead
<1>7. CASE ReadEnd
  BY <1>7 DEF ReadEnd, LabelRead
<1>8. CASE CountLines \/ Parse
  <2>1. /\ pc \in {"return", "parse"} /\ pc' \in {"begin", "parse", "emit"}
        /\ UNCHANGED << label, pos >>
    BY <1>8 DEF CountLines, Parse
  <2>2. PICK i : i = pos
    OBVIOUS
  <2>3. \A n \in label : AllBound(n)' => BelongsTo(n, i)'
    BY <1>p, <2>1, <2>2, ProgramFixed DEF LabelRead
  <2> QED
    BY <2>1, <2>2, <2>3 DEF LabelRead
<1> QED
  BY <1>1, <1>2, <1>3, <1>4, <1>5, <1>6, <1>7, <1>8 DEF ReadStatement, ReadNext

(* A label has the offset of a row, which is that of its statement.        *)
Placed(table, file) ==
  \A s \in Range(table) : AllBound(s.name) =>
    \E i \in 1 .. Len(file) : file[i].offset = s.offset /\ BelongsTo(s.name, file[i].line)

LabelInv ==
  /\ LabelRead
  /\ Placed(codeSymTable, codePass1File) /\ Placed(dataSymTable, dataPass1File)

LEMMA PlacedMore ==
  ASSUME NEW table, NEW more, NEW file \in Seq(Row), NEW r \in Row, Placed(table, file),
         Range(more) = Range(table) \cup Abstract!AtStart(label, r.offset),
         \A n \in label : AllBound(n) => BelongsTo(n, r.line)
  PROVE  Placed(more, Append(file, r))
<1> DEFINE longer == Append(file, r)
<1>1. /\ Len(longer) = Len(file) + 1 /\ longer[Len(file) + 1] = r /\ Len(file) \in Nat
      /\ \A i \in 1 .. Len(file) : longer[i] = file[i]
  OBVIOUS
<1> HIDE DEF longer
<1>2. ASSUME NEW s \in Range(more), AllBound(s.name)
      PROVE  \E i \in 1 .. Len(longer) : longer[i].offset = s.offset /\ BelongsTo(s.name, longer[i].line)
  <2>1. CASE s \in Range(table)
    <3>1. PICK i \in 1 .. Len(file) : file[i].offset = s.offset /\ BelongsTo(s.name, file[i].line)
      BY <1>2, <2>1 DEF Placed
    <3> QED
      BY <1>1, <3>1
  <2>2. CASE s \in Abstract!AtStart(label, r.offset)
    <3>1. s.name \in label /\ s.offset = r.offset
      BY <2>2 DEF Abstract!AtStart
    <3>2. Len(longer) \in 1 .. Len(longer) /\ longer[Len(longer)] = r
      BY <1>1
    <3> QED
      BY <1>2, <3>1, <3>2
  <2> QED
    BY <2>1, <2>2
<1> QED
  BY <1>2 DEF Placed, longer

LEMMA PlacedFixed ==
  ASSUME program' = program, NEW table, NEW file, Placed(table, file)
  PROVE  Placed(table, file)'
BY ProgramFixed DEF Placed

LEMMA LabelEmitCode == AssemInv /\ LabelInv /\ EmitCode => LabelInv'
<1> SUFFICES ASSUME AssemInv, LabelInv, EmitCode  PROVE LabelInv'
  OBVIOUS
<1>1. /\ pc = "emit" /\ pc' = "begin" /\ isAnInstruction
      /\ codeSymTable' = WithLabel(codeSymTable, codeOffset)
      /\ codeOffset' = codeOffset + machineCodeSize
      /\ UNCHANGED << program, dataPass1File, dataSymTable >>
      /\ codeSymTable \in Seq(Symbol) /\ codePass1File \in Seq(Row) /\ codeOffset \in Nat
      /\ machineCodeSize \in Nat /\ label \in {{}} \cup { {n} : n \in Name }
      /\ machineCode \in Seq(Piece) /\ pos \in Nat
  BY DEF AssemInv, TypeOK, StatementTypeOK, EmitCode
<1>2. PICK r \in Row : /\ r.offset = codeOffset /\ r.line = pos
                       /\ codePass1File' = Append(codePass1File, r)
  BY <1>1 DEF EmitCode, Row
<1>3. PICK table, file : table = codeSymTable' /\ file = codePass1File'
  OBVIOUS
<1>4. Range(table) = Range(codeSymTable) \cup Abstract!AtStart(label, codeOffset)
  BY <1>1, <1>3, WithLabelFacts
<1>5. Placed(table, file)
  BY <1>1, <1>2, <1>3, <1>4, PlacedMore DEF LabelInv, LabelRead
<1>6. Placed(codeSymTable, codePass1File)'
  BY <1>1, <1>3, <1>5, PlacedFixed
<1>7. Placed(dataSymTable, dataPass1File)'
  <2>1. PICK t, f : t = dataSymTable /\ f = dataPass1File
    OBVIOUS
  <2> QED
    BY <1>1, <2>1, PlacedFixed DEF LabelInv
<1> QED
  BY <1>1, <1>6, <1>7 DEF LabelInv, LabelRead

LEMMA LabelEmitData == AssemInv /\ LabelInv /\ EmitData => LabelInv'
<1> SUFFICES ASSUME AssemInv, LabelInv, EmitData  PROVE LabelInv'
  OBVIOUS
<1>1. /\ pc = "emit" /\ pc' = "begin"
      /\ dataSymTable' = WithLabel(dataSymTable, dataOffset)
      /\ UNCHANGED << program, codePass1File, codeSymTable, codeOffset >>
      /\ dataSymTable \in Seq(Symbol) /\ dataPass1File \in Seq(Row) /\ dataOffset \in Nat
      /\ label \in {{}} \cup { {n} : n \in Name }
      /\ machineCode \in Seq(Piece) /\ pos \in Nat
  BY DEF AssemInv, TypeOK, StatementTypeOK, EmitData
<1>2. PICK r \in Row : /\ r.offset = dataOffset /\ r.line = pos
                       /\ dataPass1File' = Append(dataPass1File, r)
  BY <1>1 DEF EmitData, Row
<1>3. PICK table, file : table = dataSymTable' /\ file = dataPass1File'
  OBVIOUS
<1>4. Range(table) = Range(dataSymTable) \cup Abstract!AtStart(label, dataOffset)
  BY <1>1, <1>3, WithLabelFacts
<1>5. Placed(table, file)
  BY <1>1, <1>2, <1>3, <1>4, PlacedMore DEF LabelInv, LabelRead
<1>6. Placed(dataSymTable, dataPass1File)'
  BY <1>1, <1>3, <1>5, PlacedFixed
<1>7. Placed(codeSymTable, codePass1File)'
  <2>1. PICK t, f : t = codeSymTable /\ f = codePass1File
    OBVIOUS
  <2> QED
    BY <1>1, <2>1, PlacedFixed DEF LabelInv
<1> QED
  BY <1>1, <1>6, <1>7 DEF LabelInv, LabelRead

(* The steps that leave the labels and the files as they are.              *)
LEMMA LabelsKept ==
  ASSUME LabelInv, LabelRead', program' = program, UNCHANGED << codePass1File, dataPass1File, codeOffset >>,
         Range(codeSymTable') = Range(codeSymTable), Range(dataSymTable') = Range(dataSymTable)
  PROVE  LabelInv'
<1>1. PICK ct, dt, cf, df : /\ ct = codeSymTable' /\ dt = dataSymTable'
                            /\ cf = codePass1File /\ df = dataPass1File
  OBVIOUS
<1>2. Placed(ct, cf) /\ Placed(dt, df)
  BY <1>1 DEF LabelInv, Placed
<1>3. Placed(codeSymTable, codePass1File)' /\ Placed(dataSymTable, dataPass1File)'
  BY <1>1, <1>2, PlacedFixed
<1> QED
  BY <1>3 DEF LabelInv

LEMMA LabelStepInv ==
  LabelsHaveStatements /\ AssemInv /\ LabelInv /\ [Next]_vars => LabelInv'
<1> SUFFICES ASSUME LabelsHaveStatements, AssemInv, LabelInv, [Next]_vars  PROVE LabelInv'
  OBVIOUS
<1> USE DEF pass1Vars, tableVars
<1>1. CASE ReadStatement
  <2>1. LabelRead' /\ UNCHANGED << pass1Vars, tableVars >>
    BY <1>1, LabelReadStep DEF LabelInv, ReadStatement
  <2>2. program' = program
    BY <1>1 DEF ReadStatement, ReadNext, BeginRead, ReadComment, ReadUnlabelled, ReadLabel,
       SkipComment, SkipToStatement, ReadEnd, CountLines, Parse
  <2> QED
    BY <2>1, <2>2, LabelsKept
<1>2. CASE EmitCode
  BY <1>2, LabelEmitCode
<1>3. CASE EmitData
  BY <1>3, LabelEmitData
<1>4. CASE SortTables
  <2>1. /\ pc' = "code" /\ UNCHANGED << program, pass1Vars >>
        /\ codeSymTable' \in SortsOf(codeSymTable) /\ dataSymTable' \in SortsOf(dataSymTable)
        /\ codeSymTable \in Seq(Symbol) /\ dataSymTable \in Seq(Symbol)
    BY <1>4 DEF AssemInv, TypeOK, SortTables
  <2>2. Range(codeSymTable') = Range(codeSymTable) /\ Range(dataSymTable') = Range(dataSymTable)
    BY <2>1, SortFacts
  <2> QED
    BY <2>1, <2>2, LabelsKept DEF LabelRead
<1>5. CASE Pass2Next
  BY <1>5, Pass2Leaves, LabelsKept DEF pass2Fixed, LabelRead
<1>6. CASE UNCHANGED vars
  <2>1. /\ UNCHANGED << pc, program, pos, label, machineCodeSize, isAnInstruction >>
        /\ UNCHANGED << pass1Vars, tableVars >>
    BY <1>6 DEF vars, statementVars, readVars, parseVars
  <2>2. PICK i : i = pos
    OBVIOUS
  <2>3. LabelRead'
    BY <2>1, <2>2, ProgramFixed DEF LabelInv, LabelRead, OnTheWay
  <2> QED
    BY <2>1, <2>3, LabelsKept DEF LabelInv
<1> QED
  BY <1>1, <1>2, <1>3, <1>4, <1>5, <1>6 DEF Next, Pass2Next

-----------------------------------------------------------------------------
(* References and the labels they are resolved to.                         *)

NotComplained(n) == \A c \in complaints : c.name # n

(* Wherever its row is, a piece points to a symbol of this name.           *)
HitsSymbol(p, n) ==
  \/ \E s \in Range(codeSymTable) : s.name = n /\ \A at : s.offset \in PointsTo(p, at)
  \/ \E s \in Range(dataSymTable) : s.name = n /\ \A at : codeOffset + s.offset \in PointsTo(p, at)

PieceHits(p) == \A n \in p.refs : InReach(p, n) /\ NotComplained(n) => HitsSymbol(p, n)

(* Pass 2 has written what is resolved or complained about, and when it is *)
(* done it has written every row.                                          *)
HitsInv ==
  /\ pc \in {"code", "data", "done"} =>
       \A i \in 1 .. Len(outfile) : \A p \in Range(outfile[i].code) : PieceHits(p)
  /\ pc = "done" => row = Len(dataPass1File)

LEMMA HitsFixed ==
  ASSUME UNCHANGED pass2Fixed
  PROVE  /\ \A p, n : InReach(p, n)' <=> InReach(p, n)
         /\ \A p, n : HitsSymbol(p, n)' <=> HitsSymbol(p, n)
<1> USE DEF pass2Fixed, pass1Vars, tableVars
<1>1. \A p, n : InReach(p, n)' <=> InReach(p, n)
  BY DEF InReach, Names
<1>2. \A p, n : HitsSymbol(p, n)' <=> HitsSymbol(p, n)
  BY Pass2Fixed DEF HitsSymbol
<1> QED
  BY <1>1, <1>2

LEMMA HitsKept ==
  ASSUME UNCHANGED pass2Fixed, complaints \subseteq complaints', NEW p, PieceHits(p)
  PROVE  PieceHits(p)'
BY HitsFixed DEF PieceHits, NotComplained

LEMMA EncodedOps ==
  ASSUME NEW q, NEW c, NEW d
  PROVE  \A p \in Range(Encode(q, c, d)) : p.op = q.op \/ p.op = "address"
<1>1. ASSUME NEW imm, NEW base  PROVE \A p \in Range(<< Word(q, imm, base) >>) : p.op = q.op
  BY RangeOfFew DEF Word
<1>2. ASSUME NEW a  PROVE \A p \in Range(<< Address(q, a) >>) : p.op = "address"
  BY RangeOfFew DEF Address
<1>3. CASE q.op = "branch"
  <2>1. PICK imm, base : Encode(q, c, d) = << Word(q, imm, base) >>
    BY <1>3 DEF Encode
  <2> QED
    BY <1>1, <2>1
<1>4. CASE q.op = "load"
  <2>1. PICK imm, base : Encode(q, c, d) = << Word(q, imm, base) >>
    BY <1>4 DEF Encode
  <2> QED
    BY <1>1, <2>1
<1>5. CASE q.op = "store"
  <2>1. PICK imm, base : Encode(q, c, d) = << Word(q, imm, base) >>
    BY <1>5 DEF Encode
  <2> QED
    BY <1>1, <2>1
<1>6. CASE q.op = "jalr"
  <2>1. Encode(q, c, d) = << Address(q, c + d) >>
    BY <1>6 DEF Encode
  <2> QED
    BY <1>2, <2>1
<1>7. CASE q.op \notin {"branch", "load", "store", "jalr"}
  <2>1. Encode(q, c, d) = << >>
    BY <1>7 DEF Encode
  <2> QED
    BY <2>1, RangeOfFew
<1> QED
  BY <1>3, <1>4, <1>5, <1>6, <1>7

(* A piece in reach that was found in the code.                            *)
LEMMA CodeHits ==
  ASSUME AssemInv, NEW n \in Name, NEW q \in Piece, q.refs = {n},
         NEW match \in DefinitionsOf(n, codeSymTable), NEW pieces,
         pieces = AtCode(q, match.offset),
         NEW p \in Range(pieces), InReach(p, n)
  PROVE  HitsSymbol(p, n)
<1>1. /\ match \in Range(codeSymTable) /\ match.name = n /\ match \in Symbol
      /\ n \in Names(codeSymTable)
  BY RangeFacts DEF DefinitionsOf, AssemInv, TypeOK, Names
<1>2. PICK c \in Nat : c = match.offset /\ match = [name |-> n, offset |-> c]
  BY <1>1 DEF Symbol
<1>3. CASE ISA = "ecisc"
  <2>1. p = Address(q, c)
    BY <1>2, <1>3, RangeOfFew DEF AtCode
  <2>2. \A at : PointsTo(p, at) = {c}
    BY <1>2, <2>1, AddressFacts
  <2> QED
    BY <1>1, <1>2, <2>2 DEF HitsSymbol
<1>4. CASE ISA # "ecisc"
  <2>1. InReach(p, n) => p.op = "address" /\ ISA = "ecisc"
    BY <1>1 DEF InReach
  <2> QED
    BY <1>4, <2>1
<1> QED
  BY <1>3, <1>4

LEMMA DataHits ==
  ASSUME AssemInv, NEW n \in Name, NEW q \in Piece, q.refs = {n},
         DefinitionsOf(n, codeSymTable) = {}, NEW match \in DefinitionsOf(n, dataSymTable),
         NEW pieces,
         pieces = AtData(q, match.offset),
         NEW p \in Range(pieces), InReach(p, n), ISA = "riscv" => match.offset <= 4096
  PROVE  HitsSymbol(p, n)
<1>1. /\ match \in Range(dataSymTable) /\ match.name = n /\ match \in Symbol
      /\ n \notin Names(codeSymTable) /\ codeOffset \in Nat
  BY RangeFacts DEF DefinitionsOf, AssemInv, TypeOK, Names
<1>2. PICK d \in Nat : d = match.offset /\ match = [name |-> n, offset |-> d]
  BY <1>1 DEF Symbol
<1>3. PICK a \in Nat : a = codeOffset + d /\ a = d + codeOffset
  <2>1. codeOffset \in Nat
    BY <1>1
  <2> QED
    BY <2>1
<1>4. CASE ISA = "ecisc"
  <2>1. pieces = << Address(q, a) >>
    BY <1>2, <1>3, <1>4 DEF AtData
  <2>2. p = Address(q, a)
    BY <2>1, RangeOfFew
  <2>3. \A at : PointsTo(p, at) = {a}
    BY <2>2, AddressFacts
  <2> QED
    BY <1>1, <1>2, <1>3, <2>3 DEF HitsSymbol
<1>5. CASE ISA # "ecisc"
  <2>0. ISA = "riscv"
    BY <1>5, SourceAssumption
  <2>1. pieces = Encode(q, 0, d) /\ StandFor(pieces, q, d)
    BY <1>1, <1>2, <1>5, EncodeFacts DEF AtData
  <2>2. p.op = q.op \/ p.op = "address"
    BY <2>1, EncodedOps
  <2>3. q.op = "load" /\ p.op = "load"
    BY <1>1, <1>5, <2>2 DEF InReach
  <2>4. d < 4096
    BY <1>1, <1>2, <2>0, <2>3 DEF InReach
  <2>5. \A at : PointsTo(p, at) = {codeOffset + d}
    BY <2>1, <2>3, <2>4 DEF StandFor
  <2> QED
    BY <1>1, <1>2, <2>5 DEF HitsSymbol
<1> QED
  BY <1>4, <1>5

LEMMA ComplainedOf ==
  ASSUME NEW n, NEW whats, Complain(whats, n), whats # {}
  PROVE  ~ NotComplained(n)'
<1>1. PICK w \in whats : TRUE
  OBVIOUS
<1>2. PICK c : c = [what |-> w, name |-> n]
  OBVIOUS
<1>3. c \in complaints' /\ c.name = n
  BY <1>1, <1>2 DEF Complain
<1> QED
  BY <1>3 DEF NotComplained

(* What is written for a piece hits, or is complained about.               *)
LEMMA ReplacementHits ==
  ASSUME AssemInv,
         CopyPiece \/ \E n \in Name : FoundInCode(n) \/ FoundInData(n) \/ NotFound(n)
  PROVE  /\ complaints \subseteq complaints'
         /\ \E pieces \in Seq(OutPiece) :
              /\ Write(pieces)
              /\ \A p \in Range(pieces) : \A n \in p.refs :
                   InReach(p, n) /\ NotComplained(n)' => HitsSymbol(p, n)
<1> DEFINE Good(pieces, p) ==
             \A n \in p.refs : InReach(p, n) /\ NotComplained(n)' => HitsSymbol(p, n)
<1>0. TypeOK /\ pc = "code" /\ todo # << >>
  BY Replacing DEF AssemInv
<1>1. CASE CopyPiece
  <2>1. Head(todo).refs = {} /\ Write(<< Copied(Head(todo)) >>) /\ complaints' = complaints
    BY <1>1 DEF CopyPiece
  <2>2. Resolves(Head(todo), << Copied(Head(todo)) >>)
    BY <1>0, <2>1, RowBegun, CopyResolves
  <2> QED
    BY <2>1, <2>2 DEF Resolves
<1>2. ASSUME NEW n \in Name, FoundInCode(n)
      PROVE  /\ complaints \subseteq complaints'
             /\ \E pieces \in Seq(OutPiece) :
                  Write(pieces) /\ \A p \in Range(pieces) : Good(pieces, p)
  <2>0. Head(todo) \in Piece /\ Head(todo).refs = {n} /\ (Head(todo).op = "address" <=> ISA = "ecisc")
    BY <1>2, MarkedFacts DEF FoundInCode
  <2>1. PICK match \in DefinitionsOf(n, codeSymTable) :
          /\ Write(AtCode(Head(todo), match.offset))
          /\ Complain(CodeComplaints(Head(todo), match.offset), n)
    BY <1>2 DEF FoundInCode
  <2>2. PICK pieces : pieces = AtCode(Head(todo), match.offset) /\ Write(pieces)
    BY <2>1
  <2>3. Resolves(Head(todo), pieces) /\ match.offset \in Nat
    BY <1>0, <2>0, <2>2, CodeResolves, DefinitionFacts
  <2>4. ASSUME NEW p \in Range(pieces), NEW m \in p.refs, InReach(p, m), NotComplained(m)'
        PROVE  HitsSymbol(p, m)
    <3>1. m = n
      BY <2>0, <2>3 DEF Resolves
    <3> QED
      BY <2>0, <2>2, <2>4, <3>1, CodeHits
  <2> QED
    BY <2>1, <2>2, <2>3, <2>4 DEF Resolves, Complain
<1>3. ASSUME NEW n \in Name, FoundInData(n)
      PROVE  /\ complaints \subseteq complaints'
             /\ \E pieces \in Seq(OutPiece) :
                  Write(pieces) /\ \A p \in Range(pieces) : Good(pieces, p)
  <2>0. /\ Head(todo) \in Piece /\ Head(todo).refs = {n} /\ (Head(todo).op = "address" <=> ISA = "ecisc")
        /\ DefinitionsOf(n, codeSymTable) = {}
    BY <1>3, MarkedFacts DEF FoundInData
  <2>1. PICK match \in DefinitionsOf(n, dataSymTable) :
          /\ Write(AtData(Head(todo), match.offset))
          /\ Complain(DataComplaints(Head(todo), match.offset), n)
    BY <1>3 DEF FoundInData
  <2>2. PICK pieces : pieces = AtData(Head(todo), match.offset) /\ Write(pieces)
    BY <2>1
  <2>3. Resolves(Head(todo), pieces) /\ match.offset \in Nat
    BY <1>0, <2>0, <2>2, DataResolves, DefinitionFacts
  <2>4. ASSUME NEW p \in Range(pieces), NEW m \in p.refs, InReach(p, m), NotComplained(m)'
        PROVE  HitsSymbol(p, m)
    <3>1. m = n
      BY <2>0, <2>3 DEF Resolves
    <3>2. ISA = "riscv" => match.offset <= 4096
      BY <2>1, <2>3, <2>4, <3>1, ComplainedOf DEF DataComplaints
    <3> QED
      BY <2>0, <2>2, <2>4, <3>1, <3>2, DataHits
  <2> QED
    BY <2>1, <2>2, <2>3, <2>4 DEF Resolves, Complain
<1>4. ASSUME NEW n \in Name, NotFound(n)
      PROVE  /\ complaints \subseteq complaints'
             /\ \E pieces \in Seq(OutPiece) :
                  Write(pieces) /\ \A p \in Range(pieces) : Good(pieces, p)
  <2>1. PICK whats, pieces :
          /\ Marked(n) /\ whats # {} /\ Write(pieces) /\ Complain(whats, n)
          /\ DefinitionsOf(n, codeSymTable) = {} /\ DefinitionsOf(n, dataSymTable) = {}
          /\ pieces = IF ISA = "ecisc" THEN << >> ELSE Encode(Head(todo), 0, 0)
    BY <1>4 DEF NotFound
  <2>2. Head(todo) \in Piece /\ Head(todo).refs = {n}
    BY <2>1, MarkedFacts
  <2>3. Resolves(Head(todo), pieces)
    BY <1>0, <2>1, <2>2, NothingResolves
  <2>4. ~ NotComplained(n)'
    BY <2>1, ComplainedOf
  <2> QED
    BY <2>1, <2>2, <2>3, <2>4 DEF Resolves, Complain
<1> QED
  BY <1>1, <1>2, <1>3, <1>4

LEMMA HitsReplace ==
  ASSUME AssemInv, HitsInv,
         CopyPiece \/ \E n \in Name : FoundInCode(n) \/ FoundInData(n) \/ NotFound(n)
  PROVE  HitsInv'
<1>1. pc = "code" /\ todo # << >> /\ UNCHANGED << pc, pass2Fixed >>
  BY Replacing
<1>2. PICK pieces \in Seq(OutPiece) :
        /\ Write(pieces)
        /\ \A p \in Range(pieces) : \A n \in p.refs :
             InReach(p, n) /\ NotComplained(n)' => HitsSymbol(p, n)
  BY ReplacementHits
<1>3. complaints \subseteq complaints'
  BY ReplacementHits
<1>4. PICK new : /\ new = outfile' /\ Len(new) = Len(outfile)
                 /\ \A i \in 1 .. Len(outfile) : i # row => new[i] = outfile[i]
                 /\ new[row].code = outfile[row].code \o pieces
  BY <1>1, <1>2, WriteFacts
<1>5. /\ row \in 1 .. Len(outfile) /\ outfile[row].code \in Seq(OutPiece)
  BY <1>1, RowBegun
<1>6. Range(new[row].code) = Range(outfile[row].code) \cup Range(pieces)
  BY <1>2, <1>4, <1>5, RangeFacts
<1>7. ASSUME NEW i \in 1 .. Len(new), NEW p \in Range(new[i].code)  PROVE PieceHits(p)'
  <2>1. CASE i # row \/ p \in Range(outfile[row].code)
    <3>1. PieceHits(p)
      BY <1>1, <1>4, <1>5, <1>7, <2>1 DEF HitsInv
    <3> QED
      BY <1>1, <1>3, <3>1, HitsKept
  <2>2. CASE p \in Range(pieces)
    BY <1>1, <1>2, <2>2, HitsFixed DEF PieceHits
  <2> QED
    BY <1>6, <2>1, <2>2
<1> QED
  BY <1>1, <1>4, <1>7 DEF HitsInv

LEMMA HitsStepInv == AssemInv /\ HitsInv /\ [Next]_vars => HitsInv'
<1> SUFFICES ASSUME AssemInv, HitsInv, [Next]_vars  PROVE HitsInv'
  OBVIOUS
<1>0. ASSUME UNCHANGED << outfile, complaints, pass2Fixed >>, pc \in {"code", "data", "done"}
      PROVE  \A i \in 1 .. Len(outfile') : \A p \in Range(outfile'[i].code) : PieceHits(p)'
  BY <1>0, HitsKept DEF HitsInv
<1>1. CASE ReadStatement \/ EmitCode \/ EmitData
  BY <1>1 DEF ReadStatement, ReadNext, BeginRead, ReadComment, ReadUnlabelled, ReadLabel,
     SkipComment, SkipToStatement, ReadEnd, CountLines, Parse, EmitCode, EmitData, HitsInv
<1>2. CASE SortTables
  BY <1>2 DEF AssemInv, TypeOK, SortTables, NothingWritten, Reading, pass2Vars, HitsInv
<1>3. CASE NextCodeRow
  <2>1. /\ pc = "code" /\ UNCHANGED << pc, complaints, pass2Fixed >> /\ outfile \in Seq(OutRow)
    BY <1>3 DEF AssemInv, TypeOK, NextCodeRow
  <2>2. PICK o : outfile' = Append(outfile, o) /\ o.code = << >>
    BY <1>3 DEF NextCodeRow
  <2>3. PICK new : /\ new = outfile' /\ Len(new) = Len(outfile) + 1 /\ new[Len(outfile) + 1] = o
                   /\ \A i \in 1 .. Len(outfile) : new[i] = outfile[i]
    BY <2>1, <2>2
  <2>4. ASSUME NEW i \in 1 .. Len(new), NEW p \in Range(new[i].code)  PROVE PieceHits(p)'
    <3>1. i \in 1 .. Len(outfile)
      BY <2>1, <2>2, <2>3, <2>4, RangeOfFew
    <3>2. PieceHits(p)
      BY <2>1, <2>3, <2>4, <3>1 DEF HitsInv
    <3> QED
      BY <2>1, <3>2, HitsKept
  <2> QED
    BY <2>1, <2>3, <2>4 DEF HitsInv
<1>4. CASE CopyPiece \/ \E n \in Name : FoundInCode(n) \/ FoundInData(n) \/ NotFound(n)
  BY <1>4, HitsReplace
<1>5. ASSUME NEW n \in Name, NullSymbolUsed(n) \/ EmptyTableSearched(n)  PROVE HitsInv'
  BY <1>5 DEF NullSymbolUsed, EmptyTableSearched, HitsInv
<1>6. CASE EndOfCode
  BY <1>0, <1>6 DEF EndOfCode, HitsInv
<1>7. CASE CopyDataRow
  <2>1. /\ pc = "data" /\ UNCHANGED << pc, complaints, pass2Fixed >> /\ outfile \in Seq(OutRow)
    BY <1>7 DEF AssemInv, TypeOK, CopyDataRow
  <2>2. PICK o \in OutRow : outfile' = Append(outfile, o) /\ \A p \in Range(o.code) : p.refs = {}
    BY <1>7, CopyDataRowFacts
  <2>3. PICK new : /\ new = outfile' /\ Len(new) = Len(outfile) + 1 /\ new[Len(outfile) + 1] = o
                   /\ \A i \in 1 .. Len(outfile) : new[i] = outfile[i]
    BY <2>1, <2>2
  <2>4. ASSUME NEW i \in 1 .. Len(new), NEW p \in Range(new[i].code)  PROVE PieceHits(p)'
    <3>1. CASE i \in 1 .. Len(outfile)
      <4>1. PieceHits(p)
        BY <2>1, <2>3, <2>4, <3>1 DEF HitsInv
      <4> QED
        BY <2>1, <4>1, HitsKept
    <3>2. CASE i = Len(outfile) + 1
      BY <2>2, <2>3, <2>4, <3>2 DEF PieceHits
    <3> QED
      BY <2>1, <2>3, <2>4, <3>1, <3>2
  <2> QED
    BY <2>1, <2>3, <2>4 DEF HitsInv
<1>8. CASE EndOfData
  <2>1. /\ pc = "data" /\ UNCHANGED << outfile, complaints, pass2Fixed >>
        /\ row' = Len(dataPass1File')
    BY <1>8 DEF EndOfData, pass2Vars, pass2Fixed, pass1Vars
  <2> QED
    BY <1>0, <2>1 DEF HitsInv
<1>9. CASE UNCHANGED vars
  <2>1. UNCHANGED << pc, row, outfile, complaints, pass2Fixed, dataPass1File >>
    BY <1>9 DEF vars, statementVars, pass1Vars, pass2Vars, pass2Fixed
  <2> QED
    BY <1>0, <2>1 DEF HitsInv
<1> QED
  BY <1>1, <1>2, <1>3, <1>4, <1>5, <1>6, <1>7, <1>8, <1>9 DEF Next

(* The row a symbol stands for is in the image.                            *)
LEMMA SymbolHasRow ==
  ASSUME AssemInv, LabelInv, HitsInv, pc = "done", NEW p, NEW n, AllBound(n), HitsSymbol(p, n)
  PROVE  \E target \in Range(outfile) :
           (\A at : target.offset \in PointsTo(p, at)) /\ BelongsTo(n, target.line)
<1>0. /\ outfile \in Seq(OutRow) /\ codePass1File \in Seq(Row) /\ dataPass1File \in Seq(Row)
      /\ Len(outfile) = Len(codePass1File) + Len(dataPass1File)
  BY DEF AssemInv, TypeOK, RowsWritten, CopyingData, HitsInv
<1>1. /\ DOMAIN outfile = 1 .. Len(outfile)
      /\ Len(outfile) = Len(codePass1File) + Len(dataPass1File)
      /\ Len(codePass1File) \in Nat /\ Len(dataPass1File) \in Nat
  BY <1>0
<1>2. CASE \E s \in Range(codeSymTable) : s.name = n /\ \A at : s.offset \in PointsTo(p, at)
  <2>1. PICK s \in Range(codeSymTable) : s.name = n /\ \A at : s.offset \in PointsTo(p, at)
    BY <1>2
  <2>2. PICK i \in 1 .. Len(codePass1File) :
          codePass1File[i].offset = s.offset /\ BelongsTo(n, codePass1File[i].line)
    BY <2>1 DEF LabelInv, Placed
  <2>3. i \in 1 .. Len(outfile) /\ i <= Len(codePass1File)
    BY <1>1, <2>2
  <2>4. outfile[i].offset = codePass1File[i].offset /\ outfile[i].line = codePass1File[i].line
    BY <2>3 DEF AssemInv, RowsWritten, RowOfImage
  <2>5. outfile[i] \in Range(outfile)
    BY <1>1, <2>3 DEF Range
  <2> QED
    BY <2>1, <2>2, <2>4, <2>5
<1>3. CASE \E s \in Range(dataSymTable) : s.name = n /\ \A at : codeOffset + s.offset \in PointsTo(p, at)
  <2>1. PICK s \in Range(dataSymTable) : s.name = n /\ \A at : codeOffset + s.offset \in PointsTo(p, at)
    BY <1>3
  <2>2. PICK k \in 1 .. Len(dataPass1File) :
          dataPass1File[k].offset = s.offset /\ BelongsTo(n, dataPass1File[k].line)
    BY <2>1 DEF LabelInv, Placed
  <2>3. PICK i \in 1 .. Len(outfile) : i - Len(codePass1File) = k /\ ~ i <= Len(codePass1File)
    <3>1. PICK i \in Int : i = Len(codePass1File) + k
      BY <1>1
    <3> QED
      BY <1>1, <3>1
  <2>4. outfile[i].offset = codeOffset + dataPass1File[k].offset /\ outfile[i].line = dataPass1File[k].line
    BY <2>3 DEF AssemInv, RowsWritten, RowOfImage
  <2>5. outfile[i] \in Range(outfile)
    BY <1>1, <2>3 DEF Range
  <2> QED
    BY <2>1, <2>2, <2>4, <2>5
<1> QED
  BY <1>2, <1>3 DEF HitsSymbol

(* Whatever the program: an address of ECISC, and a load of RISC-V, that   *)
(* the assembler has resolved without complaint points at the row of a     *)
(* statement that the label it names belongs to; in RISC-V if every label  *)
(* has its statement on its own line.                                      *)
THEOREM ReferencesHitTheirLabels ==
  ASSUME LabelsHaveStatements
  PROVE  Spec => []RefsHitLabels
<1>1. Init => LabelInv /\ HitsInv
  BY RangeOfFew DEF Init, StatementInit, LabelInv, LabelRead, Placed, HitsInv
<1>2. AssemInv /\ LabelInv /\ HitsInv /\ [Next]_vars => LabelInv' /\ HitsInv'
  BY LabelStepInv, HitsStepInv
<1>3. AssemInv /\ LabelInv /\ HitsInv => RefsHitLabels
  <2> SUFFICES ASSUME AssemInv, LabelInv, HitsInv, pc = "done",
                      NEW r \in Range(outfile), NEW p \in Range(r.code), NEW n \in p.refs,
                      InReach(p, n), \A c \in complaints : c.name # n,
                      \A d \in LinesOf(n) : Bound(d)
               PROVE  \E target \in Range(outfile) :
                        /\ target.offset \in PointsTo(p, r.offset)
                        /\ \E d \in LinesOf(n) : target.line \in Labelled(d)
    BY DEF RefsHitLabels
  <2>1. outfile \in Seq(OutRow)
    BY DEF AssemInv, TypeOK
  <2>2. PICK i \in 1 .. Len(outfile) : r = outfile[i]
    BY <2>1 DEF Range
  <2>3. HitsSymbol(p, n)
    BY <2>2 DEF HitsInv, PieceHits, NotComplained
  <2> QED
    BY <2>3, SymbolHasRow DEF AllBound, BelongsTo
<1> QED
  BY <1>1, <1>2, <1>3, InitInv, StepInv, PTL DEF Spec

-----------------------------------------------------------------------------
(* The image of a well-formed program.                                     *)

(* The lines whose statements have joined their segments.                  *)
Behind == IF pc \in {"return", "parse", "emit"} THEN pos - 1 ELSE pos

IsLabel(i) == program[i].col1 \in {"label", "bad"}

(* The labels of a statement, and those still without one at a line.       *)
LabelsOf(j) == { program[d].name : d \in { e \in Lines : IsLabel(e) /\ j \in Labelled(e) } }
Waiting(i, d) == d \in Lines /\ IsLabel(d) /\ d <= i /\ \A k \in d .. i : ~ IsStatement(k)
Pending(i) == { program[d].name : d \in { e \in Lines : Waiting(i, e) } }

(* What has been read is what is there.                                    *)
ReadRight ==
  /\ messages = {}
  /\ pc \in {"begin", "read", "skip", "return", "parse", "emit"} =>
       sourceCode = IF pos = 0 THEN Blank ELSE program[pos]
  /\ pc \in {"begin", "read"} => Pending(pos) = {}
  /\ pc = "read" => label = {} /\ endLabel = "start"
  /\ pc = "skip" => label = Pending(pos) /\ label # {}
  /\ pc \in {"return", "parse", "emit"} =>
       /\ pos # 0 /\ IsStatement(pos) /\ label = LabelsOf(pos)
       /\ TextAfter(sourceCode, endLabel) = program[pos].text
  /\ pc = "emit" =>
       /\ machineCode = Translated(pos).code /\ machineCodeSize = SizeOf(pos)
       /\ isAnInstruction = Translated(pos).instr
  /\ pc \in {"sort", "code", "data", "done", "crash"} => pos = Len(program)

(* The rows of the lines up to this one, in their order, and their labels. *)
RowOf(r, lines) ==
  /\ r.line \in lines
  /\ r.offset = SizeBefore(r.line, lines)
  /\ r.code = Translated(r.line).code

FileOf(file, lines, upto) ==
  /\ \A i \in 1 .. Len(file) : RowOf(file[i], lines) /\ file[i].line <= upto
  /\ \A k \in lines : k <= upto => \E i \in 1 .. Len(file) : file[i].line = k
  /\ \A i, j \in 1 .. Len(file) : i < j => file[i].line < file[j].line

SymbolOf(s, lines, upto) ==
  \E j \in lines : j <= upto /\ s.name \in LabelsOf(j) /\ s.offset = SizeBefore(j, lines)

TableOf(table, lines, upto) ==
  /\ \A s \in Range(table) : SymbolOf(s, lines, upto)
  /\ \A j \in lines : j <= upto =>
       \A n \in LabelsOf(j) : [name |-> n, offset |-> SizeBefore(j, lines)] \in Range(table)

Segment(file, table, offset, lines, upto) ==
  /\ FileOf(file, lines, upto)
  /\ TableOf(table, lines, upto)
  /\ offset = SizeBefore(upto + 1, lines)

CodeRight == Segment(codePass1File, codeSymTable, codeOffset, CodeLines, Behind)
DataRight == Segment(dataPass1File, dataSymTable, dataOffset, DataLines, Behind)

SourceRight == ReadRight /\ CodeRight /\ DataRight

(* What assem() writes for a well-formed program, in full: what Image says *)
(* of it, and what Settled leaves open, the operand of a branch and the    *)
(* base register of a store.                                               *)
WrittenValue(op, j) ==
  CASE op = "address" -> AddressOf(j)
    [] op = "branch"  -> (AddressOf(j) \div 2 + 2048) % 4096
    [] OTHER          -> (SizeBefore(j, DataLines) + 2048) % 4096
WrittenBase(p) ==
  CASE p.op = "branch" -> p.reg
    [] p.op = "load"   -> 3
    [] p.op = "store"  -> OrGp(p.reg)
    [] OTHER           -> 0

WrittenMark(p, n) ==
  [refs |-> {n}, bytes |-> 4, op |-> p.op, value |-> {WrittenValue(p.op, TargetOf(n))},
   base |-> WrittenBase(p)]

WrittenPiece(p) ==
  IF p.refs = {} THEN Copied(p) ELSE WrittenMark(p, CHOOSE n \in p.refs : TRUE)
WrittenPieces(code) == [k \in 1 .. Len(code) |-> WrittenPiece(code[k])]

WrittenRow(i) ==
  [offset |-> AddressOf(i), code |-> WrittenPieces(Translated(i).code), line |-> i]

(* What has been written of a row is what its pieces stand for.            *)
Partial(code, done, rest) ==
  /\ Len(done) + Len(rest) = Len(code)
  /\ \A k \in 1 .. Len(done) : done[k] = WrittenPiece(code[k])
  /\ \A k \in 1 .. Len(rest) : rest[k] = code[Len(done) + k]

RowCode(i) ==
  IF i <= Len(codePass1File) THEN codePass1File[i].code
  ELSE dataPass1File[i - Len(codePass1File)].code

RowRight(i) ==
  IF pc = "code" /\ i = row THEN Partial(RowCode(i), outfile[i].code, todo)
  ELSE outfile[i].code = WrittenPieces(RowCode(i))

WriteRight ==
  /\ pc # "crash" /\ complaints = {}
  /\ \A i \in 1 .. Len(outfile) : RowRight(i)
  /\ pc = "done" => row = Len(dataPass1File)

RightInv == WellFormed => SourceRight /\ WriteRight

(* Sizes and sums.                                                         *)

LEMMA StatementFacts ==
  ASSUME NEW k, IsStatement(k)
  PROVE  /\ Translated(k) \in Translation[program[k].text] /\ Translated(k) \in Outcome
         /\ Translated(k).instr \in BOOLEAN /\ Translated(k).error \in BOOLEAN
         /\ SizeOf(k) \in Nat /\ Translated(k).code \in Seq(Piece)
         /\ \A p \in Range(Translated(k).code) : p.refs # {} => IsInstruction(k)
<1>1. program[k].text \in Text
  BY DEF IsStatement
<1>2. Translation[program[k].text] # {} /\ Translation[program[k].text] \subseteq Outcome
  BY <1>1, SourceAssumption
<1>3. Translated(k) \in Translation[program[k].text] /\ Translated(k) \in Outcome
  BY <1>2 DEF Translated
<1>4. \A p \in Range(Translated(k).code) : p.refs # {} => Translated(k).instr
  BY <1>1, <1>3, SourceAssumption
<1>5. PICK o \in Outcome : o = Translated(k)
  BY <1>3
<1>6. o.instr \in BOOLEAN /\ o.error \in BOOLEAN /\ o.size \in Nat /\ o.code \in Seq(Piece)
  BY DEF Outcome
<1> QED
  BY <1>3, <1>4, <1>5, <1>6 DEF SizeOf, IsInstruction

LEMMA LinesAre ==
  /\ CodeLines \subseteq Lines /\ DataLines \subseteq Lines
  /\ \A k \in Lines : IsStatement(k) => (k \in CodeLines <=> Translated(k).instr)
                                        /\ (k \in DataLines <=> ~ Translated(k).instr)
  /\ \A k \in CodeLines \cup DataLines : IsStatement(k)
  /\ \A k \in CodeLines : IsInstruction(k) /\ k \notin DataLines
  /\ \A k \in DataLines : ~ IsInstruction(k)
BY DEF CodeLines, DataLines, IsInstruction

LEMMA SizesAreNat ==
  ASSUME NEW lines \in {CodeLines, DataLines}
  PROVE  \A k \in lines : SizeOf(k) \in Nat
BY LinesAre, StatementFacts

LEMMA SizeBeforeNext ==
  ASSUME NEW lines, \A k \in lines : SizeOf(k) \in Nat, NEW i \in Nat, i # 0
  PROVE  /\ SizeBefore(i, lines) \in Nat
         /\ i \in lines    => SizeBefore(i + 1, lines) = SizeBefore(i, lines) + SizeOf(i)
         /\ i \notin lines => SizeBefore(i + 1, lines) = SizeBefore(i, lines)
<1> DEFINE size(k) == IF k \in lines THEN SizeOf(k) ELSE 0
           s == [k \in 1 .. i - 1 |-> size(k)]
           t == [k \in 1 .. i + 1 - 1 |-> size(k)]
<1>1. \A k : size(k) \in Nat
  OBVIOUS
<1> HIDE DEF size
<1>2. PICK n \in Nat : n = i - 1 /\ i = n + 1 /\ i + 1 - 1 = n + 1
  OBVIOUS
<1>3. s \in Seq(Nat) /\ Len(s) = n /\ \A k \in 1 .. n : s[k] = size(k)
  BY <1>1, <1>2
<1>4. Append(s, size(i)) = [k \in 1 .. n + 1 |-> IF k = n + 1 THEN size(i) ELSE s[k]]
  BY <1>1, <1>3, AppendIs
<1>5. t = [k \in 1 .. n + 1 |-> size(k)]
  BY <1>2
<1>6. \A k \in 1 .. n + 1 : size(k) = IF k = n + 1 THEN size(i) ELSE s[k]
  BY <1>2, <1>3
<1> HIDE DEF s, t
<1>7. t = Append(s, size(i))
  BY <1>4, <1>5, <1>6
<1>8. Total(t) = Total(s) + size(i) /\ Total(s) \in Nat /\ (size(i) = 0 => Total(t) = Total(s))
  BY <1>1, <1>3, <1>7, TotalOfAppend, TotalIsNat
<1>9. SizeBefore(i, lines) = Total(s) /\ SizeBefore(i + 1, lines) = Total(t)
  BY DEF SizeBefore, s, t, size
<1> QED
  BY <1>8, <1>9 DEF size

LEMMA SizeBeforeFirst == \A lines : SizeBefore(1, lines) = 0
<1>1. ASSUME NEW lines  PROVE SizeBefore(1, lines) = 0
  <2>1. PICK s : s = [j \in 1 .. 1 - 1 |-> IF j \in lines THEN SizeOf(j) ELSE 0]
    OBVIOUS
  <2>2. s = << >> /\ s \in Seq(Nat)
    BY <2>1
  <2> QED
    BY <2>1, <2>2, TotalIsNat DEF SizeBefore
<1> QED
  BY <1>1

(* The lines of a well-formed program.                                     *)
LEMMA LineKinds ==
  ASSUME StatementTypeOK, WellFormed, NEW k \in Lines
  PROVE  /\ program[k] \in Line /\ program[k] \in LineType
         /\ program[k].col1 # "bad"
         /\ program[k].col1 = "text" => IsComment(program[k], FALSE)
         /\ IsComment(program[k], FALSE) <=> ~ IsStatement(k) /\ ~ IsLabel(k)
         /\ IsComment(program[k], TRUE) <=> ~ IsStatement(k)
         /\ IsStatement(k) => program[k].gap /\ program[k].col1 \in {"space", "label"}
         /\ IsStatement(k) => Translation[program[k].text] = {Translated(k)} /\ ~ Translated(k).error
         /\ IsLabel(k) => LinesOf(program[k].name) = {k} /\ Bound(k) /\ program[k].name \in Name
<1>1. program[k] \in Line /\ program[k] \in LineType
  BY SourceAssumption DEF StatementTypeOK, Lines
<1>2. PICK l \in LineType : l = program[k] /\ l \in Line
  BY <1>1
<1>3. /\ l.col1 \in {"space", "label", "bad", "text"} /\ l.text \in Text \cup {NoText, CommentText}
      /\ l.gap \in BOOLEAN
  BY DEF LineType
<1>4. /\ l.col1 \in {"space", "label"} \/ IsComment(l, FALSE)
      /\ IsStatement(k) =>
           l.gap /\ Translation[l.text] = {Translated(k)} /\ ~ Translated(k).error
      /\ l.col1 = "label" =>
           LinesOf(l.name) = {k} /\ Bound(k) /\ (ISA = "riscv" => IsStatement(k))
  BY <1>2 DEF WellFormed, WellFormedLine
<1>5. IsStatement(k) <=> l.text \in Text
  BY <1>2 DEF IsStatement
<1>6. l.col1 # "bad" /\ (l.col1 = "text" => IsComment(l, FALSE))
  BY <1>3, <1>4 DEF IsComment
<1>7. IsLabel(k) <=> l.col1 = "label"
  BY <1>2, <1>3, <1>6 DEF IsLabel
<1>8. IsComment(l, FALSE) <=> ~ IsStatement(k) /\ ~ IsLabel(k)
  BY <1>3, <1>5, <1>6, <1>7, SourceAssumption DEF IsComment
<1>9. IsComment(l, TRUE) <=> ~ IsStatement(k)
  BY <1>3, <1>4, <1>5, <1>6, <1>7, SourceAssumption DEF IsComment
<1>10. IsStatement(k) => l.col1 \in {"space", "label"}
  BY <1>3, <1>6, <1>8
<1>11. IsLabel(k) => l.name \in Name
  BY <1>2, <1>7, SourceAssumption
<1> QED
  BY <1>1, <1>2, <1>4, <1>6, <1>7, <1>8, <1>9, <1>10, <1>11

(* What comes next is a statement, and the labels waiting are its labels;  *)
(* or they wait on, with one more perhaps.                                 *)
LEMMA PendingNext ==
  ASSUME Len(program) \in Nat, NEW i \in Nat, i < Len(program),
         NEW more, more = Pending(i) \cup IF IsLabel(i + 1) THEN {program[i + 1].name} ELSE {}
  PROVE  /\ i + 1 \in Lines
         /\ IsStatement(i + 1)   => Pending(i + 1) = {} /\ LabelsOf(i + 1) = more
         /\ ~ IsStatement(i + 1) => Pending(i + 1) = more
<1>1. i + 1 \in Lines /\ i + 1 \in Nat
  BY DEF Lines
<1>2. \A d \in Lines : d \in Nat /\ (d <= i + 1 <=> d <= i \/ d = i + 1)
  BY DEF Lines
<1>3. ASSUME NEW d \in Lines
      PROVE  Waiting(i + 1, d) <=> ~ IsStatement(i + 1) /\ (Waiting(i, d) \/ (d = i + 1 /\ IsLabel(d)))
  <2>1. CASE d = i + 1
    <3>1. d .. i + 1 = {i + 1}
      BY <1>1, <2>1
    <3> QED
      BY <1>2, <2>1, <3>1 DEF Waiting
  <2>2. CASE d # i + 1 /\ d <= i
    <3>1. d .. i + 1 = (d .. i) \cup {i + 1}
      BY <1>1, <1>2, <2>2
    <3> QED
      BY <1>2, <2>2, <3>1 DEF Waiting
  <2>3. CASE ~ d <= i + 1
    BY <1>2, <2>3 DEF Waiting
  <2> QED
    BY <1>2, <2>1, <2>2, <2>3
<1>4. ASSUME NEW d \in Lines, IsStatement(i + 1)
      PROVE  IsLabel(d) /\ i + 1 \in Labelled(d) <=> Waiting(i, d) \/ (d = i + 1 /\ IsLabel(d))
  <2>1. CASE d = i + 1
    <3>1. d .. i + 1 - 1 = {} /\ i + 1 >= d
      BY <1>1, <2>1
    <3>2. i + 1 \in Labelled(d)
      BY <1>1, <1>4, <3>1 DEF Labelled
    <3> QED
      BY <2>1, <3>2 DEF Waiting
  <2>2. CASE d # i + 1
    <3>1. d .. i + 1 - 1 = d .. i /\ (i + 1 >= d <=> d <= i)
      BY <1>1, <1>2, <2>2
    <3> QED
      BY <1>1, <1>4, <2>2, <3>1 DEF Labelled, Waiting
  <2> QED
    BY <2>1, <2>2
<1>5. ASSUME IsStatement(i + 1)  PROVE Pending(i + 1) = {} /\ LabelsOf(i + 1) = more
  <2>1. Pending(i + 1) = {}
    BY <1>3, <1>5 DEF Pending
  <2>2. { e \in Lines : IsLabel(e) /\ i + 1 \in Labelled(e) } =
          { e \in Lines : Waiting(i, e) } \cup IF IsLabel(i + 1) THEN {i + 1} ELSE {}
    BY <1>1, <1>4, <1>5
  <2> QED
    BY <2>1, <2>2 DEF LabelsOf, Pending
<1>6. ASSUME ~ IsStatement(i + 1)  PROVE Pending(i + 1) = more
  <2>1. { e \in Lines : Waiting(i + 1, e) } =
          { e \in Lines : Waiting(i, e) } \cup IF IsLabel(i + 1) THEN {i + 1} ELSE {}
    BY <1>1, <1>3, <1>6
  <2> QED
    BY <2>1 DEF Pending
<1> QED
  BY <1>1, <1>5, <1>6

(* A label that waits, alone on its line, is not followed by another one.  *)
LEMMA WaitingIsBound ==
  ASSUME StatementTypeOK, WellFormed, pos < Len(program), Pending(pos) # {}
  PROVE  ~ IsLabel(pos + 1)
<1>1. PICK d \in Lines : Waiting(pos, d)
  BY DEF Pending
<1>2. /\ d \in Nat /\ pos \in Nat /\ Len(program) \in Nat /\ d <= pos
      /\ \A k \in d .. pos : ~ IsStatement(k)
  BY <1>1 DEF StatementTypeOK, Lines, Waiting
<1>3. Bound(d)
  BY <1>1, LineKinds DEF Waiting
<1>4. PICK j \in Labelled(d) : \A k \in d + 1 .. j : program[k].col1 \notin {"label", "bad"}
  BY <1>3 DEF Bound
<1>5. j \in Nat /\ j >= d /\ IsStatement(j)
  BY <1>4 DEF Labelled, Lines
<1>6. pos + 1 \in d + 1 .. j
  BY <1>2, <1>5
<1> QED
  BY <1>4, <1>6 DEF IsLabel

-----------------------------------------------------------------------------
(* The program stays as it is.                                             *)

LEMMA SourceFixed ==
  ASSUME program' = program
  PROVE  /\ Lines' = Lines /\ CodeLines' = CodeLines /\ DataLines' = DataLines
         /\ \A k : /\ IsStatement(k)' <=> IsStatement(k)
                   /\ IsInstruction(k)' <=> IsInstruction(k)
                   /\ IsLabel(k)' <=> IsLabel(k)
                   /\ Translated(k)' = Translated(k) /\ SizeOf(k)' = SizeOf(k)
                   /\ Labelled(k)' = Labelled(k)
                   /\ LabelsOf(k)' = LabelsOf(k) /\ Pending(k)' = Pending(k)
         /\ \A i, lines : SizeBefore(i, lines)' = SizeBefore(i, lines)
<1>1. /\ Lines' = Lines
      /\ \A k : /\ IsStatement(k)' <=> IsStatement(k)
                /\ IsLabel(k)' <=> IsLabel(k)
                /\ Translated(k)' = Translated(k)
  BY DEF Lines, IsStatement, IsLabel, Translated
<1>2. \A k : SizeOf(k)' = SizeOf(k) /\ (IsInstruction(k)' <=> IsInstruction(k))
  BY <1>1 DEF SizeOf, IsInstruction
<1>3. CodeLines' = CodeLines /\ DataLines' = DataLines
  BY <1>1, <1>2 DEF CodeLines, DataLines
<1>4. \A k : Labelled(k)' = Labelled(k)
  BY <1>1 DEF Labelled
<1>5. \A k : LabelsOf(k)' = LabelsOf(k)
  BY <1>1, <1>4 DEF LabelsOf
<1>6. \A i, d : Waiting(i, d)' <=> Waiting(i, d)
  BY <1>1 DEF Waiting
<1>7. \A k : Pending(k)' = Pending(k)
  BY <1>1, <1>6 DEF Pending
<1>8. \A i, lines : SizeBefore(i, lines)' = SizeBefore(i, lines)
  BY <1>2 DEF SizeBefore
<1> QED
  BY <1>1, <1>2, <1>3, <1>4, <1>5, <1>7, <1>8

LEMMA WellFormedFixed ==
  ASSUME program' = program, terminated' = terminated
  PROVE  /\ WellFormed' <=> WellFormed
         /\ \A n : TargetOf(n)' = TargetOf(n)
         /\ \A k : AddressOf(k)' = AddressOf(k)
<1>1. \A n : LinesOf(n)' = LinesOf(n)
  BY ProgramFixed
<1>2. \A i : Bound(i)' <=> Bound(i)
  BY SourceFixed DEF Bound
<1>3. \A i : WellFormedLine(i)' <=> WellFormedLine(i)
  BY <1>1, <1>2, SourceFixed DEF WellFormedLine
<1>4. \A i : Refs(i)' = Refs(i)
  BY SourceFixed DEF Refs
<1>5. Referenced' = Referenced
  BY <1>4, SourceFixed DEF Referenced
<1>6. \A i : AddressOf(i)' = AddressOf(i)
  BY SourceFixed DEF AddressOf
<1>7. \A op, i : Encodable(op, i)' <=> Encodable(op, i)
  BY <1>6, SourceFixed DEF Encodable
<1>8. \A n : TargetOf(n)' = TargetOf(n)
  BY <1>1, SourceFixed DEF TargetOf
<1>9. WellFormed' <=> WellFormed
  BY <1>1, <1>3, <1>4, <1>5, <1>7, SourceFixed DEF WellFormed
<1> QED
  BY <1>6, <1>8, <1>9

LEMMA PiecesFixed ==
  ASSUME program' = program
  PROVE  /\ \A p : WrittenPiece(p)' = WrittenPiece(p)
         /\ \A code : WrittenPieces(code)' = WrittenPieces(code)
         /\ \A code, done, rest : Partial(code, done, rest)' <=> Partial(code, done, rest)
<1>1. \A i : AddressOf(i)' = AddressOf(i)
  BY SourceFixed DEF AddressOf
<1>2. \A n : LinesOf(n)' = LinesOf(n)
  BY ProgramFixed
<1>t. \A n : TargetOf(n)' = TargetOf(n)
  BY <1>2, SourceFixed DEF TargetOf
<1>v. \A op, j : WrittenValue(op, j)' = WrittenValue(op, j)
  BY <1>1, SourceFixed DEF WrittenValue
<1>3. \A p, n : WrittenMark(p, n)' = WrittenMark(p, n)
  BY <1>t, <1>v DEF WrittenMark
<1>4. \A p : WrittenPiece(p)' = WrittenPiece(p)
  BY <1>3 DEF WrittenPiece
<1>5. \A code : WrittenPieces(code)' = WrittenPieces(code)
  BY <1>4 DEF WrittenPieces
<1>6. \A code, done, rest : Partial(code, done, rest)' <=> Partial(code, done, rest)
  BY <1>4 DEF Partial
<1> QED
  BY <1>4, <1>5, <1>6

LEMMA SegmentFixed ==
  ASSUME program' = program, NEW file, NEW table, NEW offset, NEW lines, NEW upto,
         Segment(file, table, offset, lines, upto)
  PROVE  Segment(file, table, offset, lines, upto)'
<1>1. \A r : RowOf(r, lines)' <=> RowOf(r, lines)
  BY SourceFixed DEF RowOf
<1>2. FileOf(file, lines, upto)'
  BY <1>1 DEF Segment, FileOf
<1>3. \A s : SymbolOf(s, lines, upto)' <=> SymbolOf(s, lines, upto)
  BY SourceFixed DEF SymbolOf
<1>4. TableOf(table, lines, upto)'
  BY <1>3, SourceFixed DEF Segment, TableOf
<1> QED
  BY <1>2, <1>4, SourceFixed DEF Segment

(* A line that adds nothing to the segment.                                *)
LEMMA SegmentSkips ==
  ASSUME NEW lines \in SUBSET Nat, \A k \in lines : SizeOf(k) \in Nat, NEW upto \in Nat,
         upto + 1 \notin lines,
         NEW file, NEW table, NEW offset, Segment(file, table, offset, lines, upto),
         \A i \in 1 .. Len(file) : file[i].line \in Nat
  PROVE  Segment(file, table, offset, lines, upto + 1)
<1>1. \A k \in lines : k <= upto + 1 <=> k <= upto
  OBVIOUS
<1>2. FileOf(file, lines, upto + 1)
  BY <1>1 DEF Segment, FileOf, RowOf
<1>3. TableOf(table, lines, upto + 1)
  BY <1>1 DEF Segment, TableOf, SymbolOf
<1>4. SizeBefore(upto + 1 + 1, lines) = SizeBefore(upto + 1, lines)
  <2>1. PICK k \in Nat : k = upto + 1 /\ k # 0
    OBVIOUS
  <2> QED
    BY <2>1, SizeBeforeNext
<1> QED
  BY <1>2, <1>3, <1>4 DEF Segment

(* A line whose statement joins the segment.                               *)
LEMMA SegmentGrows ==
  ASSUME NEW lines \in SUBSET Nat, \A k \in lines : SizeOf(k) \in Nat, NEW upto \in Nat,
         NEW k, k = upto + 1, k \in lines,
         NEW file \in Seq(Row), NEW table, NEW offset, Segment(file, table, offset, lines, upto),
         NEW r \in Row, r.offset = offset, r.line = k, r.code = Translated(k).code,
         NEW more, Range(more) = Range(table) \cup Abstract!AtStart(LabelsOf(k), offset)
  PROVE  Segment(Append(file, r), more, offset + SizeOf(k), lines, k)
<1> DEFINE longer == Append(file, r)
<1>1. /\ Len(longer) = Len(file) + 1 /\ longer[Len(file) + 1] = r /\ Len(file) \in Nat
      /\ \A i \in 1 .. Len(file) : longer[i] = file[i]
  OBVIOUS
<1>2. /\ k \in Nat /\ \A j \in lines : j \in Nat /\ (j <= k <=> j <= upto \/ j = k)
      /\ \A i \in 1 .. Len(file) : file[i].line \in lines /\ file[i].line <= upto
  BY DEF Segment, FileOf, RowOf
<1>3. offset = SizeBefore(k, lines) /\ offset + SizeOf(k) = SizeBefore(k + 1, lines)
  <2>1. offset = SizeBefore(k, lines) /\ k \in Nat /\ k # 0
    BY <1>2 DEF Segment
  <2> QED
    BY <2>1, SizeBeforeNext
<1> HIDE DEF longer
<1>4. FileOf(longer, lines, k)
  <2>1. ASSUME NEW i \in 1 .. Len(longer)  PROVE RowOf(longer[i], lines) /\ longer[i].line <= k
    <3>1. CASE i \in 1 .. Len(file)
      <4>1. RowOf(file[i], lines) /\ file[i].line <= upto
        BY <3>1 DEF Segment, FileOf
      <4> QED
        BY <1>1, <1>2, <3>1, <4>1
    <3>2. CASE i = Len(file) + 1
      BY <1>1, <1>2, <1>3, <3>2 DEF RowOf
    <3> QED
      BY <1>1, <3>1, <3>2
  <2>2. ASSUME NEW j \in lines, j <= k  PROVE \E i \in 1 .. Len(longer) : longer[i].line = j
    <3>1. CASE j = k
      <4>1. Len(file) + 1 \in 1 .. Len(longer)
        BY <1>1
      <4> QED
        BY <1>1, <3>1, <4>1
    <3>2. CASE j # k
      <4>1. PICK i \in 1 .. Len(file) : file[i].line = j
        BY <1>2, <2>2, <3>2 DEF Segment, FileOf
      <4> QED
        BY <1>1, <4>1
    <3> QED
      BY <3>1, <3>2
  <2>3. ASSUME NEW i \in 1 .. Len(longer), NEW j \in 1 .. Len(longer), i < j
        PROVE  longer[i].line < longer[j].line
    <3>1. i \in 1 .. Len(file) /\ (j \in 1 .. Len(file) \/ j = Len(file) + 1)
      BY <1>1, <2>3
    <3>2. CASE j \in 1 .. Len(file)
      BY <1>1, <2>3, <3>1, <3>2 DEF Segment, FileOf
    <3>3. CASE j = Len(file) + 1
      <4>1. longer[j] = r /\ longer[i] = file[i]
        BY <1>1, <3>1, <3>3
      <4>2. file[i].line \in Nat /\ file[i].line <= upto
        BY <1>2, <3>1
      <4> QED
        BY <4>1, <4>2
    <3> QED
      BY <3>1, <3>2, <3>3
  <2> QED
    BY <2>1, <2>2, <2>3 DEF FileOf
<1>5. \A n, a : [name |-> n, offset |-> a] \in Abstract!AtStart(LabelsOf(k), offset)
                  <=> n \in LabelsOf(k) /\ a = offset
  BY DEF Abstract!AtStart
<1>6. \A s \in Abstract!AtStart(LabelsOf(k), offset) : s.name \in LabelsOf(k) /\ s.offset = offset
  BY DEF Abstract!AtStart
<1>7. TableOf(more, lines, k)
  <2>1. ASSUME NEW s \in Range(more)  PROVE SymbolOf(s, lines, k)
    <3>1. CASE s \in Range(table)
      BY <1>2, <3>1 DEF Segment, TableOf, SymbolOf
    <3>2. CASE s \in Abstract!AtStart(LabelsOf(k), offset)
      BY <1>2, <1>3, <1>6, <3>2 DEF SymbolOf
    <3> QED
      BY <3>1, <3>2
  <2>2. ASSUME NEW j \in lines, j <= k, NEW n \in LabelsOf(j)
        PROVE  [name |-> n, offset |-> SizeBefore(j, lines)] \in Range(more)
    <3>1. CASE j = k
      BY <1>3, <1>5, <2>2, <3>1
    <3>2. CASE j # k
      BY <1>2, <2>2, <3>2 DEF Segment, TableOf
    <3> QED
      BY <3>1, <3>2
  <2> QED
    BY <2>1, <2>2 DEF TableOf
<1> QED
  BY <1>3, <1>4, <1>7 DEF Segment, longer

LEMMA SegmentSorted ==
  ASSUME NEW file, NEW table, NEW sorted, NEW offset, NEW lines, NEW upto,
         Segment(file, table, offset, lines, upto), Range(sorted) = Range(table)
  PROVE  Segment(file, sorted, offset, lines, upto)
BY DEF Segment, TableOf

LEMMA SegmentFirst ==
  ASSUME NEW lines \in SUBSET (Nat \ {0})
  PROVE  Segment(<< >>, << >>, 0, lines, 0)
<1>1. \A k \in lines : ~ k <= 0
  OBVIOUS
<1>2. FileOf(<< >>, lines, 0)
  BY <1>1 DEF FileOf
<1>3. TableOf(<< >>, lines, 0)
  BY <1>1, RangeOfFew DEF TableOf
<1> QED
  BY <1>2, <1>3, SizeBeforeFirst DEF Segment

-----------------------------------------------------------------------------
(* Reading a well-formed program.                                          *)

LEMMA TextFacts ==
  /\ \A line : line.col1 = "space" => TextAfter(line, "start") = line.text
  /\ \A line : line.text \in Text /\ line.gap => TextAfter(line, "colon") = line.text
<1>1. ASSUME NEW line, line.col1 = "space"  PROVE TextAfter(line, "start") = line.text
  BY <1>1 DEF TextAfter
<1>2. ASSUME NEW line, line.text \in Text, line.gap  PROVE TextAfter(line, "colon") = line.text
  BY <1>2, SourceAssumption DEF TextAfter
<1> QED
  BY <1>1, <1>2

LEMMA NothingWaits ==
  ASSUME NEW i \in Lines, IsStatement(i)  PROVE Pending(i) = {}
<1>1. \A d \in Lines : d <= i => i \in d .. i
  BY DEF Lines
<1> QED
  BY <1>1 DEF Pending, Waiting

(* The next line, and what waits after it.                                 *)
LEMMA NextLineFacts ==
  ASSUME StatementTypeOK, WellFormed, GetLine
  PROVE  \E k \in Lines :
           /\ k = pos + 1 /\ pos' = k /\ k # 0 /\ pos < Len(program)
           /\ NextLine = program[k] /\ sourceCode' = program[k]
           /\ program[k] \in LineType
           /\ program[k].col1 # "bad"
           /\ program[k].col1 = "text" => IsComment(program[k], FALSE)
           /\ IsComment(program[k], FALSE) <=> ~ IsStatement(k) /\ ~ IsLabel(k)
           /\ IsComment(program[k], TRUE) <=> ~ IsStatement(k)
           /\ IsStatement(k) => program[k].gap /\ program[k].text \in Text
                                /\ program[k].col1 \in {"space", "label"}
           /\ IsStatement(k) /\ ~ IsLabel(k) => LabelsOf(k) = Pending(pos)
           /\ IsStatement(k) /\ IsLabel(k) => LabelsOf(k) = Pending(pos) \cup {program[k].name}
           /\ ~ IsStatement(k) /\ ~ IsLabel(k) => Pending(k) = Pending(pos)
           /\ ~ IsStatement(k) /\ IsLabel(k) => Pending(k) = Pending(pos) \cup {program[k].name}
           /\ Pending(pos) # {} => ~ IsLabel(k)
<1>1. PICK i \in Nat : i = pos /\ i < Len(program) /\ Len(program) \in Nat
  BY DEF StatementTypeOK, GetLine, More
<1>2. PICK k \in Lines : k = i + 1 /\ k # 0
  BY <1>1 DEF Lines
<1>3. NextLine = program[k] /\ sourceCode' = program[k] /\ pos' = k
  BY <1>1, <1>2 DEF GetLine, NextLine
<1>5. PICK more : more = Pending(i) \cup IF IsLabel(k) THEN {program[k].name} ELSE {}
  OBVIOUS
<1>4. /\ ~ IsLabel(k) => more = Pending(i)
      /\ IsLabel(k) => more = Pending(i) \cup {program[k].name}
  BY <1>5
<1>6. /\ IsStatement(k) => LabelsOf(k) = more
      /\ ~ IsStatement(k) => Pending(k) = more
  BY <1>1, <1>2, <1>5, PendingNext
<1>7. Pending(i) # {} => ~ IsLabel(k)
  BY <1>1, <1>2, WaitingIsBound
<1>8. IsStatement(k) => program[k].text \in Text
  BY DEF IsStatement
<1> QED
  BY <1>1, <1>2, <1>3, <1>4, <1>5, <1>6, <1>7, <1>8, LineKinds

LEMMA ReadRightStep == AssemInv /\ WellFormed /\ ReadRight /\ ReadStatement => ReadRight'
<1> SUFFICES ASSUME AssemInv, WellFormed, ReadRight, ReadStatement  PROVE ReadRight'
  OBVIOUS
<1> USE DEF readVars, parseVars
<1>0. /\ StatementTypeOK /\ pos \in Nat /\ Len(program) \in Nat /\ pos <= Len(program)
  BY DEF AssemInv, TypeOK, StatementTypeOK
<1>p. program' = program
  BY DEF ReadStatement, ReadNext, BeginRead, ReadComment, ReadUnlabelled, ReadLabel,
     SkipComment, SkipToStatement, ReadEnd, CountLines, Parse
<1>f. \A k : /\ IsStatement(k)' <=> IsStatement(k)
             /\ Translated(k)' = Translated(k) /\ SizeOf(k)' = SizeOf(k)
             /\ LabelsOf(k)' = LabelsOf(k) /\ Pending(k)' = Pending(k)
  BY <1>p, SourceFixed
<1>i. PICK i : i = pos
  OBVIOUS
<1>1. CASE BeginRead
  <2>1. Pending(i)' = {} /\ pos' = i
    BY <1>1, <1>i, <1>f DEF BeginRead, ReadRight
  <2> QED
    BY <1>1, <1>p, <2>1 DEF BeginRead, ReadRight
<1>2. CASE ReadComment
  <2>1. /\ pc = "read" /\ pc' = "read" /\ GetLine /\ IsComment(NextLine, FALSE)
        /\ UNCHANGED << label, endLabel, messages >>
    BY <1>2 DEF ReadComment
  <2>2. PICK k \in Lines : /\ pos' = k /\ k # 0 /\ sourceCode' = program[k]
                           /\ Pending(k) = Pending(pos)
    BY <1>0, <2>1, NextLineFacts
  <2>3. Pending(k)' = {}
    BY <1>f, <2>1, <2>2 DEF ReadRight
  <2> QED
    BY <1>p, <2>1, <2>2, <2>3 DEF ReadRight
<1>3. CASE ReadUnlabelled
  <2>1. /\ pc = "read" /\ pc' = "return" /\ GetLine /\ ~ IsComment(NextLine, FALSE)
        /\ (NextLine.col1 = "space" /\ UNCHANGED messages) \/ NextLine.col1 = "text"
        /\ UNCHANGED << label, endLabel >>
    BY <1>3 DEF ReadUnlabelled
  <2>2. PICK k \in Lines : /\ pos' = k /\ k # 0 /\ sourceCode' = program[k]
                           /\ NextLine = program[k] /\ program[k].col1 # "text"
                           /\ IsStatement(k) \/ IsLabel(k)
                           /\ IsStatement(k) /\ ~ IsLabel(k) => LabelsOf(k) = Pending(pos)
    BY <1>0, <2>1, NextLineFacts
  <2>3. program[k].col1 = "space" /\ ~ IsLabel(k) /\ IsStatement(k) /\ UNCHANGED messages
    BY <2>1, <2>2 DEF IsLabel
  <2>4. IsStatement(k)' /\ LabelsOf(k)' = {}
    BY <1>f, <2>1, <2>2, <2>3 DEF ReadRight
  <2>5. TextAfter(sourceCode', endLabel') = program[k].text
    BY <2>1, <2>2, <2>3, TextFacts DEF ReadRight
  <2> QED
    BY <1>p, <2>1, <2>2, <2>3, <2>4, <2>5 DEF ReadRight
<1>4. CASE ReadLabel
  <2>1. /\ pc = "read" /\ GetLine /\ NextLine.col1 \in {"label", "bad"}
        /\ label' = {NextLine.name} /\ endLabel' = "colon"
        /\ NextLine.col1 # "bad" => UNCHANGED messages
        /\ IsComment(NextLine, TRUE) => pc' = "skip"
        /\ ~ IsComment(NextLine, TRUE) => pc' = "return"
    BY <1>4 DEF ReadLabel
  <2>2. PICK k \in Lines : /\ pos' = k /\ k # 0 /\ sourceCode' = program[k]
                           /\ NextLine = program[k] /\ program[k].col1 # "bad"
                           /\ IsComment(program[k], TRUE) <=> ~ IsStatement(k)
                           /\ IsStatement(k) => program[k].gap /\ program[k].text \in Text
                           /\ IsStatement(k) /\ IsLabel(k) =>
                                LabelsOf(k) = Pending(pos) \cup {program[k].name}
                           /\ ~ IsStatement(k) /\ IsLabel(k) =>
                                Pending(k) = Pending(pos) \cup {program[k].name}
    BY <1>0, <2>1, NextLineFacts
  <2>3. IsLabel(k) /\ UNCHANGED messages /\ Pending(pos) = {} /\ label' = {program[k].name}
    BY <2>1, <2>2 DEF IsLabel, ReadRight
  <2>4. CASE IsStatement(k)
    <3>1. IsStatement(k)' /\ LabelsOf(k)' = label' /\ pc' = "return"
      BY <1>f, <2>1, <2>2, <2>3, <2>4
    <3>2. TextAfter(sourceCode', endLabel') = program[k].text
      BY <2>1, <2>2, <2>4, TextFacts
    <3> QED
      BY <1>p, <2>2, <2>3, <3>1, <3>2 DEF ReadRight
  <2>5. CASE ~ IsStatement(k)
    <3>1. Pending(k)' = label' /\ pc' = "skip"
      BY <1>f, <2>1, <2>2, <2>3, <2>5
    <3> QED
      BY <1>p, <2>2, <2>3, <3>1 DEF ReadRight
  <2> QED
    BY <2>4, <2>5
<1>5. CASE SkipComment
  <2>1. /\ pc = "skip" /\ pc' = "skip" /\ GetLine /\ IsComment(NextLine, FALSE)
        /\ UNCHANGED << label, messages >>
    BY <1>5 DEF SkipComment
  <2>2. PICK k \in Lines : /\ pos' = k /\ k # 0 /\ sourceCode' = program[k]
                           /\ Pending(k) = Pending(pos)
    BY <1>0, <2>1, NextLineFacts
  <2>3. Pending(k)' = label' /\ label' # {}
    BY <1>f, <2>1, <2>2 DEF ReadRight
  <2> QED
    BY <1>p, <2>1, <2>2, <2>3 DEF ReadRight
<1>6. CASE SkipToStatement
  <2>1. /\ pc = "skip" /\ pc' = "return" /\ GetLine /\ ~ IsComment(NextLine, FALSE)
        /\ UNCHANGED << label, messages >> /\ endLabel' = "start"
    BY <1>6 DEF SkipToStatement
  <2>2. label = Pending(pos) /\ Pending(pos) # {}
    BY <2>1 DEF ReadRight
  <2>3. PICK k \in Lines : /\ pos' = k /\ k # 0 /\ sourceCode' = program[k]
                           /\ IsStatement(k) /\ ~ IsLabel(k) /\ LabelsOf(k) = Pending(pos)
                           /\ program[k].col1 \in {"space", "label"}
    BY <1>0, <2>1, <2>2, NextLineFacts
  <2>4. program[k].col1 = "space"
    BY <2>3 DEF IsLabel
  <2>5. IsStatement(k)' /\ LabelsOf(k)' = label'
    BY <1>f, <2>1, <2>2, <2>3
  <2>6. TextAfter(sourceCode', endLabel') = program[k].text
    BY <2>1, <2>3, <2>4, TextFacts
  <2> QED
    BY <1>p, <2>1, <2>3, <2>5, <2>6 DEF ReadRight
<1>7. CASE ReadEnd
  <2>1. /\ pc \in {"read", "skip"} /\ pc' = "sort" /\ ~ More /\ UNCHANGED pos
        /\ \/ UNCHANGED messages
           \/ pc = "read" /\ ~ terminated /\ sourceCode.col1 \in {"bad", "text"}
    BY <1>7 DEF ReadEnd
  <2>2. pos = Len(program)
    BY <1>0, <2>1 DEF More
  <2>3. UNCHANGED messages
    <3> SUFFICES ASSUME pc = "read", ~ terminated, sourceCode.col1 \in {"bad", "text"}
                 PROVE  FALSE
      BY <2>1
    <3>1. CASE pos = 0
      <4>1. sourceCode = Blank
        BY <3>1 DEF ReadRight
      <4> QED
        BY <4>1 DEF Blank
    <3>2. CASE pos # 0
      <4>1. sourceCode = program[pos] /\ pos \in Lines
        BY <1>0, <3>2 DEF ReadRight, Lines
      <4>2. program[pos].col1 # "text"
        BY <2>2, <4>1 DEF WellFormed
      <4>3. program[pos].col1 # "bad"
        BY <1>0, <4>1, LineKinds
      <4> QED
        BY <4>1, <4>2, <4>3
    <3> QED
      BY <3>1, <3>2
  <2> QED
    BY <1>p, <2>1, <2>2, <2>3 DEF ReadRight
<1>8. CASE CountLines
  <2>1. /\ pc = "return" /\ UNCHANGED << pos, sourceCode, label, endLabel, messages >>
        /\ pc' = IF IsComment(sourceCode, FALSE) THEN "begin" ELSE "parse"
    BY <1>8 DEF CountLines
  <2>2. /\ i \in Lines /\ sourceCode = program[i] /\ IsStatement(i) /\ label = LabelsOf(i) /\ i # 0
        /\ TextAfter(sourceCode, endLabel) = program[i].text
    BY <1>0, <1>i, <2>1 DEF ReadRight, Lines
  <2>3. pc' = "parse"
    BY <1>0, <2>1, <2>2, LineKinds
  <2>4. IsStatement(i)' /\ LabelsOf(i)' = label'
    BY <1>f, <2>1, <2>2
  <2> QED
    BY <1>i, <1>p, <2>1, <2>2, <2>3, <2>4 DEF ReadRight
<1>9. CASE Parse
  <2>1. /\ pc = "parse" /\ pc' = "emit" /\ UNCHANGED << pos, sourceCode, label, endLabel >>
    BY <1>9 DEF Parse
  <2>2. /\ i \in Lines /\ sourceCode = program[i] /\ IsStatement(i) /\ label = LabelsOf(i) /\ i # 0
        /\ TextAfter(sourceCode, endLabel) = program[i].text
    BY <1>0, <1>i, <2>1 DEF ReadRight, Lines
  <2>3. program[i].text \in Text /\ program[i].text # NoText
    BY <2>2, SourceAssumption DEF IsStatement
  <2>4. PICK result \in Translation[program[i].text] :
          /\ machineCodeSize' = result.size /\ machineCode' = result.code
          /\ isAnInstruction' = result.instr
          /\ ~ result.error => UNCHANGED messages
    BY <1>9, <2>2, <2>3 DEF Parse
  <2>5. result = Translated(i) /\ ~ Translated(i).error
    BY <1>0, <2>2, <2>4, LineKinds
  <2>6. IsStatement(i)' /\ LabelsOf(i)' = label' /\ Translated(i)' = result /\ SizeOf(i)' = result.size
    BY <1>f, <2>1, <2>2, <2>5 DEF SizeOf
  <2>7. /\ machineCodeSize' = result.size /\ machineCode' = result.code
        /\ isAnInstruction' = result.instr /\ messages' = messages
    BY <2>4, <2>5
  <2>8. /\ machineCode' = Translated(i)'.code /\ machineCodeSize' = SizeOf(i)'
        /\ isAnInstruction' = Translated(i)'.instr
    BY <2>6, <2>7
  <2>9. messages' = {}
    BY <2>7 DEF ReadRight
  <2>10. sourceCode' = program'[i] /\ TextAfter(sourceCode', endLabel') = program'[i].text
    BY <1>p, <2>1, <2>2
  <2> QED
    BY <1>i, <2>1, <2>2, <2>6, <2>8, <2>9, <2>10 DEF ReadRight
<1> QED
  BY <1>1, <1>2, <1>3, <1>4, <1>5, <1>6, <1>7, <1>8, <1>9 DEF ReadStatement, ReadNext

-----------------------------------------------------------------------------
(* Laying out the segments of a well-formed program.                       *)

LEMMA SegmentLines ==
  /\ CodeLines \in SUBSET (Nat \ {0}) /\ DataLines \in SUBSET (Nat \ {0})
  /\ \A k \in CodeLines : SizeOf(k) \in Nat
  /\ \A k \in DataLines : SizeOf(k) \in Nat
<1>1. Lines \subseteq Nat \ {0}
  BY DEF Lines
<1> QED
  BY <1>1, LinesAre, StatementFacts

(* Reading on past a line without a statement, or not at all.              *)
LEMMA SegmentStays ==
  ASSUME program' = program, NEW lines \in SUBSET (Nat \ {0}), \A k \in lines : SizeOf(k) \in Nat,
         NEW file \in Seq(Row), NEW table, NEW more, Range(more) = Range(table),
         NEW offset, NEW upto \in Nat, NEW next,
         next = upto \/ (next = upto + 1 /\ next \notin lines),
         Segment(file, table, offset, lines, upto)
  PROVE  Segment(file, more, offset, lines, next)'
<1>1. Segment(file, more, offset, lines, upto)
  BY SegmentSorted
<1>2. ASSUME NEW i \in 1 .. Len(file)  PROVE file[i].line \in Nat
  <2>1. file[i] \in Row
    OBVIOUS
  <2> QED
    BY <2>1 DEF Row
<1>3. Segment(file, more, offset, lines, next)
  <2>1. CASE next = upto
    BY <1>1, <2>1
  <2>2. CASE next = upto + 1 /\ next \notin lines
    BY <1>1, <1>2, <2>2, SegmentSkips
  <2> QED
    BY <2>1, <2>2
<1> QED
  BY <1>3, SegmentFixed

LEMMA SegmentsKept ==
  ASSUME AssemInv, CodeRight, DataRight, program' = program,
         UNCHANGED << codePass1File, dataPass1File, codeOffset, dataOffset >>,
         Range(codeSymTable') = Range(codeSymTable), Range(dataSymTable') = Range(dataSymTable),
         Behind \in Nat,
         Behind' = Behind \/ (Behind' = Behind + 1 /\ Behind + 1 \notin CodeLines \cup DataLines)
  PROVE  CodeRight' /\ DataRight'
<1>1. codePass1File \in Seq(Row) /\ dataPass1File \in Seq(Row)
  BY DEF AssemInv, TypeOK
<1>2. PICK upto, next : upto = Behind /\ next = Behind' /\ upto \in Nat
  OBVIOUS
<1>3. CodeRight'
  <2>1. PICK lines, file, table, more, offset :
          /\ lines = CodeLines /\ file = codePass1File /\ offset = codeOffset
          /\ table = codeSymTable /\ more = codeSymTable'
    OBVIOUS
  <2>2. Segment(file, table, offset, lines, upto)
    BY <1>2, <2>1 DEF CodeRight
  <2>3. Segment(file, more, offset, lines, next)'
    BY <1>1, <1>2, <2>1, <2>2, SegmentLines, SegmentStays
  <2> QED
    BY <1>2, <2>1, <2>3, SourceFixed DEF CodeRight
<1>4. DataRight'
  <2>1. PICK lines, file, table, more, offset :
          /\ lines = DataLines /\ file = dataPass1File /\ offset = dataOffset
          /\ table = dataSymTable /\ more = dataSymTable'
    OBVIOUS
  <2>2. Segment(file, table, offset, lines, upto)
    BY <1>2, <2>1 DEF DataRight
  <2>3. Segment(file, more, offset, lines, next)'
    BY <1>1, <1>2, <2>1, <2>2, SegmentLines, SegmentStays
  <2> QED
    BY <1>2, <2>1, <2>3, SourceFixed DEF DataRight
<1> QED
  BY <1>3, <1>4

LEMMA BehindReads ==
  ASSUME AssemInv, WellFormed, ReadRight, ReadStatement
  PROVE  /\ Behind \in Nat
         /\ Behind' = Behind \/ (Behind' = Behind + 1 /\ Behind + 1 \notin CodeLines \cup DataLines)
<1> USE DEF readVars, parseVars
<1>0. /\ StatementTypeOK /\ pos \in Nat
  BY DEF AssemInv, TypeOK, StatementTypeOK
<1>1. CASE BeginRead \/ ReadEnd
  BY <1>0, <1>1 DEF BeginRead, ReadEnd, Behind
<1>2. ASSUME GetLine, pc \in {"read", "skip"}, pc' = "return"
      PROVE  Behind \in Nat /\ Behind' = Behind
  BY <1>0, <1>2 DEF GetLine, Behind
<1>3. ASSUME GetLine, pc \in {"read", "skip"}, pc' \in {"read", "skip"},
             IsComment(NextLine, FALSE) \/ IsComment(NextLine, TRUE)
      PROVE  /\ Behind \in Nat /\ Behind' = Behind + 1
             /\ Behind + 1 \notin CodeLines \cup DataLines
  <2>1. Behind = pos /\ Behind' = pos + 1
    BY <1>0, <1>3 DEF GetLine, Behind
  <2>2. PICK k \in Lines : k = pos + 1 /\ ~ IsStatement(k)
    BY <1>0, <1>3, NextLineFacts
  <2> QED
    BY <1>0, <2>1, <2>2, LinesAre
<1>4. CASE ReadComment
  BY <1>3, <1>4 DEF ReadComment
<1>5. CASE ReadUnlabelled
  BY <1>2, <1>5 DEF ReadUnlabelled
<1>6. CASE ReadLabel
  BY <1>2, <1>3, <1>6 DEF ReadLabel
<1>7. CASE SkipComment
  BY <1>3, <1>7 DEF SkipComment
<1>8. CASE SkipToStatement
  BY <1>2, <1>8 DEF SkipToStatement
<1>9. CASE CountLines
  <2>1. /\ pc = "return" /\ pos' = pos
        /\ pc' = IF IsComment(sourceCode, FALSE) THEN "begin" ELSE "parse"
    BY <1>9 DEF CountLines
  <2>2. pos \in Lines /\ pos # 0 /\ sourceCode = program[pos] /\ IsStatement(pos)
    BY <1>0, <2>1 DEF ReadRight, StatementTypeOK, Lines
  <2>3. pc' = "parse"
    BY <1>0, <2>1, <2>2, LineKinds
  <2>4. pos - 1 \in Nat
    BY <1>0, <2>2
  <2>5. Behind = pos - 1 /\ Behind' = pos' - 1
    BY <2>1, <2>3 DEF Behind
  <2> QED
    BY <2>1, <2>4, <2>5
<1>10. CASE Parse
  BY <1>0, <1>10 DEF Parse, Behind, ReadRight
<1> QED
  BY <1>1, <1>4, <1>5, <1>6, <1>7, <1>8, <1>9, <1>10 DEF ReadStatement, ReadNext

(* The steps after pass 1, and those that change nothing.                  *)
LEMMA ReadRightLeft ==
  ASSUME AssemInv, ReadRight, UNCHANGED << program, messages, pos, sourceCode, label, endLabel >>,
         \/ pc' = pc /\ UNCHANGED parseVars
         \/ /\ pc = "emit" /\ pc' = "begin"
         \/ /\ pc \in {"sort", "code", "data", "done", "crash"}
            /\ pc' \in {"sort", "code", "data", "done", "crash"}
  PROVE  ReadRight'
<1>1. PICK i : i = pos
  OBVIOUS
<1>2. /\ IsStatement(i)' <=> IsStatement(i)
      /\ Translated(i)' = Translated(i) /\ SizeOf(i)' = SizeOf(i)
      /\ LabelsOf(i)' = LabelsOf(i) /\ Pending(i)' = Pending(i)
  BY SourceFixed
<1>3. CASE pc' = pc /\ UNCHANGED parseVars
  BY <1>1, <1>2, <1>3 DEF ReadRight, parseVars
<1>4. CASE pc = "emit" /\ pc' = "begin"
  <2>1. i \in Lines /\ IsStatement(i) /\ i # 0
    BY <1>1, <1>4 DEF ReadRight, AssemInv, TypeOK, StatementTypeOK, Lines
  <2>2. Pending(i)' = {}
    BY <1>2, <2>1, NothingWaits
  <2> QED
    BY <1>1, <1>4, <2>1, <2>2 DEF ReadRight
<1>5. CASE /\ pc \in {"sort", "code", "data", "done", "crash"}
           /\ pc' \in {"sort", "code", "data", "done", "crash"}
  BY <1>1, <1>5 DEF ReadRight
<1> QED
  BY <1>3, <1>4, <1>5

LEMMA SegmentJoined ==
  ASSUME AssemInv, ReadRight, UNCHANGED << program, pos >>, pc = "emit",
         NEW lines \in SUBSET (Nat \ {0}), \A k \in lines : SizeOf(k) \in Nat, pos \in lines,
         NEW file \in Seq(Row), NEW table \in Seq(Symbol), NEW offset \in Nat,
         Segment(file, table, offset, lines, pos - 1),
         NEW longer, NEW more, NEW sum,
         longer = Append(file, [offset |-> offset, code |-> machineCode, line |-> pos]),
         more = WithLabel(table, offset), sum = offset + machineCodeSize
  PROVE  Segment(longer, more, sum, lines, pos)'
<1>1. /\ pos \in Nat /\ pos # 0 /\ label \in {{}} \cup { {n} : n \in Name }
      /\ machineCode \in Seq(Piece)
  BY DEF AssemInv, TypeOK, StatementTypeOK
<1>2. /\ machineCode = Translated(pos).code /\ machineCodeSize = SizeOf(pos)
      /\ label = LabelsOf(pos)
  BY DEF ReadRight
<1>3. PICK upto \in Nat : upto = pos - 1 /\ pos = upto + 1
  BY <1>1
<1>4. PICK k : k = pos
  OBVIOUS
<1>5. PICK r : r = [offset |-> offset, code |-> machineCode, line |-> k]
  OBVIOUS
<1>r. r \in Row /\ r.offset = offset /\ r.line = k /\ r.code = Translated(k).code
  BY <1>1, <1>2, <1>4, <1>5 DEF Row
<1>6. Range(more) = Range(table) \cup Abstract!AtStart(LabelsOf(k), offset)
  BY <1>1, <1>2, <1>4, WithLabelFacts
<1>7. longer = Append(file, r) /\ sum = offset + SizeOf(k)
  BY <1>2, <1>4, <1>5
<1>a. k = upto + 1 /\ k \in lines /\ Segment(file, table, offset, lines, upto)
  BY <1>3, <1>4
<1>8. Segment(longer, more, sum, lines, k)
  <2>1. Segment(Append(file, r), more, offset + SizeOf(k), lines, k)
    BY <1>a, <1>r, <1>6, SegmentGrows
  <2> QED
    BY <1>7, <2>1
<1>9. Segment(longer, more, sum, lines, k)'
  BY <1>8, SegmentFixed
<1> QED
  BY <1>4, <1>9

LEMMA EmitRight ==
  ASSUME AssemInv, WellFormed, ReadRight, CodeRight, DataRight, EmitCode \/ EmitData
  PROVE  CodeRight' /\ DataRight'
<1>0. /\ pc = "emit" /\ pc' = "begin" /\ UNCHANGED << program, pos >> /\ pos \in Nat /\ pos # 0
      /\ pos \in Lines /\ IsStatement(pos) /\ isAnInstruction = Translated(pos).instr
  BY DEF AssemInv, TypeOK, StatementTypeOK, ReadRight, EmitCode, EmitData, Lines, readVars
<1>1. /\ codePass1File \in Seq(Row) /\ dataPass1File \in Seq(Row)
      /\ codeSymTable \in Seq(Symbol) /\ dataSymTable \in Seq(Symbol)
      /\ codeOffset \in Nat /\ dataOffset \in Nat
  BY DEF AssemInv, TypeOK
<1>2. /\ isAnInstruction   => pos \in CodeLines /\ pos \notin DataLines
      /\ ~ isAnInstruction => pos \in DataLines /\ pos \notin CodeLines
  BY <1>0, LinesAre
<1>3. Behind = pos - 1 /\ Behind' = pos
  BY <1>0 DEF Behind
<1>4. PICK upto \in Nat : upto = pos - 1 /\ upto = Behind /\ pos = upto + 1
  BY <1>0, <1>3
<1>5. PICK next : next = pos
  OBVIOUS
<1>6. PICK code, data : code = CodeLines /\ data = DataLines
  OBVIOUS
<1>7. PICK cf, ct, co : cf = codePass1File' /\ ct = codeSymTable' /\ co = codeOffset'
  OBVIOUS
<1>8. PICK df, dt, do : df = dataPass1File' /\ dt = dataSymTable' /\ do = dataOffset'
  OBVIOUS
<1>9. /\ Segment(codePass1File, codeSymTable, codeOffset, code, pos - 1)
      /\ Segment(dataPass1File, dataSymTable, dataOffset, data, pos - 1)
  BY <1>3, <1>6 DEF CodeRight, DataRight
<1>10. Segment(cf, ct, co, code, next)' /\ Segment(df, dt, do, data, next)'
  <2>1. CASE EmitCode
    <3>1. /\ isAnInstruction /\ UNCHANGED << dataPass1File, dataSymTable, dataOffset >>
          /\ codePass1File' =
               Append(codePass1File, [offset |-> codeOffset, code |-> machineCode, line |-> pos])
          /\ codeSymTable' = WithLabel(codeSymTable, codeOffset)
          /\ codeOffset' = codeOffset + machineCodeSize
      BY <2>1 DEF EmitCode
    <3>2. Segment(cf, ct, co, code, pos)'
      <4>1. pos \in code /\ code \in SUBSET (Nat \ {0}) /\ \A k \in code : SizeOf(k) \in Nat
        BY <1>2, <1>6, <3>1, SegmentLines
      <4> QED
        BY <1>0, <1>1, <1>7, <1>9, <3>1, <4>1, SegmentJoined
    <3>3. Segment(df, dt, do, data, next)'
      <4>1. /\ next = upto + 1 /\ next \notin data
            /\ data \in SUBSET (Nat \ {0}) /\ \A k \in data : SizeOf(k) \in Nat
        BY <1>2, <1>4, <1>5, <1>6, <3>1, SegmentLines
      <4>2. df \in Seq(Row) /\ Segment(df, dt, do, data, upto)
        BY <1>1, <1>4, <1>8, <1>9, <3>1
      <4> QED
        BY <1>0, <4>1, <4>2, SegmentStays
    <3> QED
      BY <1>0, <1>5, <3>2, <3>3
  <2>2. CASE EmitData
    <3>1. /\ ~ isAnInstruction /\ UNCHANGED << codePass1File, codeSymTable, codeOffset >>
          /\ dataPass1File' =
               Append(dataPass1File, [offset |-> dataOffset, code |-> machineCode, line |-> pos])
          /\ dataSymTable' = WithLabel(dataSymTable, dataOffset)
          /\ dataOffset' = dataOffset + machineCodeSize
      BY <2>2 DEF EmitData
    <3>2. Segment(df, dt, do, data, pos)'
      <4>1. pos \in data /\ data \in SUBSET (Nat \ {0}) /\ \A k \in data : SizeOf(k) \in Nat
        BY <1>2, <1>6, <3>1, SegmentLines
      <4> QED
        BY <1>0, <1>1, <1>8, <1>9, <3>1, <4>1, SegmentJoined
    <3>3. Segment(cf, ct, co, code, next)'
      <4>1. /\ next = upto + 1 /\ next \notin code
            /\ code \in SUBSET (Nat \ {0}) /\ \A k \in code : SizeOf(k) \in Nat
        BY <1>2, <1>4, <1>5, <1>6, <3>1, SegmentLines
      <4>2. cf \in Seq(Row) /\ Segment(cf, ct, co, code, upto)
        BY <1>1, <1>4, <1>7, <1>9, <3>1
      <4> QED
        BY <1>0, <4>1, <4>2, SegmentStays
    <3> QED
      BY <1>0, <1>5, <3>2, <3>3
  <2> QED
    BY <2>1, <2>2
<1> QED
  BY <1>0, <1>3, <1>5, <1>6, <1>7, <1>8, <1>10, SourceFixed DEF CodeRight, DataRight

LEMMA SourceRightStep == AssemInv /\ WellFormed /\ SourceRight /\ [Next]_vars => SourceRight'
<1> SUFFICES ASSUME AssemInv, WellFormed, SourceRight, [Next]_vars  PROVE SourceRight'
  OBVIOUS
<1> USE DEF SourceRight, pass1Vars, tableVars, readVars
<1>0. pos \in Nat
  BY DEF AssemInv, TypeOK, StatementTypeOK
<1>1. CASE ReadStatement
  <2>1. program' = program
    BY <1>1 DEF ReadStatement, ReadNext, BeginRead, ReadComment, ReadUnlabelled, ReadLabel,
       SkipComment, SkipToStatement, ReadEnd, CountLines, Parse
  <2>2. UNCHANGED << pass1Vars, tableVars >>
    BY <1>1 DEF ReadStatement
  <2>3. CodeRight' /\ DataRight'
    BY <1>1, <2>1, <2>2, BehindReads, SegmentsKept
  <2> QED
    BY <1>1, <2>3, ReadRightStep
<1>2. CASE EmitCode \/ EmitData
  <2>1. /\ pc = "emit" /\ pc' = "begin"
        /\ UNCHANGED << program, messages, pos, sourceCode, label, endLabel >>
    BY <1>2 DEF EmitCode, EmitData
  <2> QED
    BY <1>2, <2>1, EmitRight, ReadRightLeft
<1>3. CASE SortTables
  <2>1. /\ pc = "sort" /\ pc' \in {"code", "done"}
        /\ UNCHANGED << program, messages, pos, sourceCode, label, endLabel >>
        /\ UNCHANGED pass1Vars
        /\ codeSymTable' \in SortsOf(codeSymTable) /\ dataSymTable' \in SortsOf(dataSymTable)
        /\ codeSymTable \in Seq(Symbol) /\ dataSymTable \in Seq(Symbol)
    BY <1>3 DEF AssemInv, TypeOK, SortTables
  <2>2. Range(codeSymTable') = Range(codeSymTable) /\ Range(dataSymTable') = Range(dataSymTable)
    BY <2>1, SortFacts
  <2>3. Behind = pos /\ Behind' = pos
    BY <2>1 DEF Behind
  <2>4. CodeRight' /\ DataRight'
    BY <1>0, <2>1, <2>2, <2>3, SegmentsKept
  <2> QED
    BY <2>1, <2>4, ReadRightLeft
<1>4. CASE Pass2Next
  <2>1. pc \in {"code", "data"} /\ pc' \in {"code", "data", "done", "crash"} /\ UNCHANGED pass2Fixed
    BY <1>4, Pass2Leaves DEF Pass2Next, NextCodeRow, CopyPiece, FoundInCode, FoundInData, NotFound,
       NullSymbolUsed, EmptyTableSearched, Marked, EndOfCode, CopyDataRow, EndOfData
  <2>2. Behind = pos /\ Behind' = pos
    BY <2>1 DEF Behind, pass2Fixed
  <2>3. CodeRight' /\ DataRight'
    BY <1>0, <2>1, <2>2, SegmentsKept DEF pass2Fixed
  <2> QED
    BY <2>1, <2>3, ReadRightLeft DEF pass2Fixed
<1>5. CASE UNCHANGED vars
  <2>1. /\ pc' = pc /\ UNCHANGED << parseVars, pass1Vars, tableVars >>
        /\ UNCHANGED << program, messages, pos, sourceCode, label, endLabel >>
    BY <1>5 DEF vars, statementVars
  <2>2. Behind' = Behind /\ Behind \in Nat
    <3>1. pc \in {"return", "parse", "emit"} => pos # 0
      BY DEF ReadRight
    <3> QED
      BY <1>0, <2>1, <3>1 DEF Behind
  <2>3. CodeRight' /\ DataRight'
    BY <2>1, <2>2, SegmentsKept
  <2> QED
    BY <2>1, <2>3, ReadRightLeft
<1> QED
  BY <1>1, <1>2, <1>3, <1>4, <1>5 DEF Next, Pass2Next

LEMMA SourceRightInit == Init => SourceRight
<1> SUFFICES ASSUME Init  PROVE SourceRight
  OBVIOUS
<1>1. /\ pc = "begin" /\ pos = 0 /\ messages = {} /\ sourceCode = Blank
      /\ codePass1File = << >> /\ dataPass1File = << >>
      /\ codeSymTable = << >> /\ dataSymTable = << >> /\ codeOffset = 0 /\ dataOffset = 0
  BY DEF Init, StatementInit
<1>2. Pending(0) = {}
  BY DEF Pending, Waiting, Lines
<1>3. ReadRight
  BY <1>1, <1>2 DEF ReadRight
<1>4. Behind = 0
  BY <1>1 DEF Behind
<1> QED
  BY <1>1, <1>3, <1>4, SegmentLines, SegmentFirst DEF SourceRight, CodeRight, DataRight

-----------------------------------------------------------------------------
(* Resolving the references of a well-formed program.                      *)

LEMMA SoleStatement ==
  ASSUME NEW d \in Lines, NEW i \in Labelled(d), NEW j \in Labelled(d)  PROVE i = j
<1>1. /\ i \in Nat /\ j \in Nat /\ d \in Nat /\ d <= i /\ d <= j
      /\ IsStatement(i) /\ IsStatement(j)
      /\ \A k \in d .. i - 1 : ~ IsStatement(k)
      /\ \A k \in d .. j - 1 : ~ IsStatement(k)
  BY DEF Labelled, Lines
<1>2. ~ (i \in d .. j - 1) /\ ~ (j \in d .. i - 1)
  BY <1>1
<1> QED
  BY <1>1, <1>2

(* A label that is defined once belongs to one statement.                  *)
LEMMA LabelTarget ==
  ASSUME StatementTypeOK, WellFormed, NEW n, NEW d \in LinesOf(n), NEW j \in Labelled(d)
  PROVE  /\ TargetOf(n) = j /\ j \in Lines /\ IsStatement(j)
         /\ \A k : n \in LabelsOf(k) <=> k = j
<1>1. d \in Lines /\ IsLabel(d) /\ program[d].name = n
  BY DEF LinesOf, IsLabel
<1>2. LinesOf(n) = {d}
  BY <1>1, LineKinds
<1>3. Labelled(d) = {j} /\ j \in Lines /\ IsStatement(j)
  BY <1>1, SoleStatement DEF Labelled
<1>4. UNION { Labelled(e) : e \in LinesOf(n) } = {j}
  BY <1>2, <1>3
<1>5. TargetOf(n) = j
  BY <1>4 DEF TargetOf
<1>6. ASSUME NEW k  PROVE n \in LabelsOf(k) <=> k = j
  <2>1. ASSUME n \in LabelsOf(k)  PROVE k = j
    <3>1. PICK e \in Lines : IsLabel(e) /\ k \in Labelled(e) /\ program[e].name = n
      BY <2>1 DEF LabelsOf
    <3>2. e \in LinesOf(n)
      BY <3>1 DEF LinesOf, IsLabel
    <3> QED
      BY <1>2, <1>3, <3>1, <3>2
  <2>2. n \in LabelsOf(j)
    BY <1>1 DEF LabelsOf
  <2> QED
    BY <2>1, <2>2
<1> QED
  BY <1>3, <1>5, <1>6

LEMMA RefTarget ==
  ASSUME StatementTypeOK, WellFormed, NEW i \in CodeLines, NEW p \in Refs(i), NEW n \in p.refs
  PROVE  \E j \in CodeLines \cup DataLines :
           /\ TargetOf(n) = j /\ Encodable(p.op, j)
           /\ \A k : n \in LabelsOf(k) <=> k = j
<1>1. PICK d \in LinesOf(n) : \E j \in Labelled(d) : Encodable(p.op, j)
  BY DEF WellFormed
<1>2. PICK j \in Labelled(d) : Encodable(p.op, j)
  BY <1>1
<1>3. TargetOf(n) = j /\ j \in Lines /\ IsStatement(j) /\ \A k : n \in LabelsOf(k) <=> k = j
  BY LabelTarget
<1>4. j \in CodeLines \cup DataLines
  BY <1>3 DEF CodeLines, DataLines
<1> QED
  BY <1>2, <1>3, <1>4

(* A table has the offset of that statement, and no other.                 *)
LEMMA DefinitionsRight ==
  ASSUME NEW table, NEW lines \in SUBSET Lines, NEW upto, \A k \in lines : k <= upto,
         TableOf(table, lines, upto),
         NEW n, NEW j, \A k : n \in LabelsOf(k) <=> k = j
  PROVE  /\ \A s \in DefinitionsOf(n, table) : j \in lines /\ s.offset = SizeBefore(j, lines)
         /\ j \in lines => DefinitionsOf(n, table) # {}
<1>1. ASSUME NEW s \in DefinitionsOf(n, table)
      PROVE  j \in lines /\ s.offset = SizeBefore(j, lines)
  <2>1. s \in Range(table) /\ s.name = n
    BY DEF DefinitionsOf
  <2>2. PICK k \in lines : n \in LabelsOf(k) /\ s.offset = SizeBefore(k, lines)
    BY <2>1 DEF TableOf, SymbolOf
  <2> QED
    BY <2>2
<1>2. ASSUME j \in lines  PROVE DefinitionsOf(n, table) # {}
  <2>1. PICK s : s = [name |-> n, offset |-> SizeBefore(j, lines)]
    OBVIOUS
  <2>2. s \in Range(table) /\ s.name = n
    BY <1>2, <2>1 DEF TableOf
  <2> QED
    BY <2>2 DEF DefinitionsOf
<1> QED
  BY <1>1, <1>2

(* A table has something in it, if a statement of its segment has a label. *)
LEMMA TableNotEmpty ==
  ASSUME NEW table, NEW lines, NEW upto, TableOf(table, lines, upto),
         NEW j \in lines, j <= upto, NEW n \in LabelsOf(j)
  PROVE  table # << >>
BY RangeOfFew DEF TableOf

LEMMA SomeCodeLabel ==
  ASSUME StatementTypeOK, WellFormed, NEW i \in CodeLines, NEW p \in Refs(i), NEW n \in p.refs
  PROVE  \E k \in CodeLines : LabelsOf(k) # {}
<1>1. n \in Referenced
  BY DEF Referenced
<1>2. PICK m \in Name : \E d \in LinesOf(m) : Labelled(d) \cap CodeLines # {}
  BY <1>1 DEF WellFormed
<1>3. PICK d \in LinesOf(m) : Labelled(d) \cap CodeLines # {}
  BY <1>2
<1>4. PICK k \in CodeLines : k \in Labelled(d)
  BY <1>3
<1>5. m \in LabelsOf(k)
  BY <1>3, <1>4, LabelTarget
<1> QED
  BY <1>5

LEMMA WrittenOfMark ==
  ASSUME NEW q, NEW n, q.refs = {n}  PROVE WrittenPiece(q) = WrittenMark(q, n)
<1>1. q.refs # {} /\ (CHOOSE m \in q.refs : TRUE) = n
  OBVIOUS
<1> QED
  BY <1>1 DEF WrittenPiece

LEMMA ImmediateFacts ==
  ASSUME NEW a \in Nat
  PROVE  /\ a < 8192 => Imm12((a \div 2) - 2048) = (a \div 2 + 2048) % 4096
         /\ a < 4096 => Imm12(a - 2048) = (a + 2048) % 4096
<1>1. a \div 2 \in Nat /\ (a < 8192 => a \div 2 < 4096)
  OBVIOUS
<1>2. \A h \in 0 .. 4095 : (h - 2048) % 4096 = (h + 2048) % 4096
  OBVIOUS
<1> QED
  BY <1>1, <1>2 DEF Imm12

(* A label of code, in ECISC or in a branch.                               *)
LEMMA CodeAnswer ==
  ASSUME NEW q \in Piece, NEW n, q.refs = {n}, q.op = "address" <=> ISA = "ecisc",
         NEW j \in CodeLines, TargetOf(n) = j, Encodable(q.op, j),
         NEW a \in Nat, a = SizeBefore(j, CodeLines)
  PROVE  AtCode(q, a) = << WrittenPiece(q) >> /\ CodeComplaints(q, a) = {}
<1>1. IsInstruction(j) /\ AddressOf(j) = a
  BY LinesAre DEF AddressOf
<1>2. WrittenPiece(q) = [refs |-> {n}, bytes |-> 4, op |-> q.op, value |-> {WrittenValue(q.op, j)},
                    base |-> WrittenBase(q)]
  BY WrittenOfMark DEF WrittenMark
<1>3. CASE ISA = "ecisc"
  <2>1. q.op = "address" /\ ISA # "riscv"
    BY <1>3
  <2>2. WrittenValue(q.op, j) = a /\ WrittenBase(q) = 0
    BY <1>1, <2>1 DEF WrittenValue, WrittenBase
  <2>3. AtCode(q, a) = << [refs |-> {n}, bytes |-> 4, op |-> "address", value |-> {a}, base |-> 0] >>
    BY <1>3 DEF AtCode, Address
  <2>4. CodeComplaints(q, a) = {}
    BY <2>1 DEF CodeComplaints, Unsupported
  <2> QED
    BY <1>2, <2>1, <2>2, <2>3, <2>4
<1>4. CASE ISA # "ecisc"
  <2>1. q.op # "address" /\ ISA = "riscv"
    BY <1>4, SourceAssumption
  <2>2. q.op = "branch" /\ a < 8192
    BY <1>1, <2>1 DEF Encodable
  <2>3. PICK imm : imm = Imm12((a \div 2) - 2048) /\ imm = (a \div 2 + 2048) % 4096
    BY <2>2, ImmediateFacts
  <2>4. WrittenValue(q.op, j) = imm /\ WrittenBase(q) = q.reg
    BY <1>1, <2>2, <2>3 DEF WrittenValue, WrittenBase
  <2>5. AtCode(q, a) = << Word(q, imm, q.reg) >>
    BY <1>4, <2>2, <2>3 DEF AtCode, Encode
  <2>6. Word(q, imm, q.reg) =
          [refs |-> {n}, bytes |-> 4, op |-> q.op, value |-> {imm}, base |-> q.reg]
    BY DEF Word
  <2>7. CodeComplaints(q, a) = {}
    BY <2>2 DEF CodeComplaints, Unsupported
  <2> QED
    BY <1>2, <2>4, <2>5, <2>6, <2>7
<1> QED
  BY <1>3, <1>4

(* A label of the data, in ECISC or in a load or a store.                  *)
LEMMA DataAnswer ==
  ASSUME NEW q \in Piece, NEW n, q.refs = {n}, q.op = "address" <=> ISA = "ecisc",
         NEW j \in DataLines, TargetOf(n) = j, Encodable(q.op, j),
         NEW a \in Nat, a = SizeBefore(j, DataLines), codeOffset \in Nat,
         codeOffset = SizeBefore(Len(program) + 1, CodeLines)
  PROVE  AtData(q, a) = << WrittenPiece(q) >> /\ DataComplaints(q, a) = {}
<1>1. ~ IsInstruction(j) /\ AddressOf(j) = a + codeOffset
  BY LinesAre DEF AddressOf
<1>2. WrittenPiece(q) = [refs |-> {n}, bytes |-> 4, op |-> q.op, value |-> {WrittenValue(q.op, j)},
                    base |-> WrittenBase(q)]
  BY WrittenOfMark DEF WrittenMark
<1>3. CASE ISA = "ecisc"
  <2>1. q.op = "address" /\ ISA # "riscv"
    BY <1>3
  <2>2. WrittenValue(q.op, j) = a + codeOffset /\ WrittenBase(q) = 0
    BY <1>1, <2>1 DEF WrittenValue, WrittenBase
  <2>3. AtData(q, a) = << [refs |-> {n}, bytes |-> 4, op |-> "address", value |-> {a + codeOffset},
                           base |-> 0] >>
    BY <1>3 DEF AtData, Address
  <2>4. DataComplaints(q, a) = {}
    BY <2>1 DEF DataComplaints, Unsupported
  <2> QED
    BY <1>2, <2>1, <2>2, <2>3, <2>4
<1>4. CASE ISA # "ecisc"
  <2>1. q.op # "address" /\ ISA = "riscv"
    BY <1>4, SourceAssumption
  <2>2. q.op \in {"load", "store"} /\ a < 4096
    BY <1>1, <2>1 DEF Encodable
  <2>3. PICK imm : imm = Imm12(a - 2048) /\ imm = (a + 2048) % 4096
    BY <2>2, ImmediateFacts
  <2>4. WrittenValue(q.op, j) = imm
    BY <2>2, <2>3 DEF WrittenValue
  <2>5. OrGp(0) = 3
    BY DEF OrGp
  <2>6. PICK base : /\ base = WrittenBase(q)
                    /\ q.op = "load"  => base = OrGp(0)
                    /\ q.op = "store" => base = OrGp(q.reg)
    BY <2>5 DEF WrittenBase
  <2>7. AtData(q, a) = << Word(q, imm, base) >>
    <3>1. AtData(q, a) = Encode(q, 0, a)
      BY <1>4 DEF AtData
    <3>2. CASE q.op = "load"
      BY <2>3, <2>6, <3>1, <3>2 DEF Encode
    <3>3. CASE q.op = "store"
      BY <2>3, <2>6, <3>1, <3>3 DEF Encode
    <3> QED
      BY <2>2, <3>2, <3>3
  <2>8. Word(q, imm, base) =
          [refs |-> {n}, bytes |-> 4, op |-> q.op, value |-> {imm}, base |-> base]
    BY DEF Word
  <2>9. DataComplaints(q, a) = {}
    BY <2>2 DEF DataComplaints, Unsupported
  <2> QED
    BY <1>2, <2>4, <2>6, <2>7, <2>8, <2>9
<1> QED
  BY <1>3, <1>4

(* In pass 2 both segments are complete.                                   *)
LEMMA SegmentsComplete ==
  ASSUME AssemInv, SourceRight, pc \in {"sort", "code", "data", "done", "crash"}
  PROVE  /\ Len(program) \in Nat /\ Behind = Len(program)
         /\ FileOf(codePass1File, CodeLines, Len(program))
         /\ FileOf(dataPass1File, DataLines, Len(program))
         /\ TableOf(codeSymTable, CodeLines, Len(program))
         /\ TableOf(dataSymTable, DataLines, Len(program))
         /\ codeOffset = SizeBefore(Len(program) + 1, CodeLines)
         /\ CodeLines \subseteq Lines /\ DataLines \subseteq Lines
         /\ \A k \in CodeLines \cup DataLines : k <= Len(program)
<1>1. Behind = Len(program) /\ Len(program) \in Nat
  BY DEF SourceRight, ReadRight, Behind, AssemInv, TypeOK, StatementTypeOK
<1>2. \A k \in Lines : k <= Len(program)
  BY <1>1 DEF Lines
<1> QED
  BY <1>1, <1>2, LinesAre DEF SourceRight, CodeRight, DataRight, Segment

(* The piece that is next is of a line of code.                            *)
LEMMA NextPieceLine ==
  ASSUME AssemInv, SourceRight, pc = "code", todo # << >>
  PROVE  \E i \in CodeLines : Head(todo) \in Refs(i)
<1>1. row \in 1 .. Len(codePass1File) /\ Head(todo) \in Range(codePass1File[row].code)
  BY RowBegun
<1>2. RowOf(codePass1File[row], CodeLines)
  BY <1>1, SegmentsComplete DEF FileOf
<1> QED
  BY <1>1, <1>2 DEF RowOf, Refs

(* Every label is found, in reach.                                         *)
LEMMA Answers ==
  ASSUME AssemInv, WellFormed, SourceRight, NEW n \in Name, Marked(n)
  PROVE  /\ FoundInCode(n) \/ FoundInData(n) =>
              /\ complaints' = complaints
              /\ \E pieces \in Seq(OutPiece) : pieces = << WrittenPiece(Head(todo)) >> /\ Write(pieces)
         /\ ~ LookupCrashes(n)
         /\ DefinitionsOf(n, codeSymTable) # {} \/ DefinitionsOf(n, dataSymTable) # {}
<1>0. TypeOK /\ StatementTypeOK
  BY DEF AssemInv, TypeOK
<1>1. /\ pc = "code" /\ todo # << >> /\ Head(todo) \in Piece /\ Head(todo).refs = {n}
      /\ Head(todo).op = "address" <=> ISA = "ecisc"
  BY MarkedFacts
<1>2. PICK q \in Piece : q = Head(todo) /\ q.refs = {n} /\ (q.op = "address" <=> ISA = "ecisc")
  BY <1>1
<1>3. PICK i \in CodeLines : q \in Refs(i)
  BY <1>1, <1>2, NextPieceLine
<1>4. PICK j \in CodeLines \cup DataLines :
        TargetOf(n) = j /\ Encodable(q.op, j) /\ \A k : n \in LabelsOf(k) <=> k = j
  BY <1>0, <1>2, <1>3, RefTarget
<1>5. PICK k \in CodeLines : LabelsOf(k) # {}
  BY <1>0, <1>2, <1>3, SomeCodeLabel
<1>6. codeSymTable # << >>
  BY <1>1, <1>5, SegmentsComplete, TableNotEmpty
<1>7. /\ \A s \in DefinitionsOf(n, codeSymTable) :
           j \in CodeLines /\ s.offset = SizeBefore(j, CodeLines)
      /\ j \in CodeLines => DefinitionsOf(n, codeSymTable) # {}
  BY <1>1, <1>4, SegmentsComplete, DefinitionsRight
<1>8. /\ \A s \in DefinitionsOf(n, dataSymTable) :
           j \in DataLines /\ s.offset = SizeBefore(j, DataLines)
      /\ j \in DataLines => DefinitionsOf(n, dataSymTable) # {}
  BY <1>1, <1>4, SegmentsComplete, DefinitionsRight
<1>9. DefinitionsOf(n, dataSymTable) # {} => dataSymTable # << >>
  BY RangeOfFew DEF DefinitionsOf
<1>10. ~ LookupCrashes(n)
  BY <1>4, <1>6, <1>7, <1>8, <1>9 DEF LookupCrashes
<1>11. \A whats : whats = {} /\ Complain(whats, n) => complaints' = complaints
  BY DEF Complain
<1>12. ASSUME FoundInCode(n)
       PROVE  /\ complaints' = complaints
              /\ \E pieces \in Seq(OutPiece) : pieces = << WrittenPiece(Head(todo)) >> /\ Write(pieces)
  <2>1. PICK match \in DefinitionsOf(n, codeSymTable) :
          Write(AtCode(q, match.offset)) /\ Complain(CodeComplaints(q, match.offset), n)
    BY <1>2, <1>12 DEF FoundInCode
  <2>2. PICK a \in Nat : a = match.offset
    BY <1>0, DefinitionFacts
  <2>3. j \in CodeLines /\ a = SizeBefore(j, CodeLines)
    BY <1>7, <2>2
  <2>4. AtCode(q, a) = << WrittenPiece(q) >> /\ CodeComplaints(q, a) = {}
    BY <1>2, <1>4, <2>3, CodeAnswer
  <2>5. PICK pieces : pieces = AtCode(q, a)
    OBVIOUS
  <2>6. pieces \in Seq(OutPiece)
    BY <1>0, <1>2, <2>2, <2>5, CodeResolves DEF Resolves
  <2> QED
    BY <1>2, <1>11, <2>1, <2>2, <2>4, <2>5, <2>6
<1>13. ASSUME FoundInData(n)
       PROVE  /\ complaints' = complaints
              /\ \E pieces \in Seq(OutPiece) : pieces = << WrittenPiece(Head(todo)) >> /\ Write(pieces)
  <2>1. PICK match \in DefinitionsOf(n, dataSymTable) :
          Write(AtData(q, match.offset)) /\ Complain(DataComplaints(q, match.offset), n)
    BY <1>2, <1>13 DEF FoundInData
  <2>2. PICK a \in Nat : a = match.offset
    BY <1>0, DefinitionFacts
  <2>3. j \in DataLines /\ a = SizeBefore(j, DataLines)
    BY <1>8, <2>2
  <2>4. codeOffset \in Nat /\ codeOffset = SizeBefore(Len(program) + 1, CodeLines)
    BY <1>0, <1>1, SegmentsComplete DEF TypeOK
  <2>5. AtData(q, a) = << WrittenPiece(q) >> /\ DataComplaints(q, a) = {}
    BY <1>2, <1>4, <2>3, <2>4, DataAnswer
  <2>6. PICK pieces : pieces = AtData(q, a)
    OBVIOUS
  <2>7. DefinitionsOf(n, codeSymTable) = {}
    BY <1>13 DEF FoundInData
  <2>8. pieces \in Seq(OutPiece)
    BY <1>0, <1>2, <2>2, <2>6, <2>7, DataResolves DEF Resolves
  <2> QED
    BY <1>2, <1>11, <2>1, <2>2, <2>5, <2>6, <2>8
<1> QED
  BY <1>4, <1>7, <1>8, <1>10, <1>12, <1>13

(* A row that is finished, and one with one more piece done.               *)
LEMMA PartialDone ==
  ASSUME NEW S, NEW T, NEW code \in Seq(S), NEW done \in Seq(T), Partial(code, done, << >>)
  PROVE  done = WrittenPieces(code)
<1>1. Len(done) = Len(code) /\ \A k \in 1 .. Len(done) : done[k] = WrittenPiece(code[k])
  BY DEF Partial
<1>2. done = [k \in 1 .. Len(done) |-> done[k]]
  OBVIOUS
<1> QED
  BY <1>1, <1>2 DEF WrittenPieces

LEMMA PartialMore ==
  ASSUME NEW code \in Seq(Piece), NEW done \in Seq(OutPiece), NEW rest \in Seq(Piece),
         rest # << >>, NEW pieces \in Seq(OutPiece), pieces = << WrittenPiece(Head(rest)) >>,
         Partial(code, done, rest)
  PROVE  Partial(code, done \o pieces, Tail(rest))
<1> DEFINE new == done \o pieces
           tail == Tail(rest)
<1>1. /\ Len(done) \in Nat /\ Len(rest) \in Nat /\ Len(rest) # 0 /\ Len(code) \in Nat
      /\ Len(tail) = Len(rest) - 1 /\ \A k \in 1 .. Len(tail) : tail[k] = rest[k + 1]
      /\ Head(rest) = rest[1]
  OBVIOUS
<1>2. Len(pieces) = 1 /\ pieces[1] = WrittenPiece(Head(rest))
  OBVIOUS
<1>3. /\ Len(new) = Len(done) + 1 /\ new[Len(done) + 1] = WrittenPiece(rest[1])
      /\ \A k \in 1 .. Len(done) : new[k] = done[k]
  BY <1>1, <1>2
<1>4. /\ Len(done) + Len(rest) = Len(code)
      /\ \A k \in 1 .. Len(done) : done[k] = WrittenPiece(code[k])
      /\ \A k \in 1 .. Len(rest) : rest[k] = code[Len(done) + k]
  BY DEF Partial
<1> HIDE DEF new, tail
<1>n. PICK a \in Nat : a = Len(done)
  BY <1>1
<1>m. PICK b \in Nat : b = Len(rest)
  BY <1>1
<1>5. Len(new) + Len(tail) = Len(code)
  <2>1. Len(new) = a + 1 /\ Len(tail) = b - 1 /\ a + b = Len(code)
    BY <1>1, <1>3, <1>4, <1>n, <1>m
  <2>2. (a + 1) + (b - 1) = a + b
    OBVIOUS
  <2> QED
    BY <2>1, <2>2, Zenon
<1>6. ASSUME NEW k \in 1 .. Len(new)  PROVE new[k] = WrittenPiece(code[k])
  <2>1. CASE k \in 1 .. Len(done)
    BY <1>3, <1>4, <2>1
  <2>2. CASE k = Len(done) + 1
    <3>1. 1 \in 1 .. Len(rest)
      BY <1>1
    <3> QED
      BY <1>3, <1>4, <2>2, <3>1
  <2> QED
    BY <1>1, <1>3, <2>1, <2>2
<1>7. ASSUME NEW k \in 1 .. Len(tail)  PROVE tail[k] = code[Len(new) + k]
  <2>1. k + 1 \in 1 .. Len(rest) /\ Len(new) + k = Len(done) + (k + 1)
    <3>1. k \in 1 .. b - 1 /\ Len(new) = a + 1
      BY <1>1, <1>3, <1>n, <1>m
    <3>2. k + 1 \in 1 .. b /\ (a + 1) + k = a + (k + 1)
      BY <3>1
    <3> QED
      BY <1>n, <1>m, <3>1, <3>2
  <2> QED
    BY <1>1, <1>4, <2>1
<1> QED
  BY <1>5, <1>6, <1>7 DEF Partial, new, tail

LEMMA PartialFirst ==
  ASSUME NEW S, NEW code \in Seq(S)  PROVE Partial(code, << >>, code)
BY DEF Partial

LEMMA RowRightNow ==
  ASSUME UNCHANGED pass2Fixed, NEW i,
         \/ /\ pc' = "code" /\ i = row'
            /\ \E done, rest : done = outfile'[i].code /\ rest = todo' /\ Partial(RowCode(i), done, rest)
         \/ /\ ~ (pc' = "code" /\ i = row')
            /\ outfile'[i].code = WrittenPieces(RowCode(i))
  PROVE  RowRight(i)'
<1>1. program' = program /\ RowCode(i)' = RowCode(i)
  BY DEF pass2Fixed, pass1Vars, RowCode
<1>2. CASE pc' = "code" /\ i = row'
  <2>1. PICK code, done, rest : /\ code = RowCode(i) /\ done = outfile'[i].code /\ rest = todo'
                                /\ Partial(code, done, rest)
    BY <1>2
  <2>2. Partial(code, done, rest)'
    BY <1>1, <2>1, PiecesFixed
  <2> QED
    BY <1>1, <1>2, <2>1, <2>2 DEF RowRight
<1>3. CASE ~ (pc' = "code" /\ i = row')
  <2>1. PICK code : code = RowCode(i) /\ outfile'[i].code = WrittenPieces(code)
    BY <1>3
  <2>2. WrittenPieces(code)' = WrittenPieces(code)
    BY <1>1, PiecesFixed
  <2> QED
    BY <1>1, <1>3, <2>1, <2>2 DEF RowRight
<1> QED
  BY <1>2, <1>3

(* The rows behind the current one are done, and so is that one, when no   *)
(* piece of it is left.                                                    *)
LEMMA RowsDone ==
  ASSUME AssemInv, WriteRight, pc \in {"code", "data"}, NEW i \in 1 .. Len(outfile),
         pc = "data" \/ i # row \/ todo = << >>
  PROVE  outfile[i].code = WrittenPieces(RowCode(i))
<1>1. CASE pc = "code" /\ i = row
  <2>1. /\ outfile \in Seq(OutRow) /\ codePass1File \in Seq(Row)
        /\ Len(outfile) = row /\ row <= Len(codePass1File) /\ row \in Nat
    BY <1>1 DEF AssemInv, TypeOK, RowsWritten, Copying
  <2>2. outfile[i] \in OutRow /\ codePass1File[i] \in Row /\ RowCode(i) = codePass1File[i].code
    BY <1>1, <2>1 DEF RowCode
  <2>3. PICK code \in Seq(Piece), done \in Seq(OutPiece) :
          code = RowCode(i) /\ done = outfile[i].code
    BY <2>2 DEF OutRow, Row
  <2>4. Partial(code, done, << >>)
    BY <1>1, <2>3 DEF WriteRight, RowRight
  <2> QED
    BY <2>3, <2>4, PartialDone
<1>2. CASE ~ (pc = "code" /\ i = row)
  BY <1>2 DEF WriteRight, RowRight
<1> QED
  BY <1>1, <1>2

LEMMA PieceWritten ==
  ASSUME AssemInv, WriteRight, pc = "code", todo # << >>, UNCHANGED << pc, complaints, pass2Fixed >>,
         NEW pieces \in Seq(OutPiece), pieces = << WrittenPiece(Head(todo)) >>, Write(pieces)
  PROVE  WriteRight'
<1>1. /\ row \in 1 .. Len(codePass1File) /\ row = Len(outfile) /\ row \in Nat
      /\ codePass1File \in Seq(Row) /\ outfile[row].code \in Seq(OutPiece) /\ todo \in Seq(Piece)
  BY RowBegun
<1>2. /\ Len(outfile') = Len(outfile)
      /\ \A i \in 1 .. Len(outfile) : i # row => outfile'[i] = outfile[i]
      /\ outfile'[row].code = outfile[row].code \o pieces
      /\ todo' = Tail(todo) /\ row' = row
  BY WriteFacts
<1>3. ASSUME NEW i \in 1 .. Len(outfile)  PROVE RowRight(i)'
  <2>1. CASE i = row
    <3>1. codePass1File[row] \in Row /\ RowCode(row) = codePass1File[row].code
      BY <1>1 DEF RowCode
    <3>2. PICK code \in Seq(Piece) : code = RowCode(row)
      BY <3>1 DEF Row
    <3>3. Partial(code, outfile[row].code, todo)
      BY <1>1, <2>1, <3>2 DEF WriteRight, RowRight
    <3>4. Partial(code, outfile[row].code \o pieces, Tail(todo))
      BY <1>1, <3>3, PartialMore
    <3> QED
      BY <1>2, <2>1, <3>2, <3>4, RowRightNow
  <2>2. CASE i # row
    <3>1. outfile'[i].code = WrittenPieces(RowCode(i))
      BY <1>2, <2>2, RowsDone
    <3> QED
      BY <1>2, <2>2, <3>1, RowRightNow
  <2> QED
    BY <2>1, <2>2
<1> QED
  BY <1>2, <1>3 DEF WriteRight, RowRight

LEMMA NextRowRight ==
  ASSUME AssemInv, WriteRight, NextCodeRow
  PROVE  WriteRight'
<1> DEFINE r == codePass1File[row + 1]
<1>1. /\ pc = "code" /\ todo = << >> /\ row < Len(codePass1File) /\ row' = row + 1
      /\ outfile' = Append(outfile, [offset |-> r.offset, code |-> << >>, line |-> r.line])
      /\ todo' = r.code /\ UNCHANGED << pc, complaints, pass2Fixed >>
  BY DEF NextCodeRow
<1>2. /\ row \in Nat /\ Len(outfile) = row /\ outfile \in Seq(OutRow) /\ codePass1File \in Seq(Row)
  BY <1>1 DEF AssemInv, TypeOK, RowsWritten, Copying
<1>3. /\ Len(outfile') = row + 1 /\ outfile'[row + 1].code = << >>
      /\ \A i \in 1 .. row : outfile'[i] = outfile[i]
  BY <1>1, <1>2
<1>4. r \in Row /\ RowCode(row + 1) = r.code
  BY <1>1, <1>2 DEF RowCode
<1>5. ASSUME NEW i \in 1 .. row + 1  PROVE RowRight(i)'
  <2>1. CASE i = row + 1
    <3>1. PICK code \in Seq(Piece) : code = RowCode(i) /\ code = todo'
      BY <1>1, <1>4, <2>1 DEF Row
    <3>2. Partial(code, << >>, code)
      BY PartialFirst
    <3> QED
      BY <1>1, <1>3, <2>1, <3>1, <3>2, RowRightNow
  <2>2. CASE i \in 1 .. row
    <3>1. outfile'[i].code = WrittenPieces(RowCode(i))
      BY <1>1, <1>2, <1>3, <2>2, RowsDone
    <3> QED
      BY <1>1, <1>2, <2>2, <3>1, RowRightNow
  <2> QED
    BY <1>2, <2>1, <2>2
<1> QED
  BY <1>1, <1>3, <1>5 DEF WriteRight, RowRight

(* Nothing refers to a label in a row of data.                             *)
LEMMA DataRowRight ==
  ASSUME AssemInv, SourceRight, WriteRight, CopyDataRow
  PROVE  WriteRight'
<1> DEFINE r == dataPass1File[row + 1]
           code == [i \in 1 .. Len(r.code) |-> Copied(r.code[i])]
           k == row + 1
<1>1. /\ pc = "data" /\ row < Len(dataPass1File) /\ row' = row + 1
      /\ outfile' = Append(outfile, [offset |-> codeOffset + r.offset, code |-> code, line |-> r.line])
      /\ UNCHANGED << pc, todo, complaints, pass2Fixed >>
  BY DEF CopyDataRow
<1>2. /\ row \in Nat /\ Len(outfile) = Len(codePass1File) + row /\ outfile \in Seq(OutRow)
      /\ dataPass1File \in Seq(Row) /\ Len(codePass1File) \in Nat
  BY <1>1 DEF AssemInv, TypeOK, RowsWritten, CopyingData
<1>3. PICK last \in Nat : last = Len(outfile) + 1 /\ last = Len(codePass1File) + (row + 1)
  BY <1>2
<1>4. k \in 1 .. Len(dataPass1File) /\ r \in Row
  BY <1>1, <1>2
<1>5. RowOf(r, DataLines)
  BY <1>1, <1>4, SegmentsComplete DEF FileOf
<1>6. code = WrittenPieces(r.code)
  <2>1. r.code \in Seq(Piece)
    BY <1>4 DEF Row
  <2>2. ASSUME NEW i \in 1 .. Len(r.code)  PROVE r.code[i].refs = {}
    <3>1. r.code = Translated(r.line).code /\ r.line \in DataLines
      BY <1>5 DEF RowOf
    <3>2. r.code[i] \in Range(Translated(r.line).code)
      BY <3>1 DEF Range
    <3>3. ~ IsInstruction(r.line) /\ IsStatement(r.line)
      BY <3>1, LinesAre
    <3> QED
      BY <3>2, <3>3, StatementFacts
  <2>3. \A i \in 1 .. Len(r.code) : WrittenPiece(r.code[i]) = Copied(r.code[i])
    BY <2>2 DEF WrittenPiece
  <2> QED
    BY <2>3 DEF WrittenPieces
<1>7. RowCode(last) = r.code
  <2>1. ~ (last <= Len(codePass1File)) /\ last - Len(codePass1File) = row + 1
    BY <1>2, <1>3
  <2> QED
    BY <2>1 DEF RowCode
<1> HIDE DEF r, code
<1>8. /\ Len(outfile') = last /\ outfile'[last].code = code
      /\ \A i \in 1 .. Len(outfile) : outfile'[i] = outfile[i]
  BY <1>1, <1>2, <1>3
<1>9. ASSUME NEW i \in 1 .. last  PROVE RowRight(i)'
  <2>1. CASE i = last
    BY <1>1, <1>6, <1>7, <1>8, <2>1, RowRightNow
  <2>2. CASE i \in 1 .. Len(outfile)
    <3>1. outfile'[i].code = WrittenPieces(RowCode(i))
      BY <1>1, <1>8, <2>2, RowsDone
    <3> QED
      BY <1>1, <3>1, RowRightNow
  <2> QED
    BY <1>2, <1>3, <2>1, <2>2
<1> QED
  BY <1>1, <1>8, <1>9 DEF WriteRight, RowRight

LEMMA WriteRightStep ==
  AssemInv /\ WellFormed /\ SourceRight /\ WriteRight /\ [Next]_vars => WriteRight'
<1> SUFFICES ASSUME AssemInv, WellFormed, SourceRight, WriteRight, [Next]_vars  PROVE WriteRight'
  OBVIOUS
<1>1. ASSUME Reading, UNCHANGED pass2Vars, pc' \in {"begin", "read", "skip", "return", "parse",
             "emit", "sort", "code"}
      PROVE  WriteRight'
  <2>1. outfile' = << >> /\ complaints' = {}
    BY <1>1 DEF AssemInv, NothingWritten, pass2Vars
  <2> QED
    BY <1>1, <2>1 DEF WriteRight, RowRight
<1>2. CASE ReadStatement
  BY <1>1, <1>2 DEF ReadStatement, ReadNext, BeginRead, ReadComment, ReadUnlabelled, ReadLabel,
     SkipComment, SkipToStatement, ReadEnd, CountLines, Parse, Reading
<1>3. CASE EmitCode \/ EmitData
  BY <1>1, <1>3 DEF EmitCode, EmitData, Reading
<1>4. CASE SortTables
  BY <1>1, <1>4 DEF SortTables, Reading, AssemInv, TypeOK
<1>5. CASE NextCodeRow
  BY <1>5, NextRowRight
<1>6. CASE CopyPiece
  <2>1. /\ pc = "code" /\ todo # << >> /\ UNCHANGED << pc, complaints, pass2Fixed >>
        /\ Head(todo).refs = {} /\ Write(<< Copied(Head(todo)) >>)
    BY <1>6 DEF CopyPiece
  <2>2. PICK q \in Piece : q = Head(todo)
    BY <2>1, RowBegun
  <2>3. PICK pieces : pieces = << Copied(q) >>
    OBVIOUS
  <2>4. pieces = << WrittenPiece(Head(todo)) >> /\ Write(pieces)
    BY <2>1, <2>2, <2>3 DEF WrittenPiece
  <2>5. pieces \in Seq(OutPiece)
    BY <2>1, <2>2, <2>3, CopyResolves DEF Resolves
  <2> QED
    BY <2>1, <2>4, <2>5, PieceWritten
<1>7. ASSUME NEW n \in Name, FoundInCode(n) \/ FoundInData(n)  PROVE WriteRight'
  <2>1. Marked(n) /\ pc = "code" /\ todo # << >> /\ UNCHANGED << pc, pass2Fixed >>
    BY <1>7 DEF FoundInCode, FoundInData, Marked
  <2>2. /\ complaints' = complaints
        /\ \E pieces \in Seq(OutPiece) : pieces = << WrittenPiece(Head(todo)) >> /\ Write(pieces)
    BY <1>7, <2>1, Answers
  <2> QED
    BY <2>1, <2>2, PieceWritten
<1>8. ASSUME NEW n \in Name, NotFound(n) \/ NullSymbolUsed(n) \/ EmptyTableSearched(n)
      PROVE  FALSE
  <2>1. Marked(n)
    BY <1>8 DEF NotFound, NullSymbolUsed, EmptyTableSearched
  <2> QED
    BY <1>8, <2>1, Answers DEF NotFound, NullSymbolUsed, EmptyTableSearched
<1>9. CASE EndOfCode
  <2>1. /\ pc = "code" /\ todo = << >> /\ pc' = "data"
        /\ UNCHANGED << todo, outfile, complaints, pass2Fixed >>
    BY <1>9 DEF EndOfCode
  <2>2. ASSUME NEW i \in 1 .. Len(outfile)  PROVE RowRight(i)'
    BY <2>1, RowsDone, RowRightNow
  <2> QED
    BY <2>1, <2>2 DEF WriteRight, RowRight
<1>10. CASE CopyDataRow
  BY <1>10, DataRowRight
<1>11. CASE EndOfData
  <2>1. /\ pc = "data" /\ pc' = "done" /\ row = Len(dataPass1File)
        /\ UNCHANGED << pass2Vars, pass2Fixed >>
    BY <1>11 DEF EndOfData
  <2>2. ASSUME NEW i \in 1 .. Len(outfile)  PROVE RowRight(i)'
    BY <2>1, RowsDone, RowRightNow DEF pass2Vars
  <2> QED
    BY <2>1, <2>2 DEF WriteRight, RowRight, pass2Vars, pass2Fixed, pass1Vars
<1>12. CASE UNCHANGED vars
  <2>1. UNCHANGED << pc, row, todo, outfile, complaints, pass2Fixed >>
    BY <1>12 DEF vars, statementVars, pass2Vars, pass2Fixed
  <2>2. ASSUME NEW i \in 1 .. Len(outfile)  PROVE RowRight(i)'
    BY <2>1, RowRightNow DEF WriteRight, RowRight
  <2> QED
    BY <2>1, <2>2 DEF WriteRight, RowRight, pass2Fixed, pass1Vars
<1> QED
  BY <1>2, <1>3, <1>4, <1>5, <1>6, <1>7, <1>8, <1>9, <1>10, <1>11, <1>12 DEF Next

LEMMA RightInit == Init => RightInv
<1>1. Init => WriteRight
  BY DEF Init, StatementInit, WriteRight
<1> QED
  BY <1>1, SourceRightInit DEF RightInv

LEMMA RightStep == AssemInv /\ RightInv /\ [Next]_vars => RightInv'
<1> SUFFICES ASSUME AssemInv, RightInv, [Next]_vars, WellFormed'  PROVE (SourceRight /\ WriteRight)'
  BY DEF RightInv
<1>1. UNCHANGED << program, terminated >>
  <2>1. ReadStatement \/ EmitCode \/ EmitData \/ SortTables => UNCHANGED << program, terminated >>
    BY DEF ReadStatement, ReadNext, BeginRead, ReadComment, ReadUnlabelled, ReadLabel, SkipComment,
       SkipToStatement, ReadEnd, CountLines, Parse, EmitCode, EmitData, SortTables
  <2>2. Pass2Next => UNCHANGED << program, terminated >>
    BY Pass2Leaves DEF pass2Fixed
  <2>3. UNCHANGED vars => UNCHANGED << program, terminated >>
    BY DEF vars, statementVars
  <2> QED
    BY <2>1, <2>2, <2>3 DEF Next, Pass2Next
<1>2. WellFormed
  BY <1>1, WellFormedFixed
<1>3. SourceRight /\ WriteRight
  BY <1>2 DEF RightInv
<1> QED
  BY <1>2, <1>3, SourceRightStep, WriteRightStep

(* A finished image: row i stands for the line it has the number of.       *)
LEMMA OutRowRight ==
  ASSUME AssemInv, SourceRight, WriteRight, pc = "done", NEW i \in 1 .. Len(outfile)
  PROVE  /\ outfile[i] = WrittenRow(outfile[i].line)
         /\ i <= Len(codePass1File) => outfile[i].line = codePass1File[i].line
                                       /\ outfile[i].line \in CodeLines
         /\ i > Len(codePass1File) =>
              /\ i - Len(codePass1File) \in 1 .. Len(dataPass1File)
              /\ outfile[i].line = dataPass1File[i - Len(codePass1File)].line
              /\ outfile[i].line \in DataLines
<1>1. /\ outfile \in Seq(OutRow) /\ Len(codePass1File) \in Nat /\ Len(dataPass1File) \in Nat
      /\ Len(outfile) = Len(codePass1File) + Len(dataPass1File) /\ i \in Nat /\ i # 0
      /\ outfile[i].offset = RowOfImage(i).offset /\ outfile[i].line = RowOfImage(i).line
  <2>1. outfile \in Seq(OutRow) /\ codePass1File \in Seq(Row) /\ dataPass1File \in Seq(Row)
    BY DEF AssemInv, TypeOK
  <2>2. Len(outfile) = Len(codePass1File) + Len(dataPass1File)
    BY DEF AssemInv, RowsWritten, CopyingData, WriteRight
  <2>3. outfile[i].offset = RowOfImage(i).offset /\ outfile[i].line = RowOfImage(i).line
    BY DEF AssemInv, RowsWritten
  <2> QED
    BY <2>1, <2>2, <2>3
<1>2. outfile[i].code = WrittenPieces(RowCode(i))
  BY DEF WriteRight, RowRight
<1>3. outfile[i] \in OutRow
  BY <1>1
<1>4. outfile[i] = [offset |-> outfile[i].offset, code |-> outfile[i].code, line |-> outfile[i].line]
  BY <1>3 DEF OutRow
<1>5. CASE i <= Len(codePass1File)
  <2>1. /\ outfile[i].offset = codePass1File[i].offset /\ outfile[i].line = codePass1File[i].line
        /\ RowCode(i) = codePass1File[i].code /\ i \in 1 .. Len(codePass1File)
    BY <1>1, <1>5 DEF RowOfImage, RowCode
  <2>2. RowOf(codePass1File[i], CodeLines)
    BY <2>1, SegmentsComplete DEF FileOf
  <2>3. PICK k \in CodeLines : k = outfile[i].line /\ k = codePass1File[i].line
    BY <2>1, <2>2 DEF RowOf
  <2>4. /\ outfile[i].offset = SizeBefore(k, CodeLines) /\ IsInstruction(k)
        /\ outfile[i].code = WrittenPieces(Translated(k).code)
    BY <1>2, <2>1, <2>2, <2>3, LinesAre DEF RowOf
  <2>5. WrittenRow(k) = [offset |-> outfile[i].offset, code |-> outfile[i].code, line |-> k]
    BY <2>4 DEF WrittenRow, AddressOf
  <2> QED
    BY <1>1, <1>4, <1>5, <2>3, <2>5
<1>6. CASE ~ (i <= Len(codePass1File))
  <2>1. PICK m \in 1 .. Len(dataPass1File) : m = i - Len(codePass1File)
    <3>1. \A a, b, c \in Nat : c <= a + b /\ ~ (c <= a) => c - a \in 1 .. b
      OBVIOUS
    <3>2. i <= Len(codePass1File) + Len(dataPass1File)
      BY <1>1
    <3> QED
      BY <1>1, <1>6, <3>1, <3>2
  <2>2. /\ outfile[i].offset = codeOffset + dataPass1File[m].offset
        /\ outfile[i].line = dataPass1File[m].line /\ RowCode(i) = dataPass1File[m].code
    BY <1>1, <1>6, <2>1 DEF RowOfImage, RowCode
  <2>3. RowOf(dataPass1File[m], DataLines)
    BY <2>1, SegmentsComplete DEF FileOf
  <2>4. PICK k \in DataLines : k = outfile[i].line /\ k = dataPass1File[m].line
    BY <2>2, <2>3 DEF RowOf
  <2>5. /\ outfile[i].offset = SizeBefore(Len(program) + 1, CodeLines) + SizeBefore(k, DataLines)
        /\ ~ IsInstruction(k) /\ outfile[i].code = WrittenPieces(Translated(k).code)
    BY <1>2, <2>2, <2>3, <2>4, LinesAre, SegmentsComplete DEF RowOf
  <2>6. WrittenRow(k) = [offset |-> outfile[i].offset, code |-> outfile[i].code, line |-> k]
    BY <2>5 DEF WrittenRow, AddressOf
  <2> QED
    BY <1>1, <1>4, <1>6, <2>1, <2>2, <2>4, <2>6
<1> QED
  BY <1>5, <1>6

(* Every line has a row.                                                   *)
LEMMA LineHasRow ==
  ASSUME AssemInv, SourceRight, WriteRight, pc = "done", NEW k \in CodeLines \cup DataLines
  PROVE  \E i \in 1 .. Len(outfile) : outfile[i].line = k
<1>1. /\ Len(codePass1File) \in Nat /\ Len(dataPass1File) \in Nat
      /\ Len(outfile) = Len(codePass1File) + Len(dataPass1File)
  BY DEF AssemInv, TypeOK, RowsWritten, CopyingData, WriteRight
<1>2. k <= Len(program)
  BY SegmentsComplete
<1>3. CASE k \in CodeLines
  <2>1. PICK i \in 1 .. Len(codePass1File) : codePass1File[i].line = k
    BY <1>2, <1>3, SegmentsComplete DEF FileOf
  <2>2. i \in 1 .. Len(outfile) /\ i <= Len(codePass1File)
    BY <1>1, <2>1
  <2> QED
    BY <2>1, <2>2, OutRowRight
<1>4. CASE k \in DataLines
  <2>1. PICK m \in 1 .. Len(dataPass1File) : dataPass1File[m].line = k
    BY <1>2, <1>4, SegmentsComplete DEF FileOf
  <2>2. PICK i \in 1 .. Len(outfile) : i > Len(codePass1File) /\ i - Len(codePass1File) = m
    BY <1>1, <2>1
  <2> QED
    BY <2>1, <2>2, OutRowRight
<1> QED
  BY <1>3, <1>4

(* Code before data, and both in the order of the source.                  *)
LEMMA OutRowOrder ==
  ASSUME AssemInv, SourceRight, WriteRight, pc = "done",
         NEW i \in 1 .. Len(outfile), NEW j \in 1 .. Len(outfile), i < j
  PROVE  /\ \/ IsInstruction(outfile[i].line) /\ ~ IsInstruction(outfile[j].line)
            \/ /\ IsInstruction(outfile[i].line) = IsInstruction(outfile[j].line)
               /\ outfile[i].line < outfile[j].line
         /\ outfile[i].line # outfile[j].line
<1>1. /\ Len(codePass1File) \in Nat /\ i \in Nat /\ j \in Nat
      /\ Len(outfile) \in Nat
  BY DEF AssemInv, TypeOK
<1>2. \A k : IsInstruction(k) \in BOOLEAN
  BY StatementFacts DEF IsInstruction
<1>c. CodeLines \subseteq Nat /\ DataLines \subseteq Nat
  BY SegmentLines
<1>3. CASE j <= Len(codePass1File)
  <2>1. i \in 1 .. Len(codePass1File) /\ j \in 1 .. Len(codePass1File)
    BY <1>1, <1>3
  <2>2. codePass1File[i].line < codePass1File[j].line
    BY <2>1, SegmentsComplete DEF FileOf
  <2>3. /\ outfile[i].line = codePass1File[i].line /\ outfile[i].line \in CodeLines
        /\ outfile[j].line = codePass1File[j].line /\ outfile[j].line \in CodeLines
    BY <1>1, <1>3, <2>1, OutRowRight
  <2>4. IsInstruction(outfile[i].line) = IsInstruction(outfile[j].line)
    BY <1>2, <2>3, LinesAre
  <2>p. outfile[i].line < outfile[j].line
    BY <2>2, <2>3, Zenon
  <2>q. PICK x \in Nat, y \in Nat : x = outfile[i].line /\ y = outfile[j].line
    BY <1>c, <2>3, Zenon
  <2>r. x < y
    BY <2>p, <2>q, Zenon
  <2>s. x < y => x # y
    OBVIOUS
  <2>5. outfile[i].line < outfile[j].line /\ outfile[i].line # outfile[j].line
    BY <2>p, <2>q, <2>r, <2>s, Zenon
  <2> QED
    BY <2>4, <2>5
<1>4. CASE i <= Len(codePass1File) /\ j > Len(codePass1File)
  <2>1. outfile[i].line \in CodeLines /\ outfile[j].line \in DataLines
    BY <1>4, OutRowRight
  <2> QED
    BY <2>1, LinesAre
<1>5. CASE i > Len(codePass1File)
  <2>j. j > Len(codePass1File)
    BY <1>1, <1>5
  <2>a. /\ i - Len(codePass1File) \in 1 .. Len(dataPass1File)
        /\ j - Len(codePass1File) \in 1 .. Len(dataPass1File)
    BY <1>5, <2>j, OutRowRight
  <2>n. \A a, b, c \in Nat : a < b => a - c < b - c
    OBVIOUS
  <2>b. i - Len(codePass1File) < j - Len(codePass1File)
    BY <1>1, <2>n, Zenon
  <2>1. PICK k \in 1 .. Len(dataPass1File), m \in 1 .. Len(dataPass1File) :
          k = i - Len(codePass1File) /\ m = j - Len(codePass1File) /\ k < m
    BY <2>a, <2>b, Zenon
  <2>2. dataPass1File[k].line < dataPass1File[m].line
    BY <2>1, SegmentsComplete DEF FileOf
  <2>3. /\ outfile[i].line = dataPass1File[k].line /\ outfile[i].line \in DataLines
        /\ outfile[j].line = dataPass1File[m].line /\ outfile[j].line \in DataLines
    BY <1>5, <2>j, <2>1, OutRowRight
  <2>4. IsInstruction(outfile[i].line) = IsInstruction(outfile[j].line)
    BY <1>2, <2>3, LinesAre
  <2>p. outfile[i].line < outfile[j].line
    BY <2>2, <2>3, Zenon
  <2>q. PICK x \in Nat, y \in Nat : x = outfile[i].line /\ y = outfile[j].line
    BY <1>c, <2>3, Zenon
  <2>r. x < y
    BY <2>p, <2>q, Zenon
  <2>s. x < y => x # y
    OBVIOUS
  <2>5. outfile[i].line < outfile[j].line /\ outfile[i].line # outfile[j].line
    BY <2>p, <2>q, <2>r, <2>s, Zenon
  <2> QED
    BY <2>4, <2>5
<1> QED
  BY <1>1, <1>3, <1>4, <1>5

LEMMA SettledPiece ==
  ASSUME NEW q \in Piece
  PROVE  Settled(WrittenPiece(q)) = PieceOf(q)
<1>1. CASE q.refs = {}
  <2>1. WrittenPiece(q) = Copied(q) /\ PieceOf(q) = Copied(q) /\ Copied(q).op = "copy"
    BY <1>1 DEF WrittenPiece, PieceOf, Copied
  <2> QED
    BY <2>1 DEF Settled
<1>2. CASE q.refs # {}
  <2>1. PICK n : n = CHOOSE m \in q.refs : TRUE
    OBVIOUS
  <2>2. WrittenPiece(q) = WrittenMark(q, n) /\ PieceOf(q) = Resolved(q, n)
    BY <1>2, <2>1 DEF WrittenPiece, PieceOf
  <2>3. PICK v, b : /\ WrittenMark(q, n) = [refs |-> {n}, bytes |-> 4, op |-> q.op, value |-> {v}, base |-> b]
                    /\ v = WrittenValue(q.op, TargetOf(n)) /\ b = WrittenBase(q)
    BY DEF WrittenMark
  <2>4. CASE q.op = "branch"
    <3>1. Resolved(q, n) = [refs |-> {n}, bytes |-> 4, op |-> q.op, value |-> {}, base |-> b]
      BY <2>3, <2>4 DEF Resolved, ValueOf, BaseOf, WrittenBase
    <3> QED
      BY <2>2, <2>3, <2>4, <3>1 DEF Settled
  <2>5. CASE q.op = "store"
    <3>1. Resolved(q, n) = [refs |-> {n}, bytes |-> 4, op |-> q.op, value |-> {v}, base |-> 0]
      BY <2>3, <2>5 DEF Resolved, ValueOf, BaseOf, WrittenValue
    <3> QED
      BY <2>2, <2>3, <2>5, <3>1 DEF Settled
  <2>6. CASE q.op \notin {"branch", "store"}
    <3>1. Resolved(q, n) = [refs |-> {n}, bytes |-> 4, op |-> q.op, value |-> {v}, base |-> b]
      <4>1. ValueOf(q.op, TargetOf(n)) = {v}
        <5>1. CASE q.op = "address"
          BY <2>3, <5>1 DEF ValueOf, WrittenValue
        <5>2. CASE q.op # "address"
          BY <2>3, <2>6, <5>2 DEF ValueOf, WrittenValue
        <5> QED
          BY <5>1, <5>2
      <4>2. BaseOf(q) = b
        BY <2>3, <2>6 DEF BaseOf, WrittenBase
      <4> QED
        BY <4>1, <4>2 DEF Resolved
    <3> QED
      BY <2>2, <2>3, <2>6, <3>1 DEF Settled
  <2> QED
    BY <2>4, <2>5, <2>6
<1> QED
  BY <1>1, <1>2

LEMMA SettledImage ==
  ASSUME NEW i, IsStatement(i)
  PROVE  SettledRow(WrittenRow(i)) = ImageOf(i)
<1>1. PICK code \in Seq(Piece) : code = Translated(i).code
  BY StatementFacts
<1>2. PICK written : written = WrittenPieces(code)
  OBVIOUS
<1>3. Len(written) = Len(code) /\ \A k \in 1 .. Len(code) : written[k] = WrittenPiece(code[k])
  BY <1>1, <1>2 DEF WrittenPieces
<1>4. \A k \in 1 .. Len(code) : Settled(written[k]) = PieceOf(code[k])
  BY <1>1, <1>3, SettledPiece
<1>5. [k \in 1 .. Len(written) |-> Settled(written[k])] = PiecesOf(code)
  BY <1>3, <1>4 DEF PiecesOf
<1>6. WrittenRow(i) = [offset |-> AddressOf(i), code |-> written, line |-> i]
  BY <1>1, <1>2 DEF WrittenRow
<1>7. SettledRow(WrittenRow(i)) = [offset |-> AddressOf(i), code |-> PiecesOf(code), line |-> i]
  BY <1>5, <1>6 DEF SettledRow
<1> QED
  BY <1>1, <1>7 DEF ImageOf

LEMMA RightImage ==
  ASSUME AssemInv, SourceRight, WriteRight, pc = "done"
  PROVE  LET rows    == [i \in CodeLines \cup DataLines |-> ImageOf(i)]
             settled == [i \in 1 .. Len(outfile) |-> SettledRow(outfile[i])] IN
         /\ Range(settled) = Range(rows)
         /\ Len(outfile) = Cardinality(CodeLines \cup DataLines)
<1> DEFINE lines == CodeLines \cup DataLines
           rows == [i \in lines |-> ImageOf(i)]
           settled == [i \in 1 .. Len(outfile) |-> SettledRow(outfile[i])]
           line == [i \in 1 .. Len(outfile) |-> outfile[i].line]
<1>1. Len(outfile) \in Nat /\ outfile \in Seq(OutRow) /\ \A i \in 1 .. Len(outfile) : i \in Int
  BY DEF AssemInv, TypeOK
<1>2. \A i \in 1 .. Len(outfile) :
        outfile[i].line \in lines /\ SettledRow(outfile[i]) = ImageOf(outfile[i].line)
  <2>1. ASSUME NEW i \in 1 .. Len(outfile)
        PROVE  outfile[i].line \in lines /\ SettledRow(outfile[i]) = ImageOf(outfile[i].line)
    <3>1. Len(codePass1File) \in Nat
      BY DEF AssemInv, TypeOK
    <3>2. i <= Len(codePass1File) \/ i > Len(codePass1File)
      BY <3>1
    <3>3. PICK k \in lines : k = outfile[i].line /\ outfile[i] = WrittenRow(k)
      BY <3>2, OutRowRight
    <3>4. IsStatement(k)
      BY DEF CodeLines, DataLines, IsInstruction
    <3> QED
      BY <3>3, <3>4, SettledImage
  <2> QED
    BY <2>1
<1>3. \A k \in lines : \E i \in 1 .. Len(outfile) : outfile[i].line = k
  BY LineHasRow
<1>4. Range(settled) = Range(rows)
  <2>1. \A r : r \in Range(settled) <=> \E i \in 1 .. Len(outfile) : r = SettledRow(outfile[i])
    BY DEF Range
  <2>2. \A r : r \in Range(rows) <=> \E k \in lines : r = ImageOf(k)
    BY DEF Range
  <2> HIDE DEF rows, settled, lines
  <2>3. ASSUME NEW r \in Range(settled)  PROVE r \in Range(rows)
    BY <1>2, <2>1, <2>2
  <2>4. ASSUME NEW r \in Range(rows)  PROVE r \in Range(settled)
    <3>1. PICK k \in lines : r = ImageOf(k)
      BY <2>2
    <3>2. PICK i \in 1 .. Len(outfile) : outfile[i].line = k
      BY <1>3
    <3> QED
      BY <1>2, <2>1, <3>1, <3>2
  <2> QED
    BY <2>3, <2>4
<1>5. \A i, j \in 1 .. Len(outfile) : line[i] = line[j] => i = j
  <2>1. ASSUME NEW i \in 1 .. Len(outfile), NEW j \in 1 .. Len(outfile),
               outfile[i].line = outfile[j].line
        PROVE  ~ i < j /\ ~ j < i
    BY <2>1, OutRowOrder
  <2> QED
    BY <1>1, <2>1
<1>6. line \in Bijection(1 .. Len(outfile), lines)
  <2>1. line \in [1 .. Len(outfile) -> lines]
    BY <1>2
  <2>2. \A k \in lines : \E i \in 1 .. Len(outfile) : line[i] = k
    BY <1>3
  <2>3. PICK f, N, S : f = line /\ N = 1 .. Len(outfile) /\ S = lines
    OBVIOUS
  <2>4. /\ f \in [N -> S] /\ \A k \in S : \E i \in N : f[i] = k
        /\ \A i, j \in N : f[i] = f[j] => i = j
    BY <1>5, <2>1, <2>2, <2>3, Zenon
  <2>6. f \in Injection(N, S)
    BY <2>4, DOMAIN f = N DEF Injection, IsInjective
  <2>7. f \in Surjection(N, S)
    BY <2>4 DEF Surjection
  <2>5. f \in Bijection(N, S)
    BY <2>6, <2>7 DEF Bijection
  <2> QED
    BY <2>3, <2>5
<1>7. ExistsBijection(1 .. Len(outfile), lines)
  BY <1>6 DEF ExistsBijection
<1>8. Len(outfile) = Cardinality(lines)
  BY <1>1, <1>7, FS_CountingElements
<1> QED
  BY <1>4, <1>8

(* The output for a well-formed program is the image that its source says: *)
(* code, then data, every statement once, in its order, at the address the *)
(* sizes before it add up to; an address is that of the label's statement, *)
(* and the operand of a load or a store reaches it from gp.  Left open are *)
(* the operand of a branch and the base register of a store.               *)
THEOREM ImageIsTheSources == Spec => []ImageIsRight
<1>1. AssemInv /\ RightInv => ImageIsRight
  <2> SUFFICES ASSUME AssemInv, RightInv, pc = "done", WellFormed
               PROVE  LET rows    == [i \in CodeLines \cup DataLines |-> ImageOf(i)]
                          settled == [i \in 1 .. Len(outfile) |-> SettledRow(outfile[i])] IN
                      /\ Range(settled) = Range(rows)
                      /\ Len(outfile) = Cardinality(CodeLines \cup DataLines)
                      /\ \A i, j \in 1 .. Len(outfile) : i < j =>
                           \/ IsInstruction(outfile[i].line) /\ ~ IsInstruction(outfile[j].line)
                           \/ /\ IsInstruction(outfile[i].line) = IsInstruction(outfile[j].line)
                              /\ outfile[i].line < outfile[j].line
    BY Zenon DEF ImageIsRight
  <2>1. SourceRight /\ WriteRight
    BY DEF RightInv
  <2>2. \A i, j \in 1 .. Len(outfile) : i < j =>
          \/ IsInstruction(outfile[i].line) /\ ~ IsInstruction(outfile[j].line)
          \/ /\ IsInstruction(outfile[i].line) = IsInstruction(outfile[j].line)
             /\ outfile[i].line < outfile[j].line
    BY <2>1, OutRowOrder
  <2> QED
    BY <2>1, <2>2, RightImage
<1> QED
  BY <1>1, InitInv, StepInv, RightInit, RightStep, PTL DEF Spec

(* A well-formed program is assembled without a crash and without a        *)
(* message: assem() accepts all that the description of the language does. *)
THEOREM WellFormedProgramsAreAccepted == Spec => []WellFormedIsAccepted
<1>1. RightInv => WellFormedIsAccepted
  BY DEF RightInv, SourceRight, ReadRight, WriteRight, WellFormedIsAccepted
<1> QED
  BY <1>1, InitInv, StepInv, RightInit, RightStep, PTL DEF Spec
=============================================================================
