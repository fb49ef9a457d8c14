------------------------------ MODULE Assembly ------------------------------
(***************************************************************************)
(* What assem() promises, whatever the source says and however the work is *)
(* divided into passes.  Statements are taken from the source in its order *)
(* and collected in two segments; when all are taken, the image is written *)
(* row by row, the code in front, the data behind it, and every reference  *)
(* to a label stands for an address the label was given, even if the label *)
(* is defined later than it is used.                                       *)
(*                                                                         *)
(* A name that is defined in the code means the code.  Nothing is promised *)
(* for a reference of an instruction that cannot reach every definition it *)
(* may mean, nor for the branches and stores of RISC-V, which do not point *)
(* where assem()'s own comments say (Image: BranchesHitLabels is violated, *)
(* and Settled leaves the base of a store open).  Assembly fails only for  *)
(* want of a definition, or of any label in the code.                      *)
(***************************************************************************)
EXTENDS Integers, Sequences

CONSTANT
  Name        (* Names of labels.                                          *)

VARIABLES
  phase,                    (* "collect", "write", "done" or "failed".     *)
  code, data,               (* The segments: rows [start, line, refs],     *)
                            (* a ref a [name, kind].                       *)
  codeEnd, dataEnd,         (* Where their next rows start.                *)
  codeLabels, dataLabels,   (* Labels defined: [name, offset].             *)
  image                     (* Rows written: [address, line, targets].     *)

segments == << code, data, codeEnd, dataEnd, codeLabels, dataLabels >>
assemblyVars == << phase, segments, image >>

AssemblyInit ==
  /\ phase = "collect"
  /\ code = << >> /\ data = << >>
  /\ codeEnd = 0 /\ dataEnd = 0
  /\ codeLabels = {} /\ dataLabels = {}
  /\ image = << >>

-----------------------------------------------------------------------------
(* A statement joins a segment at its end, and the label in front of it, if*)
(* there is one, gets the place where it starts.  Lines are taken in order.*)
Later(row) ==
  /\ \A i \in DOMAIN code : code[i].line < row.line
  /\ \A i \in DOMAIN data : data[i].line < row.line

AtStart(labels, end) == { [name |-> n, offset |-> end] : n \in labels }
AtMostOne == {{}} \cup { {n} : n \in Name }

TakeInstruction ==
  /\ phase = "collect"
  /\ Len(code') = Len(code) + 1
  /\ LET row == code'[Len(code')] IN
     /\ code' = Append(code, row)
     /\ row.start = codeEnd
     /\ Later(row)
  /\ codeEnd' >= codeEnd
  /\ \E labels \in AtMostOne : codeLabels' = codeLabels \cup AtStart(labels, codeEnd)
  /\ UNCHANGED << phase, data, dataEnd, dataLabels, image >>

TakeData ==
  /\ phase = "collect"
  /\ Len(data') = Len(data) + 1
  /\ LET row == data'[Len(data')] IN
     /\ data' = Append(data, row)
     /\ row.start = dataEnd
     /\ Later(row)
  /\ dataEnd' >= dataEnd
  /\ \E labels \in AtMostOne : dataLabels' = dataLabels \cup AtStart(labels, dataEnd)
  /\ UNCHANGED << phase, code, codeEnd, codeLabels, image >>

Link ==
  /\ phase = "collect"
  /\ phase' = "write"
  /\ UNCHANGED << segments, image >>

-----------------------------------------------------------------------------
(* What a name means, and what an instruction is promised to reach: an     *)
(* address anything, and a load an offset in the data below 4096.          *)
InCode(n) == { s.offset : s \in { l \in codeLabels : l.name = n } }
InData(n) == { s.offset : s \in { l \in dataLabels : l.name = n } }

Meanings(n) ==
  IF InCode(n) # {} THEN InCode(n) ELSE { codeEnd + offset : offset \in InData(n) }

Reaches(kind, n) ==
  CASE kind = "address" -> InCode(n) \cup InData(n) # {}
    [] kind = "load"    ->
         InCode(n) = {} /\ InData(n) # {} /\ \A offset \in InData(n) : offset < 4096
    [] OTHER -> FALSE

(* The row written for this one: each of its references is there and points*)
(* to a meaning of its name.                                               *)
Linked(row, written) ==
  /\ written.line = row.line
  /\ \A t \in written.targets : \E r \in row.refs : r.name = t.name
  /\ \A r \in row.refs :
       (\A s \in row.refs : s.name = r.name => Reaches(s.kind, s.name)) =>
         LET targets == { t \in written.targets : t.name = r.name } IN
         /\ targets # {}
         /\ \A t \in targets : t.address \in Meanings(r.name)

WriteInstruction ==
  /\ phase = "write"
  /\ Len(image) < Len(code)
  /\ Len(image') = Len(image) + 1
  /\ LET written == image'[Len(image')]
         row     == code[Len(image')] IN
     /\ image' = Append(image, written)
     /\ written.address = row.start
     /\ Linked(row, written)
  /\ UNCHANGED << phase, segments >>

WriteData ==
  /\ phase = "write"
  /\ Len(image) \in Len(code) .. Len(code) + Len(data) - 1
  /\ LET row == data[Len(image) + 1 - Len(code)] IN
     image' = Append(image, [address |-> codeEnd + row.start, line |-> row.line, targets |-> {}])
  /\ UNCHANGED << phase, segments >>

Finish ==
  /\ phase = "write"
  /\ Len(image) = Len(code) + Len(data)
  /\ phase' = "done"
  /\ UNCHANGED << segments, image >>

Fail ==
  /\ phase = "write"
  /\ \E i \in DOMAIN code : \E r \in code[i].refs : Meanings(r.name) = {} \/ codeLabels = {}
  /\ phase' = "failed"
  /\ UNCHANGED << segments, image >>

AssemblyNext ==
  \/ TakeInstruction \/ TakeData
  \/ Link
  \/ WriteInstruction \/ WriteData
  \/ Finish \/ Fail

AssemblySpec == AssemblyInit /\ [][AssemblyNext]_assemblyVars
=============================================================================
