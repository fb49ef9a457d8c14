----------------------------- MODULE Directives -----------------------------
(***************************************************************************)
(* processDirective() and processInitializers() of class statement         *)
(* (statement.cc): one data statement after another, an initializer a step.*)
(* The data type is a member, and outlives its statement; the repeat count *)
(* and the floating point number are local to it, and outlive their        *)
(* initializer.                                                            *)
(*                                                                         *)
(* An initializer is what the conversions of the library read from it.     *)
(* Those in a comment count: any digit or quote behind the directive       *)
(* begins an initializer.                                                  *)
(***************************************************************************)
EXTENDS Integers, FiniteSetsExt, SequencesExt, Sums

CONSTANTS
  Directive,    (* Words that begin with a dot, directives or not.         *)
  Item,         (* The initializers a statement can be given.              *)
  OwnItem,      (* The initializer in a directive's own name, 8 in .int8,  *)
                (* where the label in front of it has no digits.           *)
  Garbage,      (* What an uninitialized number may hold.                  *)
  Overrun,      (* How many characters are read behind the end of a string.*)
  MaxItems,     (* Bound: the number of initializers of a statement,       *)
  MaxStatements (* and of statements.                                      *)

IntType == {"int8", "int16", "int32", "int64"}
DataType == IntType \cup {"float32", "float64", "string"}
Size == [int8 |-> 1, int16 |-> 2, int32 |-> 4, int64 |-> 8, float32 |-> 4, float64 |-> 8]

(* A number strtoull() reads is stored in 64 bits.                         *)
Fits64(n) == n \in Nat /\ \E d \in 1 .. 16 : n < 16^d

(* form "open" is a string without an end (one with \" in it leaves such a *)
(* string behind).  value is the number that is written there, dec what    *)
(* strtoull() reads to the base 10, float what sscanf("%f") reads, and     *)
(* repeat what sscanf("%i") reads behind the colon: sets of at most one.   *)
ItemField == {"form", "value", "dec", "float", "colon", "repeat", "chars"}
Char == [escaped : BOOLEAN, code : 1 .. 255]

ASSUME DirectiveAssumption ==
  /\ \A item \in Item \cup UNION { OwnItem[d] : d \in Directive } :
       /\ DOMAIN item = ItemField
       /\ item.form \in {"number", "quoted", "open"}
       /\ item.value \in Int /\ Fits64(item.dec)
       /\ item.float \subseteq Nat /\ item.repeat \subseteq Int /\ item.colon \in BOOLEAN
       /\ item.chars \in Seq(Char)
  /\ Garbage \subseteq Int
  /\ Overrun \subseteq Nat
  /\ MaxItems \in Nat /\ MaxStatements \in Nat

VARIABLES
  pc,               (* "directive", "initializers" or "crash".             *)
  statements,       (* Statements processed.                               *)
  textOpcode,       (* The directive, "none" before the first,             *)
  bare,             (* nothing follows it on the line,                     *)
  items,            (* and the initializers processed so far.              *)
  currentDataType,
  repeat, float_val,
  machineCodeSize,
  machineCode,      (* For each initializer the pieces written: a number,  *)
                    (* and the digits it is written with.                  *)
  reported          (* errorMessage() was called for this statement.       *)

localVars == << repeat, float_val >>
vars == << pc, statements, textOpcode, bare, items, currentDataType, localVars, machineCodeSize,
           machineCode, reported >>

Init ==
  /\ pc = "directive"
  /\ statements = 0
  /\ textOpcode = "none"
  /\ bare = FALSE
  /\ items = << >>
  /\ currentDataType \in DataType \cup {"none"}
  /\ repeat = 0 /\ float_val = 0
  /\ machineCodeSize = 0
  /\ machineCode = << >>
  /\ reported = FALSE

-----------------------------------------------------------------------------
(* processDirective().                                                     *)

TypeOf == [d \in { "." \o t : t \in DataType } |-> CHOOSE t \in DataType : d = "." \o t]

(* A word that is no directive is reported, and its initializers are taken *)
(* to be of the type of the statement before.                              *)
SetType(d) ==
  IF d \in DOMAIN TypeOf
  THEN currentDataType' = TypeOf[d] /\ reported' = FALSE
  ELSE UNCHANGED currentDataType /\ reported' = TRUE

(* parse() clears the machine code; the locals are not initialized.        *)
ProcessDirective(d) ==
  /\ pc = "directive"
  /\ statements < MaxStatements
  /\ textOpcode' = d
  /\ bare' \in BOOLEAN
  /\ items' = << >>
  /\ SetType(d)
  /\ repeat' \in Garbage /\ float_val' \in Garbage
  /\ machineCodeSize' = 0
  /\ machineCode' = << >>
  /\ pc' = "initializers"
  /\ UNCHANGED statements

-----------------------------------------------------------------------------
(* processInitializers().                                                  *)

(* Hexadecimal digits of a number; as a char is signed, 8 from 128 on.     *)
DigitsOf(n) == CHOOSE d \in 1 .. 16 : n < 16^d /\ \A e \in 1 .. d - 1 : 16^e <= n
CharDigits(n) == IF n > 127 THEN 8 ELSE DigitsOf(n)

(* setw() is a minimum.                                                    *)
Padded(n, digits) == [of |-> n, digits |-> Max({digits, DigitsOf(n)})]

Times(n, piece) == [i \in 1 .. n |-> piece]

Escape(c) ==
  CASE c = 48  -> 0     (* \0 *)
    [] c = 97  -> 7     (* \a *)
    [] c = 98  -> 8     (* \b *)
    [] c = 116 -> 9     (* \t *)
    [] c = 110 -> 10    (* \n *)
    [] c = 102 -> 12    (* \f *)
    [] c = 114 -> 13    (* \r *)
    [] OTHER   -> c

(* A character as it stands is written without a minimum of digits.        *)
CharPiece(char) ==
  IF char.escaped
  THEN [of |-> Escape(char.code), digits |-> Max({2, CharDigits(Escape(char.code))})]
  ELSE [of |-> char.code, digits |-> CharDigits(char.code)]

(* Fault: the repeat count is set where there is one, and not back to 1.   *)
NextItem_KeepsRepeat(item) ==
  /\ pc = "initializers"
  /\ Len(items) < MaxItems
  /\ IF bare THEN item \in OwnItem[textOpcode] /\ items = << >> ELSE item \in Item
  /\ items' = Append(items, item)
  /\ repeat' = IF item.repeat = {} THEN repeat ELSE CHOOSE n \in item.repeat : TRUE
  /\ UNCHANGED << statements, textOpcode, bare, currentDataType, reported >>

(* The next initializer; a line with nothing behind the directive is       *)
(* searched from its start.  repeat keeps its value if there is a colon    *)
(* with no number behind it.                                               *)
NextItem(item) ==
  /\ pc = "initializers"
  /\ Len(items) < MaxItems
  /\ IF bare THEN item \in OwnItem[textOpcode] /\ items = << >> ELSE item \in Item
  /\ items' = Append(items, item)
  /\ repeat' = IF ~ item.colon THEN 1
               ELSE IF item.repeat = {} THEN repeat ELSE CHOOSE n \in item.repeat : TRUE
  /\ UNCHANGED << statements, textOpcode, bare, currentDataType, reported >>

Emit(pieces, bytes) ==
  /\ machineCode' = Append(machineCode, pieces)
  /\ machineCodeSize' = machineCodeSize + bytes

(* Fault: the size is not added in the loop, which may have no turn.       *)
Integer_SizeOnce(item) ==
  /\ item.form # "open"
  /\ currentDataType \in IntType
  /\ NextItem(item)
  /\ Emit(Times(repeat', Padded(item.dec, 2 * Size[currentDataType])),
          repeat' * Size[currentDataType])
  /\ UNCHANGED << pc, float_val >>

(* Fault: an .int64 is counted as 4 bytes.                                 *)
Integer_FourBytes(item) ==
  /\ item.form # "open"
  /\ currentDataType \in IntType
  /\ NextItem(item)
  /\ Emit(Times(repeat', Padded(item.dec, 2 * Size[currentDataType])),
          Max({0, repeat'}) * Min({4, Size[currentDataType]}))
  /\ UNCHANGED << pc, float_val >>

Integer(item) ==
  /\ item.form # "open"
  /\ currentDataType \in IntType
  /\ NextItem(item)
  /\ Emit(Times(repeat', Padded(item.dec, 2 * Size[currentDataType])),
          Max({0, repeat'}) * Size[currentDataType])
  /\ UNCHANGED << pc, float_val >>

(* What sscanf() does not read stays as it was.  The number stands for its *)
(* bit pattern, of which the 32 lower bits are written, even of a float64. *)
Float(item) ==
  /\ item.form # "open"
  /\ currentDataType \in {"float32", "float64"}
  /\ NextItem(item)
  /\ float_val' = IF item.float = {} THEN float_val ELSE CHOOSE f \in item.float : TRUE
  /\ Emit(Times(repeat', [of |-> float_val', digits |-> 2 * Size[currentDataType]]),
          Max({0, repeat'}) * Size[currentDataType])
  /\ UNCHANGED pc

String(item) ==
  /\ item.form = "quoted"
  /\ currentDataType = "string"
  /\ NextItem(item)
  /\ Emit([i \in 1 .. Len(item.chars) |-> CharPiece(item.chars[i])], Len(item.chars))
  /\ UNCHANGED << pc, float_val >>

(* A number in the place of a string: the loop over the characters starts  *)
(* behind the first, and has no quote to stop at.  What it writes, if it   *)
(* comes back, is unknown; the pieces stand for it.                        *)
StringUnquoted(item) ==
  /\ item.form = "number"
  /\ currentDataType = "string"
  /\ NextItem(item)
  /\ \/ /\ \E n \in Overrun : Emit(Times(n, [of |-> 0, digits |-> 1]), n)
        /\ UNCHANGED pc
     \/ /\ pc' = "crash"
        /\ UNCHANGED << machineCode, machineCodeSize >>
  /\ UNCHANGED float_val

(* The end of an open string is found at npos, and val_end is 0: the line  *)
(* is searched again from its start, and so on, till memory runs out, if   *)
(* the loop over the characters, behind the end of the string, comes back. *)
OpenString(item) ==
  /\ item.form = "open"
  /\ NextItem(item)
  /\ pc' = "crash"
  /\ UNCHANGED << machineCode, machineCodeSize, float_val >>

(* The type of a statement without a directive before it is not any: the   *)
(* switch has no case for it.                                              *)
NoType(item) ==
  /\ item.form # "open"
  /\ currentDataType = "none"
  /\ NextItem(item)
  /\ Emit(<< >>, 0)
  /\ UNCHANGED << pc, float_val >>

EndOfLine ==
  /\ pc = "initializers"
  /\ bare => Len(items) = Cardinality(OwnItem[textOpcode])
  /\ reported' = (reported \/ items = << >>)
  /\ statements' = statements + 1
  /\ pc' = "directive"
  /\ UNCHANGED << textOpcode, bare, items, currentDataType, localVars, machineCodeSize,
                  machineCode >>

Next ==
  \/ \E d \in Directive : ProcessDirective(d)
  \/ \E item \in Item \cup OwnItem[textOpcode] :
       \/ Integer(item) \/ Float(item)
       \/ String(item) \/ StringUnquoted(item) \/ OpenString(item)
       \/ NoType(item)
  \/ EndOfLine

Spec == Init /\ [][Next]_vars

-----------------------------------------------------------------------------
(* What a data statement stands for, read off its text alone.              *)

(* A number that is not negative, decimal and small enough or a float32,   *)
(* with a repeat count or without; characters that are 2 digits long.      *)
PlainChar(char) ==
  char.code < 128 /\ (char.escaped \/ char.code >= 16)

Plain(item, type) ==
  IF type = "string"
  THEN item.form = "quoted" /\ \A i \in 1 .. Len(item.chars) : PlainChar(item.chars[i])
  ELSE /\ item.form = "number"
       /\ item.value >= 0
       /\ item.colon => item.repeat # {}
       /\ \/ type = "float32" /\ item.float # {}
          \/ type \in IntType /\ item.dec = item.value /\ DigitsOf(item.dec) <= 2 * Size[type]

Count(item) == IF item.colon THEN Max({0, CHOOSE n \in item.repeat : TRUE}) ELSE 1

Meaning(item, type) ==
  CASE type \in IntType -> Times(Count(item), [of |-> item.value, digits |-> 2 * Size[type]])
    [] type = "float32" ->
         Times(Count(item), [of |-> CHOOSE f \in item.float : TRUE, digits |-> 8])
    [] type = "string"  -> [i \in 1 .. Len(item.chars) |->
         [of |-> IF item.chars[i].escaped THEN Escape(item.chars[i].code)
                                          ELSE item.chars[i].code, digits |-> 2]]

Processed == pc = "directive" /\ statements > 0
PlainData ==
  Processed /\ ~ reported /\ ~ bare /\ \A i \in 1 .. Len(items) : Plain(items[i], TypeOf[textOpcode])

-----------------------------------------------------------------------------
(* Properties.                                                             *)

TypeOK ==
  /\ pc \in {"directive", "initializers", "crash"}
  /\ statements \in 0 .. MaxStatements
  /\ textOpcode \in Directive \cup {"none"} /\ bare \in BOOLEAN
  /\ Len(items) <= MaxItems
  /\ currentDataType \in DataType \cup {"none"}
  /\ repeat \in Int /\ float_val \in Int
  /\ machineCodeSize \in Nat
  /\ \A i \in 1 .. Len(machineCode) : \A j \in 1 .. Len(machineCode[i]) :
       machineCode[i][j].digits \in 1 .. 16
  /\ reported \in BOOLEAN

(* The bytes of a data statement that is accepted are those its own text   *)
(* says, in order, each as often as its repeat count: the type, the repeat *)
(* count and the number left by what came before play no part.             *)
DataIsFresh ==
  PlainData =>
    machineCode = [i \in 1 .. Len(items) |-> Meaning(items[i], TypeOf[textOpcode])]

(* The size that moves dataOffset on, and with it every later label, is    *)
(* the number of bytes written.  This holds of any integer and floating    *)
(* point data that fits, negative, hexadecimal or unreadable numbers,      *)
(* missing repeat counts and statements that were reported included.       *)
SizeIsBytes ==
  /\ Processed
  /\ IF currentDataType = "string"
     THEN PlainData
     ELSE currentDataType \in IntType =>
            \A i \in 1 .. Len(items) : DigitsOf(items[i].dec) <= 2 * Size[currentDataType]
  =>
    2 * machineCodeSize = DigitsWritten(machineCode)
=============================================================================
