-------------------------- MODULE DirectivesProofs --------------------------
(***************************************************************************)
(* Proofs about Directives: what each initializer writes, and that nothing *)
(* of it comes from the members and locals that outlive an initializer.    *)
(***************************************************************************)
EXTENDS Directives, SequenceFacts

AnyItem == Item \cup UNION { OwnItem[d] : d \in Directive }
Piece == [of : Int, digits : 1 .. 16]

(* What TypeOK needs of the variables to be kept.                          *)
Steps ==
  /\ pc = "initializers" => textOpcode \in Directive /\ statements < MaxStatements
  /\ items \in Seq(AnyItem)
  /\ machineCode \in Seq(Seq(Piece))

TypeInv == TypeOK /\ Steps

(* The type is the statement's own.                                        *)
TypeIsOwn ==
  pc = "initializers" /\ ~ reported =>
    textOpcode \in DOMAIN TypeOf /\ currentDataType = TypeOf[textOpcode]

(* Every initializer has its pieces, and they are what it says.            *)
PiecesInv ==
  pc = "initializers" =>
    /\ Len(machineCode) = Len(items)
    /\ currentDataType \in DataType =>
         \A i \in 1 .. Len(items) :
           Plain(items[i], currentDataType) =>
             machineCode[i] = Meaning(items[i], currentDataType)

FreshInv == TypeInv /\ TypeIsOwn /\ PiecesInv /\ DataIsFresh

(* The initializers whose pieces have the digits of their type, and the    *)
(* size as it is added up while they are all of this kind.                 *)
Exact(item, type) ==
  IF type = "string" THEN Plain(item, "string")
  ELSE type \in IntType => DigitsOf(item.dec) <= 2 * Size[type]

SizeInv ==
  /\ pc = "initializers"
  /\ \A i \in 1 .. Len(items) : Exact(items[i], currentDataType)
  =>
    2 * machineCodeSize = DigitsWritten(machineCode)

-----------------------------------------------------------------------------
(* Lemmas about digits, for numbers of 64 bits.                            *)

(* What it means that n has d digits: enough, and no leading zeros.        *)
Needs(n, d) == n < 16^d /\ \A e \in 1 .. d - 1 : 16^e <= n

LEMMA DigitsAre ==
  ASSUME NEW n, Fits64(n)
  PROVE  DigitsOf(n) \in 1 .. 16 /\ Needs(n, DigitsOf(n))
<1>1. n \in Nat /\ \E d \in 1 .. 16 : n < 16^d
  BY DEF Fits64
<1> DEFINE Enough == {d \in 1 .. 16 : n < 16^d}
<1>2. PICK d \in Enough : \A e \in Enough : d <= e
  <2>1. Enough \in SUBSET Nat /\ Enough # {}
    BY <1>1
  <2> QED
    BY <2>1
<1>3. \A e \in 1 .. d - 1 : 16^e <= n
  <2>1. SUFFICES ASSUME NEW e \in 1 .. d - 1  PROVE  16^e <= n
    OBVIOUS
  <2>2. e \in 1 .. 16 /\ e \notin Enough
    BY <1>2
  <2>3. 16^e \in Int
    OBVIOUS
  <2> QED
    BY <1>1, <2>2, <2>3
<1>4. d \in 1 .. 16 /\ Needs(n, d)
  BY <1>2, <1>3 DEF Needs
<1> QED
  BY <1>4 DEF DigitsOf, Needs

LEMMA FewDigits ==
  ASSUME NEW n \in 0 .. 255
  PROVE  DigitsOf(n) \in 1 .. 2 /\ (n >= 16 => DigitsOf(n) = 2)
<1>1. 16^1 = 16 /\ 16^2 = 256
  OBVIOUS
<1>2. Fits64(n)
  <2>1. n < 16^2 /\ 2 \in 1 .. 16 /\ n \in Nat
    BY <1>1
  <2> QED
    BY <2>1, Zenon DEF Fits64
<1>3. PICK d \in 1 .. 16 : d = DigitsOf(n) /\ Needs(n, d)
  BY <1>2, DigitsAre
<1>4. d <= 2
  <2>1. SUFFICES ASSUME d > 2  PROVE  16^2 <= n
    BY <1>1
  <2> QED
    <3>1. 2 \in 1 .. d - 1
      BY <2>1
    <3>2. \A e \in 1 .. d - 1 : 16^e <= n
      BY <1>3, Zenon DEF Needs
    <3> QED
      BY <3>1, <3>2, Zenon
<1>5. n >= 16 => d # 1
  <2>1. SUFFICES ASSUME d = 1  PROVE  n < 16^1
    BY <1>1
  <2> QED
    BY <1>3, <2>1, Zenon DEF Needs
<1> QED
  BY <1>3, <1>4, <1>5

-----------------------------------------------------------------------------
(* Lemmas about pieces.                                                    *)

LEMMA SizesAre ==
  ASSUME NEW type \in IntType \cup {"float32", "float64"}
  PROVE  Size[type] \in {1, 2, 4, 8}
  BY DEF IntType, Size

(* A count below 0 writes what a count of 0 does.                          *)
LEMMA TimesAre ==
  ASSUME NEW n \in Int, NEW S, NEW piece \in S
  PROVE  Times(n, piece) \in Seq(S) /\ Times(Max({0, n}), piece) = Times(n, piece)
<1>1. Max({0, n}) = IF n >= 0 THEN n ELSE 0
  BY DEF Max
<1>2. CASE n >= 0
  BY <1>1, <1>2 DEF Times
<1>3. CASE n < 0
  <2>1. 1 .. n = 1 .. 0
    BY <1>3
  <2>2. Times(n, piece) = Times(0, piece)
    BY <2>1 DEF Times
  <2>3. Times(0, piece) \in Seq(S)
    BY DEF Times
  <2> QED
    BY <1>1, <1>3, <2>2, <2>3
<1> QED
  BY <1>2, <1>3

LEMMA PaddedIs ==
  ASSUME NEW n, Fits64(n), NEW d \in 1 .. 16
  PROVE  /\ Padded(n, d) \in Piece
         /\ DigitsOf(n) <= d => Padded(n, d) = [of |-> n, digits |-> d]
<1>1. PICK k \in 1 .. 16 : k = DigitsOf(n)
  BY DigitsAre
<1>2. Max({d, k}) = IF k <= d THEN d ELSE k
  BY DEF Max
<1>3. n \in Int
  BY DEF Fits64
<1>4. Padded(n, d) = [of |-> n, digits |-> IF k <= d THEN d ELSE k]
  BY <1>1, <1>2 DEF Padded
<1> QED
  BY <1>1, <1>3, <1>4 DEF Piece

LEMMA EscapeIs ==
  ASSUME NEW c \in 1 .. 255
  PROVE  Escape(c) \in 0 .. 255 /\ (c < 128 => Escape(c) < 128)
  BY DEF Escape

LEMMA CharDigitsAre ==
  ASSUME NEW n \in 0 .. 255
  PROVE  /\ CharDigits(n) \in 1 .. 8
         /\ n < 128 => CharDigits(n) \in 1 .. 2
         /\ n < 128 /\ n >= 16 => CharDigits(n) = 2
<1>1. PICK d \in 1 .. 2 : d = DigitsOf(n) /\ (n >= 16 => d = 2)
  BY FewDigits
<1>2. CharDigits(n) = IF n > 127 THEN 8 ELSE d
  BY <1>1 DEF CharDigits
<1> QED
  BY <1>1, <1>2

LEMMA CharPieceIs ==
  ASSUME NEW char \in Char
  PROVE  /\ CharPiece(char) \in Piece
         /\ PlainChar(char) =>
              CharPiece(char) = [of |-> IF char.escaped THEN Escape(char.code) ELSE char.code,
                                 digits |-> 2]
<1>1. PICK c \in 1 .. 255 : c = char.code
  BY DEF Char
<1>2. CASE char.escaped
  <2>1. PICK e \in 0 .. 255 : e = Escape(c) /\ (c < 128 => e < 128)
    BY EscapeIs
  <2>2. PICK d \in 1 .. 8 : d = CharDigits(e) /\ (e < 128 => d \in 1 .. 2)
    BY CharDigitsAre
  <2>3. Max({2, d}) = IF d <= 2 THEN 2 ELSE d
    BY DEF Max
  <2>4. CharPiece(char) = [of |-> e, digits |-> IF d <= 2 THEN 2 ELSE d]
    BY <1>1, <1>2, <2>1, <2>2, <2>3 DEF CharPiece
  <2>5. CharPiece(char) \in Piece
    BY <2>1, <2>2, <2>4 DEF Piece
  <2>6. ASSUME PlainChar(char)  PROVE  CharPiece(char) = [of |-> e, digits |-> 2]
    <3>1. c < 128
      BY <1>1, <2>6 DEF PlainChar
    <3> QED
      BY <2>1, <2>2, <2>4, <3>1
  <2> QED
    BY <1>1, <1>2, <2>1, <2>5, <2>6
<1>3. CASE ~ char.escaped
  <2>1. PICK d \in 1 .. 8 : d = CharDigits(c) /\ (c < 128 /\ c >= 16 => d = 2)
    BY CharDigitsAre
  <2>2. CharPiece(char) = [of |-> c, digits |-> d]
    BY <1>1, <1>3, <2>1 DEF CharPiece
  <2>3. CharPiece(char) \in Piece
    BY <1>1, <2>1, <2>2 DEF Piece
  <2>4. ASSUME PlainChar(char)  PROVE  CharPiece(char) = [of |-> c, digits |-> 2]
    <3>1. c < 128 /\ c >= 16
      BY <1>1, <1>3, <2>4 DEF PlainChar
    <3> QED
      BY <2>1, <2>2, <3>1
  <2> QED
    BY <1>1, <1>3, <2>3, <2>4
<1> QED
  BY <1>2, <1>3

-----------------------------------------------------------------------------
(* Lemmas about the digits of pieces.                                      *)

LEMMA DigitsAreNat ==
  ASSUME NEW pieces \in Seq(Piece)
  PROVE  Digits(pieces) \in Nat
<1> DEFINE s == [j \in 1 .. Len(pieces) |-> pieces[j].digits]
<1>1. \A j \in 1 .. Len(pieces) : pieces[j].digits \in Nat
  <2>1. ASSUME NEW j \in 1 .. Len(pieces)  PROVE  pieces[j].digits \in Nat
    <3>1. PICK piece \in Piece : piece = pieces[j]
      OBVIOUS
    <3>2. piece.digits \in 1 .. 16
      BY DEF Piece
    <3> QED
      BY <3>1, <3>2
  <2> QED
    BY <2>1
<1>2. s \in Seq(Nat)
  BY <1>1
<1> QED
  BY <1>2, TotalIsNat DEF Digits

LEMMA DigitsOfAppend ==
  ASSUME NEW code \in Seq(Seq(Piece)), NEW pieces \in Seq(Piece)
  PROVE  DigitsWritten(Append(code, pieces)) = DigitsWritten(code) + Digits(pieces)
<1> DEFINE n == Len(code)
           longer == Append(code, pieces)
           s == [i \in 1 .. n |-> Digits(code[i])]
           t == [i \in 1 .. Len(longer) |-> Digits(longer[i])]
<1>1. n \in Nat /\ Len(longer) = n + 1 /\ longer[n + 1] = pieces
      /\ \A i \in 1 .. n : longer[i] = code[i] /\ code[i] \in Seq(Piece)
  OBVIOUS
<1>2. Digits(pieces) \in Nat /\ \A i \in 1 .. n : Digits(code[i]) \in Nat
  BY <1>1, DigitsAreNat
<1>3. s \in Seq(Nat) /\ Len(s) = n
  BY <1>1, <1>2
<1> HIDE DEF longer
<1>4. t = Append(s, Digits(pieces))
  <2> DEFINE u == Append(s, Digits(pieces))
  <2>1. u = [i \in 1 .. n + 1 |-> IF i = n + 1 THEN Digits(pieces) ELSE s[i]]
    BY <1>2, <1>3, AppendIs
  <2>2. ASSUME NEW i \in 1 .. n + 1
        PROVE  Digits(longer[i]) = IF i = n + 1 THEN Digits(pieces) ELSE s[i]
    <3>1. CASE i = n + 1
      BY <1>1, <3>1
    <3>2. CASE i # n + 1
      <4>1. i \in 1 .. n
        BY <1>1, <3>2
      <4>2. s[i] = Digits(code[i])
        BY <4>1
      <4> QED
        BY <1>1, <3>2, <4>1, <4>2
    <3> QED
      BY <3>1, <3>2
  <2> HIDE DEF u, s
  <2>3. t = [i \in 1 .. n + 1 |-> Digits(longer[i])]
    BY <1>1
  <2>4. t = u
    BY <2>1, <2>2, <2>3
  <2> QED
    BY <2>4 DEF u
<1>5. DigitsWritten(code) = Total(s) /\ DigitsWritten(longer) = Total(t)
  BY DEF DigitsWritten
<1> HIDE DEF s, t
<1>6. Total(Append(s, Digits(pieces))) = Total(s) + Digits(pieces)
  BY <1>2, <1>3, TotalOfAppend
<1> QED
  BY <1>4, <1>5, <1>6 DEF longer

LEMMA TimesDigits ==
  ASSUME NEW n \in Int, NEW size \in {1, 2, 4, 8}, NEW piece, piece.digits = 2 * size
  PROVE  Digits(Times(n, piece)) = 2 * (Max({0, n}) * size)
<1>1. PICK m \in Nat : m = Max({0, n}) /\ 1 .. m = 1 .. n
  <2>1. Max({0, n}) = IF n >= 0 THEN n ELSE 0
    BY DEF Max
  <2>2. n < 0 => 1 .. n = 1 .. 0
    OBVIOUS
  <2> QED
    BY <2>1, <2>2
<1> DEFINE pieces == Times(m, piece)
<1>2. Times(n, piece) = pieces
  BY <1>1 DEF Times
<1>3. Len(pieces) = m /\ \A j \in 1 .. m : pieces[j] = piece
  BY DEF Times
<1> HIDE DEF pieces
<1>4. PICK d \in {2, 4, 8, 16} : d = 2 * size
  OBVIOUS
<1>5. \A j \in 1 .. m : pieces[j].digits = d
  BY <1>3, <1>4
<1>6. Digits(pieces) = m * d
  <2>1. d \in Nat
    OBVIOUS
  <2> QED
    BY <1>3, <1>5, <2>1, UniformDigits
<1>7. m * d = 2 * (m * size)
  BY <1>4
<1> QED
  BY <1>1, <1>2, <1>6, <1>7

-----------------------------------------------------------------------------
(* What an initializer does, whatever its type: one turn of the loop, that *)
(* comes back or does not.                                                 *)

ItemTurn(item) ==
  /\ pc = "initializers"
  /\ item \in AnyItem
  /\ items' = Append(items, item) /\ Len(items) < MaxItems
  /\ repeat' \in Int /\ float_val' \in Int
  /\ UNCHANGED << statements, textOpcode, bare, currentDataType, reported >>

ItemEffect(item, pieces, bytes) ==
  /\ ItemTurn(item)
  /\ pc' = "initializers"
  /\ machineCode' = Append(machineCode, pieces)
  /\ machineCodeSize' = machineCodeSize + bytes
  /\ currentDataType \in DataType /\ Plain(item, currentDataType) =>
       pieces = Meaning(item, currentDataType)
  /\ Exact(item, currentDataType) => Digits(pieces) = 2 * bytes

ItemCrash(item) ==
  /\ ItemTurn(item)
  /\ pc' = "crash"
  /\ UNCHANGED << machineCode, machineCodeSize >>

Done(item) ==
  \/ \E pieces \in Seq(Piece), bytes \in Nat : ItemEffect(item, pieces, bytes)
  \/ ItemCrash(item)

LEMMA ItemsAre ==
  ASSUME NEW item \in AnyItem
  PROVE  /\ item.form \in {"number", "quoted", "open"} /\ item.value \in Int /\ Fits64(item.dec)
         /\ item.float \subseteq Nat /\ item.repeat \subseteq Int
         /\ item.colon \in BOOLEAN /\ item.chars \in Seq(Char)
  BY DirectiveAssumption, Zenon DEF AnyItem

LEMMA NextItemTurn ==
  ASSUME TypeInv, NEW item, NextItem(item), float_val' \in Int
  PROVE  ItemTurn(item)
<1>1. pc = "initializers" /\ textOpcode \in Directive /\ repeat \in Int
  BY DEF NextItem, TypeInv, TypeOK, Steps
<1>2. item \in AnyItem
  <2>1. CASE bare
    BY <1>1, <2>1 DEF NextItem, AnyItem
  <2>2. CASE ~ bare
    BY <2>2 DEF NextItem, AnyItem
  <2> QED
    BY <2>1, <2>2
<1>3. repeat' \in Int
  <2>1. item.repeat \subseteq Int
    BY <1>2, ItemsAre
  <2>2. repeat' \in {1, repeat} \cup item.repeat
    BY DEF NextItem
  <2> QED
    BY <1>1, <2>1, <2>2
<1> QED
  BY <1>1, <1>2, <1>3 DEF NextItem, ItemTurn

(* The repeat count of a plain initializer is its own.                     *)
LEMMA RepeatIsOwn ==
  ASSUME NEW item, NextItem(item), item.colon => item.repeat # {}
  PROVE  Count(item) = IF item.colon THEN Max({0, repeat'}) ELSE repeat'
<1>1. CASE item.colon
  <2>1. repeat' = CHOOSE n \in item.repeat : TRUE
    BY <1>1, Zenon DEF NextItem
  <2>2. Count(item) = Max({0, CHOOSE n \in item.repeat : TRUE})
    BY <1>1, Zenon DEF Count
  <2> QED
    BY <1>1, <2>1, <2>2
<1>2. CASE ~ item.colon
  <2>1. repeat' = 1 /\ Count(item) = 1
    BY <1>2, Zenon DEF NextItem, Count
  <2> QED
    BY <1>2, <2>1
<1> QED
  BY <1>1, <1>2

LEMMA TimesCount ==
  ASSUME NEW item, NextItem(item), item.colon => item.repeat # {}, repeat' \in Int,
         NEW S, NEW piece \in S
  PROVE  Times(Count(item), piece) = Times(repeat', piece)
<1>1. PICK n \in Int : n = repeat'
  OBVIOUS
<1>2. Times(Max({0, n}), piece) = Times(n, piece)
  BY TimesAre
<1>3. Count(item) = IF item.colon THEN Max({0, n}) ELSE n
  BY <1>1, RepeatIsOwn
<1> QED
  BY <1>1, <1>2, <1>3

LEMMA BytesAre ==
  ASSUME NEW n \in Int, NEW size \in {1, 2, 4, 8}
  PROVE  Max({0, n}) * size \in Nat
<1>1. Max({0, n}) = IF n >= 0 THEN n ELSE 0
  BY DEF Max
<1>2. PICK m \in Nat : m = Max({0, n})
  BY <1>1
<1>3. m * 1 \in Nat /\ m * 2 \in Nat /\ m * 4 \in Nat /\ m * 8 \in Nat
  OBVIOUS
<1> QED
  BY <1>2, <1>3

LEMMA IntegerDone ==
  ASSUME TypeInv, NEW item, Integer(item)
  PROVE  Done(item)
<1> DEFINE type == currentDataType
           piece == Padded(item.dec, 2 * Size[type])
           pieces == Times(repeat', piece)
           bytes == Max({0, repeat'}) * Size[type]
<1>1. type \in IntType /\ NextItem(item) /\ pc = "initializers"
  BY DEF Integer, NextItem
<1>2. ItemTurn(item)
  <2>1. float_val' \in Int
    BY DEF Integer, TypeInv, TypeOK
  <2> QED
    BY <1>1, <2>1, NextItemTurn
<1>3. item \in AnyItem /\ repeat' \in Int
  BY <1>2 DEF ItemTurn
<1>4. Fits64(item.dec)
  BY <1>3, ItemsAre
<1>5. PICK size \in {1, 2, 4, 8} : size = Size[type]
  BY <1>1, SizesAre
<1>6. PICK d \in 1 .. 16 : d = 2 * size
  OBVIOUS
<1>7. piece \in Piece /\ (DigitsOf(item.dec) <= d => piece = [of |-> item.dec, digits |-> d])
  BY <1>4, <1>5, <1>6, PaddedIs
<1>8. pieces \in Seq(Piece)
  <2>1. PICK n \in Int : n = repeat'
    BY <1>3
  <2>2. Times(n, piece) \in Seq(Piece)
    BY <1>7, TimesAre
  <2> QED
    BY <2>1, <2>2
<1>9. bytes \in Nat
  <2>1. PICK n \in Int : n = repeat'
    BY <1>3
  <2> QED
    BY <1>5, <2>1, BytesAre
<1>10. machineCode' = Append(machineCode, pieces) /\ machineCodeSize' = machineCodeSize + bytes
         /\ pc' = "initializers"
  BY <1>1 DEF Integer, Emit
<1>11. ASSUME Plain(item, type)  PROVE  pieces = Meaning(item, type)
  <2>1. type # "string" /\ type # "float32"
    BY <1>1 DEF IntType
  <2>2. (item.colon => item.repeat # {}) /\ item.dec = item.value
          /\ DigitsOf(item.dec) <= 2 * Size[type]
    BY <1>11, <2>1, Zenon DEF Plain
  <2>3. piece = [of |-> item.value, digits |-> 2 * Size[type]]
    BY <1>5, <1>6, <1>7, <2>2
  <2>4. Times(Count(item), piece) = pieces
    BY <1>1, <1>3, <1>7, <2>2, TimesCount
  <2>5. Meaning(item, type) = Times(Count(item), [of |-> item.value, digits |-> 2 * Size[type]])
    BY <1>1, <2>1 DEF Meaning, IntType
  <2> QED
    BY <2>3, <2>4, <2>5
<1>12. ASSUME Exact(item, type)  PROVE  Digits(pieces) = 2 * bytes
  <2>1. type # "string"
    BY <1>1 DEF IntType
  <2>2. piece = [of |-> item.dec, digits |-> d]
    BY <1>1, <1>5, <1>6, <1>7, <1>12, <2>1 DEF Exact
  <2>3. piece.digits = 2 * size
    BY <1>6, <2>2
  <2> HIDE DEF piece
  <2> QED
    BY <1>3, <1>5, <2>3, TimesDigits
<1> HIDE DEF pieces, bytes, piece
<1>13. ItemEffect(item, pieces, bytes)
  BY <1>2, <1>10, <1>11, <1>12 DEF ItemEffect
<1> QED
  BY <1>8, <1>9, <1>13 DEF Done

LEMMA FloatDone ==
  ASSUME TypeInv, NEW item, Float(item)
  PROVE  Done(item)
<1> DEFINE type == currentDataType
           piece == [of |-> float_val', digits |-> 2 * Size[type]]
           pieces == Times(repeat', piece)
           bytes == Max({0, repeat'}) * Size[type]
<1>1. type \in {"float32", "float64"} /\ NextItem(item) /\ pc = "initializers"
  BY DEF Float, NextItem
<1>2. float_val' = IF item.float = {} THEN float_val ELSE CHOOSE f \in item.float : TRUE
  BY DEF Float
<1>3. item \in AnyItem
  <2>1. textOpcode \in Directive
    BY <1>1 DEF TypeInv, Steps
  <2> QED
    BY <1>1, <2>1 DEF NextItem, AnyItem
<1>4. float_val' \in Int
  <2>1. item.float \subseteq Nat /\ float_val \in Int
    BY <1>3, ItemsAre DEF TypeInv, TypeOK
  <2> QED
    BY <1>2, <2>1
<1>5. ItemTurn(item)
  BY <1>1, <1>4, NextItemTurn
<1>6. repeat' \in Int
  BY <1>5 DEF ItemTurn
<1>7. PICK size \in {1, 2, 4, 8} : size = Size[type]
  BY <1>1, SizesAre
<1>8. piece \in Piece
  <2>1. 2 * Size[type] \in 1 .. 16
    BY <1>7
  <2> QED
    BY <1>4, <2>1 DEF Piece
<1>9. pieces \in Seq(Piece)
  <2>1. PICK n \in Int : n = repeat'
    BY <1>6
  <2>2. Times(n, piece) \in Seq(Piece)
    BY <1>8, TimesAre
  <2> QED
    BY <2>1, <2>2
<1>10. bytes \in Nat
  <2>1. PICK n \in Int : n = repeat'
    BY <1>6
  <2> QED
    BY <1>7, <2>1, BytesAre
<1>11. machineCode' = Append(machineCode, pieces) /\ machineCodeSize' = machineCodeSize + bytes
         /\ pc' = "initializers"
  BY <1>1 DEF Float, Emit
<1>12. ASSUME Plain(item, type)  PROVE  pieces = Meaning(item, type)
  <2>1. (item.colon => item.repeat # {}) /\ type = "float32" /\ item.float # {}
    <3>1. type # "string" /\ type \notin IntType
      BY <1>1 DEF IntType
    <3> QED
      BY <1>12, <3>1, Zenon DEF Plain
  <2>2. piece = [of |-> CHOOSE f \in item.float : TRUE, digits |-> 8]
    <3>1. 2 * Size[type] = 8
      BY <2>1 DEF Size
    <3>2. float_val' = CHOOSE f \in item.float : TRUE
      BY <1>2, <2>1
    <3> QED
      BY <3>1, <3>2, Zenon
  <2>3. Times(Count(item), piece) = pieces
    BY <1>1, <1>6, <1>8, <2>1, TimesCount
  <2>4. Meaning(item, type) =
          Times(Count(item), [of |-> CHOOSE f \in item.float : TRUE, digits |-> 8])
    BY <2>1 DEF Meaning, IntType
  <2> QED
    BY <2>2, <2>3, <2>4
<1>13. Digits(pieces) = 2 * bytes
  <2>1. piece.digits = 2 * size
    BY <1>7
  <2> HIDE DEF piece
  <2> QED
    BY <1>6, <1>7, <2>1, TimesDigits
<1> HIDE DEF pieces, bytes, piece
<1>14. ItemEffect(item, pieces, bytes)
  BY <1>5, <1>11, <1>12, <1>13 DEF ItemEffect
<1> QED
  BY <1>9, <1>10, <1>14 DEF Done

LEMMA StringDone ==
  ASSUME TypeInv, NEW item, String(item)
  PROVE  Done(item)
<1> DEFINE n == Len(item.chars)
           pieces == [i \in 1 .. n |-> CharPiece(item.chars[i])]
<1>1. currentDataType = "string" /\ NextItem(item) /\ pc = "initializers"
  BY DEF String, NextItem
<1>2. ItemTurn(item)
  <2>1. float_val' \in Int
    BY DEF String, TypeInv, TypeOK
  <2> QED
    BY <1>1, <2>1, NextItemTurn
<1>3. item.chars \in Seq(Char) /\ n \in Nat
  BY <1>2, ItemsAre DEF ItemTurn
<1>4. \A i \in 1 .. n : item.chars[i] \in Char
  BY <1>3
<1>5. pieces \in Seq(Piece)
  <2>1. \A i \in 1 .. n : CharPiece(item.chars[i]) \in Piece
    BY <1>4, CharPieceIs
  <2> QED
    BY <1>3, <2>1
<1>6. machineCode' = Append(machineCode, pieces) /\ machineCodeSize' = machineCodeSize + n
        /\ pc' = "initializers"
  BY <1>1 DEF String, Emit
<1>7. ASSUME Plain(item, "string")  PROVE  pieces = Meaning(item, "string")
  <2>1. \A i \in 1 .. n : PlainChar(item.chars[i])
    BY <1>7 DEF Plain
  <2>2. \A i \in 1 .. n :
          CharPiece(item.chars[i]) =
            [of |-> IF item.chars[i].escaped THEN Escape(item.chars[i].code)
                                             ELSE item.chars[i].code, digits |-> 2]
    BY <1>4, <2>1, CharPieceIs
  <2>3. Meaning(item, "string") =
          [i \in 1 .. n |-> [of |-> IF item.chars[i].escaped THEN Escape(item.chars[i].code)
                                    ELSE item.chars[i].code, digits |-> 2]]
    BY DEF Meaning, IntType
  <2> QED
    BY <2>2, <2>3
<1>8. ASSUME Exact(item, "string")  PROVE  Digits(pieces) = 2 * n
  <2>1. \A i \in 1 .. n : PlainChar(item.chars[i])
    BY <1>8 DEF Exact, Plain
  <2>2. \A i \in 1 .. n : CharPiece(item.chars[i]).digits = 2
    BY <1>4, <2>1, CharPieceIs
  <2>3. Len(pieces) = n /\ \A i \in 1 .. n : pieces[i].digits = 2
    BY <1>3, <2>2
  <2> HIDE DEF pieces, n
  <2>4. Digits(pieces) = n * 2
    <3>1. 2 \in Nat
      OBVIOUS
    <3> QED
      BY <1>3, <2>3, <3>1, UniformDigits
  <2> QED
    BY <1>3, <2>4
<1> HIDE DEF pieces, n
<1>9. ItemEffect(item, pieces, n)
  BY <1>1, <1>2, <1>6, <1>7, <1>8 DEF ItemEffect
<1> QED
  BY <1>3, <1>5, <1>9 DEF Done

LEMMA StringUnquotedDone ==
  ASSUME TypeInv, NEW item, StringUnquoted(item)
  PROVE  Done(item)
<1> DEFINE piece == [of |-> 0, digits |-> 1]
<1>1. currentDataType = "string" /\ item.form = "number" /\ NextItem(item) /\ pc = "initializers"
  BY DEF StringUnquoted, NextItem
<1>2. ItemTurn(item)
  <2>1. float_val' \in Int
    BY DEF StringUnquoted, TypeInv, TypeOK
  <2> QED
    BY <1>1, <2>1, NextItemTurn
<1>3. CASE UNCHANGED pc /\ \E n \in Overrun : Emit(Times(n, piece), n)
  <2>1. PICK n \in Overrun : Emit(Times(n, piece), n)
    BY <1>3
  <2>2. PICK m \in Int : m = n /\ m \in Nat
    BY DirectiveAssumption
  <2>3. piece \in Piece
    BY DEF Piece
  <2>4. Times(m, piece) \in Seq(Piece)
    BY <2>3, TimesAre
  <2>5. ~ Plain(item, currentDataType) /\ ~ Exact(item, currentDataType)
    BY <1>1 DEF Plain, Exact
  <2> HIDE DEF piece
  <2>6. ItemEffect(item, Times(m, piece), m)
    BY <1>1, <1>2, <1>3, <2>1, <2>2, <2>5 DEF ItemEffect, Emit
  <2> QED
    BY <2>2, <2>4, <2>6 DEF Done
<1>4. CASE pc' = "crash" /\ UNCHANGED << machineCode, machineCodeSize >>
  BY <1>2, <1>4 DEF Done, ItemCrash
<1> QED
  BY <1>3, <1>4 DEF StringUnquoted

LEMMA OpenStringDone ==
  ASSUME TypeInv, NEW item, OpenString(item)
  PROVE  Done(item)
<1>1. float_val' \in Int
  BY DEF OpenString, TypeInv, TypeOK
<1>2. ItemTurn(item)
  BY <1>1, NextItemTurn DEF OpenString
<1> QED
  BY <1>2 DEF OpenString, Done, ItemCrash

LEMMA NoTypeDone ==
  ASSUME TypeInv, NEW item, NoType(item)
  PROVE  Done(item)
<1>1. float_val' \in Int
  BY DEF NoType, TypeInv, TypeOK
<1>2. ItemTurn(item)
  BY <1>1, NextItemTurn DEF NoType
<1>3. pc = "initializers" /\ currentDataType \notin DataType
  BY DEF NoType, NextItem, DataType, IntType
<1>4. Digits(<< >>) = 2 * 0
  <2>1. PICK pieces : pieces = << >>
    OBVIOUS
  <2>2. 0 \in Nat /\ Len(pieces) = 0 /\ \A j \in 1 .. 0 : pieces[j].digits = 0
    BY <2>1
  <2>3. Digits(pieces) = 0 * 0
    BY <2>2, UniformDigits
  <2> QED
    BY <2>1, <2>3
<1>5. ItemEffect(item, << >>, 0)
  <2>1. pc' = "initializers" /\ machineCode' = Append(machineCode, << >>)
          /\ machineCodeSize' = machineCodeSize + 0
    BY <1>3, Zenon DEF NoType, Emit
  <2> QED
    BY <1>2, <1>3, <1>4, <2>1, Zenon DEF ItemEffect
<1>6. << >> \in Seq(Piece)
  OBVIOUS
<1> QED
  BY <1>5, <1>6 DEF Done

-----------------------------------------------------------------------------
(* Type correctness.                                                       *)

LEMMA TypeInit == Init => TypeInv
<1> SUFFICES ASSUME Init  PROVE  TypeInv
  OBVIOUS
<1>1. 0 \in 0 .. MaxStatements /\ 0 <= MaxItems
  BY DirectiveAssumption
<1>2. TypeOK
  <2>1. Len(items) = 0 /\ Len(machineCode) = 0
    BY DEF Init
  <2>2. Len(items) <= MaxItems
    BY <1>1, <2>1
  <2>3. \A i \in 1 .. Len(machineCode) : \A j \in 1 .. Len(machineCode[i]) :
          machineCode[i][j].digits \in 1 .. 16
    BY <2>1
  <2>4. machineCodeSize \in Nat /\ repeat \in Int /\ float_val \in Int
          /\ statements \in 0 .. MaxStatements
    BY <1>1 DEF Init
  <2> QED
    BY <2>2, <2>3, <2>4, Zenon DEF Init, TypeOK
<1>3. Steps
  BY DEF Init, Steps
<1> QED
  BY <1>2, <1>3 DEF TypeInv

(* What is to be shown of every piece follows from what is kept.           *)
LEMMA PiecesHaveDigits ==
  ASSUME NEW code \in Seq(Seq(Piece))
  PROVE  \A i \in 1 .. Len(code) : \A j \in 1 .. Len(code[i]) : code[i][j].digits \in 1 .. 16
<1>1. SUFFICES ASSUME NEW i \in 1 .. Len(code), NEW j \in 1 .. Len(code[i])
               PROVE  code[i][j].digits \in 1 .. 16
  OBVIOUS
<1>2. PICK pieces \in Seq(Piece) : pieces = code[i]
  OBVIOUS
<1>3. PICK piece \in Piece : piece = pieces[j]
  BY <1>2
<1>4. piece.digits \in 1 .. 16
  BY DEF Piece
<1> QED
  BY <1>2, <1>3, <1>4

LEMMA TypeOfIs ==
  ASSUME NEW d \in DOMAIN TypeOf
  PROVE  TypeOf[d] \in DataType
<1>1. \E t \in DataType : d = "." \o t
  BY DEF TypeOf
<1>2. TypeOf[d] = CHOOSE t \in DataType : d = "." \o t
  BY DEF TypeOf
<1> QED
  BY <1>1, <1>2

LEMMA TypeNext == TypeInv /\ [Next]_vars => TypeInv'
<1> SUFFICES ASSUME TypeInv, [Next]_vars  PROVE  TypeInv'
  OBVIOUS
<1> USE DEF localVars
<1>1. /\ pc \in {"directive", "initializers", "crash"} /\ statements \in 0 .. MaxStatements
      /\ textOpcode \in Directive \cup {"none"} /\ bare \in BOOLEAN
      /\ currentDataType \in DataType \cup {"none"}
      /\ repeat \in Int /\ float_val \in Int
      /\ machineCodeSize \in Nat /\ reported \in BOOLEAN
      /\ items \in Seq(AnyItem) /\ Len(items) <= MaxItems
      /\ machineCode \in Seq(Seq(Piece)) /\ MaxStatements \in Nat /\ MaxItems \in Nat
  BY DirectiveAssumption DEF TypeInv, TypeOK, Steps
<1>2. ASSUME NEW d \in Directive, ProcessDirective(d)  PROVE  TypeInv'
  <2>1. currentDataType' \in DataType \cup {"none"} /\ reported' \in BOOLEAN
    BY <1>1, <1>2, TypeOfIs DEF ProcessDirective, SetType
  <2>2. /\ textOpcode' = d /\ bare' \in BOOLEAN /\ items' = << >> /\ machineCode' = << >>
        /\ machineCodeSize' = 0 /\ pc' = "initializers" /\ statements' = statements
        /\ statements < MaxStatements
    BY <1>2 DEF ProcessDirective
  <2>3. repeat' \in Int /\ float_val' \in Int
    BY <1>2, DirectiveAssumption DEF ProcessDirective
  <2>4. Steps'
    BY <2>2 DEF Steps
  <2>5. TypeOK'
    BY <1>1, <2>1, <2>2, <2>3 DEF TypeOK
  <2> QED
    BY <2>4, <2>5 DEF TypeInv
<1>3. ASSUME NEW item, Done(item)  PROVE  TypeInv'
  <2>1. ItemTurn(item)
    BY <1>3 DEF Done, ItemEffect, ItemCrash
  <2>2. machineCode' \in Seq(Seq(Piece)) /\ machineCodeSize' \in Nat
          /\ pc' \in {"initializers", "crash"}
    <3>1. CASE ItemCrash(item)
      BY <1>1, <3>1 DEF ItemCrash
    <3>2. CASE \E pieces \in Seq(Piece), bytes \in Nat : ItemEffect(item, pieces, bytes)
      BY <1>1, <3>2 DEF ItemEffect
    <3> QED
      BY <1>3, <3>1, <3>2 DEF Done
  <2>3. items' \in Seq(AnyItem) /\ Len(items') <= MaxItems
    BY <1>1, <2>1 DEF ItemTurn
  <2>4. Steps'
    BY <2>1, <2>2, <2>3 DEF ItemTurn, TypeInv, Steps
  <2>5. \A i \in 1 .. Len(machineCode') : \A j \in 1 .. Len(machineCode'[i]) :
          machineCode'[i][j].digits \in 1 .. 16
    BY <2>2, PiecesHaveDigits
  <2>6. TypeOK'
    BY <1>1, <2>1, <2>2, <2>3, <2>5 DEF ItemTurn, TypeOK
  <2> QED
    BY <2>4, <2>6 DEF TypeInv
<1>4. ASSUME EndOfLine  PROVE  TypeInv'
  <2>1. /\ UNCHANGED << textOpcode, bare, items, currentDataType, repeat, float_val,
                        machineCodeSize, machineCode >>
        /\ pc = "initializers" /\ pc' = "directive" /\ statements' = statements + 1
        /\ reported' \in BOOLEAN
    BY <1>1, <1>4 DEF EndOfLine
  <2>2. statements' \in 0 .. MaxStatements
    BY <1>1, <2>1 DEF TypeInv, Steps
  <2>3. Steps'
    BY <2>1 DEF TypeInv, Steps
  <2>4. TypeOK'
    BY <2>1, <2>2 DEF TypeInv, TypeOK
  <2> QED
    BY <2>3, <2>4 DEF TypeInv
<1>5. CASE UNCHANGED vars
  BY <1>5 DEF vars, TypeInv, TypeOK, Steps
<1> QED
  BY <1>2, <1>3, <1>4, <1>5, IntegerDone, FloatDone, StringDone, StringUnquotedDone,
     OpenStringDone, NoTypeDone DEF Next

(* The sizes added up are natural numbers, every piece written has a digit *)
(* at least and 16 at most, and the data type is one of the seven or none, *)
(* for any initializers, uninitialized locals and unterminated strings.    *)
THEOREM TypeCorrect == Spec => []TypeOK
<1>1. TypeInv => TypeOK
  BY DEF TypeInv
<1> QED
  BY TypeInit, TypeNext, <1>1, PTL DEF Spec

-----------------------------------------------------------------------------
(* The data are fresh.                                                     *)

LEMMA NextDone ==
  ASSUME TypeInv, Next
  PROVE  \/ \E d \in Directive : ProcessDirective(d)
         \/ \E item : Done(item)
         \/ EndOfLine
  BY IntegerDone, FloatDone, StringDone, StringUnquotedDone, OpenStringDone, NoTypeDone DEF Next

LEMMA DoneEffect ==
  ASSUME NEW item, Done(item)
  PROVE  ItemCrash(item)
           \/ \E pieces \in Seq(Piece), bytes \in Nat : ItemEffect(item, pieces, bytes)
  BY DEF Done

LEMMA TypeIsOwnNext ==
  ASSUME TypeInv, TypeIsOwn, [Next]_vars
  PROVE  TypeIsOwn'
<1>1. ASSUME NEW d \in Directive, ProcessDirective(d)  PROVE  TypeIsOwn'
  <2>1. textOpcode' = d
    BY <1>1 DEF ProcessDirective
  <2>2. ~ reported' => d \in DOMAIN TypeOf /\ currentDataType' = TypeOf[d]
    BY <1>1 DEF ProcessDirective, SetType
  <2> QED
    BY <2>1, <2>2 DEF TypeIsOwn
<1>2. ASSUME NEW item, Done(item)  PROVE  TypeIsOwn'
  <2>1. ItemTurn(item)
    BY <1>2, DoneEffect DEF ItemEffect, ItemCrash
  <2> QED
    BY <2>1 DEF ItemTurn, TypeIsOwn
<1>3. ASSUME EndOfLine  PROVE  TypeIsOwn'
  BY <1>3 DEF EndOfLine, TypeIsOwn
<1>4. CASE UNCHANGED vars
  BY <1>4 DEF vars, TypeIsOwn
<1> QED
  BY <1>1, <1>2, <1>3, <1>4, NextDone

LEMMA PiecesInvNext ==
  ASSUME TypeInv, PiecesInv, [Next]_vars
  PROVE  PiecesInv'
<1>1. ASSUME NEW d \in Directive, ProcessDirective(d)  PROVE  PiecesInv'
  <2>1. items' = << >> /\ machineCode' = << >>
    BY <1>1 DEF ProcessDirective
  <2>2. Len(items') = 0 /\ Len(machineCode') = 0
    BY <2>1
  <2> QED
    BY <2>2 DEF PiecesInv
<1>2. ASSUME NEW item, Done(item)  PROVE  PiecesInv'
  <2>1. CASE ItemCrash(item)
    BY <2>1 DEF ItemCrash, PiecesInv
  <2>2. ASSUME NEW pieces, NEW bytes, ItemEffect(item, pieces, bytes)  PROVE  PiecesInv'
    <3>1. /\ pc = "initializers" /\ item \in AnyItem
          /\ items' = Append(items, item) /\ machineCode' = Append(machineCode, pieces)
          /\ currentDataType' = currentDataType
          /\ currentDataType \in DataType /\ Plain(item, currentDataType) =>
               pieces = Meaning(item, currentDataType)
      BY <2>2 DEF ItemEffect, ItemTurn
    <3>2. items \in Seq(AnyItem) /\ machineCode \in Seq(Seq(Piece))
            /\ Len(machineCode) = Len(items)
      BY <3>1 DEF TypeInv, Steps, PiecesInv
    <3>3. PICK n \in Nat : n = Len(items)
      BY <3>2
    <3>4. Len(items') = n + 1 /\ Len(machineCode') = n + 1
      BY <3>1, <3>2, <3>3
    <3>5. SUFFICES ASSUME currentDataType \in DataType, NEW i \in 1 .. n + 1,
                          Plain(items'[i], currentDataType)
                   PROVE  machineCode'[i] = Meaning(items'[i], currentDataType)
      BY <3>1, <3>4 DEF PiecesInv
    <3>6. CASE i = n + 1
      <4>1. items'[i] = item /\ machineCode'[i] = pieces
        BY <3>1, <3>2, <3>3, <3>6
      <4> QED
        BY <3>1, <3>5, <4>1
    <3>7. CASE i \in 1 .. n
      <4>1. items'[i] = items[i] /\ machineCode'[i] = machineCode[i]
        BY <3>1, <3>2, <3>3, <3>7
      <4>2. Plain(items[i], currentDataType) => machineCode[i] = Meaning(items[i], currentDataType)
        BY <3>1, <3>3, <3>5, <3>7 DEF PiecesInv
      <4> QED
        BY <3>5, <4>1, <4>2
    <3> QED
      BY <3>6, <3>7
  <2> QED
    BY <1>2, <2>1, <2>2, DoneEffect
<1>3. ASSUME EndOfLine  PROVE  PiecesInv'
  BY <1>3 DEF EndOfLine, PiecesInv
<1>4. CASE UNCHANGED vars
  BY <1>4 DEF vars, PiecesInv
<1> QED
  BY <1>1, <1>2, <1>3, <1>4, NextDone

LEMMA DataIsFreshNext ==
  ASSUME FreshInv, [Next]_vars
  PROVE  DataIsFresh'
<1> USE DEF localVars
<1>1. ASSUME NEW d \in Directive, ProcessDirective(d)  PROVE  DataIsFresh'
  BY <1>1 DEF ProcessDirective, DataIsFresh, PlainData, Processed
<1>2. ASSUME NEW item, Done(item)  PROVE  DataIsFresh'
  <2>1. pc' # "directive"
    BY <1>2, DoneEffect DEF ItemEffect, ItemCrash
  <2> QED
    BY <2>1 DEF DataIsFresh, PlainData, Processed
<1>3. ASSUME EndOfLine  PROVE  DataIsFresh'
  <2>1. /\ UNCHANGED << textOpcode, bare, items, machineCode >> /\ (reported => reported')
        /\ pc = "initializers"
    BY <1>3 DEF EndOfLine
  <2>2. SUFFICES ASSUME ~ reported, \A i \in 1 .. Len(items) : Plain(items[i], TypeOf[textOpcode])
                 PROVE  machineCode = [i \in 1 .. Len(items) |->
                                         Meaning(items[i], TypeOf[textOpcode])]
    BY <2>1 DEF DataIsFresh, PlainData
  <2>3. currentDataType = TypeOf[textOpcode] /\ currentDataType \in DataType
    BY <2>1, <2>2, TypeOfIs DEF FreshInv, TypeIsOwn
  <2>4. /\ Len(machineCode) = Len(items)
        /\ \A i \in 1 .. Len(items) : machineCode[i] = Meaning(items[i], TypeOf[textOpcode])
    BY <2>1, <2>2, <2>3 DEF FreshInv, PiecesInv
  <2>5. machineCode \in Seq(Seq(Piece))
    BY DEF FreshInv, TypeInv, Steps
  <2>6. machineCode = [i \in 1 .. Len(machineCode) |-> machineCode[i]]
    BY <2>5
  <2> QED
    BY <2>4, <2>6
<1>4. CASE UNCHANGED vars
  <2>1. UNCHANGED << pc, statements, textOpcode, bare, items, machineCode, reported >>
    BY <1>4 DEF vars
  <2>2. PlainData' = PlainData
    BY <2>1 DEF PlainData, Processed
  <2> QED
    BY <2>1, <2>2 DEF FreshInv, DataIsFresh
<1> QED
  BY <1>1, <1>2, <1>3, <1>4, NextDone DEF FreshInv

(* The bytes of every data statement that is accepted are those its own    *)
(* text says, each as often as its repeat count, for any number of         *)
(* initializers: the data type, the repeat count and the number that       *)
(* outlive what set them play no part.                                     *)
THEOREM NothingLeaksIntoData == Spec => []DataIsFresh
<1>1. Init => FreshInv
  <2>1. Init => TypeIsOwn /\ PiecesInv /\ DataIsFresh
    BY DEF Init, TypeIsOwn, PiecesInv, DataIsFresh, PlainData, Processed
  <2> QED
    BY <2>1, TypeInit DEF FreshInv
<1>2. FreshInv /\ [Next]_vars => FreshInv'
  BY TypeNext, TypeIsOwnNext, PiecesInvNext, DataIsFreshNext DEF FreshInv
<1>3. FreshInv => DataIsFresh
  BY DEF FreshInv
<1> QED
  BY <1>1, <1>2, <1>3, PTL DEF Spec
-----------------------------------------------------------------------------
(* The size is the number of bytes.                                        *)

LEMMA SizeInvNext ==
  ASSUME TypeInv, SizeInv, [Next]_vars
  PROVE  SizeInv'
<1>1. ASSUME NEW d \in Directive, ProcessDirective(d)  PROVE  SizeInv'
  <2>1. machineCode' = << >> /\ machineCodeSize' = 0
    BY <1>1 DEF ProcessDirective
  <2>2. [i \in 1 .. Len(<< >>) |-> Digits(<< >>[i])] = << >> /\ << >> \in Seq(Nat)
    OBVIOUS
  <2>3. DigitsWritten(<< >>) = 0
    BY <2>2, TotalIsNat DEF DigitsWritten
  <2> QED
    BY <2>1, <2>3 DEF SizeInv
<1>2. ASSUME NEW item, Done(item)  PROVE  SizeInv'
  <2>1. CASE ItemCrash(item)
    BY <2>1 DEF ItemCrash, SizeInv
  <2>2. ASSUME NEW pieces \in Seq(Piece), NEW bytes \in Nat, ItemEffect(item, pieces, bytes)
        PROVE  SizeInv'
    <3>1. /\ pc = "initializers" /\ item \in AnyItem
          /\ items' = Append(items, item) /\ machineCode' = Append(machineCode, pieces)
          /\ currentDataType' = currentDataType /\ machineCodeSize' = machineCodeSize + bytes
          /\ Exact(item, currentDataType) => Digits(pieces) = 2 * bytes
      BY <2>2 DEF ItemEffect, ItemTurn
    <3>2. items \in Seq(AnyItem) /\ machineCode \in Seq(Seq(Piece)) /\ machineCodeSize \in Nat
      BY DEF TypeInv, TypeOK, Steps
    <3>3. SUFFICES ASSUME \A i \in 1 .. Len(items') : Exact(items'[i], currentDataType)
                   PROVE  2 * machineCodeSize' = DigitsWritten(machineCode')
      BY <3>1 DEF SizeInv
    <3>4. Exact(item, currentDataType) /\ \A i \in 1 .. Len(items) : Exact(items[i], currentDataType)
      <4>1. PICK n \in Nat : n = Len(items)
        BY <3>2
      <4>2. Len(items') = n + 1 /\ items'[n + 1] = item
            /\ \A i \in 1 .. n : items'[i] = items[i] /\ i \in 1 .. n + 1
        BY <3>1, <3>2, <4>1
      <4> QED
        BY <3>3, <4>1, <4>2
    <3>5. 2 * machineCodeSize = DigitsWritten(machineCode)
      BY <3>1, <3>4 DEF SizeInv
    <3>6. DigitsWritten(machineCode') = DigitsWritten(machineCode) + Digits(pieces)
      BY <3>1, <3>2, DigitsOfAppend
    <3> QED
      BY <3>1, <3>2, <3>4, <3>5, <3>6
  <2> QED
    BY <1>2, <2>1, <2>2, DoneEffect
<1>3. ASSUME EndOfLine  PROVE  SizeInv'
  BY <1>3 DEF EndOfLine, SizeInv
<1>4. CASE UNCHANGED vars
  BY <1>4 DEF vars, SizeInv
<1> QED
  BY <1>1, <1>2, <1>3, <1>4, NextDone

LEMMA SizeIsBytesNext ==
  ASSUME TypeInv, TypeIsOwn, SizeInv, SizeIsBytes, [Next]_vars
  PROVE  SizeIsBytes'
<1> USE DEF localVars
<1>1. ASSUME NEW d \in Directive, ProcessDirective(d)  PROVE  SizeIsBytes'
  BY <1>1 DEF ProcessDirective, SizeIsBytes, Processed
<1>2. ASSUME NEW item, Done(item)  PROVE  SizeIsBytes'
  <2>1. pc' # "directive"
    BY <1>2, DoneEffect DEF ItemEffect, ItemCrash
  <2> QED
    BY <2>1 DEF SizeIsBytes, Processed
<1>3. ASSUME EndOfLine  PROVE  SizeIsBytes'
  <2>1. /\ UNCHANGED << textOpcode, items, currentDataType, machineCodeSize, machineCode >>
        /\ (reported => reported') /\ pc = "initializers"
    BY <1>3 DEF EndOfLine
  <2>2. SUFFICES ASSUME IF currentDataType = "string" THEN PlainData'
                        ELSE currentDataType \in IntType =>
                               \A i \in 1 .. Len(items) :
                                 DigitsOf(items[i].dec) <= 2 * Size[currentDataType]
                 PROVE  2 * machineCodeSize = DigitsWritten(machineCode)
    BY <2>1 DEF SizeIsBytes
  <2>3. ASSUME NEW i \in 1 .. Len(items)  PROVE  Exact(items[i], currentDataType)
    <3>1. CASE currentDataType = "string"
      <4>1. ~ reported /\ Plain(items[i], TypeOf[textOpcode])
        BY <2>1, <2>2, <3>1 DEF PlainData
      <4>2. TypeOf[textOpcode] = "string"
        BY <2>1, <3>1, <4>1 DEF TypeIsOwn
      <4> QED
        BY <3>1, <4>1, <4>2 DEF Exact
    <3>2. CASE currentDataType # "string"
      BY <2>2, <3>2 DEF Exact
    <3> QED
      BY <3>1, <3>2
  <2> QED
    BY <2>1, <2>3 DEF SizeInv
<1>4. CASE UNCHANGED vars
  <2>1. UNCHANGED << pc, statements, textOpcode, bare, items, currentDataType, machineCodeSize,
                     machineCode, reported >>
    BY <1>4 DEF vars
  <2>2. PlainData' = PlainData /\ Processed' = Processed
    BY <2>1 DEF PlainData, Processed
  <2> QED
    BY <2>1, <2>2 DEF SizeIsBytes
<1> QED
  BY <1>1, <1>2, <1>3, <1>4, NextDone

(* The size that is added up while the data are written is the number of   *)
(* bytes written, for any initializers that fit their type, for any repeat *)
(* counts, and for any strings of characters of two digits: the addresses  *)
(* behind the data are those of the image.                                 *)
THEOREM SizesAreBytes == Spec => []SizeIsBytes
<1>1. Init => TypeInv /\ TypeIsOwn /\ SizeInv /\ SizeIsBytes
  <2>1. Init => TypeIsOwn /\ SizeInv /\ SizeIsBytes
    BY DEF Init, TypeIsOwn, SizeInv, SizeIsBytes, Processed
  <2> QED
    BY <2>1, TypeInit
<1>2. TypeInv /\ TypeIsOwn /\ SizeInv /\ SizeIsBytes /\ [Next]_vars
        => (TypeInv /\ TypeIsOwn /\ SizeInv /\ SizeIsBytes)'
  BY TypeNext, TypeIsOwnNext, SizeInvNext, SizeIsBytesNext
<1> QED
  BY <1>1, <1>2, PTL DEF Spec
=============================================================================
