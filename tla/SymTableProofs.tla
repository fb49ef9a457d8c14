--------------------------- MODULE SymTableProofs ---------------------------
(***************************************************************************)
(* Theorems about SymTable, for every set of names and offsets and every   *)
(* size of the table.  The inductive invariant SearchInv says what the two *)
(* ends of the window have already ruled out.                              *)
(***************************************************************************)
EXTENDS SymTable, SequenceFacts

(* The conjuncts of the inductive invariant.                               *)

(* Between calls and during one the vector is sorted by name.              *)
TableSorted == phase # "build" => Sorted(symbols)

(* A lookup has a name, and nothing has been found while it searches.      *)
Asked == phase \in {"search", "answered", "crash"} => key # {}
NothingFoundYet == phase # "answered" => match = 0

(* The window lies in the vector and is empty only for an empty vector.    *)
WindowInside ==
  phase = "search" =>
    /\ last <= Len(symbols) - 1
    /\ first <= last \/ (symbols = << >> /\ first = 0 /\ last = -1)

(* Everything before the window is too small, everything after too great.  *)
RuledOut ==
  phase = "search" =>
    \A n \in key, i \in 1 .. Len(symbols) :
      /\ i <= first => symbols[i].name < n
      /\ i >= last + 2 => symbols[i].name > n

SearchInv ==
  /\ TypeOK
  /\ TableSorted
  /\ Asked
  /\ NothingFoundYet
  /\ WindowInside
  /\ RuledOut
  /\ AnswerRight

-----------------------------------------------------------------------------
(* Sorting rearranges: the length and the set of symbols stay, the order   *)
(* is that of the names.                                                   *)
LEMMA SortFacts ==
  ASSUME NEW S, NEW table \in Seq(S), NEW sorted \in SortsOf(table)
  PROVE  /\ sorted \in Seq(S)
         /\ Len(sorted) = Len(table)
         /\ Range(sorted) = Range(table)
         /\ Sorted(sorted)
BY RearrangedFacts DEF SortsOf

(* The probed position lies in a window that is not empty.                 *)
LEMMA ProbeFacts ==
  ASSUME first \in Nat, last \in Int, first <= last
  PROVE  /\ Probed \in Nat
         /\ first <= Probed /\ Probed <= last
BY DEF Probed, AVG

-----------------------------------------------------------------------------
(* SearchInv is inductive.                                                 *)

LEMMA InitInv == Init => SearchInv
BY DEF Init, SearchInv, TypeOK, TableSorted, Asked, NothingFoundYet, WindowInside,
       RuledOut, AnswerRight, Sorted

LEMMA AddLabelInv ==
  ASSUME SearchInv, NEW n \in Name, NEW o \in Offset, AddLabel(n, o)
  PROVE  SearchInv'
<1>1. symbols \in Seq(Symbol) /\ [name |-> n, offset |-> o] \in Symbol
  BY DEF SearchInv, TypeOK, Symbol
<1>2. symbols' \in Seq(Symbol) /\ Len(symbols') = Len(symbols) + 1
  BY <1>1 DEF AddLabel
<1>3. TypeOK'
  BY <1>2 DEF AddLabel, SearchInv, TypeOK, NothingFoundYet
<1> QED
  BY <1>3 DEF AddLabel, SearchInv, TypeOK, TableSorted, Asked, NothingFoundYet,
              WindowInside, RuledOut, AnswerRight

LEMMA SortByNameInv ==
  ASSUME SearchInv, SortByName
  PROVE  SearchInv'
<1>1. symbols' \in Seq(Symbol) /\ Len(symbols') = Len(symbols) /\ Sorted(symbols')
  BY SortFacts DEF SortByName, SearchInv, TypeOK
<1>2. TypeOK'
  BY <1>1 DEF SortByName, SearchInv, TypeOK
<1>3. TableSorted'
  BY <1>1 DEF TableSorted
<1> QED
  BY <1>2, <1>3 DEF SortByName, SearchInv, TypeOK, Asked, NothingFoundYet,
                    WindowInside, RuledOut, AnswerRight

LEMMA LookupByNameInv ==
  ASSUME SearchInv, NEW n \in Name, LookupByName(n)
  PROVE  SearchInv'
<1>1. Len(symbols) \in Nat /\ symbols \in Seq(Symbol)
  BY DEF SearchInv, TypeOK
<1>2. TypeOK'
  BY <1>1 DEF LookupByName, SearchInv, TypeOK
<1>3. TableSorted' /\ Asked' /\ NothingFoundYet' /\ AnswerRight'
  BY DEF LookupByName, SearchInv, TableSorted, Asked, NothingFoundYet, AnswerRight
<1>4. WindowInside'
  BY <1>1 DEF LookupByName, WindowInside
<1>5. RuledOut'
  BY <1>1 DEF LookupByName, RuledOut
<1> QED
  BY <1>2, <1>3, <1>4, <1>5 DEF SearchInv

LEMMA ProbeOutsideInv ==
  ASSUME SearchInv, ProbeOutside
  PROVE  SearchInv'
BY DEF ProbeOutside, SearchInv, TypeOK, TableSorted, Asked, NothingFoundYet,
       WindowInside, RuledOut, AnswerRight

LEMMA ProbeEqualInv ==
  ASSUME SearchInv, ProbeEqual
  PROVE  SearchInv'
<1>1. Probed \in 0 .. Len(symbols) - 1 /\ Len(symbols) \in Nat
  BY DEF ProbeEqual, ProbeInside, SearchInv, TypeOK
<1>2. match' \in 1 .. Len(symbols) /\ symbols' = symbols
  BY <1>1 DEF ProbeEqual
<1>3. TypeOK'
  BY <1>2 DEF ProbeEqual, SearchInv, TypeOK
<1>4. AnswerRight'
  BY <1>2 DEF ProbeEqual, ProbedSymbol, AnswerRight
<1>5. TableSorted' /\ Asked' /\ NothingFoundYet' /\ WindowInside' /\ RuledOut'
  BY DEF ProbeEqual, SearchInv, TableSorted, Asked, NothingFoundYet, WindowInside, RuledOut
<1> QED
  BY <1>3, <1>4, <1>5 DEF SearchInv

(* The sought name of a lookup, and the types a probe works with.          *)
LEMMA SoughtName ==
  ASSUME SearchInv, phase = "search"
  PROVE  \E n \in Name :
           /\ key = {n}
           /\ n \in Int
           /\ Len(symbols) \in Nat
           /\ \A i \in 1 .. Len(symbols) : symbols[i] \in Symbol /\ symbols[i].name \in Int
           /\ first \in Nat /\ last \in Int
<1>1. PICK n \in Name : key = {n}
  BY DEF SearchInv, TypeOK, Asked
<1>2. \A i \in 1 .. Len(symbols) : symbols[i] \in Symbol
  BY DEF SearchInv, TypeOK
<1>3. \A s \in Symbol : s.name \in Int
  BY NameAssumption DEF Symbol
<1> QED
  BY <1>1, <1>2, <1>3, NameAssumption DEF SearchInv, TypeOK

(* A probe that finds a symbol lies in the window.                         *)
LEMMA ProbeInWindow ==
  ASSUME SearchInv, phase = "search", ProbeInside
  PROVE  /\ first <= last /\ last < Len(symbols)
         /\ Probed \in Nat /\ first <= Probed /\ Probed <= last
<1>1. first \in Nat /\ last \in Int /\ Len(symbols) \in Nat
  BY DEF SearchInv, TypeOK
<1>2. symbols # << >>
  BY DEF ProbeInside
<1>3. first <= last /\ last < Len(symbols)
  BY <1>1, <1>2 DEF SearchInv, WindowInside
<1> QED
  BY <1>1, <1>3, ProbeFacts

LEMMA ProbeSmallerInv ==
  ASSUME SearchInv, ProbeSmaller
  PROVE  SearchInv'
<1>1. PICK n \in Name :
        /\ key = {n}
        /\ n \in Int
        /\ Len(symbols) \in Nat
        /\ \A i \in 1 .. Len(symbols) : symbols[i] \in Symbol /\ symbols[i].name \in Int
        /\ first \in Nat /\ last \in Int
  BY SoughtName DEF ProbeSmaller
<1>2. /\ first <= last /\ last < Len(symbols)
      /\ Probed \in Nat /\ first <= Probed /\ Probed <= last
  BY ProbeInWindow DEF ProbeSmaller
<1>3. symbols[Probed + 1].name < n /\ Sorted(symbols)
  BY <1>1, <1>2 DEF ProbeSmaller, ProbedSymbol, SearchInv, TableSorted
<1>4. \A i \in 1 .. Len(symbols) :
        /\ i <= Probed + 1 => symbols[i].name < n
        /\ i >= last + 2 => symbols[i].name > n
  <2> TAKE i \in 1 .. Len(symbols)
  <2>1. i <= Probed + 1 => symbols[i].name <= symbols[Probed + 1].name
    BY <1>1, <1>2, <1>3 DEF Sorted
  <2>2. i >= last + 2 => symbols[i].name > n
    BY <1>1 DEF ProbeSmaller, SearchInv, RuledOut
  <2> QED
    BY <1>1, <1>2, <1>3, <2>1, <2>2
<1>5. TypeOK'
  BY <1>2 DEF ProbeSmaller, LoopOrReturn, SearchInv, TypeOK
<1>6. TableSorted' /\ Asked' /\ NothingFoundYet'
  BY <1>1, <1>3 DEF ProbeSmaller, SearchInv, TableSorted, Asked, NothingFoundYet
<1>7. WindowInside'
  BY <1>1, <1>2 DEF ProbeSmaller, LoopOrReturn, WindowInside
<1>8. RuledOut'
  BY <1>1, <1>2, <1>4 DEF ProbeSmaller, RuledOut
<1>9. AnswerRight'
  <2>1. SUFFICES ASSUME phase' = "answered"
                 PROVE  match' = 0 /\ \A m \in key : ~ Defines(symbols, m)
    BY DEF AnswerRight, ProbeSmaller, Defines
  <2>2. Probed + 1 > last
    BY <1>1, <1>2, <2>1 DEF ProbeSmaller, LoopOrReturn
  <2>3. \A i \in 1 .. Len(symbols) : symbols[i].name # n
    BY <1>1, <1>2, <1>4, <2>2
  <2>4. Range(symbols) = { symbols[i] : i \in 1 .. Len(symbols) }
    BY DEF Range, SearchInv, TypeOK
  <2> QED
    BY <1>1, <2>3, <2>4 DEF Defines, ProbeSmaller, SearchInv, NothingFoundYet
<1> QED
  BY <1>5, <1>6, <1>7, <1>8, <1>9 DEF SearchInv

LEMMA ProbeGreaterInv ==
  ASSUME SearchInv, ProbeGreater
  PROVE  SearchInv'
<1>1. PICK n \in Name :
        /\ key = {n}
        /\ n \in Int
        /\ Len(symbols) \in Nat
        /\ \A i \in 1 .. Len(symbols) : symbols[i] \in Symbol /\ symbols[i].name \in Int
        /\ first \in Nat /\ last \in Int
  BY SoughtName DEF ProbeGreater
<1>2. /\ first <= last /\ last < Len(symbols)
      /\ Probed \in Nat /\ first <= Probed /\ Probed <= last
  BY ProbeInWindow DEF ProbeGreater
<1>3. symbols[Probed + 1].name > n /\ Sorted(symbols)
  BY <1>1, <1>2 DEF ProbeGreater, ProbedSymbol, SearchInv, TableSorted
<1>4. \A i \in 1 .. Len(symbols) :
        /\ i <= first => symbols[i].name < n
        /\ i >= Probed + 1 => symbols[i].name > n
  <2> TAKE i \in 1 .. Len(symbols)
  <2>1. i >= Probed + 1 => symbols[i].name >= symbols[Probed + 1].name
    BY <1>1, <1>2, <1>3 DEF Sorted
  <2>2. i <= first => symbols[i].name < n
    BY <1>1 DEF ProbeGreater, SearchInv, RuledOut
  <2> QED
    BY <1>1, <1>2, <1>3, <2>1, <2>2
<1>5. TypeOK'
  BY <1>1, <1>2 DEF ProbeGreater, LoopOrReturn, SearchInv, TypeOK
<1>6. TableSorted' /\ Asked' /\ NothingFoundYet'
  BY <1>1, <1>3 DEF ProbeGreater, SearchInv, TableSorted, Asked, NothingFoundYet
<1>7. WindowInside'
  BY <1>1, <1>2 DEF ProbeGreater, LoopOrReturn, WindowInside
<1>8. RuledOut'
  BY <1>1, <1>2, <1>4 DEF ProbeGreater, RuledOut
<1>9. AnswerRight'
  <2>1. SUFFICES ASSUME phase' = "answered"
                 PROVE  match' = 0 /\ \A m \in key : ~ Defines(symbols, m)
    BY DEF AnswerRight, ProbeGreater, Defines
  <2>2. first > Probed - 1
    BY <1>1, <1>2, <2>1 DEF ProbeGreater, LoopOrReturn
  <2>3. \A i \in 1 .. Len(symbols) : symbols[i].name # n
    BY <1>1, <1>2, <1>4, <2>2
  <2>4. Range(symbols) = { symbols[i] : i \in 1 .. Len(symbols) }
    BY DEF Range, SearchInv, TypeOK
  <2> QED
    BY <1>1, <2>3, <2>4 DEF Defines, ProbeGreater, SearchInv, NothingFoundYet
<1> QED
  BY <1>5, <1>6, <1>7, <1>8, <1>9 DEF SearchInv

LEMMA StepInv == SearchInv /\ [Next]_vars => SearchInv'
<1> SUFFICES ASSUME SearchInv, [Next]_vars
             PROVE  SearchInv'
  OBVIOUS
<1>1. CASE \E n \in Name, o \in Offset : AddLabel(n, o)
  BY <1>1, AddLabelInv
<1>2. CASE SortByName
  BY <1>2, SortByNameInv
<1>3. CASE \E n \in Name : LookupByName(n)
  BY <1>3, LookupByNameInv
<1>4. CASE Probe
  BY <1>4, ProbeOutsideInv, ProbeEqualInv, ProbeSmallerInv, ProbeGreaterInv DEF Probe
<1>5. CASE UNCHANGED vars
  BY <1>5 DEF vars, SearchInv, TypeOK, TableSorted, Asked, NothingFoundYet,
              WindowInside, RuledOut, AnswerRight
<1> QED
  BY <1>1, <1>2, <1>3, <1>4, <1>5 DEF Next

-----------------------------------------------------------------------------
(* The window, the match and everything else keep to the values the code   *)
(* gives them, for every table.                                            *)
THEOREM TypeCorrect == Spec => []TypeOK
<1>1. SearchInv => TypeOK
  BY DEF SearchInv
<1> QED
  BY InitInv, StepInv, <1>1, PTL DEF Spec

(* lookupByName() reads inside the vector, whatever was added to it, as    *)
(* long as it holds one symbol.                                            *)
THEOREM ProbesStayInBounds == Spec => []ProbesInBounds
<1>1. SearchInv => ProbesInBounds
  <2> SUFFICES ASSUME SearchInv, phase = "search", symbols # << >>
               PROVE  ProbeInside
    BY DEF ProbesInBounds
  <2>1. first \in Nat /\ last \in Int /\ Len(symbols) \in Nat
    BY DEF SearchInv, TypeOK
  <2>2. first <= last /\ last <= Len(symbols) - 1
    BY DEF SearchInv, WindowInside
  <2> QED
    BY <2>1, <2>2, ProbeFacts DEF ProbeInside
<1> QED
  BY InitInv, StepInv, <1>1, PTL DEF Spec

(* A definition of the sought name never leaves the window.                *)
THEOREM WindowAlwaysHoldsKey == Spec => []WindowHoldsKey
<1>1. SearchInv => WindowHoldsKey
  <2> SUFFICES ASSUME SearchInv, phase = "search",
                      NEW i \in 1 .. Len(symbols), symbols[i].name \in key
               PROVE  \E j \in first .. last : symbols[j + 1].name \in key
    BY DEF WindowHoldsKey
  <2>1. PICK n \in Name :
          /\ key = {n}
          /\ n \in Int
          /\ Len(symbols) \in Nat
          /\ \A k \in 1 .. Len(symbols) : symbols[k] \in Symbol /\ symbols[k].name \in Int
          /\ first \in Nat /\ last \in Int
    BY SoughtName
  <2>2. ~ (i <= first) /\ ~ (i >= last + 2)
    BY <2>1 DEF SearchInv, RuledOut
  <2>3. i - 1 \in first .. last /\ (i - 1) + 1 = i
    BY <2>1, <2>2
  <2> QED
    BY <2>3
<1> QED
  BY InitInv, StepInv, <1>1, PTL DEF Spec

(* lookupByName() answers with a symbol of the sought name, and with NULL  *)
(* only for a name no label has: the hand-written search is right for      *)
(* tables of every size, with and without duplicate labels.                *)
THEOREM LookupCorrect == Spec => []AnswerRight
<1>1. SearchInv => AnswerRight
  BY DEF SearchInv
<1> QED
  BY InitInv, StepInv, <1>1, PTL DEF Spec

(* The loop of lookupByName() runs at most once per symbol.                *)
THEOREM WindowAlwaysShrinks == Spec => WindowShrinks
<1> DEFINE Shrinks == phase = "search" /\ phase' = "search" =>
             /\ last' - first' < last - first
             /\ 0 <= first' /\ first' <= last' /\ last' < Len(symbols)
<1>1. SearchInv /\ [Next]_vars => [Shrinks]_vars
  <2> SUFFICES ASSUME SearchInv, Next, phase = "search", phase' = "search"
               PROVE  Shrinks
    OBVIOUS
  <2>1. ProbeSmaller \/ ProbeGreater
    BY DEF Next, AddLabel, SortByName, LookupByName, Probe, ProbeOutside, ProbeEqual
  <2>2. /\ first \in Nat /\ last \in Int /\ Len(symbols) \in Nat
        /\ first <= last /\ last < Len(symbols)
        /\ Probed \in Nat /\ first <= Probed /\ Probed <= last
    BY <2>1, ProbeInWindow DEF SearchInv, TypeOK, ProbeSmaller, ProbeGreater
  <2>3. CASE ProbeSmaller
    BY <2>2, <2>3 DEF ProbeSmaller, LoopOrReturn
  <2>4. CASE ProbeGreater
    BY <2>2, <2>4 DEF ProbeGreater, LoopOrReturn
  <2> QED
    BY <2>1, <2>3, <2>4
<1> QED
  BY InitInv, StepInv, <1>1, PTL DEF Spec, WindowShrinks

-----------------------------------------------------------------------------
(* The refinement: every step of the table is a step of the abstract map   *)
(* or leaves it as it is.                                                  *)

(* Appending a symbol adds it to the set of symbols.                       *)
LEMMA AppendRange ==
  ASSUME NEW S, NEW table \in Seq(S), NEW x \in S
  PROVE  Range(Append(table, x)) = Range(table) \cup {x}
<1>1. /\ DOMAIN table = 1 .. Len(table)
      /\ DOMAIN Append(table, x) = 1 .. Len(table) + 1
      /\ Len(table) \in Nat
  OBVIOUS
<1>2. /\ \A i \in 1 .. Len(table) : Append(table, x)[i] = table[i]
      /\ Append(table, x)[Len(table) + 1] = x
  OBVIOUS
<1>3. ASSUME NEW y \in Range(Append(table, x))  PROVE  y \in Range(table) \cup {x}
  BY <1>1, <1>2 DEF Range
<1>4. ASSUME NEW y \in Range(table) \cup {x}  PROVE  y \in Range(Append(table, x))
  <2>1. CASE y = x
    BY <1>1, <1>2, <2>1 DEF Range
  <2>2. CASE y \in Range(table)
    <3>1. PICK i \in 1 .. Len(table) : y = table[i]
      BY <1>1, <2>2 DEF Range
    <3>2. i \in 1 .. Len(table) + 1 /\ Append(table, x)[i] = y
      BY <1>1, <1>2, <3>1
    <3> QED
      BY <1>1, <3>2 DEF Range
  <2> QED
    BY <2>1, <2>2
<1> QED
  BY <1>3, <1>4

LEMMA InitRefines == Init => Map!MapInit
BY DEF Init, Map!MapInit, Range

LEMMA AddLabelRefines ==
  ASSUME SearchInv, NEW n \in Name, NEW o \in Offset, AddLabel(n, o)
  PROVE  Map!Define(n, o)
<1>1. Range(symbols') = Range(symbols) \cup {[name |-> n, offset |-> o]}
  <2>1. symbols \in Seq(Symbol) /\ [name |-> n, offset |-> o] \in Symbol
    BY DEF SearchInv, TypeOK, Symbol
  <2>2. symbols' = Append(symbols, [name |-> n, offset |-> o])
    BY DEF AddLabel
  <2>3. Range(Append(symbols, [name |-> n, offset |-> o]))
          = Range(symbols) \cup {[name |-> n, offset |-> o]}
    BY <2>1, AppendRange
  <2> QED
    BY <2>2, <2>3
<1>2. match = 0 /\ match' = 0 /\ phase = "build" /\ phase' = "build" /\ key' = key
  BY DEF AddLabel, SearchInv, NothingFoundYet
<1> QED
  BY <1>1, <1>2 DEF Map!Define

LEMMA SortByNameRefines ==
  ASSUME SearchInv, SortByName
  PROVE  Map!Close
<1>1. Range(symbols') = Range(symbols)
  BY SortFacts DEF SortByName, SearchInv, TypeOK
<1>2. match = 0 /\ match' = 0 /\ phase = "build" /\ phase' = "sorted" /\ key' = key
  BY DEF SortByName, SearchInv, NothingFoundYet
<1> QED
  BY <1>1, <1>2 DEF Map!Close

LEMMA LookupByNameRefines ==
  ASSUME NEW n \in Name, LookupByName(n)
  PROVE  Map!Ask(n)
BY DEF LookupByName, Map!Ask

(* A probe that finds the name answers with one of its definitions.        *)
LEMMA ProbeEqualRefines ==
  ASSUME SearchInv, ProbeEqual
  PROVE  Map!Reply
<1>1. /\ phase = "search" /\ phase' = "answered"
      /\ symbols' = symbols /\ key' = key
      /\ match' = Probed + 1 /\ match' # 0
      /\ match' \in 1 .. Len(symbols)
      /\ symbols[match'].name \in key
  BY DEF ProbeEqual, ProbeInside, ProbedSymbol, SearchInv, TypeOK
<1>2. symbols[match'] \in Range(symbols)
  BY <1>1 DEF Range, SearchInv, TypeOK
<1>3. symbols[match'].offset \in Map!Candidates
  BY <1>1, <1>2 DEF Map!Candidates
<1> QED
  BY <1>1, <1>3 DEF Map!Reply

(* A probe that leaves nothing to search answers "undefined", and only     *)
(* when that is so; any other leaves the question open.                    *)
LEMMA NarrowingRefines ==
  ASSUME SearchInv, ProbeSmaller \/ ProbeGreater
  PROVE  Map!Reply \/ UNCHANGED Map!mapVars
<1>1. /\ phase = "search" /\ phase' \in {"search", "answered"}
      /\ symbols' = symbols /\ key' = key /\ match' = match /\ match = 0
  BY DEF ProbeSmaller, ProbeGreater, LoopOrReturn, SearchInv, NothingFoundYet
<1>2. CASE phase' = "search"
  BY <1>1, <1>2 DEF Map!mapVars
<1>3. CASE phase' = "answered"
  <2>1. SearchInv'
    BY ProbeSmallerInv, ProbeGreaterInv
  <2>2. \A n \in key : ~ Defines(symbols, n)
    BY <1>1, <1>3, <2>1 DEF SearchInv, AnswerRight, Defines
  <2>3. Map!Candidates = {}
    BY <2>2 DEF Map!Candidates, Defines
  <2> QED
    BY <1>1, <1>3, <2>3 DEF Map!Reply
<1> QED
  BY <1>1, <1>2, <1>3

LEMMA StepRefines == SearchInv /\ [Next]_vars => [Map!MapNext]_(Map!mapVars)
<1> SUFFICES ASSUME SearchInv, [Next]_vars
             PROVE  Map!MapNext \/ UNCHANGED Map!mapVars
  OBVIOUS
<1>1. CASE \E n \in Name, o \in Offset : AddLabel(n, o)
  BY <1>1, AddLabelRefines DEF Map!MapNext
<1>2. CASE SortByName
  BY <1>2, SortByNameRefines DEF Map!MapNext
<1>3. CASE \E n \in Name : LookupByName(n)
  BY <1>3, LookupByNameRefines DEF Map!MapNext
<1>4. CASE ProbeOutside
  BY <1>4 DEF ProbeOutside, Map!mapVars
<1>5. CASE ProbeEqual
  BY <1>5, ProbeEqualRefines DEF Map!MapNext
<1>6. CASE ProbeSmaller \/ ProbeGreater
  BY <1>6, NarrowingRefines DEF Map!MapNext
<1>7. CASE UNCHANGED vars
  BY <1>7 DEF vars, Map!mapVars
<1> QED
  BY <1>1, <1>2, <1>3, <1>4, <1>5, <1>6, <1>7 DEF Next, Probe

(* The symbol table, binary search, unstable sort and all, implements the  *)
(* abstract map from names to offsets that assem() relies on.              *)
THEOREM TableImplementsMap == Spec => ImplementsMap
BY InitInv, StepInv, InitRefines, StepRefines, PTL DEF Spec, ImplementsMap, Map!MapSpec
=============================================================================
