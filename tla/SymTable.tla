------------------------------ MODULE SymTable ------------------------------
(***************************************************************************)
(* Class SymTable (symtable.cc, symtable.h) as assem() uses it: labels are *)
(* appended while pass 1 runs, the vector is sorted once, and pass 2 looks *)
(* names up with a hand-written binary search.  One step of the search is  *)
(* one turn of the do loop of lookupByName().                              *)
(*                                                                         *)
(* Vector positions (first, last, the probed position) count from 0 as in  *)
(* the code; TLA+ sequences count from 1.                                  *)
(***************************************************************************)
EXTENDS Symbols

CONSTANTS
  Offset,     (* Values of mc_offset_t that a label can be given.          *)
  MaxSymbols  (* Bound: the number of labels one table is given.           *)

Symbol == [name : Name, offset : Offset]

ASSUME MaxSymbolsAssumption == MaxSymbols \in Nat

VARIABLES
  symbols,    (* The vector.                                               *)
  phase,      (* "build", "sorted", "search", "answered" or "crash".       *)
  key,        (* *name of the lookup: a set of at most one name.           *)
  first, last,(* The window of the search.                                 *)
  match       (* The symbol returned: its place in symbols, 0 for NULL.    *)

vars == << symbols, phase, key, first, last, match >>

Init ==
  /\ symbols = << >>
  /\ phase = "build"
  /\ key = {}
  /\ first = 0
  /\ last = 0
  /\ match = 0

-----------------------------------------------------------------------------
(* Building the table.                                                     *)

AddLabel(n, o) ==
  /\ phase = "build"
  /\ Len(symbols) < MaxSymbols
  /\ symbols' = Append(symbols, [name |-> n, offset |-> o])
  /\ UNCHANGED << phase, key, first, last, match >>

(* Fault: the vector is searched as pass 1 left it.                        *)
SortByName_Skipped ==
  /\ phase = "build"
  /\ phase' = "sorted"
  /\ UNCHANGED << symbols, key, first, last, match >>

SortByName ==
  /\ phase = "build"
  /\ symbols' \in SortsOf(symbols)
  /\ phase' = "sorted"
  /\ UNCHANGED << key, first, last, match >>

-----------------------------------------------------------------------------
(* lookupByName().                                                         *)

(* AVG(x, y): C's integer division, which rounds towards zero.             *)
AVG(x, y) == IF x + y >= 0 THEN (x + y) \div 2 ELSE -((-(x + y)) \div 2)

(* Fault: last = symbols.size(), one past the end.                         *)
LookupByName_LastIsSize(n) ==
  /\ phase \in {"sorted", "answered"}
  /\ phase' = "search"
  /\ key' = {n}
  /\ first' = 0
  /\ last' = Len(symbols)
  /\ match' = 0
  /\ UNCHANGED symbols

LookupByName(n) ==
  /\ phase \in {"sorted", "answered"}
  /\ phase' = "search"
  /\ key' = {n}
  /\ first' = 0
  /\ last' = Len(symbols) - 1
  /\ match' = 0
  /\ UNCHANGED symbols

(* The position the loop body probes, and the symbol found there.          *)
Probed == AVG(first, last)
ProbedSymbol == symbols[Probed + 1]
ProbeInside == Probed \in 0 .. Len(symbols) - 1

(* symbols[c] outside the vector: undefined behaviour.  It only happens on *)
(* a vector that never held an element, whose storage is a null pointer:   *)
(* the program dies.                                                       *)
ProbeOutside ==
  /\ phase = "search"
  /\ ~ ProbeInside
  /\ phase' = "crash"
  /\ UNCHANGED << symbols, key, first, last, match >>

(* Fault: the neighbour of the symbol that compared equal is returned.     *)
ProbeEqual_Neighbour ==
  /\ phase = "search"
  /\ ProbeInside
  /\ ProbedSymbol.name \in key
  /\ match' = Probed + 2
  /\ phase' = "answered"
  /\ UNCHANGED << symbols, key, first, last >>

ProbeEqual ==
  /\ phase = "search"
  /\ ProbeInside
  /\ ProbedSymbol.name \in key
  /\ match' = Probed + 1
  /\ phase' = "answered"
  /\ UNCHANGED << symbols, key, first, last >>

(* The test at the end of the do loop: another turn, or return NULL.       *)
(* Fault: while ( first < last ), a window of one symbol is never probed.  *)
LoopOrReturn_Strict == phase' = IF first' < last' THEN "search" ELSE "answered"

LoopOrReturn == phase' = IF first' <= last' THEN "search" ELSE "answered"

(* Fault: first = c + 2, a symbol is stepped over.                         *)
ProbeSmaller_StepsOver ==
  /\ phase = "search"
  /\ ProbeInside
  /\ \A n \in key : n > ProbedSymbol.name
  /\ first' = Probed + 2
  /\ UNCHANGED last
  /\ LoopOrReturn
  /\ UNCHANGED << symbols, key, match >>

(* Fault: first = c, the window need not shrink.                           *)
ProbeSmaller_Stays ==
  /\ phase = "search"
  /\ ProbeInside
  /\ \A n \in key : n > ProbedSymbol.name
  /\ first' = Probed
  /\ UNCHANGED last
  /\ LoopOrReturn
  /\ UNCHANGED << symbols, key, match >>

ProbeSmaller ==
  /\ phase = "search"
  /\ ProbeInside
  /\ \A n \in key : n > ProbedSymbol.name
  /\ first' = Probed + 1
  /\ UNCHANGED last
  /\ LoopOrReturn
  /\ UNCHANGED << symbols, key, match >>

ProbeGreater ==
  /\ phase = "search"
  /\ ProbeInside
  /\ \A n \in key : n < ProbedSymbol.name
  /\ last' = Probed - 1
  /\ UNCHANGED first
  /\ LoopOrReturn
  /\ UNCHANGED << symbols, key, match >>

Probe == ProbeOutside \/ ProbeEqual \/ ProbeSmaller \/ ProbeGreater

Next ==
  \/ \E n \in Name, o \in Offset : AddLabel(n, o)
  \/ SortByName
  \/ \E n \in Name : LookupByName(n)
  \/ Probe

Spec == Init /\ [][Next]_vars

(* A call of lookupByName() that has begun keeps running.                  *)
FairSpec == Spec /\ WF_vars(Probe)

-----------------------------------------------------------------------------
(* Types.                                                                  *)

TypeOK ==
  /\ symbols \in Seq(Symbol)
  /\ phase \in {"build", "sorted", "search", "answered", "crash"}
  /\ key \in {{}} \cup { {n} : n \in Name }
  /\ first \in Nat
  /\ last \in Int
  /\ match \in 0 .. Len(symbols)

-----------------------------------------------------------------------------
(* Safety.                                                                 *)

(* lookupByName() never reads symbols[c] outside the vector unless the     *)
(* vector is empty: the window stays inside it and AVG inside the window.  *)
ProbesInBounds ==
  phase = "search" /\ symbols # << >> => ProbeInside

(* What makes the search right: as long as it runs, a definition of the    *)
(* sought name, if there is one, lies in the window.                       *)
WindowHoldsKey ==
  phase = "search" =>
    \A i \in 1 .. Len(symbols) :
      symbols[i].name \in key => \E j \in first .. last : symbols[j + 1].name \in key

(* lookupByName() returns a symbol of the sought name, or NULL, and NULL   *)
(* only when no label of that name was ever added.                         *)
AnswerRight ==
  phase = "answered" =>
    \/ match # 0 /\ symbols[match].name \in key
    \/ match = 0 /\ \A n \in key : ~ Defines(symbols, n)

(* Every turn of the loop that moves a bound and does not return leaves a  *)
(* strictly smaller window that is still a window of the vector.           *)
(* (A turn that moved no bound would repeat for ever: LookupReturns.)      *)
WindowShrinks ==
  [][ phase = "search" /\ phase' = "search" =>
        /\ last' - first' < last - first
        /\ 0 <= first' /\ first' <= last' /\ last' < Len(symbols) ]_vars

-----------------------------------------------------------------------------
(* Liveness.                                                               *)

(* Every lookup in a table with at least one label returns.                *)
LookupReturns == (phase = "search" /\ symbols # << >>) ~> (phase = "answered")

-----------------------------------------------------------------------------
(* Refinement: the table implements the abstract map.  A lookup that       *)
(* crashed has been asked and is never answered.                           *)

Map == INSTANCE SymMap WITH
  defs  <- Range(symbols),
  mode  <- CASE phase = "build"    -> "defining"
             [] phase = "sorted"   -> "idle"
             [] phase = "answered" -> "answered"
             [] OTHER              -> "asked",
  asked <- key,
  reply <- IF match = 0 THEN {} ELSE {symbols[match].offset}

ImplementsMap == Map!MapSpec

-----------------------------------------------------------------------------
(* What the program's own message promises.                                *)

(* A reference to a name no table defines is reported as undefined         *)
(* (plasm.cc:223); lookupByName() is to return NULL for it, whatever the   *)
(* table holds.                                                            *)
UndefinedIsReported == phase # "crash"
=============================================================================
