------------------------------ MODULE Symbols ------------------------------
(***************************************************************************)
(* The names of labels, and what std::sort may do to a vector of symbols:  *)
(* records with a name.                                                    *)
(*                                                                         *)
(* A name is an integer: the assembler only ever compares two names with   *)
(* == and <, so its position in the lexical order is all that matters.     *)
(***************************************************************************)
EXTENDS Integers, Sequences, Functions

CONSTANT
  Name      (* Label names, by their position in the lexical order.        *)

ASSUME NameAssumption == Name \subseteq Int

(* symbol_compare(): sorted by name alone; equal names stay in any order.  *)
Sorted(table) ==
  \A i, j \in 1 .. Len(table) : i < j => table[i].name <= table[j].name

(* What std::sort can leave in the vector.  It is not a stable sort, so    *)
(* every sorted rearrangement is a possible outcome.                       *)
SortsOf(table) ==
  { sorted \in { [i \in 1 .. Len(table) |-> table[f[i]]] :
                   f \in Bijection(1 .. Len(table), 1 .. Len(table)) } :
      Sorted(sorted) }

(* One of the symbols of the table is called n.                            *)
Defines(table, n) == \E s \in Range(table) : s.name = n
=============================================================================
