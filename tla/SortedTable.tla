---------------------------- MODULE SortedTable ----------------------------
(***************************************************************************)
(* What std::sort and std::lower_bound do to a vector of opcodes: records  *)
(* with a mnemonic, assem.  No two have the same one, so that only one     *)
(* order is sorted, whatever way the library takes to it.                  *)
(***************************************************************************)
EXTENDS Integers, Sequences

opcode_compare(op1, op2) == op1.assem < op2.assem

(* An opcode put into its place of a sorted table.                         *)
Insert(table, op) ==
  [i \in 1 .. Len(table) + 1 |->
     IF i <= Len(table) /\ opcode_compare(table[i], op) THEN table[i]
     ELSE IF i = 1 \/ opcode_compare(table[i - 1], op) THEN op
     ELSE table[i - 1]]

(* The first n opcodes in order, for every n.                              *)
SortedUpTo(ops) ==
  LET sorted[n \in 0 .. Len(ops)] ==
        IF n = 0 THEN << >> ELSE Insert(sorted[n - 1], ops[n])
  IN  sorted

SortsTo(ops) == SortedUpTo(ops)[Len(ops)]

(* The halving search of std::lower_bound(), for every length and start of *)
(* what is still to be searched.                                           *)
Searches(table, key) ==
  LET search[length \in 0 .. Len(table)] ==
        [first \in 1 .. Len(table) + 1 - length |->
           LET half == length \div 2
               middle == first + half
           IN IF length = 0 THEN first
              ELSE IF table[middle].assem < key THEN search[length - half - 1][middle + 1]
              ELSE search[half][first]]
  IN  search

(* The first entry that is not smaller than the key, or the end.           *)
LowerBound(table, key) == Searches(table, key)[Len(table)][1]
=============================================================================
