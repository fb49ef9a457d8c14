-------------------------------- MODULE Sums --------------------------------
(***************************************************************************)
(* Sums over a sequence of numbers: of the bytes of a statement, and of    *)
(* the digits that are written for it.                                     *)
(***************************************************************************)
EXTENDS Integers, Sequences

(* The sums of the first i numbers, for every i.                           *)
Totals(s) ==
  LET total[i \in 0 .. Len(s)] == IF i = 0 THEN 0 ELSE total[i - 1] + s[i]
  IN  total

Total(s) == Totals(s)[Len(s)]

(* The digits of the pieces of code written one after another, and of      *)
(* several of such sequences.                                              *)
Digits(pieces) == Total([j \in 1 .. Len(pieces) |-> pieces[j].digits])
DigitsWritten(code) == Total([i \in 1 .. Len(code) |-> Digits(code[i])])
=============================================================================
