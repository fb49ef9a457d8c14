----------------------------- MODULE MCSymTable -----------------------------
(***************************************************************************)
(* Instance of SymTable for TLC.  Three names leave room for a sought name *)
(* below, between and above the defined ones; four symbols make a search   *)
(* of up to three probes, in both halves, and duplicate labels.            *)
(***************************************************************************)
EXTENDS SymTable

MCName == 1 .. 3
MCOffset == 0 .. 1
MCMaxSymbols == 4
=============================================================================
