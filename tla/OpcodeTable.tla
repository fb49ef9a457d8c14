---------------------------- MODULE OpcodeTable ----------------------------
(***************************************************************************)
(* The table of opcodes of an encoder: filled by initTable(), which awk    *)
(* writes from a header of #defines, sorted by the constructor, and        *)
(* searched with lower_bound() of the C++ library (SortedTable).           *)
(*                                                                         *)
(* A mnemonic is an integer: only its place in the lexical order matters.  *)
(***************************************************************************)
EXTENDS SortedTable, Functions

CONSTANTS
  Mnemonic,     (* Opcodes a source can have, by their place in the order. *)
  InitTable     (* The entries in the order of the header: records with a  *)
                (* mnemonic, assem, and what it stands for.                *)

ASSUME OpcodeTableAssumption ==
  /\ Mnemonic \subseteq Nat \ {0}
  /\ InitTable \in Seq(Range(InitTable))
  /\ \A i \in 1 .. Len(InitTable) : InitTable[i].assem \in Mnemonic
  /\ \A i, j \in 1 .. Len(InitTable) : i # j => InitTable[i].assem # InitTable[j].assem

(* The empty opcode, in front of all in the order.                         *)
NoMnemonic == 0

opcodeTable == SortsTo(InitTable)

(* Fault: what is sought is taken for smaller than its equal.              *)
lower_bound_Upper(key) ==
  LET search[length \in 0 .. Len(InitTable)] ==
        [first \in 1 .. Len(InitTable) + 1 - length |->
           LET half == length \div 2
               middle == first + half
           IN IF length = 0 THEN first
              ELSE IF key < opcodeTable[middle].assem THEN search[half][first]
              ELSE search[length - half - 1][middle + 1]]
  IN search[Len(InitTable)][1]

(* The first entry that is not smaller than the key, or, behind the last   *)
(* entry, end().                                                           *)
lower_bound(key) == LowerBound(opcodeTable, key)

end == Len(InitTable) + 1

(* translateOpcode() reads the entry before it compares.  What is read at  *)
(* end() is not the name sought, if it can be read at all.                 *)
Found(mn) == lower_bound(mn) # end /\ opcodeTable[lower_bound(mn)].assem = mn
opcode_found(mn) == opcodeTable[lower_bound(mn)]

-----------------------------------------------------------------------------
(* The table as a map, to say what should be found.                        *)
Known(mn) == \E i \in 1 .. Len(InitTable) : InitTable[i].assem = mn
Entry(mn) == InitTable[CHOOSE i \in 1 .. Len(InitTable) : InitTable[i].assem = mn]
BehindLast(mn) == \A i \in 1 .. Len(InitTable) : InitTable[i].assem < mn

(* What std::sort() and std::lower_bound() come to, together: an opcode is *)
(* found exactly if it is in the table, with its own entry, and the end is *)
(* reached only by what is behind all of the table.                        *)
SearchIsExact ==
  \A mn \in Mnemonic :
    /\ Found(mn) <=> Known(mn)
    /\ Known(mn) => opcode_found(mn) = Entry(mn)
    /\ lower_bound(mn) = end => BehindLast(mn)
=============================================================================
