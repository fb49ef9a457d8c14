------------------------------- MODULE SymMap -------------------------------
(***************************************************************************)
(* What a symbol table promises its user, assem(): definitions are         *)
(* collected, then closed, and from then on every question about a name is *)
(* answered with the offset of one of its definitions, or with "undefined" *)
(* exactly when it has none.  How the answer is found is not said.         *)
(***************************************************************************)
CONSTANTS
  Name,     (* Names that can be defined and asked for.                    *)
  Offset    (* Offsets a name can be given.                                *)

VARIABLES
  defs,     (* The definitions: a set of name and offset records.          *)
  mode,     (* "defining", "idle", "asked" or "answered".                  *)
  asked,    (* The names in question: none, or the one last asked for.     *)
  reply     (* {} for undefined, else the one offset that was answered.    *)

mapVars == << defs, mode, asked, reply >>

MapInit ==
  /\ defs = {}
  /\ mode = "defining"
  /\ asked = {}
  /\ reply = {}

Define(n, o) ==
  /\ mode = "defining"
  /\ defs' = defs \cup {[name |-> n, offset |-> o]}
  /\ UNCHANGED << mode, asked, reply >>

Close ==
  /\ mode = "defining"
  /\ mode' = "idle"
  /\ UNCHANGED << defs, asked, reply >>

Ask(n) ==
  /\ mode \in {"idle", "answered"}
  /\ mode' = "asked"
  /\ asked' = {n}
  /\ reply' = {}
  /\ UNCHANGED defs

Candidates == { d.offset : d \in { e \in defs : e.name \in asked } }

Reply ==
  /\ mode = "asked"
  /\ mode' = "answered"
  /\ IF Candidates = {} THEN reply' = {} ELSE \E o \in Candidates : reply' = {o}
  /\ UNCHANGED << defs, asked >>

MapNext ==
  \/ \E n \in Name, o \in Offset : Define(n, o)
  \/ Close
  \/ \E n \in Name : Ask(n)
  \/ Reply

MapSpec == MapInit /\ [][MapNext]_mapVars
=============================================================================
