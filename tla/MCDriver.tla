----------------------------- MODULE MCDriver -----------------------------
(***************************************************************************)
(* Instance of Driver for TLC: sources that share their stem.  One can be  *)
(* edited, and gets shorter; one has an extension that main() accepts and  *)
(* assem() does not; one has an extension that neither accepts; and one is *)
(* missing.                                                                *)
(***************************************************************************)
EXTENDS Driver

Named(ext) == [stem |-> "x", pp |-> FALSE, ext |-> ext, suffix |-> ""]

MCSource == { Named(e) : e \in {"ecisc", "riscv", "ecisc~", "txt", "missing"} }

Code(f, n) == [of |-> f, n |-> n, seg |-> "code"]
Data(f, n) == [of |-> f, n |-> n, seg |-> "data"]

Long(f) == << Data(f, 1), Code(f, 2) >>
Short(f) == << Code(f, 3) >>

MCText == [f \in MCSource |-> IF f.ext = "ecisc" THEN { Short(f) } ELSE {}]

MCPresent == { f \in MCSource : f.ext # "missing" }
MCNewDirectory ==
  { [f \in MCPresent |-> CASE f.ext = "ecisc" -> Long(f)
                            [] f.ext = "riscv" -> << Code(f, 4), Code(f, 5) >>
                            [] OTHER           -> Short(f)] }

(* The file that the script renames is there, from long ago, until a script*)
(* has renamed it; or it has never been.                                   *)
MCOldDirectory ==
  { (ScriptBin(PpSource(Named("ecisc"))) :> << End >>) @@ d : d \in MCNewDirectory }
=============================================================================
