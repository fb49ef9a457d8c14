------------------------------- MODULE Driver -------------------------------
(***************************************************************************)
(* The program as its users run it: main() and the control of assem()      *)
(* (plasm.cc), openFiles() (transunit.cc) and the wrapper script plasm.    *)
(* Several runs may go on at once, on one source or on several; what they  *)
(* share is the directory: sources, images, and the files that pass 1      *)
(* writes and pass 2 reads back.                                           *)
(*                                                                         *)
(* How a line is translated is the subject of Assem; here a line of the    *)
(* source, its row in a pass-1 file and its row in the image are the same  *)
(* cell, and all cells are equally long.                                   *)
(***************************************************************************)
EXTENDS Integers, SequencesExt, Functions

CONSTANTS
  Proc,       (* Processes: each runs plasm.bin, or the script, repeatedly.*)
  Source,     (* The names of the source files.                            *)
  Text,       (* The texts each of them may be given.                      *)
  Directory,  (* What the directory may hold to begin with.                *)
  MaxRuns,    (* Bound: the runs that are started,                         *)
  MaxEdits    (* and the edits of a source.                                *)

(* main() accepts a name with .ecisc or .riscv anywhere in it, assem() only*)
(* one that ends so: "ecisc~" stands for a name with something behind.     *)
Language == {"ecisc", "riscv"}
Accepted == Language \cup {"ecisc~"}

(* A name is stem-pp.ext.suffix, where all but the stem may be missing.    *)
FileName ==
  [stem   : { s.stem : s \in Source } \cup {"standard-input"},
   pp     : BOOLEAN,
   ext    : { s.ext : s \in Source } \cup {""},
   suffix : {"", "bin", "pass1-code", "pass1-data"}]
StandardInput == [stem |-> "standard-input", pp |-> FALSE, ext |-> "", suffix |-> ""]

(* Fault: the image is named as the script expects it.                     *)
OutfileName_Stem(f) == [f EXCEPT !.ext = "", !.suffix = "bin"]

OutfileName(f) == [f EXCEPT !.suffix = "bin"]

(* Fault: the name of the pass-1 file has no room for the extension.       *)
CodeFileName_Stem(f) == [f EXCEPT !.ext = "", !.suffix = "pass1-code"]

CodeFileName(f) == [f EXCEPT !.suffix = "pass1-code"]
DataFileName(f) == [f EXCEPT !.suffix = "pass1-data"]

(* In the script: ${source%.*}-pp.${source##*.} and ${f%.*}.bin.           *)
PpSource(f) == [f EXCEPT !.pp = TRUE]
ScriptBin(f) == [f EXCEPT !.ext = "", !.suffix = "bin"]

Infile == Source \cup { PpSource(s) : s \in Source }
File ==
  UNION { {f, OutfileName(f), CodeFileName(f), DataFileName(f), ScriptBin(f)} : f \in Infile }

(* Cells: the lines of a source, with their segment; what follows the data *)
(* in an image; and what a write behind the end of a file leaves between.  *)
Cell == [of : Source, n : Nat, seg : {"code", "data"}]
End == [of |-> StandardInput, n |-> 0, seg |-> "end"]
Hole == [of |-> StandardInput, n |-> 0, seg |-> "hole"]

AnyCell == Cell \cup {End, Hole}

(* The files that belong to a source, and the rows that do: papp takes the *)
(* lines of the source over.                                               *)
FilesOf(f) == {f, OutfileName(f), CodeFileName(f), DataFileName(f)}
OwnCell(f) == { c \in AnyCell : c \in {End, Hole} \/ PpSource(c.of) = PpSource(f) }

(* A directory in which no run has mixed up two sources.                   *)
Proper(directory) ==
  /\ DOMAIN directory \subseteq File
  /\ \A g \in DOMAIN directory : directory[g] \in Seq(AnyCell)
  /\ \A f \in Infile : \A g \in FilesOf(f) \cap DOMAIN directory :
       directory[g] \in Seq(OwnCell(f))

(* A source has an extension (the script cuts other names at other places),*)
(* and what is in the directory to begin with comes from runs like these.  *)
ASSUME DriverAssumption ==
  /\ Source \subseteq FileName
  /\ \A s \in Source :
       ~ s.pp /\ s.ext # "" /\ s.suffix = "" /\ Text[s] \subseteq Seq(OwnCell(s))
  /\ \A directory \in Directory : Proper(directory)
  /\ MaxRuns \in Nat /\ MaxEdits \in Nat

VARIABLES
  file,       (* The directory: the text of each file that is there.       *)
  pc,         (* Where each process is,                                    *)
  job,        (* what it assembles: [src, in, script], in # src in a script*)
  stream,     (* its streams: lines of infile read ahead, positions, and   *)
              (* the output that is not written yet,                       *)
  status,     (* and the exit status it ends with.                         *)
  runs, edits,
  clean,      (* History: processes that could open all their files and    *)
              (* whose source no one else has used or changed meanwhile.   *)
  made,       (* History: the image that the last run on a source owes us, *)
              (* for the sources where that run is or was clean;           *)
  whole       (* and the sources of those runs that have ended with EX_OK. *)

history == << runs, edits, clean, made, whole >>
vars == << file, pc, job, stream, status, history >>

Closed ==
  [infile |-> << >>, infileAt |-> 0, codeAt |-> 0, dataAt |-> 0, dataOpen |-> FALSE,
   buffer |-> << >>, outfileAt |-> 0]

Init ==
  /\ file \in Directory
  /\ pc = [p \in Proc |-> "idle"]
  /\ job = [p \in Proc |-> [src |-> StandardInput, in |-> StandardInput, script |-> FALSE]]
  /\ stream = [p \in Proc |-> Closed]
  /\ status = [p \in Proc |-> ""]
  /\ runs = 0 /\ edits = 0
  /\ clean = {}
  /\ made = << >>
  /\ whole = {}

-----------------------------------------------------------------------------
(* Helpers.                                                                *)

(* The rows of one segment, of the first n lines of a text, for every n.   *)
RowsUpTo(text, seg) ==
  LET rows[n \in 0 .. Len(text)] ==
        IF n = 0 THEN << >>
        ELSE IF text[n].seg = seg THEN Append(rows[n - 1], text[n]) ELSE rows[n - 1]
  IN  rows

Rows(text, seg) == RowsUpTo(text, seg)[Len(text)]

(* What a run on a source with this text owes us: the code, then the data. *)
ImageOf(text) == Rows(text, "code") \o Rows(text, "data") \o << End >>

(* A write at this position: over what is there, and behind the end.       *)
WriteAt(text, at, cells) ==
  LET Upto == IF Len(text) > at + Len(cells) THEN Len(text) ELSE at + Len(cells) IN
  [i \in 1 .. Upto |->
     IF i \in at + 1 .. at + Len(cells) THEN cells[i - at]
     ELSE IF i <= Len(text) THEN text[i] ELSE Hole]

Put(g, f, t) == [h \in DOMAIN g \cup {f} |-> IF h = f THEN t ELSE g[h]]
Without(g, f) == RestrictDomain(g, LAMBDA h : h # f)

(* Fault: a file that is there is opened as it is.                         *)
Truncated_AsItIs(f) == IF f \in DOMAIN file THEN file ELSE Put(file, f, << >>)

Truncated(f) == Put(file, f, << >>)
Written(f, at, cells) == [file EXCEPT ![f] = WriteAt(@, at, cells)]

Active(p) == pc[p] \notin {"idle", "ended"}
in(p) == job[p].in
Users(f) == { p \in Proc : Active(p) /\ in(p) = f }

Goto(p, where) == pc' = [pc EXCEPT ![p] = where]

(* Process p, or the plasm.bin that the script p has started, exits.  After*)
(* EX_OK the script goes on, otherwise sh -e ends it.                      *)
Exit(p, s) ==
  /\ stream' = [stream EXCEPT ![p] = Closed]
  /\ IF s = "EX_OK" /\ job[p].script
       THEN Goto(p, "rename") /\ UNCHANGED status
       ELSE Goto(p, "ended") /\ status' = [status EXCEPT ![p] = s]

-----------------------------------------------------------------------------
(* The users.                                                              *)

Start(p, f, script, where) ==
  /\ pc[p] = "idle"
  /\ runs < MaxRuns
  /\ LET infile == IF script THEN PpSource(f) ELSE f IN
     /\ job' = [job EXCEPT ![p] = [src |-> f, in |-> infile, script |-> script]]
     /\ clean' = IF Users(infile) = {} THEN clean \cup {p} ELSE clean \ Users(infile)
     /\ made' = IF Users(infile) = {} THEN made ELSE Without(made, infile)
  /\ Goto(p, where)
  /\ runs' = runs + 1
  /\ UNCHANGED << file, stream, status, edits, whole >>

Run(p) == \E f \in Source : Start(p, f, FALSE, "open")
RunOnStandardInput(p) == Start(p, StandardInput, FALSE, "language")
RunScript(p) == \E f \in Source : Start(p, f, TRUE, "redirect")

(* The exit status is read, and the process can be used again.             *)
Reap(p) ==
  /\ pc[p] = "ended"
  /\ Goto(p, "idle")
  /\ status' = [status EXCEPT ![p] = ""]
  /\ clean' = clean \ {p}
  /\ UNCHANGED << file, job, stream, runs, edits, made, whole >>

Edit ==
  /\ edits < MaxEdits
  /\ \E f \in Source : \E t \in Text[f] :
       /\ file' = Put(file, f, t)
       /\ clean' = clean \ Users(f)
       /\ made' = IF Users(f) = {} THEN made ELSE Without(made, f)
  /\ edits' = edits + 1
  /\ UNCHANGED << pc, job, stream, status, runs, whole >>

-----------------------------------------------------------------------------
(* The script: papp "$source" > "$pp_source".                              *)

Redirect(p) ==
  /\ pc[p] = "redirect"
  /\ \/ /\ file' = Truncated(in(p))
        /\ Goto(p, "papp")
        /\ UNCHANGED << stream, status >>
     \/ Exit(p, "1") /\ UNCHANGED file
  /\ UNCHANGED << job, history >>

(* papp is not part of the repository; that it copies is as good as any.   *)
Papp(p) ==
  /\ pc[p] = "papp"
  /\ \/ /\ job[p].src \in DOMAIN file
        /\ file' = Written(in(p), 0, file[job[p].src])
        /\ Goto(p, "open")
        /\ UNCHANGED << stream, status >>
     \/ Exit(p, "1") /\ UNCHANGED file
  /\ UNCHANGED << job, history >>

(* mv "${pp_source%.*}.bin" "${source%.*}.bin", with plasm.bin behind it.  *)
Rename(p) ==
  /\ pc[p] = "rename"
  /\ LET from == ScriptBin(in(p))
         to   == ScriptBin(job[p].src) IN
     IF from \in DOMAIN file
       THEN /\ file' = Without(Put(file, to, file[from]), from)
            /\ status' = [status EXCEPT ![p] = "EX_OK"]
       ELSE /\ status' = [status EXCEPT ![p] = "1"]
            /\ UNCHANGED file
  /\ Goto(p, "ended")
  /\ UNCHANGED << job, stream, history >>

-----------------------------------------------------------------------------
(* main().                                                                 *)

OpenSource(p) ==
  /\ pc[p] = "open"
  /\ IF in(p) \notin DOMAIN file THEN Exit(p, "EX_UNAVAILABLE")
     ELSE IF in(p).ext \notin Accepted THEN Exit(p, "EX_USAGE")
     ELSE Goto(p, "output") /\ UNCHANGED << stream, status >>
  /\ UNCHANGED << file, job, history >>

(* What this run owes us from now on.                                      *)
Owed(p) ==
  IF p \in clean THEN Put(made, in(p), ImageOf(file[in(p)])) ELSE Without(made, in(p))

(* Fault: the program says that it cannot write, and goes on.              *)
OpenOutput_GoesOn(p) ==
  /\ pc[p] = "output"
  /\ \/ /\ file' = Truncated(OutfileName(in(p)))
        /\ made' = Owed(p)
        /\ whole' = whole \ {in(p)}
        /\ UNCHANGED status
     \/ status' = [status EXCEPT ![p] = "EX_UNAVAILABLE"] /\ UNCHANGED << file, made, whole >>
  /\ Goto(p, "language")
  /\ UNCHANGED << job, stream, runs, edits, clean >>

OpenOutput(p) ==
  /\ pc[p] = "output"
  /\ \/ /\ file' = Truncated(OutfileName(in(p)))
        /\ Goto(p, "language")
        /\ made' = Owed(p)
        /\ whole' = whole \ {in(p)}
        /\ UNCHANGED << stream, status >>
     \/ Exit(p, "EX_UNAVAILABLE") /\ UNCHANGED << file, made, whole >>
  /\ UNCHANGED << job, runs, edits, clean >>

-----------------------------------------------------------------------------
(* assem(): the class for the language, and openFiles().                   *)

ChooseLanguage(p) ==
  /\ pc[p] = "language"
  /\ IF in(p).ext \in Language THEN Goto(p, "codefile") /\ UNCHANGED << stream, status >>
     ELSE Exit(p, "EX_USAGE")
  /\ UNCHANGED << file, job, history >>

OpenCodeFile(p) ==
  /\ pc[p] = "codefile"
  /\ \/ /\ file' = Truncated(CodeFileName(in(p)))
        /\ Goto(p, "datafile")
        /\ UNCHANGED << stream, status >>
     \/ Exit(p, "EX_CANTCREAT") /\ UNCHANGED file
  /\ UNCHANGED << job, history >>

(* If it fails, no one notices: the test is of the code file again.        *)
OpenDataFile(p) ==
  /\ pc[p] = "datafile"
  /\ \/ /\ file' = Truncated(DataFileName(in(p)))
        /\ stream' = [stream EXCEPT ![p].dataOpen = TRUE]
        /\ UNCHANGED << clean, made >>
     \/ /\ clean' = clean \ {p}
        /\ made' = Without(made, in(p))
        /\ UNCHANGED << file, stream >>
  /\ Goto(p, "pass1")
  /\ UNCHANGED << job, status, runs, edits, whole >>

-----------------------------------------------------------------------------
(* assem(), pass 1.                                                        *)

(* The stream reads a block ahead, of any number of lines.                 *)
ReadAhead(p) ==
  /\ pc[p] = "pass1"
  /\ stream[p].infile = << >>
  /\ \E upto \in stream[p].infileAt + 1 .. Len(file[in(p)]) :
       stream' = [stream EXCEPT ![p].infileAt = upto,
                    ![p].infile = SubSeq(file[in(p)], stream[p].infileAt + 1, upto)]
  /\ UNCHANGED << file, pc, job, status, history >>

(* A row ends with endl: it is written at once.                            *)
TranslateLine(p) ==
  /\ pc[p] = "pass1"
  /\ stream[p].infile # << >>
  /\ LET c == Head(stream[p].infile) IN
     \/ /\ c.seg = "code"
        /\ file' = Written(CodeFileName(in(p)), stream[p].codeAt, << c >>)
        /\ stream' = [stream EXCEPT ![p].infile = Tail(@), ![p].codeAt = @ + 1]
     \/ /\ c.seg = "data"
        /\ stream[p].dataOpen
        /\ file' = Written(DataFileName(in(p)), stream[p].dataAt, << c >>)
        /\ stream' = [stream EXCEPT ![p].infile = Tail(@), ![p].dataAt = @ + 1]
     \/ /\ c.seg = "data"
        /\ ~ stream[p].dataOpen
        /\ stream' = [stream EXCEPT ![p].infile = Tail(@)]
        /\ UNCHANGED file
  /\ UNCHANGED << pc, job, status, history >>

(* Fault: only the code is rewound.                                        *)
EndOfSource_CodeOnly(p) ==
  /\ pc[p] = "pass1"
  /\ stream[p].infile = << >>
  /\ stream[p].infileAt >= Len(file[in(p)])
  /\ stream' = [stream EXCEPT ![p].codeAt = 0]
  /\ Goto(p, "code")
  /\ UNCHANGED << file, job, status, history >>

EndOfSource(p) ==
  /\ pc[p] = "pass1"
  /\ stream[p].infile = << >>
  /\ stream[p].infileAt >= Len(file[in(p)])
  /\ stream' = [stream EXCEPT ![p].codeAt = 0, ![p].dataAt = 0]
  /\ Goto(p, "code")
  /\ UNCHANGED << file, job, status, history >>

-----------------------------------------------------------------------------
(* assem(), pass 2.  Output collects in a buffer.                          *)

(* The loop of ECISC copies whatever comes; the others read a number first.*)
CodeLeft(p) ==
  LET text == file[CodeFileName(in(p))] IN
  /\ stream[p].codeAt < Len(text)
  /\ in(p).ext = "ecisc" \/ text[stream[p].codeAt + 1] # Hole

DataLeft(p) ==
  LET text == file[DataFileName(in(p))] IN
  /\ stream[p].dataOpen
  /\ stream[p].dataAt < Len(text)
  /\ text[stream[p].dataAt + 1] # Hole

CopyCodeRow(p) ==
  /\ pc[p] = "code"
  /\ CodeLeft(p)
  /\ stream' = [stream EXCEPT ![p].codeAt = @ + 1, ![p].buffer =
                  Append(@, file[CodeFileName(in(p))][stream[p].codeAt + 1])]
  /\ UNCHANGED << file, pc, job, status, history >>

(* Fault: the loop goes on until the end of the file, and not until a read *)
(* fails.                                                                  *)
EndOfCode_AtEof(p) ==
  /\ pc[p] = "code"
  /\ stream[p].codeAt >= Len(file[CodeFileName(in(p))])
  /\ Goto(p, "data")
  /\ UNCHANGED << file, job, stream, status, history >>

EndOfCode(p) ==
  /\ pc[p] = "code"
  /\ ~ CodeLeft(p)
  /\ Goto(p, "data")
  /\ UNCHANGED << file, job, stream, status, history >>

CopyDataRow(p) ==
  /\ pc[p] = "data"
  /\ DataLeft(p)
  /\ stream' = [stream EXCEPT ![p].dataAt = @ + 1, ![p].buffer =
                  Append(@, file[DataFileName(in(p))][stream[p].dataAt + 1])]
  /\ UNCHANGED << file, pc, job, status, history >>

(* main() returns what assem() did, and the destructor of outfile writes   *)
(* the rest.                                                               *)
EndOfData(p) ==
  /\ pc[p] = "data"
  /\ ~ DataLeft(p)
  /\ file' = Written(OutfileName(in(p)), stream[p].outfileAt, Append(stream[p].buffer, End))
  /\ Exit(p, "EX_OK")
  /\ whole' = IF p \in clean THEN whole \cup {in(p)} ELSE whole
  /\ UNCHANGED << job, runs, edits, clean, made >>

(* The buffer is written when it is full: at any time.                     *)
Flush(p) ==
  /\ pc[p] \in {"code", "data"}
  /\ stream[p].buffer # << >>
  /\ file' = Written(OutfileName(in(p)), stream[p].outfileAt, stream[p].buffer)
  /\ stream' = [stream EXCEPT ![p].outfileAt = @ + Len(stream[p].buffer), ![p].buffer = << >>]
  /\ UNCHANGED << pc, job, status, history >>

(* Pass 1 may crash at an opcode behind the last of the table, pass 2 at a *)
(* label: the output that is not written is lost.                          *)
Crash(p) ==
  /\ pc[p] \in {"pass1", "code"}
  /\ Exit(p, "SIGSEGV")
  /\ UNCHANGED << file, job, history >>

-----------------------------------------------------------------------------
(* The steps of a run that has started.                                    *)
Step(p) ==
  \/ Redirect(p) \/ Papp(p) \/ Rename(p)
  \/ OpenSource(p) \/ OpenOutput(p)
  \/ ChooseLanguage(p) \/ OpenCodeFile(p) \/ OpenDataFile(p)
  \/ ReadAhead(p) \/ TranslateLine(p) \/ EndOfSource(p)
  \/ CopyCodeRow(p) \/ EndOfCode(p) \/ CopyDataRow(p) \/ EndOfData(p)
  \/ Flush(p)

Next ==
  \/ Edit
  \/ \E p \in Proc :
       Run(p) \/ RunOnStandardInput(p) \/ RunScript(p) \/ Step(p) \/ Crash(p) \/ Reap(p)

Spec == Init /\ [][Next]_vars

(* The system schedules every process that has work to do; a crash is not  *)
(* work.                                                                   *)
FairSpec == Spec /\ \A p \in Proc : WF_vars(Step(p))

-----------------------------------------------------------------------------
PC == {"idle", "redirect", "papp", "open", "output", "language", "codefile",
       "datafile", "pass1", "code", "data", "rename", "ended"}
Status == {"EX_OK", "EX_USAGE", "EX_UNAVAILABLE", "EX_CANTCREAT", "SIGSEGV", "1"}

(* A process has an exit status when it has ended, and holds no stream     *)
(* then; every file is a sequence of rows.                                 *)
TypeOK ==
  /\ DOMAIN file \subseteq File
  /\ \A f \in DOMAIN file : file[f] \in Seq(AnyCell)
  /\ pc \in [Proc -> PC]
  /\ \A p \in Proc : status[p] \in IF pc[p] = "ended" THEN Status ELSE {""}
  /\ \A p \in Proc : ~ Active(p) => stream[p] = Closed
  /\ clean \subseteq Proc
  /\ runs \in 0 .. MaxRuns /\ edits \in 0 .. MaxEdits
  /\ whole \subseteq Infile

(* Whatever else runs, on other sources or on the same, and whatever is    *)
(* left over from earlier runs: an image has rows of its own source only.  *)
RowsAreOwn ==
  \A f \in Infile :
    OutfileName(f) \in DOMAIN file =>
      \A c \in Range(file[OutfileName(f)]) :
        c \in {End, Hole} \/ PpSource(c.of) = PpSource(f)

(* The image of a source that is not shared while it is assembled is the   *)
(* beginning of what the run owes, however early the run crashes, and no   *)
(* row of an earlier, longer text is left in it.                           *)
ImageIsPrefix ==
  \A f \in DOMAIN made : IsPrefix(file[OutfileName(f)], made[f])

(* After EX_OK it is all there, whatever has been run since on other       *)
(* sources, up to the next run on this one.                                *)
ImageIsWhole ==
  \A f \in whole \cap DOMAIN made : file[OutfileName(f)] = made[f]

(* Every run ends, whatever the others write to its files.                 *)
RunEnds == \A p \in Proc : Active(p) ~> pc[p] = "ended"

(* test.sh: ./plasm test.ecisc, more test.bin.  When plasm.bin has ended   *)
(* well, the file that the script is about to rename is its image.         *)
ScriptFindsImage ==
  \A p \in clean : pc[p] = "rename" =>
    ScriptBin(in(p)) \in DOMAIN file /\ file[ScriptBin(in(p))] = made[in(p)]
=============================================================================
