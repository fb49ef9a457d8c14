---------------------------- MODULE DriverProofs ----------------------------
(***************************************************************************)
(* Theorems about Driver, for any number of processes, runs, edits and     *)
(* sources: whatever is interleaved, and on whatever files, no image gets  *)
(* a row of another source, and the image of a source that is left alone   *)
(* while it is assembled is the rows of its text, as far as the run got.   *)
(***************************************************************************)
EXTENDS Driver, SequenceFacts

(* The conjuncts of the inductive invariant.                               *)

Job == [src : FileName, in : FileName, script : BOOLEAN]

Stream ==
  [infile : Seq(AnyCell), infileAt : Nat, codeAt : Nat, dataAt : Nat, dataOpen : BOOLEAN,
   buffer : Seq(AnyCell), outfileAt : Nat]

Typed ==
  /\ pc \in [Proc -> PC]
  /\ job \in [Proc -> Job]
  /\ stream \in [Proc -> Stream]
  /\ status \in [Proc -> Status \cup {""}]
  /\ clean \subseteq Proc
  /\ runs \in 0 .. MaxRuns /\ edits \in 0 .. MaxEdits
  /\ whole \subseteq Infile

StatusWhenEnded(p) == status[p] \in IF pc[p] = "ended" THEN Status ELSE {""}

(* Only from openFiles() on does a process use its streams.                *)
Unopened == {"idle", "redirect", "papp", "open", "output", "rename", "ended"}
ClosedWhenIdle(p) == pc[p] \in Unopened => stream[p] = Closed

(* What a process assembles: standard input, which gets as far as the      *)
(* choice of the language, or a source, preprocessed in a script.          *)
Assembles(j) == j.src \in Source /\ j.in = IF j.script THEN PpSource(j.src) ELSE j.src

JobKnown(p) ==
  Active(p) =>
    \/ Assembles(job[p]) /\ (pc[p] \in {"redirect", "papp", "rename"} => job[p].script)
    \/ job[p].in = StandardInput /\ pc[p] = "language" /\ ~ job[p].script

(* A file that is read is there: no one removes it.                        *)
Opened(p) ==
  /\ pc[p] \in {"output", "codefile", "datafile", "pass1"} => job[p].in \in DOMAIN file
  /\ pc[p] = "language" => job[p].in \in DOMAIN file \cup {StandardInput}
  /\ pc[p] \in {"datafile", "pass1", "code"} => CodeFileName(job[p].in) \in DOMAIN file
  /\ stream[p].dataOpen => /\ pc[p] \in {"pass1", "code", "data"}
                           /\ DataFileName(job[p].in) \in DOMAIN file

(* What a process has read and not written yet is of its own source.       *)
StreamsOwn(p) ==
  Active(p) => /\ stream[p].infile \in Seq(OwnCell(job[p].in))
               /\ stream[p].buffer \in Seq(OwnCell(job[p].in))

Sound(p) ==
  /\ StatusWhenEnded(p)
  /\ ClosedWhenIdle(p)
  /\ JobKnown(p)
  /\ Opened(p)
  /\ StreamsOwn(p)

DriverInv ==
  /\ Typed
  /\ Proper(file)
  /\ \A p \in Proc : Sound(p)

-----------------------------------------------------------------------------
(* Names.  All files of a source have names of their own, and what the     *)
(* script renames is none of them.                                         *)

LEMMA InfileFacts ==
  ASSUME NEW f \in Infile
  PROVE  /\ f \in FileName /\ f.ext # "" /\ f.suffix = ""
         /\ FilesOf(f) \subseteq File
         /\ PpSource(PpSource(f)) = PpSource(f)
<1>1. PICK s \in Source : f = s \/ f = PpSource(s)
  BY DEF Infile
<1>2. s \in FileName /\ s.ext # "" /\ s.suffix = ""
  BY DriverAssumption
<1>3. f \in FileName /\ f.ext # "" /\ f.suffix = ""
  BY <1>1, <1>2 DEF FileName, PpSource
<1>4. FilesOf(f) \subseteq File
  BY DEF FilesOf, File
<1>5. PpSource(PpSource(f)) = PpSource(f)
  BY <1>3 DEF FileName, PpSource
<1> QED
  BY <1>3, <1>4, <1>5

LEMMA FilesAreApart ==
  ASSUME NEW f \in Infile, NEW g \in Infile, f # g
  PROVE  FilesOf(f) \cap FilesOf(g) = {}
<1>1. /\ f \in FileName /\ f.ext # "" /\ f.suffix = ""
      /\ g \in FileName /\ g.ext # "" /\ g.suffix = ""
  BY InfileFacts
<1>2. f.stem # g.stem \/ f.pp # g.pp \/ f.ext # g.ext
  <2>1. ASSUME NEW h \in FileName
        PROVE  h = [stem |-> h.stem, pp |-> h.pp, ext |-> h.ext, suffix |-> h.suffix]
    BY DEF FileName
  <2> QED
    BY <1>1, <2>1
<1>3. \A h \in FilesOf(f) : h.stem = f.stem /\ h.pp = f.pp /\ h.ext = f.ext
  BY <1>1 DEF FilesOf, OutfileName, CodeFileName, DataFileName, FileName
<1>4. \A h \in FilesOf(g) : h.stem = g.stem /\ h.pp = g.pp /\ h.ext = g.ext
  BY <1>1 DEF FilesOf, OutfileName, CodeFileName, DataFileName, FileName
<1> QED
  BY <1>2, <1>3, <1>4

LEMMA ScriptBinIsApart ==
  ASSUME NEW f \in Infile, NEW g \in Infile
  PROVE  ScriptBin(g) \notin FilesOf(f) /\ ScriptBin(g) \in File
<1>1. /\ f \in FileName /\ f.ext # "" /\ f.suffix = ""
      /\ g \in FileName
  BY InfileFacts
<1>2. \A h \in FilesOf(f) : h.ext # ""
  BY <1>1 DEF FilesOf, OutfileName, CodeFileName, DataFileName, FileName
<1>3. ScriptBin(g).ext = ""
  BY <1>1 DEF ScriptBin, FileName
<1>4. ScriptBin(g) \in File
  BY DEF File
<1> QED
  BY <1>2, <1>3, <1>4

LEMMA AssembledFacts ==
  ASSUME NEW j, Assembles(j)
  PROVE  j.in \in Infile /\ j.src \in Infile /\ OwnCell(j.in) = OwnCell(j.src)
<1>1. j.src \in Infile /\ j.in \in Infile
  BY DEF Infile, Assembles
<1>2. PpSource(j.in) = PpSource(j.src)
  BY <1>1, InfileFacts DEF Assembles
<1> QED
  BY <1>1, <1>2 DEF OwnCell

LEMMA StandardInputIsApart ==
  StandardInput \in FileName /\ StandardInput.ext \notin Language
<1>1. StandardInput.ext \notin Language
  BY DEF StandardInput, Language
<1>2. StandardInput \in FileName
  BY DEF StandardInput, FileName
<1> QED
  BY <1>1, <1>2

-----------------------------------------------------------------------------
(* Files.                                                                  *)

LEMMA TruncatedFacts ==
  ASSUME Proper(file), NEW f \in Infile, NEW g \in FilesOf(f)
  PROVE  Proper(Truncated(g)) /\ DOMAIN Truncated(g) = DOMAIN file \cup {g}
<1> DEFINE d == Truncated(g)
<1>1. /\ DOMAIN d = DOMAIN file \cup {g}
      /\ \A h \in DOMAIN d : d[h] = IF h = g THEN << >> ELSE file[h]
  BY DEF Truncated, Put
<1>2. g \in File
  BY InfileFacts
<1>3. \A S : << >> \in Seq(S)
  OBVIOUS
<1> HIDE DEF d
<1>4. Proper(d)
  BY <1>1, <1>2, <1>3 DEF Proper
<1> QED
  BY <1>1, <1>4 DEF d

LEMMA WriteAtFacts ==
  ASSUME NEW S, NEW text \in Seq(S), NEW at \in Nat, NEW cells \in Seq(S), Hole \in S
  PROVE  WriteAt(text, at, cells) \in Seq(S)
<1> DEFINE Upto == IF Len(text) > at + Len(cells) THEN Len(text) ELSE at + Len(cells)
           cell(i) == IF i \in at + 1 .. at + Len(cells) THEN cells[i - at]
                      ELSE IF i <= Len(text) THEN text[i] ELSE Hole
<1>1. Upto \in Nat /\ Len(cells) \in Nat /\ Len(text) \in Nat
  OBVIOUS
<1>2. \A i \in 1 .. Upto : cell(i) \in S
  BY <1>1
<1>3. WriteAt(text, at, cells) = [i \in 1 .. Upto |-> cell(i)]
  BY DEF WriteAt
<1> HIDE DEF Upto, cell
<1> QED
  BY <1>1, <1>2, <1>3

LEMMA WrittenFacts ==
  ASSUME Proper(file), NEW f \in Infile, NEW g \in FilesOf(f),
         NEW at \in Nat, NEW cells \in Seq(OwnCell(f))
  PROVE  Proper(Written(g, at, cells)) /\ DOMAIN Written(g, at, cells) = DOMAIN file
<1> DEFINE d == Written(g, at, cells)
<1>1. /\ DOMAIN d = DOMAIN file
      /\ \A h \in DOMAIN d : d[h] = IF h = g THEN WriteAt(file[h], at, cells) ELSE file[h]
  BY DEF Written
<1>2. Hole \in AnyCell /\ OwnCell(f) \subseteq AnyCell /\ \A k \in Infile : Hole \in OwnCell(k)
  BY DEF OwnCell, AnyCell
<1>3. ASSUME g \in DOMAIN file  PROVE  d[g] \in Seq(OwnCell(f)) /\ d[g] \in Seq(AnyCell)
  <2>1. file[g] \in Seq(OwnCell(f))
    BY <1>3 DEF Proper
  <2>2. d[g] \in Seq(OwnCell(f))
    BY <1>1, <1>2, <1>3, <2>1, WriteAtFacts
  <2> QED
    BY <1>2, <2>2
<1>4. \A k \in Infile : g \in FilesOf(k) => k = f
  BY FilesAreApart
<1> HIDE DEF d
<1>5. Proper(d)
  BY <1>1, <1>3, <1>4 DEF Proper
<1> QED
  BY <1>1, <1>5 DEF d

(* The script moves no file of a source away, and puts none in its place.  *)
LEMMA RenamedFacts ==
  ASSUME Proper(file), NEW from, NEW to \in File,
         \A f \in Infile : from \notin FilesOf(f) /\ to \notin FilesOf(f),
         from \in DOMAIN file
  PROVE  LET d == Without(Put(file, to, file[from]), from) IN
         /\ Proper(d)
         /\ \A f \in Infile : FilesOf(f) \cap DOMAIN file \subseteq DOMAIN d
<1> DEFINE d == Without(Put(file, to, file[from]), from)
<1>1. /\ DOMAIN d = (DOMAIN file \cup {to}) \ {from}
      /\ \A h \in DOMAIN d : d[h] = IF h = to THEN file[from] ELSE file[h]
  BY DEF Without, Put, RestrictDomain, Restrict
<1> HIDE DEF d
<1>2. Proper(d)
  BY <1>1 DEF Proper
<1>3. \A f \in Infile : FilesOf(f) \cap DOMAIN file \subseteq DOMAIN d
  BY <1>1
<1> QED
  BY <1>2, <1>3 DEF d

-----------------------------------------------------------------------------
(* A step of one process leaves the others sound.                          *)

FilesStay == \A f \in Infile : FilesOf(f) \cap DOMAIN file \subseteq DOMAIN file'

Undisturbed(q) ==
  pc'[q] = pc[q] /\ job'[q] = job[q] /\ stream'[q] = stream[q] /\ status'[q] = status[q]

LEMMA UndisturbedIsSound ==
  ASSUME DriverInv, FilesStay, NEW q \in Proc, Undisturbed(q)
  PROVE  Sound(q)'
<1>1. Sound(q)
  BY DEF DriverInv
<1>2. StatusWhenEnded(q)' /\ ClosedWhenIdle(q)' /\ JobKnown(q)' /\ StreamsOwn(q)'
  BY <1>1 DEF Undisturbed, Sound, StatusWhenEnded, ClosedWhenIdle, JobKnown, StreamsOwn, Active
<1>3. Opened(q)'
  <2>1. CASE Active(q) /\ Assembles(job[q])
    <3>1. job[q].in \in Infile
      BY <2>1, AssembledFacts
    <3>2. {job[q].in, CodeFileName(job[q].in), DataFileName(job[q].in)} \subseteq FilesOf(job[q].in)
      BY DEF FilesOf
    <3> QED
      BY <1>1, <3>1, <3>2 DEF FilesStay, Undisturbed, Sound, Opened
  <2>2. CASE job[q].in = StandardInput /\ pc[q] = "language"
    BY <1>1, <2>2 DEF Undisturbed, Sound, Opened
  <2>3. CASE ~ Active(q)
    BY <1>1, <2>3 DEF Undisturbed, Sound, Opened, ClosedWhenIdle, Unopened, Closed, Active
  <2> QED
    BY <1>1, <2>1, <2>2, <2>3 DEF Sound, JobKnown
<1> QED
  BY <1>2, <1>3 DEF Sound

LEMMA StepOfOne ==
  ASSUME DriverInv, NEW p \in Proc, Typed', Proper(file'), FilesStay, Sound(p)',
         \A q \in Proc : q # p => Undisturbed(q)
  PROVE  DriverInv'
<1>1. \A q \in Proc : Sound(q)'
  BY UndisturbedIsSound
<1> QED
  BY <1>1 DEF DriverInv

LEMMA ActiveFacts ==
  ASSUME DriverInv, NEW p \in Proc, Active(p), pc[p] # "language"
  PROVE  /\ Assembles(job[p])
         /\ in(p) \in Infile /\ job[p].src \in Infile
         /\ OwnCell(in(p)) = OwnCell(job[p].src)
         /\ status[p] = ""
<1>1. Sound(p)
  BY DEF DriverInv
<1>2. Assembles(job[p])
  BY <1>1 DEF Sound, JobKnown
<1> QED
  BY <1>1, <1>2, AssembledFacts DEF Sound, StatusWhenEnded, Active, in

LEMMA BoundFacts == MaxRuns \in Nat /\ MaxEdits \in Nat
BY DriverAssumption

LEMMA ClosedFacts ==
  /\ Closed \in Stream
  /\ ~ Closed.dataOpen
  /\ \A S : Closed.infile \in Seq(S) /\ Closed.buffer \in Seq(S)
BY DEF Closed, Stream

LEMMA ExitIsSound ==
  ASSUME DriverInv, NEW p \in Proc, Active(p), NEW s \in Status, Exit(p, s), UNCHANGED job
  PROVE  /\ pc' \in [Proc -> PC]
         /\ stream' \in [Proc -> Stream]
         /\ status' \in [Proc -> Status \cup {""}]
         /\ Sound(p)'
         /\ \A q \in Proc : q # p => Undisturbed(q)
<1>1. Typed /\ Sound(p)
  BY DEF DriverInv
<1>2. /\ pc' \in [Proc -> PC]
      /\ status' \in [Proc -> Status \cup {""}]
      /\ \A q \in Proc : q # p => pc'[q] = pc[q] /\ status'[q] = status[q]
      /\ IF s = "EX_OK" /\ job[p].script
           THEN pc'[p] = "rename" /\ status'[p] = status[p]
           ELSE pc'[p] = "ended" /\ status'[p] = s
  BY <1>1 DEF Exit, Goto, Typed, PC
<1>3. /\ stream' \in [Proc -> Stream]
      /\ stream'[p] = Closed
      /\ \A q \in Proc : q # p => stream'[q] = stream[q]
  BY <1>1, ClosedFacts DEF Exit, Typed
<1>4. Sound(p)'
  <2>1. StatusWhenEnded(p)'
    BY <1>1, <1>2 DEF Sound, StatusWhenEnded, Active
  <2>2. ClosedWhenIdle(p)'
    BY <1>3 DEF ClosedWhenIdle
  <2>3. JobKnown(p)'
    BY <1>1, <1>2 DEF Sound, JobKnown, Active
  <2>4. Opened(p)'
    BY <1>2, <1>3, ClosedFacts DEF Opened
  <2>5. StreamsOwn(p)'
    BY <1>3, ClosedFacts DEF StreamsOwn
  <2> QED
    BY <2>1, <2>2, <2>3, <2>4, <2>5 DEF Sound
<1> QED
  BY <1>2, <1>3, <1>4 DEF Undisturbed

-----------------------------------------------------------------------------
(* DriverInv is inductive.                                                 *)

LEMMA InitInv == Init => DriverInv
<1> SUFFICES ASSUME Init
             PROVE  DriverInv
  OBVIOUS
<1>1. Typed
  <2>1. pc \in [Proc -> PC] /\ status \in [Proc -> Status \cup {""}] /\ stream \in [Proc -> Stream]
    BY ClosedFacts DEF Init, PC
  <2>2. job \in [Proc -> Job]
    BY StandardInputIsApart DEF Init, Job
  <2>3. runs \in 0 .. MaxRuns /\ edits \in 0 .. MaxEdits
    <3>1. runs = 0 /\ edits = 0
      BY DEF Init
    <3> QED
      BY <3>1, BoundFacts
  <2>4. clean = {} /\ whole = {}
    BY DEF Init
  <2> QED
    BY <2>1, <2>2, <2>3, <2>4 DEF Typed
<1>2. Proper(file)
  BY DriverAssumption DEF Init
<1>3. ASSUME NEW p \in Proc  PROVE  Sound(p)
  BY DEF Init, Sound, StatusWhenEnded, ClosedWhenIdle, JobKnown, Opened, StreamsOwn,
         Active, Closed
<1> QED
  BY <1>1, <1>2, <1>3 DEF DriverInv

LEMMA StartInv ==
  ASSUME DriverInv, NEW p \in Proc, NEW f, NEW script \in BOOLEAN, NEW where,
         Start(p, f, script, where),
         \/ f \in Source /\ (where = "open" \/ (where = "redirect" /\ script))
         \/ f = StandardInput /\ ~ script /\ where = "language"
  PROVE  DriverInv'
<1>1. where \in {"open", "language", "redirect"}
  OBVIOUS
<1> DEFINE infile == IF script THEN PpSource(f) ELSE f
<1>2. f \in FileName /\ infile \in FileName
  BY StandardInputIsApart, InfileFacts DEF Infile
<1>3. Typed /\ Proper(file) /\ Sound(p) /\ pc[p] = "idle"
  BY DEF DriverInv, Start
<1>4. /\ pc' = [pc EXCEPT ![p] = where]
      /\ job' = [job EXCEPT ![p] = [src |-> f, in |-> infile, script |-> script]]
      /\ UNCHANGED << file, stream, status, edits, whole >>
      /\ clean' \subseteq clean \cup {p}
      /\ runs' = runs + 1 /\ runs < MaxRuns
  BY DEF Start, Goto
<1>5. Typed'
  <2>1. pc' \in [Proc -> PC]
    BY <1>1, <1>3, <1>4 DEF Typed, PC
  <2>2. job' \in [Proc -> Job]
    BY <1>2, <1>3, <1>4 DEF Typed, Job
  <2>3. runs' \in 0 .. MaxRuns
    <3>1. runs \in 0 .. MaxRuns /\ runs' = runs + 1 /\ runs < MaxRuns
      BY <1>3, <1>4 DEF Typed
    <3> QED
      BY <3>1, BoundFacts
  <2>4. stream' = stream /\ status' = status /\ edits' = edits /\ whole' = whole /\ clean' \subseteq Proc
    BY <1>3, <1>4 DEF Typed
  <2> QED
    BY <1>3, <2>1, <2>2, <2>3, <2>4 DEF Typed
<1>6. /\ pc'[p] = where /\ job'[p].src = f /\ job'[p].in = infile /\ job'[p].script = script
      /\ stream'[p] = Closed /\ status'[p] = ""
      /\ \A q \in Proc : q # p => Undisturbed(q)
  BY <1>3, <1>4 DEF Typed, Sound, StatusWhenEnded, ClosedWhenIdle, Unopened, Active, Undisturbed
<1>7. Sound(p)'
  <2>1. StatusWhenEnded(p)' /\ ClosedWhenIdle(p)'
    BY <1>6 DEF StatusWhenEnded, ClosedWhenIdle
  <2>2. JobKnown(p)'
    BY <1>6 DEF JobKnown, Assembles
  <2>3. Opened(p)'
    BY <1>6, ClosedFacts DEF Opened
  <2>4. StreamsOwn(p)'
    BY <1>6, ClosedFacts DEF StreamsOwn
  <2> QED
    BY <2>1, <2>2, <2>3, <2>4 DEF Sound
<1>8. Proper(file') /\ FilesStay
  BY <1>3, <1>4 DEF FilesStay
<1> QED
  BY <1>5, <1>6, <1>7, <1>8, StepOfOne

LEMMA EditInv ==
  ASSUME DriverInv, Edit
  PROVE  DriverInv'
<1> PICK f \in Source : \E t \in Text[f] : file' = Put(file, f, t)
  BY DEF Edit
<1>1. PICK t \in Text[f] : file' = Put(file, f, t)
  OBVIOUS
<1>2. f \in Infile /\ f \in FilesOf(f) /\ t \in Seq(OwnCell(f)) /\ f \in File
  BY DriverAssumption, InfileFacts DEF Infile, FilesOf
<1>3. /\ DOMAIN file' = DOMAIN file \cup {f}
      /\ \A h \in DOMAIN file' : file'[h] = IF h = f THEN t ELSE file[h]
  BY <1>1 DEF Put
<1>4. Proper(file')
  <2>1. t \in Seq(AnyCell)
    BY <1>2 DEF OwnCell
  <2>2. \A g \in Infile : f \in FilesOf(g) => g = f
    BY <1>2, FilesAreApart
  <2> QED
    BY <1>2, <1>3, <2>1, <2>2 DEF DriverInv, Proper
<1>5. FilesStay
  BY <1>3 DEF FilesStay
<1>6. Typed'
  <2>1. edits' \in 0 .. MaxEdits
    <3>1. edits \in 0 .. MaxEdits /\ edits' = edits + 1 /\ edits < MaxEdits
      BY DEF Edit, DriverInv, Typed
    <3> QED
      BY <3>1, BoundFacts
  <2>2. UNCHANGED << pc, job, stream, status, runs, whole >> /\ clean' \subseteq Proc
    BY DEF Edit, DriverInv, Typed
  <2> QED
    BY <2>1, <2>2 DEF DriverInv, Typed
<1>7. \A q \in Proc : Undisturbed(q)
  BY DEF Edit, Undisturbed
<1>8. \A q \in Proc : Sound(q)'
  BY <1>5, <1>7, UndisturbedIsSound
<1> QED
  BY <1>4, <1>6, <1>8 DEF DriverInv

LEMMA ReapInv ==
  ASSUME DriverInv, NEW p \in Proc, Reap(p)
  PROVE  DriverInv'
<1>1. Typed /\ Sound(p) /\ Proper(file)
  BY DEF DriverInv
<1>2. /\ pc' = [pc EXCEPT ![p] = "idle"] /\ status' = [status EXCEPT ![p] = ""]
      /\ pc[p] = "ended"
      /\ UNCHANGED << file, job, stream, runs, edits, whole >> /\ clean' \subseteq clean
  BY DEF Reap, Goto
<1>3. Typed'
  BY <1>1, <1>2 DEF Typed, PC
<1>4. pc'[p] = "idle" /\ status'[p] = "" /\ \A q \in Proc : q # p => Undisturbed(q)
  BY <1>1, <1>2 DEF Typed, Undisturbed
<1>5. stream'[p] = Closed
  BY <1>1, <1>2 DEF Sound, ClosedWhenIdle, Unopened, Active
<1>6. Sound(p)'
  BY <1>4, <1>5, ClosedFacts
    DEF Sound, StatusWhenEnded, ClosedWhenIdle, JobKnown, Opened, StreamsOwn, Active
<1>7. Proper(file') /\ FilesStay
  BY <1>1, <1>2 DEF FilesStay
<1> QED
  BY <1>3, <1>4, <1>6, <1>7, StepOfOne

(* A step of a run: what it must do to its own state, and to the files.    *)
Done(p) ==
  /\ pc' \in [Proc -> PC]
  /\ stream' \in [Proc -> Stream]
  /\ status' \in [Proc -> Status \cup {""}]
  /\ Sound(p)'
  /\ \A q \in Proc : q # p => Undisturbed(q)

LEMMA StepOfRun ==
  ASSUME DriverInv, NEW p \in Proc, Done(p), Proper(file'), FilesStay,
         UNCHANGED << job, runs, edits >>, clean' \subseteq clean, whole' \subseteq Infile
  PROVE  DriverInv'
<1>1. Typed'
  BY DEF DriverInv, Typed, Done
<1> QED
  BY <1>1, StepOfOne DEF Done

LEMMA Continues ==
  ASSUME DriverInv, NEW p \in Proc, Active(p), Assembles(job[p]),
         NEW where \in PC \ {"idle", "ended", "redirect", "rename"}, NEW s \in Stream,
         pc' = [pc EXCEPT ![p] = where], stream' = [stream EXCEPT ![p] = s],
         UNCHANGED << job, status >>,
         where = "papp" => job[p].script, where \in Unopened => s = Closed,
         s.infile \in Seq(OwnCell(in(p))), s.buffer \in Seq(OwnCell(in(p))),
         Opened(p)'
  PROVE  Done(p)
<1>1. Typed /\ Sound(p)
  BY DEF DriverInv
<1>2. pc' \in [Proc -> PC] /\ stream' \in [Proc -> Stream]
  BY <1>1 DEF Typed
<1>3. pc'[p] = where /\ stream'[p] = s /\ status'[p] = "" /\ job'[p] = job[p]
  BY <1>1 DEF Typed, Sound, StatusWhenEnded, Active
<1>4. \A q \in Proc : q # p => Undisturbed(q)
  BY <1>1 DEF Typed, Undisturbed
<1>5. StatusWhenEnded(p)' /\ ClosedWhenIdle(p)'
  BY <1>3 DEF StatusWhenEnded, ClosedWhenIdle, Unopened, Active
<1>6. JobKnown(p)'
  BY <1>3 DEF JobKnown
<1>7. StreamsOwn(p)'
  BY <1>3 DEF StreamsOwn, in
<1> QED
  BY <1>1, <1>2, <1>4, <1>5, <1>6, <1>7 DEF Done, Sound, Typed

LEMMA GoesOn ==
  ASSUME DriverInv, NEW p \in Proc, Active(p), Assembles(job[p]),
         NEW where \in PC \ {"idle", "ended", "redirect", "rename"},
         Goto(p, where), UNCHANGED << job, stream, status >>,
         where = "papp" => job[p].script, where \in Unopened => pc[p] \in Unopened,
         Opened(p)'
  PROVE  Done(p)
<1>1. Typed /\ Sound(p)
  BY DEF DriverInv
<1>2. stream[p] \in Stream /\ stream' = [stream EXCEPT ![p] = stream[p]]
  BY <1>1 DEF Typed
<1>3. stream[p].infile \in Seq(OwnCell(in(p))) /\ stream[p].buffer \in Seq(OwnCell(in(p)))
  BY <1>1 DEF Sound, StreamsOwn, in
<1>4. where \in Unopened => stream[p] = Closed
  BY <1>1 DEF Sound, ClosedWhenIdle
<1> QED
  BY <1>2, <1>3, <1>4, Continues DEF Goto

LEMMA Exits ==
  ASSUME DriverInv, NEW p \in Proc, Active(p), NEW s \in Status, Exit(p, s), UNCHANGED job
  PROVE  Done(p)
BY ExitIsSound DEF Done

(* The file that a process has truncated is there, and so are all others.  *)
LEMMA Truncates ==
  ASSUME DriverInv, NEW f \in Infile, NEW g \in FilesOf(f), file' = Truncated(g)
  PROVE  Proper(file') /\ FilesStay /\ DOMAIN file' = DOMAIN file \cup {g}
BY TruncatedFacts DEF DriverInv, FilesStay

LEMMA Writes ==
  ASSUME DriverInv, NEW f \in Infile, NEW g \in FilesOf(f),
         NEW at \in Nat, NEW cells \in Seq(OwnCell(f)), file' = Written(g, at, cells)
  PROVE  Proper(file') /\ FilesStay /\ DOMAIN file' = DOMAIN file
BY WrittenFacts DEF DriverInv, FilesStay

LEMMA Reads ==
  ASSUME DriverInv, NEW p \in Proc, Active(p)
  PROVE  /\ Opened(p)
         /\ stream[p] \in Stream
         /\ stream[p].infile \in Seq(OwnCell(in(p)))
         /\ stream[p].buffer \in Seq(OwnCell(in(p)))
         /\ \A f \in Infile, g \in DOMAIN file :
              g \in FilesOf(f) => file[g] \in Seq(OwnCell(f))
         /\ Proper(file) /\ (UNCHANGED file => FilesStay)
BY DEF DriverInv, Typed, Sound, StreamsOwn, in, Proper, FilesStay

LEMMA HistoryKept ==
  ASSUME DriverInv, UNCHANGED history
  PROVE  UNCHANGED << runs, edits >> /\ clean' \subseteq clean /\ whole' \subseteq Infile
BY DEF DriverInv, Typed, history

LEMMA RedirectInv ==
  ASSUME DriverInv, NEW p \in Proc, Redirect(p)
  PROVE  DriverInv'
<1>1. Active(p) /\ pc[p] = "redirect" /\ UNCHANGED << job, history >>
  BY DEF Redirect, Active
<1>2. Assembles(job[p]) /\ in(p) \in Infile /\ job[p].script
  BY <1>1, ActiveFacts DEF DriverInv, Sound, JobKnown
<1>3. CASE file' = Truncated(in(p)) /\ Goto(p, "papp") /\ UNCHANGED << stream, status >>
  <2>1. Proper(file') /\ FilesStay
    BY <1>2, <1>3, Truncates DEF FilesOf
  <2>2. Opened(p)'
    BY <1>1, <1>3, Reads DEF Opened, Goto, DriverInv, Typed
  <2>3. Done(p)
    BY <1>1, <1>2, <1>3, <2>2, GoesOn DEF PC, Unopened
  <2> QED
    BY <1>1, <2>1, <2>3, StepOfRun, HistoryKept
<1>4. CASE Exit(p, "1") /\ UNCHANGED file
  <2>1. Done(p)
    BY <1>1, <1>4, Exits DEF Status
  <2> QED
    BY <1>1, <1>4, <2>1, StepOfRun, HistoryKept, Reads
<1> QED
  BY <1>3, <1>4 DEF Redirect

LEMMA PappInv ==
  ASSUME DriverInv, NEW p \in Proc, Papp(p)
  PROVE  DriverInv'
<1>1. Active(p) /\ pc[p] = "papp" /\ UNCHANGED << job, history >>
  BY DEF Papp, Active
<1>2. /\ Assembles(job[p]) /\ in(p) \in Infile /\ job[p].src \in Infile
      /\ OwnCell(in(p)) = OwnCell(job[p].src)
  BY <1>1, ActiveFacts
<1>3. CASE /\ job[p].src \in DOMAIN file
           /\ file' = Written(in(p), 0, file[job[p].src])
           /\ Goto(p, "open")
           /\ UNCHANGED << stream, status >>
  <2>1. file[job[p].src] \in Seq(OwnCell(in(p)))
    BY <1>1, <1>2, <1>3, Reads DEF FilesOf
  <2>2. Proper(file') /\ FilesStay
    BY <1>2, <1>3, <2>1, Writes DEF FilesOf
  <2>3. Opened(p)'
    BY <1>1, <1>3, Reads DEF Opened, Goto, DriverInv, Typed
  <2>4. Done(p)
    BY <1>1, <1>2, <1>3, <2>3, GoesOn DEF PC, Unopened
  <2> QED
    BY <1>1, <2>2, <2>4, StepOfRun, HistoryKept
<1>4. CASE Exit(p, "1") /\ UNCHANGED file
  <2>1. Done(p)
    BY <1>1, <1>4, Exits DEF Status
  <2> QED
    BY <1>1, <1>4, <2>1, StepOfRun, HistoryKept, Reads
<1> QED
  BY <1>3, <1>4 DEF Papp

LEMMA RenameInv ==
  ASSUME DriverInv, NEW p \in Proc, Rename(p)
  PROVE  DriverInv'
<1>1. Active(p) /\ pc[p] = "rename" /\ UNCHANGED << job, stream, history >>
  BY DEF Rename, Active
<1>2. in(p) \in Infile /\ job[p].src \in Infile /\ Typed /\ Sound(p)
  BY <1>1, ActiveFacts DEF DriverInv
<1>3. /\ pc' = [pc EXCEPT ![p] = "ended"]
      /\ \E s \in {"EX_OK", "1"} : status' = [status EXCEPT ![p] = s]
  BY DEF Rename, Goto
<1>4. Proper(file') /\ FilesStay
  <2>1. CASE UNCHANGED file
    BY <1>1, <2>1, Reads
  <2>2. CASE /\ ScriptBin(in(p)) \in DOMAIN file
             /\ file' = Without(Put(file, ScriptBin(job[p].src), file[ScriptBin(in(p))]),
                               ScriptBin(in(p)))
    <3>1. /\ ScriptBin(job[p].src) \in File
          /\ \A f \in Infile : /\ ScriptBin(in(p)) \notin FilesOf(f)
                              /\ ScriptBin(job[p].src) \notin FilesOf(f)
      BY <1>2, ScriptBinIsApart
    <3> QED
      BY <2>2, <3>1, RenamedFacts DEF DriverInv, FilesStay
  <2> QED
    BY <2>1, <2>2 DEF Rename
<1>5. /\ pc' \in [Proc -> PC] /\ pc'[p] = "ended"
      /\ status' \in [Proc -> Status \cup {""}] /\ status'[p] \in Status
      /\ \A q \in Proc : q # p => Undisturbed(q)
  BY <1>1, <1>2, <1>3 DEF Typed, PC, Status, Undisturbed
<1>6. stream'[p] = Closed
  BY <1>1, <1>2 DEF Sound, ClosedWhenIdle, Unopened
<1>7. Sound(p)'
  BY <1>5, <1>6, ClosedFacts
    DEF Sound, StatusWhenEnded, ClosedWhenIdle, JobKnown, Opened, StreamsOwn, Active
<1>8. Done(p)
  BY <1>1, <1>2, <1>5, <1>7 DEF Done, Typed
<1> QED
  BY <1>1, <1>4, <1>8, StepOfRun, HistoryKept

LEMMA OpenSourceInv ==
  ASSUME DriverInv, NEW p \in Proc, OpenSource(p)
  PROVE  DriverInv'
<1>1. /\ Active(p) /\ pc[p] = "open" /\ UNCHANGED << file, job, history >>
      /\ Assembles(job[p])
  BY ActiveFacts DEF OpenSource, Active
<1>2. Done(p)
  <2>1. CASE \E s \in {"EX_UNAVAILABLE", "EX_USAGE"} : Exit(p, s)
    BY <1>1, <2>1, Exits DEF Status
  <2>2. CASE in(p) \in DOMAIN file /\ Goto(p, "output") /\ UNCHANGED << stream, status >>
    <3>1. Opened(p)'
      BY <1>1, <2>2, Reads DEF Opened, Goto, in, DriverInv, Typed
    <3> QED
      BY <1>1, <2>2, <3>1, GoesOn DEF PC, Unopened
  <2> QED
    BY <2>1, <2>2 DEF OpenSource
<1> QED
  BY <1>1, <1>2, StepOfRun, HistoryKept, Reads

LEMMA OpenOutputInv ==
  ASSUME DriverInv, NEW p \in Proc, OpenOutput(p)
  PROVE  DriverInv'
<1>1. /\ Active(p) /\ pc[p] = "output" /\ UNCHANGED << job, runs, edits, clean >>
      /\ Assembles(job[p]) /\ in(p) \in Infile
  BY ActiveFacts DEF OpenOutput, Active
<1>2. whole' \subseteq Infile
  BY DEF OpenOutput, DriverInv, Typed
<1>3. CASE file' = Truncated(OutfileName(in(p))) /\ Goto(p, "language") /\ UNCHANGED << stream, status >>
  <2>1. Proper(file') /\ FilesStay /\ DOMAIN file' = DOMAIN file \cup {OutfileName(in(p))}
    BY <1>1, <1>3, Truncates DEF FilesOf
  <2>2. Opened(p)'
    BY <1>1, <1>3, <2>1, Reads DEF Opened, Goto, DriverInv, Typed
  <2>3. Done(p)
    BY <1>1, <1>3, <2>2, GoesOn DEF PC, Unopened
  <2> QED
    BY <1>1, <1>2, <2>1, <2>3, StepOfRun
<1>4. CASE Exit(p, "EX_UNAVAILABLE") /\ UNCHANGED file
  <2>1. Done(p)
    BY <1>1, <1>4, Exits DEF Status
  <2> QED
    BY <1>1, <1>2, <1>4, <2>1, StepOfRun, Reads
<1> QED
  BY <1>3, <1>4 DEF OpenOutput

LEMMA ChooseLanguageInv ==
  ASSUME DriverInv, NEW p \in Proc, ChooseLanguage(p)
  PROVE  DriverInv'
<1>1. Active(p) /\ pc[p] = "language" /\ UNCHANGED << file, job, history >>
  BY DEF ChooseLanguage, Active
<1>2. Done(p)
  <2>1. CASE Exit(p, "EX_USAGE")
    BY <1>1, <2>1, Exits DEF Status
  <2>2. CASE in(p).ext \in Language /\ Goto(p, "codefile") /\ UNCHANGED << stream, status >>
    <3>1. in(p) # StandardInput
      BY <2>2, StandardInputIsApart
    <3>2. Assembles(job[p])
      BY <1>1, <3>1 DEF DriverInv, Sound, JobKnown, in
    <3>3. Opened(p)'
      BY <1>1, <2>2, <3>1, Reads DEF Opened, Goto, in, DriverInv, Typed
    <3> QED
      BY <1>1, <2>2, <3>2, <3>3, GoesOn DEF PC, Unopened
  <2> QED
    BY <2>1, <2>2 DEF ChooseLanguage
<1> QED
  BY <1>1, <1>2, StepOfRun, HistoryKept, Reads

LEMMA OpenCodeFileInv ==
  ASSUME DriverInv, NEW p \in Proc, OpenCodeFile(p)
  PROVE  DriverInv'
<1>1. /\ Active(p) /\ pc[p] = "codefile" /\ UNCHANGED << job, history >>
      /\ Assembles(job[p]) /\ in(p) \in Infile
  BY ActiveFacts DEF OpenCodeFile, Active
<1>2. CASE file' = Truncated(CodeFileName(in(p))) /\ Goto(p, "datafile") /\ UNCHANGED << stream, status >>
  <2>1. Proper(file') /\ FilesStay /\ DOMAIN file' = DOMAIN file \cup {CodeFileName(in(p))}
    BY <1>1, <1>2, Truncates DEF FilesOf
  <2>2. Opened(p)'
    BY <1>1, <1>2, <2>1, Reads DEF Opened, Goto, in, DriverInv, Typed
  <2>3. Done(p)
    BY <1>1, <1>2, <2>2, GoesOn DEF PC, Unopened
  <2> QED
    BY <1>1, <2>1, <2>3, StepOfRun, HistoryKept
<1>3. CASE Exit(p, "EX_CANTCREAT") /\ UNCHANGED file
  <2>1. Done(p)
    BY <1>1, <1>3, Exits DEF Status
  <2> QED
    BY <1>1, <1>3, <2>1, StepOfRun, HistoryKept, Reads
<1> QED
  BY <1>2, <1>3 DEF OpenCodeFile

LEMMA OpenDataFileInv ==
  ASSUME DriverInv, NEW p \in Proc, OpenDataFile(p)
  PROVE  DriverInv'
<1>1. /\ Active(p) /\ pc[p] = "datafile" /\ UNCHANGED << job, status, runs, edits, whole >>
      /\ Assembles(job[p]) /\ in(p) \in Infile /\ Goto(p, "pass1") /\ clean' \subseteq clean
  BY ActiveFacts DEF OpenDataFile, Active
<1>2. whole' \subseteq Infile
  BY <1>1 DEF DriverInv, Typed
<1>3. CASE file' = Truncated(DataFileName(in(p))) /\ stream' = [stream EXCEPT ![p].dataOpen = TRUE]
  <2> DEFINE s == [stream[p] EXCEPT !.dataOpen = TRUE]
  <2>1. Proper(file') /\ FilesStay /\ DOMAIN file' = DOMAIN file \cup {DataFileName(in(p))}
    BY <1>1, <1>3, Truncates DEF FilesOf
  <2>2. s \in Stream /\ s.infile = stream[p].infile /\ s.buffer = stream[p].buffer
    BY <1>1, Reads DEF Stream
  <2>3. stream' = [stream EXCEPT ![p] = s]
    BY <1>3 DEF DriverInv, Typed
  <2>4. Opened(p)'
    BY <1>1, <2>1, Reads DEF Opened, Goto, in, DriverInv, Typed
  <2> HIDE DEF s
  <2>5. Done(p)
    BY <1>1, <2>2, <2>3, <2>4, Reads, Continues DEF PC, Unopened, Goto
  <2> QED
    BY <1>1, <1>2, <2>1, <2>5, StepOfRun
<1>4. CASE UNCHANGED << file, stream >>
  <2>1. Opened(p)'
    BY <1>1, <1>4, Reads DEF Opened, Goto, in, DriverInv, Typed
  <2>2. Done(p)
    BY <1>1, <1>4, <2>1, GoesOn DEF PC, Unopened
  <2> QED
    BY <1>1, <1>2, <1>4, <2>2, StepOfRun, Reads
<1> QED
  BY <1>3, <1>4 DEF OpenDataFile

(* A step of pass 1 or 2 that leaves the process where it is, or moves it  *)
(* on to the next loop.                                                    *)
LEMMA PassStep ==
  ASSUME DriverInv, NEW p \in Proc, pc[p] \in {"pass1", "code", "data"},
         NEW where \in {"pass1", "code", "data"}, NEW s \in Stream,
         pc' = [pc EXCEPT ![p] = where], stream' = [stream EXCEPT ![p] = s],
         UNCHANGED << job, status, history >>,
         where = pc[p] \/ (pc[p] = "pass1" /\ where = "code") \/ (pc[p] = "code" /\ where = "data"),
         s.dataOpen = stream[p].dataOpen,
         s.infile \in Seq(OwnCell(in(p))), s.buffer \in Seq(OwnCell(in(p))),
         Proper(file'), DOMAIN file' = DOMAIN file
  PROVE  DriverInv'
<1>1. Active(p) /\ Assembles(job[p])
  BY ActiveFacts DEF Active
<1>2. Opened(p)'
  BY <1>1, Reads DEF Opened, DriverInv, Typed
<1>3. Done(p)
  BY <1>1, <1>2, Continues DEF PC, Unopened
<1>4. FilesStay
  BY DEF FilesStay
<1> QED
  BY <1>3, <1>4, StepOfRun, HistoryKept

(* What pass 1 and 2 start from.                                           *)
LEMMA PassFacts ==
  ASSUME DriverInv, NEW p \in Proc, pc[p] \in {"pass1", "code", "data"}
  PROVE  /\ Active(p) /\ in(p) \in Infile
         /\ pc = [pc EXCEPT ![p] = pc[p]]
         /\ stream = [stream EXCEPT ![p] = stream[p]]
         /\ stream[p] \in Stream
         /\ stream[p].infile \in Seq(OwnCell(in(p)))
         /\ stream[p].buffer \in Seq(OwnCell(in(p)))
         /\ pc[p] = "pass1" => file[in(p)] \in Seq(OwnCell(in(p)))
         /\ pc[p] \in {"pass1", "code"} => file[CodeFileName(in(p))] \in Seq(OwnCell(in(p)))
         /\ stream[p].dataOpen => file[DataFileName(in(p))] \in Seq(OwnCell(in(p)))
         /\ Proper(file)
<1>1. Active(p)
  BY DEF Active
<1>2. in(p) \in Infile
  BY <1>1, ActiveFacts
<1>3. {in(p), CodeFileName(in(p)), DataFileName(in(p))} \subseteq FilesOf(in(p))
  BY DEF FilesOf
<1>4. /\ pc[p] = "pass1" => in(p) \in DOMAIN file
      /\ pc[p] \in {"pass1", "code"} => CodeFileName(in(p)) \in DOMAIN file
      /\ stream[p].dataOpen => DataFileName(in(p)) \in DOMAIN file
  BY <1>1, Reads DEF Opened, in
<1> QED
  BY <1>1, <1>2, <1>3, <1>4, Reads DEF DriverInv, Typed

LEMMA ReadAheadInv ==
  ASSUME DriverInv, NEW p \in Proc, ReadAhead(p)
  PROVE  DriverInv'
<1>1. pc[p] = "pass1" /\ UNCHANGED << file, pc, job, status, history >>
  BY DEF ReadAhead
<1>2. PICK upto \in stream[p].infileAt + 1 .. Len(file[in(p)]) :
        stream' = [stream EXCEPT ![p].infileAt = upto,
                     ![p].infile = SubSeq(file[in(p)], stream[p].infileAt + 1, upto)]
  BY DEF ReadAhead
<1> DEFINE block == SubSeq(file[in(p)], stream[p].infileAt + 1, upto)
           s == [stream[p] EXCEPT !.infileAt = upto, !.infile = block]
<1>3. stream[p].infileAt \in Nat /\ upto \in Nat
  BY <1>1, PassFacts DEF Stream
<1>4. block \in Seq(OwnCell(in(p))) /\ block \in Seq(AnyCell)
  <2>1. OwnCell(in(p)) \subseteq AnyCell
    BY DEF OwnCell
  <2>2. \A i \in stream[p].infileAt + 1 .. upto : i \in 1 .. Len(file[in(p)])
    BY <1>1, <1>3, PassFacts
  <2> QED
    BY <1>1, <1>3, <2>1, <2>2, PassFacts
<1>5. s \in Stream /\ s.infile = block /\ s.buffer = stream[p].buffer /\ s.dataOpen = stream[p].dataOpen
  BY <1>1, <1>3, <1>4, PassFacts DEF Stream
<1>6. stream' = [stream EXCEPT ![p] = s]
  BY <1>2 DEF DriverInv, Typed
<1> HIDE DEF s, block
<1> QED
  BY <1>1, <1>4, <1>5, <1>6, PassFacts, PassStep

LEMMA TranslateLineInv ==
  ASSUME DriverInv, NEW p \in Proc, TranslateLine(p)
  PROVE  DriverInv'
<1> DEFINE c == Head(stream[p].infile)
<1>1. /\ pc[p] = "pass1" /\ stream[p].infile # << >>
      /\ UNCHANGED << pc, job, status, history >>
  BY DEF TranslateLine
<1>2. /\ << c >> \in Seq(OwnCell(in(p)))
      /\ Tail(stream[p].infile) \in Seq(OwnCell(in(p))) /\ Tail(stream[p].infile) \in Seq(AnyCell)
      /\ stream[p].codeAt \in Nat /\ stream[p].dataAt \in Nat
  BY <1>1, PassFacts DEF Stream
<1>3. PICK s \in Stream :
        /\ stream' = [stream EXCEPT ![p] = s]
        /\ s.infile = Tail(stream[p].infile)
        /\ s.buffer = stream[p].buffer /\ s.dataOpen = stream[p].dataOpen
  <2> DEFINE s1 == [stream[p] EXCEPT !.infile = Tail(@), !.codeAt = @ + 1]
             s2 == [stream[p] EXCEPT !.infile = Tail(@), !.dataAt = @ + 1]
             s3 == [stream[p] EXCEPT !.infile = Tail(@)]
             Consumed(s) == /\ s \in Stream
                            /\ s.infile = Tail(stream[p].infile)
                            /\ s.buffer = stream[p].buffer /\ s.dataOpen = stream[p].dataOpen
  <2>1. Consumed(s1) /\ Consumed(s2) /\ Consumed(s3)
    <3>1. stream[p] \in Stream
      BY <1>1, PassFacts
    <3>2. stream[p].codeAt + 1 \in Nat /\ stream[p].dataAt + 1 \in Nat
      BY <1>2
    <3>3. Consumed(s1)
      BY <1>2, <3>1, <3>2 DEF Stream
    <3>4. Consumed(s2)
      BY <1>2, <3>1, <3>2 DEF Stream
    <3>5. Consumed(s3)
      BY <1>2, <3>1 DEF Stream
    <3> QED
      BY <3>3, <3>4, <3>5
  <2>2. \E s \in {s1, s2, s3} : stream' = [stream EXCEPT ![p] = s]
    BY DEF TranslateLine, DriverInv, Typed
  <2> HIDE DEF s1, s2, s3
  <2> QED
    BY <2>1, <2>2
<1>4. Proper(file') /\ DOMAIN file' = DOMAIN file
  <2>1. CASE file' = Written(CodeFileName(in(p)), stream[p].codeAt, << c >>)
    BY <1>1, <1>2, <2>1, PassFacts, Writes DEF FilesOf
  <2>2. CASE file' = Written(DataFileName(in(p)), stream[p].dataAt, << c >>)
    BY <1>1, <1>2, <2>2, PassFacts, Writes DEF FilesOf
  <2>3. CASE UNCHANGED file
    BY <1>1, <2>3, PassFacts
  <2> QED
    BY <2>1, <2>2, <2>3 DEF TranslateLine
<1> QED
  BY <1>1, <1>2, <1>3, <1>4, PassFacts, PassStep

LEMMA EndOfSourceInv ==
  ASSUME DriverInv, NEW p \in Proc, EndOfSource(p)
  PROVE  DriverInv'
<1>1. pc[p] = "pass1" /\ Goto(p, "code") /\ UNCHANGED << file, job, status, history >>
  BY DEF EndOfSource
<1> DEFINE s == [stream[p] EXCEPT !.codeAt = 0, !.dataAt = 0]
<1>2. /\ s \in Stream /\ s.infile = stream[p].infile
      /\ s.buffer = stream[p].buffer /\ s.dataOpen = stream[p].dataOpen
  BY <1>1, PassFacts DEF Stream
<1>3. stream' = [stream EXCEPT ![p] = s]
  BY DEF EndOfSource, DriverInv, Typed
<1> HIDE DEF s
<1> QED
  BY <1>1, <1>2, <1>3, PassFacts, PassStep DEF Goto

LEMMA CopyCodeRowInv ==
  ASSUME DriverInv, NEW p \in Proc, CopyCodeRow(p)
  PROVE  DriverInv'
<1>1. /\ pc[p] = "code" /\ UNCHANGED << file, pc, job, status, history >>
      /\ stream[p].codeAt < Len(file[CodeFileName(in(p))])
  BY DEF CopyCodeRow, CodeLeft
<1> DEFINE c == file[CodeFileName(in(p))][stream[p].codeAt + 1]
           s == [stream[p] EXCEPT !.codeAt = @ + 1, !.buffer = Append(@, c)]
<1>2. c \in OwnCell(in(p)) /\ stream[p].codeAt + 1 \in Nat
  <2>1. PICK codes : codes = file[CodeFileName(in(p))]
    OBVIOUS
  <2>2. stream[p] \in Stream /\ codes \in Seq(OwnCell(in(p)))
    BY <1>1, <2>1, PassFacts
  <2>3. PICK at \in Nat : at = stream[p].codeAt
    BY <2>2 DEF Stream
  <2>4. at < Len(codes)
    BY <1>1, <2>1, <2>3, Zenon
  <2>5. codes[at + 1] \in OwnCell(in(p)) /\ at + 1 \in Nat
    BY <2>2, <2>4
  <2> QED
    BY <2>1, <2>3, <2>5, Zenon
<1> HIDE DEF c
<1>3. /\ Append(stream[p].buffer, c) \in Seq(OwnCell(in(p)))
      /\ Append(stream[p].buffer, c) \in Seq(AnyCell)
  <2>1. stream[p].buffer \in Seq(OwnCell(in(p))) /\ stream[p].buffer \in Seq(AnyCell)
    BY <1>1, PassFacts DEF Stream
  <2>2. c \in AnyCell
    BY <1>2 DEF OwnCell
  <2> QED
    BY <1>2, <2>1, <2>2
<1>4. /\ s \in Stream /\ s.infile = stream[p].infile /\ s.dataOpen = stream[p].dataOpen
      /\ s.buffer = Append(stream[p].buffer, c)
  BY <1>1, <1>2, <1>3, PassFacts DEF Stream
<1>5. stream' = [stream EXCEPT ![p] = s]
  BY DEF CopyCodeRow, DriverInv, Typed, c
<1> HIDE DEF s
<1> QED
  BY <1>1, <1>3, <1>4, <1>5, PassFacts, PassStep

LEMMA EndOfCodeInv ==
  ASSUME DriverInv, NEW p \in Proc, EndOfCode(p)
  PROVE  DriverInv'
<1>1. pc[p] = "code" /\ Goto(p, "data") /\ UNCHANGED << file, job, stream, status, history >>
  BY DEF EndOfCode
<1> QED
  BY <1>1, PassFacts, PassStep DEF Goto

LEMMA CopyDataRowInv ==
  ASSUME DriverInv, NEW p \in Proc, CopyDataRow(p)
  PROVE  DriverInv'
<1>1. /\ pc[p] = "data" /\ UNCHANGED << file, pc, job, status, history >>
      /\ stream[p].dataOpen /\ stream[p].dataAt < Len(file[DataFileName(in(p))])
  BY DEF CopyDataRow, DataLeft
<1> DEFINE c == file[DataFileName(in(p))][stream[p].dataAt + 1]
           s == [stream[p] EXCEPT !.dataAt = @ + 1, !.buffer = Append(@, c)]
<1>2. c \in OwnCell(in(p)) /\ stream[p].dataAt + 1 \in Nat
  <2>1. PICK datas : datas = file[DataFileName(in(p))]
    OBVIOUS
  <2>2. stream[p] \in Stream /\ datas \in Seq(OwnCell(in(p)))
    BY <1>1, <2>1, PassFacts
  <2>3. PICK at \in Nat : at = stream[p].dataAt
    BY <2>2 DEF Stream
  <2>4. at < Len(datas)
    BY <1>1, <2>1, <2>3, Zenon
  <2>5. datas[at + 1] \in OwnCell(in(p)) /\ at + 1 \in Nat
    BY <2>2, <2>4
  <2> QED
    BY <2>1, <2>3, <2>5, Zenon
<1> HIDE DEF c
<1>3. /\ Append(stream[p].buffer, c) \in Seq(OwnCell(in(p)))
      /\ Append(stream[p].buffer, c) \in Seq(AnyCell)
  <2>1. stream[p].buffer \in Seq(OwnCell(in(p))) /\ stream[p].buffer \in Seq(AnyCell)
    BY <1>1, PassFacts DEF Stream
  <2>2. c \in AnyCell
    BY <1>2 DEF OwnCell
  <2> QED
    BY <1>2, <2>1, <2>2
<1>4. /\ s \in Stream /\ s.infile = stream[p].infile /\ s.dataOpen = stream[p].dataOpen
      /\ s.buffer = Append(stream[p].buffer, c)
  BY <1>1, <1>2, <1>3, PassFacts DEF Stream
<1>5. stream' = [stream EXCEPT ![p] = s]
  BY DEF CopyDataRow, DriverInv, Typed, c
<1> HIDE DEF s
<1> QED
  BY <1>1, <1>3, <1>4, <1>5, PassFacts, PassStep

LEMMA EndOfDataInv ==
  ASSUME DriverInv, NEW p \in Proc, EndOfData(p)
  PROVE  DriverInv'
<1>1. /\ pc[p] = "data" /\ Exit(p, "EX_OK") /\ UNCHANGED << job, runs, edits, clean >>
      /\ file' = Written(OutfileName(in(p)), stream[p].outfileAt, Append(stream[p].buffer, End))
  BY DEF EndOfData
<1>2. Append(stream[p].buffer, End) \in Seq(OwnCell(in(p))) /\ stream[p].outfileAt \in Nat
  <2>1. End \in OwnCell(in(p))
    BY DEF OwnCell, AnyCell
  <2> QED
    BY <1>1, <2>1, PassFacts DEF Stream
<1>3. Active(p) /\ in(p) \in Infile
  BY <1>1, PassFacts
<1>4. Proper(file') /\ FilesStay
  BY <1>1, <1>2, <1>3, Writes DEF FilesOf
<1>5. Done(p)
  BY <1>1, <1>3, Exits DEF Status
<1>6. whole' \subseteq Infile
  BY <1>3 DEF EndOfData, DriverInv, Typed
<1> QED
  BY <1>1, <1>4, <1>5, <1>6, StepOfRun

LEMMA FlushInv ==
  ASSUME DriverInv, NEW p \in Proc, Flush(p)
  PROVE  DriverInv'
<1>1. /\ pc[p] \in {"code", "data"} /\ UNCHANGED << pc, job, status, history >>
      /\ file' = Written(OutfileName(in(p)), stream[p].outfileAt, stream[p].buffer)
  BY DEF Flush
<1> DEFINE at == stream[p].outfileAt + Len(stream[p].buffer)
           s == [stream[p] EXCEPT !.outfileAt = at, !.buffer = << >>]
<1>2. stream[p].outfileAt \in Nat /\ at \in Nat
  BY <1>1, PassFacts DEF Stream
<1> HIDE DEF at
<1>3. /\ s \in Stream /\ s.infile = stream[p].infile /\ s.dataOpen = stream[p].dataOpen
      /\ s.buffer = << >>
  <2>1. stream[p] \in Stream /\ << >> \in Seq(AnyCell)
    BY <1>1, PassFacts
  <2> QED
    BY <1>2, <2>1 DEF Stream
<1>4. stream' = [stream EXCEPT ![p] = s]
  BY DEF Flush, DriverInv, Typed, at
<1>5. << >> \in Seq(OwnCell(in(p)))
  OBVIOUS
<1>6. Proper(file') /\ DOMAIN file' = DOMAIN file
  BY <1>1, <1>2, PassFacts, Writes DEF FilesOf
<1> HIDE DEF s
<1> QED
  BY <1>1, <1>3, <1>4, <1>5, <1>6, PassFacts, PassStep

LEMMA CrashInv ==
  ASSUME DriverInv, NEW p \in Proc, Crash(p)
  PROVE  DriverInv'
<1>1. Active(p) /\ Exit(p, "SIGSEGV") /\ UNCHANGED << file, job, history >>
  BY DEF Crash, Active
<1>2. Done(p)
  BY <1>1, Exits DEF Status
<1> QED
  BY <1>1, <1>2, StepOfRun, HistoryKept, Reads

LEMMA StepInv == DriverInv /\ [Next]_vars => DriverInv'
<1> SUFFICES ASSUME DriverInv, [Next]_vars
             PROVE  DriverInv'
  OBVIOUS
<1>1. ASSUME NEW p \in Proc, Run(p)  PROVE  DriverInv'
  <2>1. PICK f \in Source : Start(p, f, FALSE, "open")
    BY <1>1 DEF Run
  <2> QED
    BY <2>1, StartInv, Zenon
<1>2. ASSUME NEW p \in Proc, RunOnStandardInput(p)  PROVE  DriverInv'
  BY <1>2, StartInv, Zenon DEF RunOnStandardInput
<1>3. ASSUME NEW p \in Proc, RunScript(p)  PROVE  DriverInv'
  <2>1. PICK f \in Source : Start(p, f, TRUE, "redirect")
    BY <1>3 DEF RunScript
  <2> QED
    BY <2>1, StartInv, Zenon
<1>4. ASSUME NEW p \in Proc, Step(p)  PROVE  DriverInv'
  BY <1>4, RedirectInv, PappInv, RenameInv, OpenSourceInv, OpenOutputInv, ChooseLanguageInv,
     OpenCodeFileInv, OpenDataFileInv, ReadAheadInv, TranslateLineInv, EndOfSourceInv,
     CopyCodeRowInv, EndOfCodeInv, CopyDataRowInv, EndOfDataInv, FlushInv DEF Step
<1>5. CASE UNCHANGED vars
  BY <1>5 DEF vars, DriverInv, Typed, Sound, StatusWhenEnded, ClosedWhenIdle, JobKnown,
              Opened, StreamsOwn, Active, history
<1> QED
  BY <1>1, <1>2, <1>3, <1>4, <1>5, EditInv, ReapInv, CrashInv DEF Next

-----------------------------------------------------------------------------
(* What a run that no one interferes with has done so far.                 *)

(* No other process assembles what p does.                                 *)
Sole(p) == \A q \in Proc : Active(q) /\ in(q) = in(p) => q = p

CleanIsSole == \A p \in clean : pc[p] # "idle" /\ (Active(p) => Sole(p))

(* A run that is disturbed owes us nothing, and neither does its source.   *)
DisturbedOwesNothing == \A p \in Proc : Active(p) /\ p \notin clean => in(p) \notin DOMAIN made

(* What is there of an image that is owed.                                 *)
Image(f) == file[OutfileName(f)]
Delivered(f) ==
  /\ f \in Infile /\ OutfileName(f) \in DOMAIN file
  /\ made[f] \in Seq(AnyCell)
  /\ IsPrefix(Image(f), made[f])
  /\ f \in whole => Image(f) = made[f]

(* Its streams s, the text it assembles, the files of pass 1 and the image.*)
(* In pass 1 the rows of the first n lines are in the files.               *)
InPass1(s, text, codes, datas, image) ==
  /\ s.dataOpen /\ s.buffer = << >> /\ s.outfileAt = 0 /\ image = << >>
  /\ s.codeAt = Len(codes) /\ s.dataAt = Len(datas)
  /\ \E n \in 0 .. Len(text) :
       /\ s.infileAt \in n .. Len(text)
       /\ s.infile = SubSeq(text, n + 1, s.infileAt)
       /\ codes = RowsUpTo(text, "code")[n]
       /\ datas = RowsUpTo(text, "data")[n]

(* In pass 2 the rows that have been read are in the image and the buffer. *)
InPass2(s, text, datas, image) ==
  s.dataOpen /\ s.outfileAt = Len(image) /\ datas = Rows(text, "data")

InCode(s, text, codes, image) ==
  /\ codes = Rows(text, "code")
  /\ s.codeAt \in 0 .. Len(codes) /\ s.dataAt = 0
  /\ image \o s.buffer = SubSeq(codes, 1, s.codeAt)

InData(s, text, datas, image) ==
  /\ s.dataAt \in 0 .. Len(datas)
  /\ image \o s.buffer = Rows(text, "code") \o SubSeq(datas, 1, s.dataAt)

Early == {"language", "codefile", "datafile"}
Tracked == Early \cup {"pass1", "code", "data"}

OnTrack(p) ==
  LET s     == stream[p]
      text  == file[in(p)]
      codes == file[CodeFileName(in(p))]
      datas == file[DataFileName(in(p))]
      image == Image(in(p))
  IN  /\ {in(p), OutfileName(in(p))} \subseteq DOMAIN file
      /\ in(p) \in DOMAIN made /\ made[in(p)] = ImageOf(text)
      /\ in(p) \notin whole
      /\ pc[p] \in Early => s = Closed /\ image = << >>
      /\ pc[p] = "datafile" => codes = << >>
      /\ pc[p] = "pass1" => InPass1(s, text, codes, datas, image)
      /\ pc[p] \in {"code", "data"} => InPass2(s, text, datas, image)
      /\ pc[p] = "code" => InCode(s, text, codes, image)
      /\ pc[p] = "data" => InData(s, text, datas, image)

ImageInv ==
  /\ CleanIsSole
  /\ DisturbedOwesNothing
  /\ \A f \in DOMAIN made : Delivered(f)
  /\ \A p \in clean : pc[p] \in Tracked /\ in(p) # StandardInput => OnTrack(p)

-----------------------------------------------------------------------------
(* The rows of a segment, up to each line.                                 *)

RowsOf(S, seg) == { c \in S : c.seg = seg }

LEMMA RowsUpToFacts ==
  ASSUME NEW S, NEW text \in Seq(S), NEW seg
  PROVE  LET rows == RowsUpTo(text, seg) IN
         /\ rows[0] = << >>
         /\ \A n \in 1 .. Len(text) :
              rows[n] = IF text[n].seg = seg THEN Append(rows[n - 1], text[n]) ELSE rows[n - 1]
         /\ \A n \in 0 .. Len(text) : rows[n] \in Seq(RowsOf(S, seg))
<1> DEFINE R == RowsOf(S, seg)
           rows == RowsUpTo(text, seg)
           Next1(sofar, n) == IF text[n].seg = seg THEN Append(sofar, text[n]) ELSE sofar
           Def(r) == [n \in 0 .. Len(text) |-> IF n = 0 THEN << >> ELSE Next1(r[n - 1], n)]
<1>1. ASSUME NEW sofar \in Seq(R), NEW n \in 1 .. Len(text)
      PROVE  Next1(sofar, n) \in Seq(R)
  <2>1. text[n] \in S
    BY ElementOfSeq
  <2>2. CASE text[n].seg = seg
    <3>1. text[n] \in R
      BY <2>1, <2>2 DEF RowsOf
    <3> QED
      BY <2>2, <3>1
  <2> QED
    BY <2>2
<1>2. Len(text) \in Nat
  OBVIOUS
<1> HIDE DEF Next1, R
<1>3. PICK f : /\ f \in [0 .. Len(text) -> Seq(R)]
               /\ f[0] = << >>
               /\ \A n \in 1 .. Len(text) : f[n] = Next1(f[n - 1], n)
  <2> DEFINE Good(k, f) == /\ f \in [0 .. k -> Seq(R)]
                           /\ f[0] = << >>
                           /\ \A n \in 1 .. k : f[n] = Next1(f[n - 1], n)
             K == { k \in Nat : k <= Len(text) => \E f : Good(k, f) }
  <2>1. 0 \in K
    <3>1. Good(0, [n \in 0 .. 0 |-> << >>])
      OBVIOUS
    <3> QED
      BY <3>1
  <2>2. ASSUME NEW k \in Nat, k \in K, k + 1 <= Len(text)
        PROVE  \E f : Good(k + 1, f)
    <3>1. PICK f : Good(k, f)
      <4> HIDE DEF Good
      <4> QED
        BY <2>2, <1>2
    <3> DEFINE last == Next1(f[k], k + 1)
               g == [n \in 0 .. k + 1 |-> IF n <= k THEN f[n] ELSE last]
    <3>2. last \in Seq(R)
      BY <2>2, <3>1, <1>1, <1>2
    <3>3. last = Next1(f[k], k + 1)
      OBVIOUS
    <3> HIDE DEF last
    <3>4. g \in [0 .. k + 1 -> Seq(R)] /\ g[0] = << >>
      BY <3>1, <3>2
    <3>5. ASSUME NEW n \in 1 .. k + 1  PROVE  g[n] = Next1(g[n - 1], n)
      <4>1. g[n - 1] = f[n - 1]
        OBVIOUS
      <4>2. CASE n <= k
        BY <3>1, <4>1, <4>2
      <4>3. CASE n = k + 1
        <5>1. g[n] = last /\ n - 1 = k
          BY <4>3
        <5> QED
          BY <3>3, <4>1, <4>3, <5>1
      <4> QED
        BY <4>2, <4>3
    <3>6. Good(k + 1, g)
      BY <3>4, <3>5
    <3> HIDE DEF Good
    <3> QED
      BY <3>6
  <2>3. Nat \subseteq K
    <3>1. ASSUME NEW k \in Nat, k \in K  PROVE  k + 1 \in K
      <4> HIDE DEF Good
      <4> QED
        BY <2>2, <3>1
    <3> HIDE DEF K
    <3> QED
      BY <2>1, <3>1, NatSetInduction
  <2>4. \E f : Good(Len(text), f)
    <3> HIDE DEF Good
    <3> QED
      BY <1>2, <2>3
  <2> QED
    BY <2>4
<1>4. f = Def(f)
  BY <1>3
<1>5. rows = Def(rows)
  <2> DEFINE T == CHOOSE r : r = Def(r)
  <2>1. T = Def(T)
    BY <1>4
  <2>2. RowsUpTo(text, seg) = T
    BY DEF RowsUpTo, Next1
  <2> QED
    BY <2>1, <2>2
<1> HIDE DEF rows
<1>6. rows[0] = << >> /\ \A n \in 1 .. Len(text) : rows[n] = Next1(rows[n - 1], n)
  <2>1. rows[0] = Def(rows)[0] /\ Def(rows)[0] = << >>
    BY <1>2, <1>5
  <2>2. ASSUME NEW n \in 1 .. Len(text)  PROVE  rows[n] = Next1(rows[n - 1], n)
    <3>1. rows[n] = Def(rows)[n]
      BY <1>5
    <3>2. Def(rows)[n] = Next1(rows[n - 1], n)
      OBVIOUS
    <3> QED
      BY <3>1, <3>2, Zenon
  <2>3. rows[0] = << >>
    BY <2>1, Zenon
  <2> QED
    BY <2>2, <2>3
<1>7. \A n \in 0 .. Len(text) : rows[n] \in Seq(R)
  <2> DEFINE K == { n \in Nat : n <= Len(text) => rows[n] \in Seq(R) }
  <2>1. 0 \in K
    <3>1. rows[0] \in Seq(R)
      BY <1>6, EmptySeq, Zenon
    <3> QED
      BY <3>1
  <2>2. ASSUME NEW n \in Nat, n \in K  PROVE  n + 1 \in K
    <3>1. CASE n + 1 <= Len(text)
      <4>1. rows[n] \in Seq(R) /\ n + 1 \in 1 .. Len(text) /\ (n + 1) - 1 = n
        BY <2>2, <3>1, <1>2
      <4>2. rows[n + 1] = Next1(rows[n], n + 1)
        BY <4>1, <1>6
      <4>3. rows[n + 1] \in Seq(R)
        BY <4>1, <4>2, <1>1
      <4> QED
        BY <4>3
    <3> QED
      BY <3>1
  <2>3. Nat \subseteq K
    <3> HIDE DEF K
    <3> QED
      BY <2>1, <2>2, NatSetInduction
  <2> QED
    BY <2>3
<1> QED
  BY <1>6, <1>7 DEF rows, R, Next1

-----------------------------------------------------------------------------
(* What the steps of the two passes do to the rows.                        *)

LEMMA WriteAtEnd ==
  ASSUME NEW text \in Seq(AnyCell), NEW cells \in Seq(AnyCell)
  PROVE  WriteAt(text, Len(text), cells) = text \o cells
<1>1. Len(text) \in Nat /\ Len(cells) \in Nat
  OBVIOUS
<1>2. WriteAt(text, Len(text), cells) =
        [i \in 1 .. Len(text) + Len(cells) |->
           IF i \in Len(text) + 1 .. Len(text) + Len(cells) THEN cells[i - Len(text)]
           ELSE IF i <= Len(text) THEN text[i] ELSE Hole]
  <2>1. (IF Len(text) > Len(text) + Len(cells) THEN Len(text) ELSE Len(text) + Len(cells))
          = Len(text) + Len(cells)
    BY <1>1
  <2> QED
    BY <2>1 DEF WriteAt
<1>3. WriteAt(text, Len(text), cells) \in Seq(AnyCell)
  BY <1>1, WriteAtFacts DEF AnyCell
<1>4. Len(WriteAt(text, Len(text), cells)) = Len(text) + Len(cells)
  BY <1>1, <1>2
<1>5. /\ text \o cells \in Seq(AnyCell) /\ Len(text \o cells) = Len(text) + Len(cells)
      /\ \A i \in 1 .. Len(text) + Len(cells) :
           (text \o cells)[i] = IF i <= Len(text) THEN text[i] ELSE cells[i - Len(text)]
  BY ConcatProperties
<1>6. ASSUME NEW i \in 1 .. Len(text) + Len(cells)
      PROVE  WriteAt(text, Len(text), cells)[i] = (text \o cells)[i]
  <2>1. CASE i <= Len(text)
    BY <1>1, <1>2, <1>5, <2>1
  <2>2. CASE i > Len(text)
    BY <1>1, <1>2, <1>5, <2>2
  <2> QED
    BY <1>1, <2>1, <2>2
<1> QED
  BY <1>3, <1>4, <1>5, <1>6, SeqEqual

LEMMA RowsFacts ==
  ASSUME NEW text \in Seq(AnyCell), NEW seg \in {"code", "data"}, NEW n \in 0 .. Len(text)
  PROVE  /\ RowsUpTo(text, seg)[n] \in Seq(AnyCell)
         /\ \A i \in 1 .. Len(RowsUpTo(text, seg)[n]) : RowsUpTo(text, seg)[n][i] # Hole
<1>1. RowsUpTo(text, seg)[n] \in Seq(RowsOf(AnyCell, seg))
  BY RowsUpToFacts
<1>2. RowsOf(AnyCell, seg) \subseteq AnyCell
  BY DEF RowsOf
<1>3. Hole \notin RowsOf(AnyCell, seg)
  BY DEF Hole, RowsOf
<1>4. RowsUpTo(text, seg)[n] \in Seq(AnyCell)
  BY <1>1, <1>2, SeqMonotonic
<1>5. \A i \in 1 .. Len(RowsUpTo(text, seg)[n]) :
        RowsUpTo(text, seg)[n][i] \in RowsOf(AnyCell, seg)
  BY <1>1, ElementOfSeq
<1> QED
  BY <1>3, <1>4, <1>5

LEMMA ReadAheadKeeps ==
  ASSUME NEW text \in Seq(AnyCell), NEW s \in Stream, NEW codes, NEW datas, NEW image,
         InPass1(s, text, codes, datas, image), s.infile = << >>,
         NEW upto \in s.infileAt + 1 .. Len(text), NEW s1 \in Stream,
         s1 = [s EXCEPT !.infileAt = upto, !.infile = SubSeq(text, s.infileAt + 1, upto)]
  PROVE  InPass1(s1, text, codes, datas, image)
<1>1. PICK n \in 0 .. Len(text) :
        /\ s.infileAt \in n .. Len(text)
        /\ s.infile = SubSeq(text, n + 1, s.infileAt)
        /\ codes = RowsUpTo(text, "code")[n]
        /\ datas = RowsUpTo(text, "data")[n]
  BY DEF InPass1
<1>2. n \in Nat /\ s.infileAt \in Nat /\ Len(text) \in Nat
  BY <1>1 DEF Stream
<1>3. n = s.infileAt
  <2>1. \A i \in n + 1 .. s.infileAt : text[i] \in AnyCell
    BY <1>1, <1>2, ElementOfSeq
  <2>2. Len(SubSeq(text, n + 1, s.infileAt)) =
          IF n + 1 <= s.infileAt THEN s.infileAt - (n + 1) + 1 ELSE 0
    BY <1>2, <2>1, SubSeqProperties
  <2>3. Len(SubSeq(text, n + 1, s.infileAt)) = 0
    BY <1>1
  <2> QED
    BY <1>1, <1>2, <2>2, <2>3
<1>4. /\ s1.infileAt = upto /\ s1.infile = SubSeq(text, n + 1, upto)
      /\ s1.dataOpen = s.dataOpen /\ s1.buffer = s.buffer /\ s1.outfileAt = s.outfileAt
      /\ s1.codeAt = s.codeAt /\ s1.dataAt = s.dataAt
  BY <1>3 DEF Stream
<1>5. upto \in n .. Len(text)
  BY <1>2, <1>3
<1> QED
  BY <1>1, <1>4, <1>5 DEF InPass1

ReadsNext(n, s, text, codes, datas) ==
  /\ s.infileAt \in n .. Len(text)
  /\ Head(s.infile) = text[n]
  /\ Tail(s.infile) = SubSeq(text, n + 1, s.infileAt)
  /\ codes = RowsUpTo(text, "code")[n - 1]
  /\ datas = RowsUpTo(text, "data")[n - 1]

LEMMA NextLine ==
  ASSUME NEW text \in Seq(AnyCell), NEW s \in Stream, NEW codes, NEW datas, NEW image,
         InPass1(s, text, codes, datas, image), s.infile # << >>
  PROVE  \E n \in 1 .. Len(text) : ReadsNext(n, s, text, codes, datas)
<1>1. PICK n \in 0 .. Len(text) :
        /\ s.infileAt \in n .. Len(text)
        /\ s.infile = SubSeq(text, n + 1, s.infileAt)
        /\ codes = RowsUpTo(text, "code")[n]
        /\ datas = RowsUpTo(text, "data")[n]
  BY DEF InPass1
<1>2. n \in Nat /\ s.infileAt \in Nat /\ Len(text) \in Nat
  BY <1>1 DEF Stream
<1>3. n + 1 <= s.infileAt
  <2>1. CASE s.infileAt < n + 1
    BY <1>1, <1>2, <2>1, SubSeqEmpty
  <2> QED
    BY <1>2, <2>1
<1>4. n + 1 \in 1 .. Len(text) /\ s.infileAt \in n + 1 .. Len(text) /\ (n + 1) - 1 = n
  BY <1>1, <1>2, <1>3
<1>5. /\ Head(s.infile) = text[n + 1]
      /\ Tail(s.infile) = SubSeq(text, (n + 1) + 1, s.infileAt)
  BY <1>1, <1>4, HeadTailOfSubSeq
<1>6. ReadsNext(n + 1, s, text, codes, datas)
  BY <1>1, <1>4, <1>5 DEF ReadsNext
<1> QED
  BY <1>4, <1>6

LEMMA TranslateLineKeeps ==
  ASSUME NEW text \in Seq(AnyCell), NEW s \in Stream,
         NEW codes \in Seq(AnyCell), NEW datas \in Seq(AnyCell), NEW image,
         InPass1(s, text, codes, datas, image), s.infile # << >>,
         NEW c, c = Head(s.infile), NEW s1 \in Stream, NEW codes1, NEW datas1,
         s1.infile = Tail(s.infile), s1.infileAt = s.infileAt, s1.dataOpen = s.dataOpen,
         s1.buffer = s.buffer, s1.outfileAt = s.outfileAt,
         \/ /\ c.seg = "code" /\ codes1 = codes \o << c >> /\ datas1 = datas
            /\ s1.codeAt = s.codeAt + 1 /\ s1.dataAt = s.dataAt
         \/ /\ c.seg = "data" /\ codes1 = codes /\ datas1 = datas \o << c >>
            /\ s1.codeAt = s.codeAt /\ s1.dataAt = s.dataAt + 1
  PROVE  InPass1(s1, text, codes1, datas1, image)
<1>0. PICK n \in 1 .. Len(text) : ReadsNext(n, s, text, codes, datas)
  BY NextLine
<1>1. /\ s.infileAt \in n .. Len(text)
      /\ c = text[n]
      /\ Tail(s.infile) = SubSeq(text, n + 1, s.infileAt)
      /\ codes = RowsUpTo(text, "code")[n - 1]
      /\ datas = RowsUpTo(text, "data")[n - 1]
  BY <1>0 DEF ReadsNext
<1>2. c \in AnyCell
  BY <1>1, ElementOfSeq
<1>3. /\ RowsUpTo(text, "code")[n] = IF c.seg = "code" THEN Append(codes, c) ELSE codes
      /\ RowsUpTo(text, "data")[n] = IF c.seg = "data" THEN Append(datas, c) ELSE datas
  <2>1. ASSUME NEW seg
        PROVE  RowsUpTo(text, seg)[n] =
                 IF text[n].seg = seg THEN Append(RowsUpTo(text, seg)[n - 1], text[n])
                 ELSE RowsUpTo(text, seg)[n - 1]
    BY RowsUpToFacts
  <2> QED
    BY <1>1, <2>1
<1>4. /\ Append(codes, c) = codes \o << c >> /\ Len(codes \o << c >>) = Len(codes) + 1
      /\ Append(datas, c) = datas \o << c >> /\ Len(datas \o << c >>) = Len(datas) + 1
  BY <1>2, AppendIsConcat, AppendProperties
<1>5. /\ codes1 = RowsUpTo(text, "code")[n] /\ datas1 = RowsUpTo(text, "data")[n]
      /\ s1.codeAt = Len(codes1) /\ s1.dataAt = Len(datas1)
  <2>1. s.codeAt = Len(codes) /\ s.dataAt = Len(datas)
    BY DEF InPass1
  <2> QED
    BY <1>3, <1>4, <2>1
<1>6. n \in 0 .. Len(text)
  BY <1>1
<1>7. s.dataOpen /\ s.buffer = << >> /\ s.outfileAt = 0 /\ image = << >>
  BY DEF InPass1
<1> QED
  BY <1>1, <1>5, <1>6, <1>7 DEF InPass1

LEMMA EndOfSourceLeads ==
  ASSUME NEW text \in Seq(AnyCell), NEW s \in Stream,
         NEW codes \in Seq(AnyCell), NEW datas \in Seq(AnyCell), NEW image,
         InPass1(s, text, codes, datas, image), s.infile = << >>, s.infileAt >= Len(text),
         NEW s1 \in Stream, s1 = [s EXCEPT !.codeAt = 0, !.dataAt = 0]
  PROVE  InPass2(s1, text, datas, image) /\ InCode(s1, text, codes, image)
<1>1. PICK n \in 0 .. Len(text) :
        /\ s.infileAt \in n .. Len(text)
        /\ s.infile = SubSeq(text, n + 1, s.infileAt)
        /\ codes = RowsUpTo(text, "code")[n]
        /\ datas = RowsUpTo(text, "data")[n]
  BY DEF InPass1
<1>2. n = Len(text)
  <2>1. n \in Nat /\ s.infileAt \in Nat /\ Len(text) \in Nat
    BY <1>1 DEF Stream
  <2>2. \A i \in n + 1 .. s.infileAt : text[i] \in AnyCell
    BY <1>1, <2>1, ElementOfSeq
  <2>3. Len(SubSeq(text, n + 1, s.infileAt)) =
          IF n + 1 <= s.infileAt THEN s.infileAt - (n + 1) + 1 ELSE 0
    BY <2>1, <2>2, SubSeqProperties
  <2>4. Len(SubSeq(text, n + 1, s.infileAt)) = 0
    BY <1>1
  <2> QED
    BY <1>1, <2>1, <2>3, <2>4
<1>3. codes = Rows(text, "code") /\ datas = Rows(text, "data")
  BY <1>1, <1>2 DEF Rows
<1>4. /\ s1.codeAt = 0 /\ s1.dataAt = 0
      /\ s1.dataOpen = s.dataOpen /\ s1.buffer = s.buffer /\ s1.outfileAt = s.outfileAt
  BY DEF Stream
<1>5. s.dataOpen /\ s.buffer = << >> /\ s.outfileAt = 0 /\ image = << >>
  BY DEF InPass1
<1>6. << >> \o << >> = << >> /\ SubSeq(codes, 1, 0) = << >> /\ Len(<< >>) = 0
  BY SubSeqEmpty
<1>7. 0 \in 0 .. Len(codes)
  OBVIOUS
<1>8. InPass2(s1, text, datas, image)
  BY <1>3, <1>4, <1>5, <1>6 DEF InPass2
<1>9. InCode(s1, text, codes, image)
  BY <1>3, <1>4, <1>5, <1>6, <1>7 DEF InCode
<1> QED
  BY <1>8, <1>9

LEMMA Associates ==
  ASSUME NEW r \in Seq(AnyCell), NEW s \in Seq(AnyCell), NEW t \in Seq(AnyCell)
  PROVE  (r \o s) \o t = r \o (s \o t) /\ r \o s \in Seq(AnyCell)
BY ConcatAssociative, ConcatProperties

LEMMA AssociatesAll == \A r, s, t \in Seq(AnyCell) : (r \o s) \o t = r \o (s \o t)
<1> TAKE r, s, t \in Seq(AnyCell)
<1> QED
  BY Associates, Zenon

LEMMA Splits ==
  ASSUME NEW rows \in Seq(AnyCell), NEW k \in 0 .. Len(rows)
  PROVE  /\ SubSeq(rows, 1, k) \in Seq(AnyCell) /\ SubSeq(rows, k + 1, Len(rows)) \in Seq(AnyCell)
         /\ rows = SubSeq(rows, 1, k) \o SubSeq(rows, k + 1, Len(rows))
<1>1. /\ k \in Int /\ k + 1 \in Int /\ Len(rows) \in Int /\ 1 \in 1 .. Len(rows) + 1
      /\ k \in 1 - 1 .. Len(rows) /\ Len(rows) \in k .. Len(rows)
  OBVIOUS
<1>2. SubSeq(rows, 1, k) \o SubSeq(rows, k + 1, Len(rows)) = SubSeq(rows, 1, Len(rows))
  BY <1>1, ConcatAdjacentSubSeq
<1>3. (\A i \in 1 .. k : rows[i] \in AnyCell) /\ (\A i \in k + 1 .. Len(rows) : rows[i] \in AnyCell)
  BY <1>1, ElementOfSeq
<1>4. SubSeq(rows, 1, k) \in Seq(AnyCell) /\ SubSeq(rows, k + 1, Len(rows)) \in Seq(AnyCell)
  BY <1>1, <1>3, SubSeqProperties
<1>5. SubSeq(rows, 1, Len(rows)) = rows
  BY SubSeqFull
<1> QED
  BY <1>2, <1>4, <1>5

LEMMA Grows ==
  ASSUME NEW image \in Seq(AnyCell), NEW buffer \in Seq(AnyCell), NEW c \in AnyCell
  PROVE  image \o Append(buffer, c) = Append(image \o buffer, c)
<1>1. /\ Append(buffer, c) = buffer \o << c >>
      /\ image \o buffer \in Seq(AnyCell)
      /\ Append(image \o buffer, c) = (image \o buffer) \o << c >>
      /\ << c >> \in Seq(AnyCell)
  BY AppendIsConcat, ConcatProperties
<1>2. image \o (buffer \o << c >>) = (image \o buffer) \o << c >>
  BY <1>1, ConcatAssociative
<1> QED
  BY <1>1, <1>2

LEMMA CopyCodeRowKeeps ==
  ASSUME NEW text \in Seq(AnyCell), NEW s \in Stream, NEW datas,
         NEW codes \in Seq(AnyCell), NEW image \in Seq(AnyCell),
         InPass2(s, text, datas, image), InCode(s, text, codes, image),
         s.codeAt < Len(codes), NEW s1 \in Stream,
         s1.buffer = Append(s.buffer, codes[s.codeAt + 1]), s1.codeAt = s.codeAt + 1,
         s1.dataAt = s.dataAt, s1.dataOpen = s.dataOpen, s1.outfileAt = s.outfileAt
  PROVE  InPass2(s1, text, datas, image) /\ InCode(s1, text, codes, image)
<1>1. s.buffer \in Seq(AnyCell) /\ s.codeAt \in Nat /\ s.codeAt + 1 \in 0 .. Len(codes)
  BY DEF Stream
<1>2. /\ codes[s.codeAt + 1] \in AnyCell
      /\ SubSeq(codes, 1, s.codeAt + 1) = Append(SubSeq(codes, 1, s.codeAt), codes[s.codeAt + 1])
  BY <1>1, TakeNext
<1>3. image \o s1.buffer = Append(image \o s.buffer, codes[s.codeAt + 1])
  BY <1>1, <1>2, Grows
<1>4. image \o s1.buffer = SubSeq(codes, 1, s1.codeAt)
  BY <1>2, <1>3 DEF InCode
<1>5. InPass2(s1, text, datas, image)
  BY DEF InPass2
<1>6. InCode(s1, text, codes, image)
  BY <1>1, <1>4 DEF InCode
<1> QED
  BY <1>5, <1>6

(* No row of a segment is a hole: the loop ends behind the last one.       *)
LEMMA EndOfCodeLeads ==
  ASSUME NEW text \in Seq(AnyCell), NEW s \in Stream,
         NEW codes \in Seq(AnyCell), NEW datas, NEW image \in Seq(AnyCell),
         InPass2(s, text, datas, image), InCode(s, text, codes, image),
         s.codeAt < Len(codes) => codes[s.codeAt + 1] = Hole
  PROVE  InData(s, text, datas, image)
<1>1. Len(text) \in 0 .. Len(text) /\ s.codeAt \in Nat /\ s.codeAt \in 0 .. Len(codes)
  BY DEF Stream, InCode
<1>2. datas \in Seq(AnyCell) /\ codes = Rows(text, "code")
  BY <1>1, RowsFacts DEF Rows, InPass2, InCode
<1>3. \A i \in 1 .. Len(codes) : codes[i] # Hole
  BY <1>1, <1>2, RowsFacts DEF Rows
<1>4. s.codeAt = Len(codes)
  <2>1. CASE s.codeAt < Len(codes)
    <3>1. s.codeAt + 1 \in 1 .. Len(codes)
      BY <1>1, <2>1
    <3> QED
      BY <1>3, <2>1, <3>1
  <2> QED
    BY <1>1, <2>1
<1>5. image \o s.buffer = codes
  BY <1>4, SubSeqFull DEF InCode
<1>6. codes \o SubSeq(datas, 1, 0) = codes
  BY SubSeqEmpty, ConcatEmptySeq
<1>7. s.dataAt = 0 /\ 0 \in 0 .. Len(datas)
  BY <1>2 DEF InCode
<1> QED
  BY <1>2, <1>5, <1>6, <1>7 DEF InData

LEMMA CopyDataRowKeeps ==
  ASSUME NEW text \in Seq(AnyCell), NEW s \in Stream,
         NEW datas \in Seq(AnyCell), NEW image \in Seq(AnyCell),
         InPass2(s, text, datas, image), InData(s, text, datas, image),
         s.dataAt < Len(datas), NEW s1 \in Stream,
         s1.buffer = Append(s.buffer, datas[s.dataAt + 1]), s1.dataAt = s.dataAt + 1,
         s1.dataOpen = s.dataOpen, s1.outfileAt = s.outfileAt
  PROVE  InPass2(s1, text, datas, image) /\ InData(s1, text, datas, image)
<1> DEFINE code == Rows(text, "code")
<1>1. s.buffer \in Seq(AnyCell) /\ s.dataAt \in Nat /\ s.dataAt + 1 \in 0 .. Len(datas)
  BY DEF Stream
<1>2. /\ datas[s.dataAt + 1] \in AnyCell /\ SubSeq(datas, 1, s.dataAt) \in Seq(AnyCell)
      /\ SubSeq(datas, 1, s.dataAt + 1) = Append(SubSeq(datas, 1, s.dataAt), datas[s.dataAt + 1])
  BY <1>1, TakeNext
<1>c. PICK c \in AnyCell : c = datas[s.dataAt + 1]
  BY <1>2
<1>3. image \o s1.buffer = Append(image \o s.buffer, c)
  <2>1. image \o Append(s.buffer, c) = Append(image \o s.buffer, c)
    BY <1>1, Grows
  <2> QED
    BY <2>1, <1>c
<1>4. code \in Seq(AnyCell)
  <2>1. Len(text) \in 0 .. Len(text)
    OBVIOUS
  <2> QED
    BY <2>1, RowsFacts DEF Rows
<1> HIDE DEF code
<1>5. code \o SubSeq(datas, 1, s.dataAt + 1) = Append(code \o SubSeq(datas, 1, s.dataAt), c)
  <2>1. PICK some \in Seq(AnyCell) : some = SubSeq(datas, 1, s.dataAt)
    BY <1>2
  <2>2. code \o Append(some, c) = Append(code \o some, c)
    BY <1>4, Grows
  <2> QED
    BY <1>2, <1>c, <2>1, <2>2
<1>6. image \o s1.buffer = code \o SubSeq(datas, 1, s1.dataAt)
  BY <1>3, <1>5 DEF InData, code
<1>7. InPass2(s1, text, datas, image)
  BY DEF InPass2
<1>8. InData(s1, text, datas, image)
  BY <1>1, <1>6 DEF InData, code
<1> QED
  BY <1>7, <1>8

LEMMA FlushKeeps ==
  ASSUME NEW text, NEW s \in Stream, NEW codes, NEW datas, NEW image \in Seq(AnyCell),
         InPass2(s, text, datas, image), NEW s1 \in Stream,
         s1.buffer = << >>, s1.outfileAt = s.outfileAt + Len(s.buffer),
         s1.codeAt = s.codeAt, s1.dataAt = s.dataAt, s1.dataOpen = s.dataOpen
  PROVE  /\ InPass2(s1, text, datas, image \o s.buffer)
         /\ InCode(s, text, codes, image) => InCode(s1, text, codes, image \o s.buffer)
         /\ InData(s, text, datas, image) => InData(s1, text, datas, image \o s.buffer)
<1>1. s.buffer \in Seq(AnyCell)
  BY DEF Stream
<1>2. /\ image \o s.buffer \in Seq(AnyCell)
      /\ Len(image \o s.buffer) = Len(image) + Len(s.buffer)
  BY <1>1, ConcatProperties
<1>3. (image \o s.buffer) \o s1.buffer = image \o s.buffer
  BY <1>2, ConcatEmptySeq
<1>4. InPass2(s1, text, datas, image \o s.buffer)
  BY <1>2 DEF InPass2
<1> QED
  BY <1>3, <1>4 DEF InCode, InData

Begins(read, image) == \E u \in Seq(AnyCell) : read \o u = image

LEMMA BeginsMore ==
  ASSUME NEW read \in Seq(AnyCell), NEW image, NEW more \in Seq(AnyCell), Begins(read, image)
  PROVE  Begins(read, image \o more)
<1>1. PICK u \in Seq(AnyCell) : read \o u = image
  BY DEF Begins
<1>2. (read \o u) \o more = read \o (u \o more) /\ u \o more \in Seq(AnyCell)
  BY Associates
<1> QED
  BY <1>1, <1>2, Zenon DEF Begins

LEMMA BeginsHalf ==
  ASSUME NEW rows \in Seq(AnyCell), NEW k \in 0 .. Len(rows)
  PROVE  Begins(SubSeq(rows, 1, k), rows)
BY Splits DEF Begins

LEMMA BeginsBehind ==
  ASSUME NEW code \in Seq(AnyCell), NEW some \in Seq(AnyCell), NEW data, Begins(some, data)
  PROVE  Begins(code \o some, code \o data)
<1>1. PICK u \in Seq(AnyCell) : some \o u = data
  BY DEF Begins
<1>2. (code \o some) \o u = code \o (some \o u)
  BY Associates
<1> QED
  BY <1>1, <1>2, Zenon DEF Begins

(* What has been read is the beginning of what is owed.                    *)
LEMMA Remainder ==
  ASSUME NEW text \in Seq(AnyCell), NEW s \in Stream,
         NEW codes, NEW datas, NEW image \in Seq(AnyCell), InPass2(s, text, datas, image),
         InCode(s, text, codes, image) \/ InData(s, text, datas, image)
  PROVE  ImageOf(text) \in Seq(AnyCell) /\ Begins(image \o s.buffer, ImageOf(text))
<1> DEFINE code == Rows(text, "code")
           data == Rows(text, "data")
<1>1. code \in Seq(AnyCell) /\ data \in Seq(AnyCell)
  <2>1. Len(text) \in 0 .. Len(text)
    OBVIOUS
  <2> QED
    BY <2>1, RowsFacts DEF Rows
<1>2. << End >> \in Seq(AnyCell)
  <2>1. End \in AnyCell
    BY DEF AnyCell
  <2> QED
    BY <2>1
<1>3. ImageOf(text) = (code \o data) \o << End >>
  BY DEF ImageOf
<1>4. /\ InCode(s, text, codes, image) =>
           s.codeAt \in 0 .. Len(code) /\ image \o s.buffer = SubSeq(code, 1, s.codeAt)
      /\ InData(s, text, datas, image) =>
           s.dataAt \in 0 .. Len(data) /\ image \o s.buffer = code \o SubSeq(data, 1, s.dataAt)
  BY DEF InCode, InData, InPass2
<1> HIDE DEF code, data
<1>5. image \o s.buffer \in Seq(AnyCell)
  BY ConcatProperties DEF Stream
<1>6. code \o data \in Seq(AnyCell) /\ ImageOf(text) \in Seq(AnyCell)
  BY <1>1, <1>2, <1>3, ConcatProperties
<1>7. Begins(image \o s.buffer, code \o data)
  <2>1. CASE InCode(s, text, codes, image)
    <3>1. Begins(image \o s.buffer, code)
      BY <1>1, <1>4, <2>1, BeginsHalf
    <3> QED
      BY <1>1, <1>5, <3>1, BeginsMore
  <2>2. CASE InData(s, text, datas, image)
    <3>1. SubSeq(data, 1, s.dataAt) \in Seq(AnyCell) /\ Begins(SubSeq(data, 1, s.dataAt), data)
      BY <1>1, <1>4, <2>2, BeginsHalf, Splits
    <3> QED
      BY <1>1, <1>4, <2>2, <3>1, BeginsBehind
  <2> QED
    BY <2>1, <2>2
<1> QED
  BY <1>2, <1>3, <1>5, <1>6, <1>7, BeginsMore

LEMMA EndOfDataDelivers ==
  ASSUME NEW text \in Seq(AnyCell), NEW s \in Stream,
         NEW datas, NEW image \in Seq(AnyCell),
         InPass2(s, text, datas, image), InData(s, text, datas, image),
         s.dataAt < Len(datas) => datas[s.dataAt + 1] = Hole
  PROVE  image \o Append(s.buffer, End) = ImageOf(text)
<1>1. Len(text) \in 0 .. Len(text) /\ s.dataAt \in Nat /\ s.dataAt \in 0 .. Len(datas)
      /\ s.buffer \in Seq(AnyCell) /\ End \in AnyCell
  BY DEF Stream, InData, AnyCell
<1>2. datas \in Seq(AnyCell) /\ \A i \in 1 .. Len(datas) : datas[i] # Hole
  BY <1>1, RowsFacts DEF Rows, InPass2
<1>3. s.dataAt = Len(datas)
  <2>1. CASE s.dataAt < Len(datas)
    <3>1. s.dataAt + 1 \in 1 .. Len(datas)
      BY <1>1, <2>1
    <3> QED
      BY <1>2, <2>1, <3>1
  <2> QED
    BY <1>1, <1>2, <2>1
<1>4. image \o s.buffer = Rows(text, "code") \o Rows(text, "data")
  BY <1>2, <1>3, SubSeqFull DEF InData, InPass2
<1>5. image \o s.buffer \in Seq(AnyCell)
  BY <1>1, ConcatProperties
<1>6. image \o Append(s.buffer, End) = (image \o s.buffer) \o << End >>
  BY <1>1, <1>5, Grows, AppendIsConcat
<1> QED
  BY <1>4, <1>6 DEF ImageOf

-----------------------------------------------------------------------------
(* A step of one process leaves what the others have done.                 *)

FilesKept(own) ==
  \A f \in Infile : f # own =>
    \A g \in FilesOf(f) \cap DOMAIN file : g \in DOMAIN file' /\ file'[g] = file[g]

OwedKept(own) ==
  \A f : f # own =>
    /\ f \in DOMAIN made' <=> f \in DOMAIN made
    /\ f \in DOMAIN made => made'[f] = made[f]
    /\ f \in whole' <=> f \in whole

LEMMA TrackedFacts ==
  ASSUME DriverInv, NEW p \in Proc, pc[p] \in Tracked, in(p) # StandardInput
  PROVE  /\ Active(p) /\ in(p) \in Infile
         /\ stream[p] \in Stream
         /\ pc[p] \in {"datafile", "pass1", "code"} => CodeFileName(in(p)) \in DOMAIN file
         /\ stream[p].dataOpen => DataFileName(in(p)) \in DOMAIN file
         /\ \A g \in DOMAIN file : file[g] \in Seq(AnyCell)
<1>1. Active(p)
  BY DEF Active, Tracked, Early
<1>2. Sound(p) /\ Typed /\ Proper(file)
  BY DEF DriverInv
<1>3. Assembles(job[p])
  BY <1>1, <1>2 DEF Sound, JobKnown, in
<1> QED
  BY <1>1, <1>2, <1>3, AssembledFacts DEF Sound, Opened, Typed, Proper, in

LEMMA OthersOnTrack ==
  ASSUME DriverInv, NEW own, NEW q \in Proc, own # in(q), FilesKept(own), OwedKept(own),
         pc[q] \in Tracked, in(q) # StandardInput, OnTrack(q), Undisturbed(q)
  PROVE  OnTrack(q)'
<1> DEFINE f == in(q)
<1>1. /\ f \in Infile /\ f # own
      /\ {f, OutfileName(f), CodeFileName(f), DataFileName(f)} = FilesOf(f)
  BY TrackedFacts DEF FilesOf
<1>2. /\ in(q)' = f /\ pc'[q] = pc[q] /\ stream'[q] = stream[q]
  BY DEF Undisturbed, in
<1>3. /\ f \in DOMAIN file /\ OutfileName(f) \in DOMAIN file
      /\ pc[q] \in {"datafile", "pass1", "code"} => CodeFileName(f) \in DOMAIN file
      /\ pc[q] \in {"pass1", "code", "data"} => DataFileName(f) \in DOMAIN file
  BY TrackedFacts DEF OnTrack, InPass1, InPass2
<1>4. \A g \in FilesOf(f) : g \in DOMAIN file => g \in DOMAIN file' /\ file'[g] = file[g]
  BY <1>1 DEF FilesKept
<1>5. f \in DOMAIN made /\ f \in DOMAIN made' /\ made'[f] = made[f] /\ (f \in whole' <=> f \in whole)
  BY <1>1 DEF OwedKept, OnTrack
<1>6. /\ f \in DOMAIN file' /\ file'[f] = file[f]
      /\ OutfileName(f) \in DOMAIN file' /\ file'[OutfileName(f)] = file[OutfileName(f)]
      /\ pc[q] \in {"datafile", "pass1", "code"} => file'[CodeFileName(f)] = file[CodeFileName(f)]
      /\ pc[q] \in {"pass1", "code", "data"} => file'[DataFileName(f)] = file[DataFileName(f)]
  BY <1>1, <1>3, <1>4
<1> HIDE DEF f
<1>7. f = in(q)
  BY DEF f
<1>8. CASE pc[q] \in Early
  BY <1>2, <1>5, <1>6, <1>7, <1>8 DEF OnTrack, Image, Early
<1>9. CASE pc[q] = "pass1"
  BY <1>2, <1>5, <1>6, <1>7, <1>9 DEF OnTrack, Image, Early
<1>10. CASE pc[q] = "code"
  BY <1>2, <1>5, <1>6, <1>7, <1>10 DEF OnTrack, Image, Early
<1>11. CASE pc[q] = "data"
  BY <1>2, <1>5, <1>6, <1>7, <1>11 DEF OnTrack, Image, Early, InData
<1> QED
  BY <1>8, <1>9, <1>10, <1>11 DEF Tracked

LEMMA OthersDelivered ==
  ASSUME ImageInv, NEW own, FilesKept(own), OwedKept(own), NEW f \in DOMAIN made', f # own
  PROVE  Delivered(f)'
<1>1. f \in DOMAIN made /\ Delivered(f) /\ made'[f] = made[f] /\ (f \in whole' <=> f \in whole)
  BY DEF OwedKept, ImageInv
<1>2. f \in Infile /\ OutfileName(f) \in FilesOf(f) \cap DOMAIN file
  BY <1>1 DEF Delivered, FilesOf
<1>3. OutfileName(f) \in DOMAIN file' /\ file'[OutfileName(f)] = file[OutfileName(f)]
  BY <1>2 DEF FilesKept
<1> QED
  BY <1>1, <1>2, <1>3 DEF Delivered, Image

LEMMA LocalStep ==
  ASSUME DriverInv, ImageInv, NEW p \in Proc, Active(p),
         \A q \in Proc : q # p => Undisturbed(q),
         UNCHANGED job, pc'[p] # "idle", FilesKept(in(p)), OwedKept(in(p)),
         clean' \subseteq clean, clean \ {p} \subseteq clean',
         in(p) \in DOMAIN made' => in(p) \in DOMAIN made \/ p \in clean,
         Active(p)' /\ p \notin clean' => in(p) \notin DOMAIN made',
         in(p) \in DOMAIN made' => Delivered(in(p))',
         p \in clean' /\ pc'[p] \in Tracked /\ in(p) # StandardInput => OnTrack(p)'
  PROVE  ImageInv'
<1>1. \A q \in Proc : in(q)' = in(q) /\ (q # p => pc'[q] = pc[q])
  BY DEF Undisturbed, in
<1>2. clean \subseteq Proc
  BY DEF DriverInv, Typed
<1>3. CleanIsSole'
  <2> SUFFICES ASSUME NEW q \in clean'
               PROVE  pc'[q] # "idle" /\ (Active(q)' => Sole(q)')
    BY DEF CleanIsSole
  <2>1. q \in clean /\ q \in Proc
    BY <1>2
  <2>2. pc[q] # "idle" /\ (Active(q) => Sole(q))
    BY <2>1 DEF ImageInv, CleanIsSole
  <2>3. \A r \in Proc : Active(r)' => Active(r)
    BY <1>1 DEF Active
  <2> QED
    BY <1>1, <2>1, <2>2, <2>3 DEF Sole
<1>4. DisturbedOwesNothing'
  <2> SUFFICES ASSUME NEW q \in Proc, Active(q)', q \notin clean'
               PROVE  in(q)' \notin DOMAIN made'
    BY DEF DisturbedOwesNothing
  <2>1. CASE q = p
    BY <1>1, <2>1
  <2>2. CASE q # p
    <3>1. Active(q) /\ q \notin clean
      BY <1>1, <2>2 DEF Active
    <3>2. in(q) \notin DOMAIN made
      BY <3>1 DEF ImageInv, DisturbedOwesNothing
    <3>3. CASE in(q) = in(p)
      <4>1. p \notin clean
        BY <2>2, <3>1, <3>3 DEF ImageInv, CleanIsSole, Sole
      <4> QED
        BY <1>1, <3>2, <3>3, <4>1
    <3>4. CASE in(q) # in(p)
      BY <1>1, <3>2, <3>4 DEF OwedKept
    <3> QED
      BY <3>3, <3>4
  <2> QED
    BY <2>1, <2>2
<1>5. ASSUME NEW f, f \in DOMAIN made'  PROVE  Delivered(f)'
  <2>1. CASE f = in(p)
    BY <1>5, <1>1, <2>1
  <2>2. CASE f # in(p)
    BY <1>5, <2>2, OthersDelivered
  <2> QED
    BY <2>1, <2>2
<1>6. ASSUME NEW q \in clean', pc'[q] \in Tracked, in(q)' # StandardInput
      PROVE  OnTrack(q)'
  <2>1. q \in clean /\ q \in Proc
    BY <1>2
  <2>2. CASE q = p
    BY <1>1, <1>6, <2>2
  <2>3. CASE q # p
    <3>1. pc[q] \in Tracked /\ in(q) # StandardInput /\ Undisturbed(q)
      BY <1>1, <1>6, <2>1, <2>3
    <3>2. OnTrack(q) /\ Active(q)
      BY <2>1, <3>1, TrackedFacts DEF ImageInv
    <3>3. in(p) # in(q)
      BY <2>1, <2>3, <3>2 DEF ImageInv, CleanIsSole, Sole
    <3> QED
      BY <2>1, <3>1, <3>2, <3>3, OthersOnTrack
  <2> QED
    BY <2>2, <2>3
<1> QED
  BY <1>3, <1>4, <1>5, <1>6 DEF ImageInv

LEMMA NamesApart ==
  ASSUME NEW f \in Infile
  PROVE  /\ f # OutfileName(f) /\ f # CodeFileName(f) /\ f # DataFileName(f)
         /\ OutfileName(f) # CodeFileName(f) /\ OutfileName(f) # DataFileName(f)
         /\ CodeFileName(f) # DataFileName(f)
         /\ FilesOf(f) = {f, OutfileName(f), CodeFileName(f), DataFileName(f)}
<1>1. f \in FileName /\ f.suffix = ""
  BY InfileFacts
<1>2. OutfileName(f).suffix = "bin"
  BY <1>1 DEF FileName, OutfileName
<1>3. CodeFileName(f).suffix = "pass1-code"
  BY <1>1 DEF FileName, CodeFileName
<1>4. DataFileName(f).suffix = "pass1-data"
  BY <1>1 DEF FileName, DataFileName
<1> QED
  BY <1>1, <1>2, <1>3, <1>4 DEF FilesOf

LEMMA TruncatedIs ==
  ASSUME NEW g, file' = Truncated(g)
  PROVE  /\ DOMAIN file' = DOMAIN file \cup {g}
         /\ file'[g] = << >>
         /\ \A h \in DOMAIN file : h # g => file'[h] = file[h]
BY DEF Truncated, Put

LEMMA WrittenIs ==
  ASSUME NEW g, NEW at, NEW cells, file' = Written(g, at, cells)
  PROVE  /\ DOMAIN file' = DOMAIN file
         /\ g \in DOMAIN file => file'[g] = WriteAt(file[g], at, cells)
         /\ \A h \in DOMAIN file : h # g => file'[h] = file[h]
BY DEF Written

(* It has written to none of the files, or to one of its own.              *)
LEMMA OwnFilesOnly ==
  ASSUME NEW own \in Infile, NEW g \in FilesOf(own),
         \A h \in DOMAIN file : h \in DOMAIN file' /\ (h # g => file'[h] = file[h])
  PROVE  FilesKept(own)
<1> SUFFICES ASSUME NEW f \in Infile, f # own, NEW h \in FilesOf(f) \cap DOMAIN file
             PROVE  h \in DOMAIN file' /\ file'[h] = file[h]
  BY DEF FilesKept
<1>1. h # g
  BY FilesAreApart
<1> QED
  BY <1>1

LEMMA OwedUnchanged ==
  ASSUME NEW own, UNCHANGED << made, whole >>
  PROVE  OwedKept(own)
BY DEF OwedKept

(* The files of a run that is on its way are the beginning of the image.   *)
TrackDelivers ==
  \A p \in Proc :
    DriverInv /\ pc[p] \in Tracked /\ in(p) # StandardInput /\ OnTrack(p) => Delivered(in(p))

LEMMA IsPrefixOfConcat ==
  ASSUME NEW r \in Seq(AnyCell), NEW s \in Seq(AnyCell)
  PROVE  IsPrefix(r, r \o s)
BY PrefixOfConcat DEF IsPrefix

LEMMA BeginsIsPrefix ==
  ASSUME NEW image \in Seq(AnyCell), NEW buffer \in Seq(AnyCell), NEW all,
         Begins(image \o buffer, all)
  PROVE  IsPrefix(image, all)
<1>1. PICK u \in Seq(AnyCell) : (image \o buffer) \o u = all
  BY DEF Begins
<1>2. PICK r \in Seq(AnyCell) : r = buffer \o u
  BY Associates
<1>3. (image \o buffer) \o u = image \o (buffer \o u)
  BY AssociatesAll, Zenon
<1>4. image \o r = all
  BY <1>1, <1>2, <1>3, Zenon
<1>5. IsPrefix(image, image \o r)
  BY <1>2, IsPrefixOfConcat
<1> QED
  BY <1>4, <1>5

LEMMA EmptyIsPrefix ==
  ASSUME NEW text \in Seq(AnyCell)
  PROVE  ImageOf(text) \in Seq(AnyCell) /\ IsPrefix(<< >>, ImageOf(text))
<1>1. Rows(text, "code") \in Seq(AnyCell) /\ Rows(text, "data") \in Seq(AnyCell)
  <2>1. Len(text) \in 0 .. Len(text)
    OBVIOUS
  <2> QED
    BY <2>1, RowsFacts DEF Rows
<1>2. << End >> \in Seq(AnyCell)
  <2>1. End \in AnyCell
    BY DEF AnyCell
  <2> QED
    BY <2>1
<1>3. ImageOf(text) \in Seq(AnyCell)
  BY <1>1, <1>2, ConcatProperties DEF ImageOf
<1>4. Len(<< >>) <= Len(ImageOf(text)) /\ SubSeq(<< >>, 1, Len(<< >>)) = SubSeq(ImageOf(text), 1, Len(<< >>))
  BY <1>3, SubSeqEmpty
<1> QED
  BY <1>3, <1>4 DEF IsPrefix

LEMMA OnTrackDelivers == TrackDelivers
<1> SUFFICES ASSUME NEW p \in Proc, DriverInv, pc[p] \in Tracked, in(p) # StandardInput, OnTrack(p)
             PROVE  Delivered(in(p))
  BY DEF TrackDelivers
<1>1. /\ in(p) \in Infile /\ stream[p] \in Stream
      /\ \A g \in DOMAIN file : file[g] \in Seq(AnyCell)
  BY TrackedFacts
<1>2. /\ in(p) \in DOMAIN file /\ OutfileName(in(p)) \in DOMAIN file
      /\ made[in(p)] = ImageOf(file[in(p)]) /\ in(p) \notin whole
  BY DEF OnTrack
<1>3. stream[p].buffer \in Seq(AnyCell) /\ Image(in(p)) \in Seq(AnyCell) /\ file[in(p)] \in Seq(AnyCell)
  BY <1>1, <1>2 DEF Stream, Image
<1>4. CASE pc[p] \in Early \cup {"pass1"}
  <2>1. Image(in(p)) = << >>
    BY <1>4 DEF OnTrack, InPass1
  <2> QED
    BY <1>1, <1>2, <1>3, <2>1, EmptyIsPrefix DEF Delivered
<1>5. CASE pc[p] \in {"code", "data"}
  <2> DEFINE codes == file[CodeFileName(in(p))]
             datas == file[DataFileName(in(p))]
  <2>1. /\ InPass2(stream[p], file[in(p)], datas, Image(in(p)))
        /\ \/ InCode(stream[p], file[in(p)], codes, Image(in(p)))
           \/ InData(stream[p], file[in(p)], datas, Image(in(p)))
    BY <1>5 DEF OnTrack
  <2> HIDE DEF codes, datas
  <2>2. /\ ImageOf(file[in(p)]) \in Seq(AnyCell)
        /\ Begins(Image(in(p)) \o stream[p].buffer, ImageOf(file[in(p)]))
    BY <1>1, <1>3, <2>1, Remainder
  <2>3. IsPrefix(Image(in(p)), made[in(p)])
    BY <1>2, <1>3, <2>2, BeginsIsPrefix
  <2> QED
    BY <1>1, <1>2, <2>2, <2>3 DEF Delivered
<1> QED
  BY <1>4, <1>5 DEF Tracked

(* A run that ends, or is not ready to write, leaves the image as it is.   *)
LEMMA LeavesTrack ==
  ASSUME DriverInv, ImageInv, NEW p \in Proc, Active(p),
         \A q \in Proc : q # p => Undisturbed(q),
         UNCHANGED << job, clean, made, whole >>, pc'[p] \notin Tracked \cup {"idle"}, FilesKept(in(p)),
         OutfileName(in(p)) \in DOMAIN file =>
           /\ OutfileName(in(p)) \in DOMAIN file'
           /\ file'[OutfileName(in(p))] = file[OutfileName(in(p))]
  PROVE  ImageInv'
<1>1. OwedKept(in(p))
  BY OwedUnchanged
<1>2. in(p) \in DOMAIN made => p \in clean /\ Delivered(in(p))
  BY DEF ImageInv, DisturbedOwesNothing
<1>3. in(p) \in DOMAIN made' => Delivered(in(p))'
  BY <1>2 DEF Delivered, Image, in
<1> QED
  BY <1>1, <1>2, <1>3, LocalStep

LEMMA StaysOnTrack ==
  ASSUME DriverInv, DriverInv', ImageInv, NEW p \in Proc, pc[p] \in Tracked,
         \A q \in Proc : q # p => Undisturbed(q),
         UNCHANGED << job, clean, made, whole >>, pc'[p] \in Tracked, FilesKept(in(p)),
         p \in clean /\ in(p) # StandardInput => OnTrack(p)'
  PROVE  ImageInv'
<1>1. OwedKept(in(p))
  BY OwedUnchanged
<1>2. Active(p) /\ pc'[p] # "idle"
  BY DEF Active, Tracked, Early
<1>3. in(p) \in DOMAIN made => p \in clean /\ Delivered(in(p))
  BY <1>2 DEF ImageInv, DisturbedOwesNothing
<1>4. ASSUME in(p) \in DOMAIN made  PROVE  Delivered(in(p))'
  <2>1. p \in clean /\ in(p) # StandardInput
    <3>1. p \in clean /\ in(p) \in Infile
      BY <1>3, <1>4 DEF Delivered
    <3>2. in(p).ext # ""
      BY <3>1, InfileFacts
    <3>3. StandardInput.ext = ""
      BY DEF StandardInput
    <3> QED
      BY <3>1, <3>2, <3>3
  <2>2. TrackDelivers'
    BY OnTrackDelivers, PTL
  <2>3. in(p)' # StandardInput /\ OnTrack(p)'
    BY <2>1 DEF in
  <2> QED
    BY <2>2, <2>3 DEF TrackDelivers
<1> QED
  BY <1>1, <1>2, <1>3, <1>4, LocalStep

-----------------------------------------------------------------------------
(* ImageInv is inductive, together with DriverInv.                         *)

LEMMA InitImage == Init => ImageInv
<1> SUFFICES ASSUME Init
             PROVE  ImageInv
  OBVIOUS
<1>1. clean = {} /\ made = << >>
  BY DEF Init
<1>2. DOMAIN << >> = {}
  OBVIOUS
<1> QED
  BY <1>1, <1>2 DEF ImageInv, CleanIsSole, DisturbedOwesNothing

LEMMA SameFiles ==
  ASSUME NEW own, UNCHANGED file
  PROVE  FilesKept(own)
BY DEF FilesKept

(* Where a step takes a process, and that it takes no other one.           *)
LEMMA OneMoves ==
  ASSUME DriverInv, NEW p \in Proc, NEW where, Goto(p, where)
  PROVE  pc'[p] = where /\ \A q \in Proc : q # p => pc'[q] = pc[q]
BY DEF Goto, DriverInv, Typed

LEMMA OneMovesOn ==
  ASSUME DriverInv, NEW p \in Proc, NEW where, Goto(p, where), UNCHANGED << job, stream, status >>
  PROVE  pc'[p] = where /\ \A q \in Proc : q # p => Undisturbed(q)
BY OneMoves DEF Undisturbed

LEMMA OneExits ==
  ASSUME DriverInv, NEW p \in Proc, Active(p), NEW s \in Status, Exit(p, s), UNCHANGED job
  PROVE  pc'[p] \in {"rename", "ended"} /\ \A q \in Proc : q # p => Undisturbed(q)
<1>1. \A q \in Proc : q # p => Undisturbed(q)
  BY ExitIsSound
<1>2. pc'[p] \in {"rename", "ended"}
  BY DEF Exit, Goto, DriverInv, Typed
<1> QED
  BY <1>1, <1>2

(* What the users do to one source.                                        *)
LEMMA UsersStep ==
  ASSUME DriverInv, ImageInv, NEW own, FilesKept(own), OwedKept(own), clean' \subseteq Proc,
         CleanIsSole', DisturbedOwesNothing', own \in DOMAIN made' => Delivered(own)',
         \A q \in clean' : pc'[q] \in Tracked /\ in(q)' # StandardInput =>
            q \in clean /\ Undisturbed(q) /\ in(q) # own
  PROVE  ImageInv'
<1>1. ASSUME NEW f \in DOMAIN made'  PROVE  Delivered(f)'
  BY OthersDelivered
<1>2. ASSUME NEW q \in clean', pc'[q] \in Tracked, in(q)' # StandardInput
      PROVE  OnTrack(q)'
  <2>1. q \in clean /\ Undisturbed(q) /\ in(q) # own /\ q \in Proc
    BY <1>2
  <2>2. pc[q] \in Tracked /\ in(q) # StandardInput
    BY <1>2, <2>1 DEF Undisturbed, in
  <2>3. OnTrack(q)
    BY <2>1, <2>2 DEF ImageInv
  <2> QED
    BY <2>1, <2>2, <2>3, OthersOnTrack
<1> QED
  BY <1>1, <1>2 DEF ImageInv

LEMMA StartImage ==
  ASSUME DriverInv, ImageInv, NEW p \in Proc, NEW f, NEW script \in BOOLEAN, NEW where,
         Start(p, f, script, where),
         where \in {"open", "redirect"} \/ (f = StandardInput /\ ~ script /\ where = "language")
  PROVE  ImageInv'
<1> DEFINE own == IF script THEN PpSource(f) ELSE f
<1>1. /\ pc[p] = "idle" /\ pc'[p] = where /\ in(p)' = own
      /\ \A q \in Proc : q # p => Undisturbed(q)
      /\ UNCHANGED << file, whole >>
      /\ clean' = IF Users(own) = {} THEN clean \cup {p} ELSE clean \ Users(own)
      /\ made' = IF Users(own) = {} THEN made ELSE Without(made, own)
  <2>1. pc'[p] = where /\ \A q \in Proc : q # p => pc'[q] = pc[q]
    BY OneMoves DEF Start
  <2>2. job' = [job EXCEPT ![p] = [src |-> f, in |-> own, script |-> script]]
    BY DEF Start
  <2>3. in(p)' = own /\ \A q \in Proc : q # p => job'[q] = job[q]
    BY <2>2 DEF in, DriverInv, Typed
  <2> QED
    BY <2>1, <2>3 DEF Start, Undisturbed
<1> HIDE DEF own
<1>2. FilesKept(own)
  BY <1>1, SameFiles
<1>3. OwedKept(own) /\ (own \in DOMAIN made' => Users(own) = {} /\ made' = made)
  BY <1>1 DEF OwedKept, Without, RestrictDomain, Restrict
<1>4. /\ \A q \in Proc : q # p => pc'[q] = pc[q] /\ in(q)' = in(q) /\ Active(q)' = Active(q)
      /\ p \notin clean /\ clean \subseteq Proc /\ Active(p)' /\ ~ Active(p)
      /\ \A q \in Proc : q \in Users(own) <=> Active(q) /\ in(q) = own
  BY <1>1 DEF Undisturbed, in, Active, ImageInv, CleanIsSole, DriverInv, Typed, Users
<1>5. CleanIsSole'
  <2> SUFFICES ASSUME NEW q \in clean'
               PROVE  pc'[q] # "idle" /\ (Active(q)' => Sole(q)')
    BY DEF CleanIsSole
  <2>1. CASE q = p
    BY <1>1, <1>4, <2>1 DEF Sole
  <2>2. CASE q # p
    <3>1. q \in clean /\ q \in Proc /\ q \notin Users(own)
      BY <1>1, <1>4, <2>2
    <3>2. pc[q] # "idle" /\ (Active(q) => Sole(q))
      BY <3>1 DEF ImageInv, CleanIsSole
    <3> QED
      BY <1>1, <1>4, <2>2, <3>1, <3>2 DEF Sole
  <2> QED
    BY <2>1, <2>2
<1>6. DisturbedOwesNothing'
  <2> SUFFICES ASSUME NEW q \in Proc, Active(q)', q \notin clean'
               PROVE  in(q)' \notin DOMAIN made'
    BY DEF DisturbedOwesNothing
  <2>1. CASE in(q)' = own
    BY <1>1, <1>3, <1>4, <2>1
  <2>2. CASE in(q)' # own
    <3>1. q # p /\ Active(q) /\ q \notin clean
      BY <1>1, <1>4, <2>2
    <3>2. in(q) \notin DOMAIN made
      BY <3>1 DEF ImageInv, DisturbedOwesNothing
    <3> QED
      BY <1>3, <1>4, <2>2, <3>1, <3>2 DEF OwedKept
  <2> QED
    BY <2>1, <2>2
<1>7. own \in DOMAIN made' => Delivered(own)'
  BY <1>1, <1>3 DEF ImageInv, Delivered, Image
<1>8. ASSUME NEW q \in clean', pc'[q] \in Tracked, in(q)' # StandardInput
      PROVE  q \in clean /\ Undisturbed(q) /\ in(q) # own
  <2>1. q # p
    BY <1>1, <1>8 DEF Tracked, Early, own
  <2>2. q \in clean /\ q \in Proc /\ q \notin Users(own)
    BY <1>1, <1>4, <2>1
  <2>3. Active(q)
    BY <1>4, <1>8, <2>1, <2>2 DEF Active, Tracked, Early
  <2> QED
    BY <1>1, <1>4, <2>1, <2>2, <2>3
<1>9. clean' \subseteq Proc
  BY <1>1, <1>4
<1> QED
  BY <1>2, <1>3, <1>5, <1>6, <1>7, <1>8, <1>9, UsersStep

LEMMA EditImage ==
  ASSUME DriverInv, ImageInv, Edit
  PROVE  ImageInv'
<1>1. PICK f \in Source : \E t \in Text[f] :
        /\ file' = Put(file, f, t)
        /\ clean' = clean \ Users(f)
        /\ made' = IF Users(f) = {} THEN made ELSE Without(made, f)
  BY DEF Edit
<1>2. UNCHANGED << pc, job, stream, status, whole >>
  BY DEF Edit
<1>3. f \in Infile /\ f # OutfileName(f)
  <2>1. f \in Infile
    BY DEF Infile
  <2> QED
    BY <2>1, NamesApart
<1>4. /\ DOMAIN file' = DOMAIN file \cup {f}
      /\ \A h \in DOMAIN file : h # f => file'[h] = file[h]
  BY <1>1 DEF Put
<1>5. FilesKept(f)
  <2>1. f \in FilesOf(f)
    BY DEF FilesOf
  <2> QED
    BY <1>3, <1>4, <2>1, OwnFilesOnly
<1>6. OwedKept(f) /\ (f \in DOMAIN made' => Users(f) = {} /\ made' = made)
  BY <1>1, <1>2 DEF OwedKept, Without, RestrictDomain, Restrict
<1>7. /\ \A q \in Proc : Undisturbed(q) /\ in(q)' = in(q) /\ Active(q)' = Active(q)
      /\ \A q \in Proc : q \in Users(f) <=> Active(q) /\ in(q) = f
      /\ clean \subseteq Proc
  BY <1>2 DEF Undisturbed, in, Active, Users, DriverInv, Typed
<1>8. CleanIsSole'
  BY <1>1, <1>2, <1>7 DEF ImageInv, CleanIsSole, Sole
<1>9. DisturbedOwesNothing'
  <2> SUFFICES ASSUME NEW q \in Proc, Active(q)', q \notin clean'
               PROVE  in(q)' \notin DOMAIN made'
    BY DEF DisturbedOwesNothing
  <2>1. CASE in(q) = f
    BY <1>6, <1>7, <2>1
  <2>2. CASE in(q) # f
    <3>1. in(q) \notin DOMAIN made
      BY <1>1, <1>7, <2>2 DEF ImageInv, DisturbedOwesNothing
    <3> QED
      BY <1>6, <1>7, <2>2, <3>1 DEF OwedKept
  <2> QED
    BY <2>1, <2>2
<1>10. f \in DOMAIN made' => Delivered(f)'
  BY <1>2, <1>3, <1>4, <1>6 DEF ImageInv, Delivered, Image
<1>11. ASSUME NEW q \in clean', pc'[q] \in Tracked
       PROVE  q \in clean /\ Undisturbed(q) /\ in(q) # f
  BY <1>1, <1>2, <1>7, <1>11 DEF Active, Tracked, Early
<1>12. clean' \subseteq Proc
  BY <1>1, <1>7
<1> QED
  BY <1>5, <1>6, <1>8, <1>9, <1>10, <1>11, <1>12, UsersStep

LEMMA ReapImage ==
  ASSUME DriverInv, ImageInv, NEW p \in Proc, Reap(p)
  PROVE  ImageInv'
<1>1. /\ pc[p] = "ended" /\ pc'[p] = "idle" /\ \A q \in Proc : q # p => pc'[q] = pc[q]
      /\ \A q \in Proc : q # p => Undisturbed(q)
      /\ clean' = clean \ {p} /\ UNCHANGED << file, job, made, whole >>
  <2>1. pc'[p] = "idle" /\ \A q \in Proc : q # p => pc'[q] = pc[q]
    BY OneMoves DEF Reap
  <2> QED
    BY <2>1 DEF Reap, Undisturbed, DriverInv, Typed
<1>2. /\ \A q \in Proc : in(q)' = in(q) /\ (Active(q)' <=> Active(q))
      /\ clean \subseteq Proc
  BY <1>1 DEF in, Active, DriverInv, Typed
<1>3. CleanIsSole'
  BY <1>1, <1>2 DEF ImageInv, CleanIsSole, Sole
<1>4. DisturbedOwesNothing'
  BY <1>1, <1>2 DEF ImageInv, DisturbedOwesNothing, Active
<1>5. FilesKept(StandardInput) /\ OwedKept(StandardInput)
  BY <1>1, SameFiles, OwedUnchanged
<1>6. StandardInput \in DOMAIN made' => Delivered(StandardInput)'
  BY <1>1 DEF ImageInv, Delivered, Image
<1>7. ASSUME NEW q \in clean', in(q)' # StandardInput
      PROVE  q \in clean /\ Undisturbed(q) /\ in(q) # StandardInput
  BY <1>1, <1>2, <1>7
<1>8. clean' \subseteq Proc
  BY <1>1, <1>2
<1> QED
  BY <1>3, <1>4, <1>5, <1>6, <1>7, <1>8, UsersStep

(* The exit of a run that has not written anything meanwhile.              *)
LEMMA ExitImage ==
  ASSUME DriverInv, ImageInv, NEW p \in Proc, Active(p), NEW s \in Status, Exit(p, s),
         UNCHANGED << file, job, clean, made, whole >>
  PROVE  ImageInv'
<1>1. pc'[p] \in {"rename", "ended"} /\ \A q \in Proc : q # p => Undisturbed(q)
  BY OneExits
<1>2. pc'[p] \notin Tracked \cup {"idle"}
  BY <1>1 DEF Tracked, Early
<1> QED
  BY <1>1, <1>2, SameFiles, LeavesTrack

(* A step before the image is opened.                                      *)
LEMMA BeforeOutput ==
  ASSUME DriverInv, ImageInv, NEW p \in Proc, Active(p), NEW where \in {"papp", "open", "output"},
         Goto(p, where), UNCHANGED << job, stream, status, clean, made, whole >>, FilesKept(in(p)),
         OutfileName(in(p)) \in DOMAIN file =>
           /\ OutfileName(in(p)) \in DOMAIN file'
           /\ file'[OutfileName(in(p))] = file[OutfileName(in(p))]
  PROVE  ImageInv'
<1>1. pc'[p] = where /\ \A q \in Proc : q # p => Undisturbed(q)
  BY OneMovesOn
<1>2. pc'[p] \notin Tracked \cup {"idle"}
  BY <1>1 DEF Tracked, Early
<1> QED
  BY <1>1, <1>2, LeavesTrack

LEMMA RedirectImage ==
  ASSUME DriverInv, ImageInv, NEW p \in Proc, Redirect(p)
  PROVE  ImageInv'
<1>1. Active(p) /\ pc[p] = "redirect" /\ UNCHANGED << job, clean, made, whole >>
  BY DEF Redirect, Active, history
<1>2. in(p) \in Infile /\ in(p) # OutfileName(in(p)) /\ in(p) \in FilesOf(in(p))
  BY <1>1, ActiveFacts, NamesApart DEF FilesOf
<1>3. CASE file' = Truncated(in(p)) /\ Goto(p, "papp") /\ UNCHANGED << stream, status >>
  <2>1. /\ DOMAIN file' = DOMAIN file \cup {in(p)}
        /\ \A h \in DOMAIN file : h # in(p) => file'[h] = file[h]
    BY <1>3, TruncatedIs
  <2>2. FilesKept(in(p))
    BY <1>2, <2>1, OwnFilesOnly
  <2> QED
    BY <1>1, <1>2, <1>3, <2>1, <2>2, BeforeOutput
<1>4. CASE Exit(p, "1") /\ UNCHANGED file
  BY <1>1, <1>4, ExitImage DEF Status
<1> QED
  BY <1>3, <1>4 DEF Redirect

LEMMA PappImage ==
  ASSUME DriverInv, ImageInv, NEW p \in Proc, Papp(p)
  PROVE  ImageInv'
<1>1. Active(p) /\ pc[p] = "papp" /\ UNCHANGED << job, clean, made, whole >>
  BY DEF Papp, Active, history
<1>2. in(p) \in Infile /\ in(p) # OutfileName(in(p)) /\ in(p) \in FilesOf(in(p))
  BY <1>1, ActiveFacts, NamesApart DEF FilesOf
<1>3. CASE /\ file' = Written(in(p), 0, file[job[p].src])
           /\ Goto(p, "open")
           /\ UNCHANGED << stream, status >>
  <2>1. /\ DOMAIN file' = DOMAIN file
        /\ \A h \in DOMAIN file : h # in(p) => file'[h] = file[h]
    BY <1>3, WrittenIs
  <2>2. FilesKept(in(p))
    BY <1>2, <2>1, OwnFilesOnly
  <2> QED
    BY <1>1, <1>2, <1>3, <2>1, <2>2, BeforeOutput
<1>4. CASE Exit(p, "1") /\ UNCHANGED file
  BY <1>1, <1>4, ExitImage DEF Status
<1> QED
  BY <1>3, <1>4 DEF Papp

LEMMA RenameImage ==
  ASSUME DriverInv, ImageInv, NEW p \in Proc, Rename(p)
  PROVE  ImageInv'
<1> DEFINE from == ScriptBin(in(p))
           to == ScriptBin(job[p].src)
<1>1. /\ Active(p) /\ pc[p] = "rename" /\ Goto(p, "ended")
      /\ UNCHANGED << job, stream, clean, made, whole >>
  BY DEF Rename, Active, history
<1>2. in(p) \in Infile /\ job[p].src \in Infile
  BY <1>1, ActiveFacts
<1>3. \A f \in Infile : from \notin FilesOf(f) /\ to \notin FilesOf(f)
  BY <1>2, ScriptBinIsApart
<1>4. \A g \in DOMAIN file : g # from /\ g # to => g \in DOMAIN file' /\ file'[g] = file[g]
  <2>1. CASE file' = Without(Put(file, to, file[from]), from)
    BY <2>1 DEF Without, RestrictDomain, Restrict, Put
  <2> QED
    BY <2>1 DEF Rename
<1>5. pc'[p] = "ended" /\ \A q \in Proc : q # p => Undisturbed(q)
  <2>1. pc'[p] = "ended" /\ \A q \in Proc : q # p => pc'[q] = pc[q]
    BY <1>1, OneMoves
  <2>2. \A q \in Proc : q # p => status'[q] = status[q]
    BY DEF Rename, DriverInv, Typed
  <2> QED
    BY <1>1, <2>1, <2>2 DEF Undisturbed
<1>6. FilesKept(in(p))
  BY <1>3, <1>4 DEF FilesKept
<1>7. OutfileName(in(p)) # from /\ OutfileName(in(p)) # to
  BY <1>2, <1>3 DEF FilesOf
<1>8. pc'[p] \notin Tracked \cup {"idle"}
  BY <1>5 DEF Tracked, Early
<1> QED
  BY <1>1, <1>4, <1>5, <1>6, <1>7, <1>8, LeavesTrack

LEMMA OpenSourceImage ==
  ASSUME DriverInv, ImageInv, NEW p \in Proc, OpenSource(p)
  PROVE  ImageInv'
<1>1. Active(p) /\ UNCHANGED << file, job, clean, made, whole >>
  BY DEF OpenSource, Active, history
<1>2. CASE \E s \in {"EX_UNAVAILABLE", "EX_USAGE"} : Exit(p, s)
  BY <1>1, <1>2, ExitImage DEF Status
<1>3. CASE Goto(p, "output") /\ UNCHANGED << stream, status >>
  BY <1>1, <1>3, SameFiles, BeforeOutput
<1> QED
  BY <1>2, <1>3 DEF OpenSource

LEMMA CrashImage ==
  ASSUME DriverInv, ImageInv, NEW p \in Proc, Crash(p)
  PROVE  ImageInv'
<1>1. Active(p) /\ Exit(p, "SIGSEGV") /\ UNCHANGED << file, job, clean, made, whole >>
  BY DEF Crash, Active, history
<1> QED
  BY <1>1, ExitImage DEF Status

(* From here on the run owes an image, of the text that is there now.      *)
LEMMA OpenOutputImage ==
  ASSUME DriverInv, DriverInv', ImageInv, NEW p \in Proc, OpenOutput(p)
  PROVE  ImageInv'
<1>1. Active(p) /\ pc[p] = "output" /\ UNCHANGED << job, clean >>
  BY DEF OpenOutput, Active
<1>2. CASE Exit(p, "EX_UNAVAILABLE") /\ UNCHANGED << file, made, whole >>
  BY <1>1, <1>2, ExitImage DEF Status
<1>3. CASE /\ file' = Truncated(OutfileName(in(p)))
           /\ Goto(p, "language") /\ UNCHANGED << stream, status >>
           /\ made' = Owed(p) /\ whole' = whole \ {in(p)}
  <2>1. /\ in(p) \in Infile /\ in(p) # OutfileName(in(p)) /\ OutfileName(in(p)) \in FilesOf(in(p))
        /\ in(p) \in DOMAIN file /\ file[in(p)] \in Seq(AnyCell) /\ stream[p] = Closed
    <3>1. /\ in(p) \in Infile /\ in(p) # OutfileName(in(p)) /\ OutfileName(in(p)) \in FilesOf(in(p))
      BY <1>1, ActiveFacts, NamesApart DEF FilesOf
    <3>2. in(p) \in DOMAIN file /\ \A g \in DOMAIN file : file[g] \in Seq(AnyCell)
      BY <1>1, Reads DEF Opened, Proper, in
    <3>3. stream[p] = Closed
      BY <1>1 DEF DriverInv, Sound, ClosedWhenIdle, Unopened
    <3> QED
      BY <3>1, <3>2, <3>3
  <2>2. pc'[p] = "language" /\ \A q \in Proc : q # p => Undisturbed(q)
    BY <1>1, <1>3, OneMovesOn
  <2>3. /\ DOMAIN file' = DOMAIN file \cup {OutfileName(in(p))}
        /\ file'[OutfileName(in(p))] = << >>
        /\ \A h \in DOMAIN file : h # OutfileName(in(p)) => file'[h] = file[h]
    BY <1>3, TruncatedIs
  <2>4. FilesKept(in(p))
    BY <2>1, <2>3, OwnFilesOnly
  <2>5. OwedKept(in(p))
    BY <1>3 DEF OwedKept, Owed, Without, RestrictDomain, Restrict, Put
  <2>6. /\ in(p) \in DOMAIN made' => p \in clean
        /\ p \in clean => in(p) \in DOMAIN made' /\ made'[in(p)] = ImageOf(file[in(p)])
        /\ in(p) \notin whole'
    BY <1>3 DEF Owed, Without, RestrictDomain, Restrict, Put
  <2>7. p \in clean => OnTrack(p)'
    <3>1. in(p)' = in(p) /\ stream'[p] = Closed /\ Image(in(p))' = << >> /\ file'[in(p)] = file[in(p)]
          /\ {in(p), OutfileName(in(p))} \subseteq DOMAIN file'
      BY <1>1, <1>3, <2>1, <2>3 DEF in, Image
    <3> QED
      BY <2>2, <2>6, <3>1 DEF OnTrack, Early
  <2>8. in(p) \in DOMAIN made' => Delivered(in(p))'
    <3>1. ImageOf(file[in(p)]) \in Seq(AnyCell) /\ IsPrefix(<< >>, ImageOf(file[in(p)]))
      BY <2>1, EmptyIsPrefix
    <3> QED
      BY <1>1, <2>1, <2>3, <2>6, <3>1 DEF Delivered, Image, in
  <2>9. Active(p)' /\ pc'[p] # "idle"
    BY <2>2 DEF Active
  <2> QED
    BY <1>1, <2>2, <2>4, <2>5, <2>6, <2>7, <2>8, <2>9, LocalStep
<1> QED
  BY <1>2, <1>3 DEF OpenOutput

LEMMA ChooseLanguageImage ==
  ASSUME DriverInv, DriverInv', ImageInv, NEW p \in Proc, ChooseLanguage(p)
  PROVE  ImageInv'
<1>1. Active(p) /\ pc[p] = "language" /\ UNCHANGED << file, job, clean, made, whole >>
  BY DEF ChooseLanguage, Active, history
<1>2. CASE Exit(p, "EX_USAGE")
  BY <1>1, <1>2, ExitImage DEF Status
<1>3. CASE Goto(p, "codefile") /\ UNCHANGED << stream, status >>
  <2>1. pc'[p] = "codefile" /\ \A q \in Proc : q # p => Undisturbed(q)
    BY <1>1, <1>3, OneMovesOn
  <2>2. pc[p] \in Tracked /\ pc'[p] \in Tracked
    BY <1>1, <2>1 DEF Tracked, Early
  <2>3. p \in clean /\ in(p) # StandardInput => OnTrack(p)'
    <3> SUFFICES ASSUME OnTrack(p)
                 PROVE  OnTrack(p)'
      BY <2>2 DEF ImageInv
    <3> QED
      BY <1>1, <1>3, <2>1 DEF OnTrack, Early, Image, in
  <2> QED
    BY <1>1, <2>1, <2>2, <2>3, SameFiles, StaysOnTrack
<1> QED
  BY <1>2, <1>3 DEF ChooseLanguage

LEMMA OpenCodeFileImage ==
  ASSUME DriverInv, DriverInv', ImageInv, NEW p \in Proc, OpenCodeFile(p)
  PROVE  ImageInv'
<1>1. Active(p) /\ pc[p] = "codefile" /\ UNCHANGED << job, clean, made, whole >>
  BY DEF OpenCodeFile, Active, history
<1>2. CASE Exit(p, "EX_CANTCREAT") /\ UNCHANGED file
  BY <1>1, <1>2, ExitImage DEF Status
<1>3. CASE file' = Truncated(CodeFileName(in(p))) /\ Goto(p, "datafile") /\ UNCHANGED << stream, status >>
  <2>1. pc'[p] = "datafile" /\ \A q \in Proc : q # p => Undisturbed(q)
    BY <1>1, <1>3, OneMovesOn
  <2>2. pc[p] \in Tracked /\ pc'[p] \in Tracked
    BY <1>1, <2>1 DEF Tracked, Early
  <2>3. /\ in(p) \in Infile /\ CodeFileName(in(p)) \in FilesOf(in(p))
        /\ in(p) # CodeFileName(in(p)) /\ OutfileName(in(p)) # CodeFileName(in(p))
    BY <1>1, ActiveFacts, NamesApart DEF FilesOf
  <2>4. /\ DOMAIN file' = DOMAIN file \cup {CodeFileName(in(p))}
        /\ file'[CodeFileName(in(p))] = << >>
        /\ \A h \in DOMAIN file : h # CodeFileName(in(p)) => file'[h] = file[h]
    BY <1>3, TruncatedIs
  <2>5. FilesKept(in(p))
    BY <2>3, <2>4, OwnFilesOnly
  <2>6. p \in clean /\ in(p) # StandardInput => OnTrack(p)'
    <3> SUFFICES ASSUME OnTrack(p)
                 PROVE  OnTrack(p)'
      BY <2>2 DEF ImageInv
    <3>1. {in(p), OutfileName(in(p))} \subseteq DOMAIN file
      BY DEF OnTrack
    <3>2. file'[in(p)] = file[in(p)] /\ file'[OutfileName(in(p))] = file[OutfileName(in(p))]
      BY <2>3, <2>4, <3>1
    <3> QED
      BY <1>1, <1>3, <2>1, <2>4, <3>1, <3>2 DEF OnTrack, Early, Image, in
  <2> QED
    BY <1>1, <2>1, <2>2, <2>5, <2>6, StaysOnTrack
<1> QED
  BY <1>2, <1>3 DEF OpenCodeFile

LEMMA OpenDataFileImage ==
  ASSUME DriverInv, DriverInv', ImageInv, NEW p \in Proc, OpenDataFile(p)
  PROVE  ImageInv'
<1>1. Active(p) /\ pc[p] = "datafile" /\ UNCHANGED << job, status, whole >> /\ Goto(p, "pass1")
  BY DEF OpenDataFile, Active
<1>2. pc'[p] = "pass1" /\ (\A q \in Proc : q # p => pc'[q] = pc[q]) /\ Active(p)' /\ pc[p] \in Tracked
  <2>1. pc'[p] = "pass1" /\ (\A q \in Proc : q # p => pc'[q] = pc[q])
    BY <1>1, OneMoves
  <2> QED
    BY <1>1, <2>1 DEF Active, Tracked, Early
<1>3. /\ in(p) \in Infile /\ DataFileName(in(p)) \in FilesOf(in(p))
      /\ in(p) # DataFileName(in(p)) /\ OutfileName(in(p)) # DataFileName(in(p))
      /\ CodeFileName(in(p)) # DataFileName(in(p))
  BY <1>1, ActiveFacts, NamesApart DEF FilesOf
<1>4. CASE /\ UNCHANGED << file, stream >>
           /\ clean' = clean \ {p} /\ made' = Without(made, in(p))
  <2>1. \A q \in Proc : q # p => Undisturbed(q)
    BY <1>1, <1>2, <1>4 DEF Undisturbed
  <2>2. OwedKept(in(p)) /\ in(p) \notin DOMAIN made' /\ p \notin clean'
    BY <1>1, <1>4 DEF OwedKept, Without, RestrictDomain, Restrict
  <2> QED
    BY <1>1, <1>2, <1>4, <2>1, <2>2, SameFiles, LocalStep
<1>5. CASE /\ file' = Truncated(DataFileName(in(p)))
           /\ stream' = [stream EXCEPT ![p].dataOpen = TRUE]
           /\ UNCHANGED << clean, made >>
  <2>1. \A q \in Proc : q # p => Undisturbed(q)
    BY <1>1, <1>2, <1>5 DEF Undisturbed, DriverInv, Typed
  <2>2. /\ DOMAIN file' = DOMAIN file \cup {DataFileName(in(p))}
        /\ file'[DataFileName(in(p))] = << >>
        /\ \A h \in DOMAIN file : h # DataFileName(in(p)) => file'[h] = file[h]
    BY <1>5, TruncatedIs
  <2>3. FilesKept(in(p))
    BY <1>3, <2>2, OwnFilesOnly
  <2>4. p \in clean /\ in(p) # StandardInput => OnTrack(p)'
    <3> SUFFICES ASSUME OnTrack(p), in(p) # StandardInput
                 PROVE  OnTrack(p)'
      BY <1>2 DEF ImageInv
    <3>1. /\ {in(p), OutfileName(in(p))} \subseteq DOMAIN file
          /\ CodeFileName(in(p)) \in DOMAIN file /\ file[in(p)] \in Seq(AnyCell)
      BY <1>1, <1>2, TrackedFacts DEF OnTrack
    <3>2. /\ file'[in(p)] = file[in(p)]
          /\ file'[OutfileName(in(p))] = << >>
          /\ file'[CodeFileName(in(p))] = << >>
          /\ {in(p), OutfileName(in(p))} \subseteq DOMAIN file'
      BY <1>1, <1>3, <2>2, <3>1 DEF OnTrack, Early, Image
    <3>3. PICK text \in Seq(AnyCell) : text = file[in(p)]
      BY <3>1
    <3>4. PICK s \in Stream : s = stream'[p]
      BY DEF DriverInv, Typed
    <3>5. InPass1(s, text, << >>, << >>, << >>)
      <4>1. stream[p] = Closed
        BY <1>1 DEF OnTrack, Early
      <4>2. s = [Closed EXCEPT !.dataOpen = TRUE]
        BY <1>5, <3>4, <4>1 DEF DriverInv, Typed
      <4>3. /\ s.dataOpen /\ s.buffer = << >> /\ s.outfileAt = 0 /\ s.codeAt = 0 /\ s.dataAt = 0
            /\ s.infile = << >> /\ s.infileAt = 0
        BY <4>2 DEF Closed
      <4>4. 0 \in 0 .. Len(text) /\ SubSeq(text, 0 + 1, 0) = << >> /\ Len(<< >>) = 0
        BY SubSeqEmpty
      <4>5. RowsUpTo(text, "code")[0] = << >> /\ RowsUpTo(text, "data")[0] = << >>
        BY RowsUpToFacts
      <4> QED
        BY <4>3, <4>4, <4>5 DEF InPass1
    <3> QED
      <4>1. /\ in(p)' = in(p)
            /\ InPass1(stream'[p], file'[in(p)], file'[CodeFileName(in(p))],
                       file'[DataFileName(in(p))], file'[OutfileName(in(p))])
        BY <1>1, <2>2, <3>2, <3>3, <3>4, <3>5 DEF in
      <4>2. in(p) \in DOMAIN made' /\ made'[in(p)] = ImageOf(file'[in(p)]) /\ in(p) \notin whole'
        BY <1>1, <1>5, <3>2 DEF OnTrack
      <4> QED
        BY <1>2, <3>2, <4>1, <4>2 DEF OnTrack, Early, Image
  <2>5. pc'[p] \in Tracked
    BY <1>2 DEF Tracked
  <2> QED
    BY <1>1, <1>2, <1>5, <2>1, <2>3, <2>4, <2>5, StaysOnTrack
<1> QED
  BY <1>1, <1>4, <1>5 DEF OpenDataFile

(* In the passes the files stay, and the text is not written to.           *)
LEMMA PassOnTrack ==
  ASSUME DriverInv, DriverInv', ImageInv, NEW p \in Proc,
         pc[p] \in {"pass1", "code", "data"}, pc'[p] \in {"pass1", "code", "data"},
         \A q \in Proc : q # p => Undisturbed(q), UNCHANGED << job, history >>, FilesKept(in(p)),
         DOMAIN file' = DOMAIN file, in(p) \in DOMAIN file => file'[in(p)] = file[in(p)],
         OnTrack(p) =>
           LET s     == stream'[p]
               text  == file[in(p)]
               codes == file'[CodeFileName(in(p))]
               datas == file'[DataFileName(in(p))]
               image == file'[OutfileName(in(p))]
           IN  /\ pc'[p] = "pass1" => InPass1(s, text, codes, datas, image)
               /\ pc'[p] \in {"code", "data"} => InPass2(s, text, datas, image)
               /\ pc'[p] = "code" => InCode(s, text, codes, image)
               /\ pc'[p] = "data" => InData(s, text, datas, image)
  PROVE  ImageInv'
<1>1. pc[p] \in Tracked /\ pc'[p] \in Tracked
  BY DEF Tracked
<1>2. UNCHANGED << clean, made, whole >>
  BY DEF history
<1>3. p \in clean /\ in(p) # StandardInput => OnTrack(p)'
  <2> SUFFICES ASSUME OnTrack(p)
               PROVE  OnTrack(p)'
    BY <1>1 DEF ImageInv
  <2>1. in(p)' = in(p) /\ in(p) \in DOMAIN file /\ file'[in(p)] = file[in(p)]
    BY DEF in, OnTrack
  <2>2. /\ {in(p), OutfileName(in(p))} \subseteq DOMAIN file'
        /\ in(p) \in DOMAIN made' /\ made'[in(p)] = ImageOf(file[in(p)])
        /\ in(p) \notin whole'
    BY <1>2, <2>1 DEF OnTrack
  <2>3. pc'[p] \notin Early /\ pc'[p] # "datafile"
    BY DEF Early
  <2> QED
    BY <2>1, <2>2, <2>3 DEF OnTrack, Image
<1> QED
  BY <1>1, <1>2, <1>3, StaysOnTrack

(* What the passes work on.                                                *)
LEMMA PassTyped ==
  ASSUME DriverInv, DriverInv', NEW p \in Proc, pc[p] \in {"pass1", "code", "data"}, OnTrack(p)
  PROVE  /\ stream[p] \in Stream /\ stream'[p] \in Stream
         /\ file[in(p)] \in Seq(AnyCell) /\ Image(in(p)) \in Seq(AnyCell)
         /\ stream[p].dataOpen
         /\ file[DataFileName(in(p))] \in Seq(AnyCell)
         /\ pc[p] # "data" => file[CodeFileName(in(p))] \in Seq(AnyCell)
         /\ {in(p), OutfileName(in(p)), DataFileName(in(p))} \subseteq DOMAIN file
         /\ pc[p] # "data" => CodeFileName(in(p)) \in DOMAIN file
<1>1. in(p) # StandardInput /\ pc[p] \in Tracked
  <2>1. in(p).ext # ""
    BY PassFacts, InfileFacts
  <2>2. StandardInput.ext = ""
    BY DEF StandardInput
  <2> QED
    BY <2>1, <2>2 DEF Tracked
<1>2. stream[p].dataOpen
  BY DEF OnTrack, InPass1, InPass2
<1>3. {in(p), OutfileName(in(p))} \subseteq DOMAIN file
  BY DEF OnTrack
<1> QED
  BY <1>1, <1>2, <1>3, TrackedFacts DEF Image, DriverInv, Typed

LEMMA PassNames ==
  ASSUME DriverInv, NEW p \in Proc, pc[p] \in {"pass1", "code", "data"}
  PROVE  /\ in(p) \in Infile
         /\ {OutfileName(in(p)), CodeFileName(in(p)), DataFileName(in(p))} \subseteq FilesOf(in(p))
         /\ in(p) # OutfileName(in(p)) /\ in(p) # CodeFileName(in(p)) /\ in(p) # DataFileName(in(p))
         /\ OutfileName(in(p)) # CodeFileName(in(p)) /\ OutfileName(in(p)) # DataFileName(in(p))
         /\ CodeFileName(in(p)) # DataFileName(in(p))
BY PassFacts, NamesApart DEF FilesOf

LEMMA ReadAheadImage ==
  ASSUME DriverInv, DriverInv', ImageInv, NEW p \in Proc, ReadAhead(p)
  PROVE  ImageInv'
<1>1. /\ pc[p] = "pass1" /\ stream[p].infile = << >>
      /\ UNCHANGED << file, pc, job, status, history >>
  BY DEF ReadAhead
<1>2. PICK upto \in stream[p].infileAt + 1 .. Len(file[in(p)]) :
        stream' = [stream EXCEPT ![p].infileAt = upto,
                     ![p].infile = SubSeq(file[in(p)], stream[p].infileAt + 1, upto)]
  BY DEF ReadAhead
<1>3. /\ \A q \in Proc : q # p => Undisturbed(q)
      /\ stream'[p] = [stream[p] EXCEPT !.infileAt = upto,
                         !.infile = SubSeq(file[in(p)], stream[p].infileAt + 1, upto)]
  BY <1>1, <1>2 DEF Undisturbed, DriverInv, Typed
<1>4. ASSUME OnTrack(p)
      PROVE  InPass1(stream'[p], file[in(p)], file[CodeFileName(in(p))],
                     file[DataFileName(in(p))], file[OutfileName(in(p))])
  <2>1. InPass1(stream[p], file[in(p)], file[CodeFileName(in(p))],
                file[DataFileName(in(p))], file[OutfileName(in(p))])
    BY <1>1, <1>4 DEF OnTrack, Image
  <2> QED
    BY <1>1, <1>3, <1>4, <2>1, PassTyped, ReadAheadKeeps
<1> QED
  BY <1>1, <1>3, <1>4, SameFiles, PassOnTrack

LEMMA TranslateLineImage ==
  ASSUME DriverInv, DriverInv', ImageInv, NEW p \in Proc, TranslateLine(p)
  PROVE  ImageInv'
<1> DEFINE c == Head(stream[p].infile)
           Code == /\ c.seg = "code"
                   /\ file' = Written(CodeFileName(in(p)), stream[p].codeAt, << c >>)
                   /\ stream' = [stream EXCEPT ![p].infile = Tail(@), ![p].codeAt = @ + 1]
           Data == /\ c.seg = "data"
                   /\ stream[p].dataOpen
                   /\ file' = Written(DataFileName(in(p)), stream[p].dataAt, << c >>)
                   /\ stream' = [stream EXCEPT ![p].infile = Tail(@), ![p].dataAt = @ + 1]
           Drop == /\ c.seg = "data"
                   /\ ~ stream[p].dataOpen
                   /\ stream' = [stream EXCEPT ![p].infile = Tail(@)]
                   /\ UNCHANGED file
<1>1. /\ pc[p] = "pass1" /\ stream[p].infile # << >> /\ pc'[p] = "pass1"
      /\ UNCHANGED << pc, job, status, history >>
      /\ Code \/ Data \/ Drop
  BY DEF TranslateLine
<1>2. \A q \in Proc : q # p => Undisturbed(q)
  BY <1>1 DEF Undisturbed, DriverInv, Typed
<1>3. /\ DOMAIN file' = DOMAIN file
      /\ \A h \in DOMAIN file :
           h # (IF c.seg = "code" THEN CodeFileName(in(p)) ELSE DataFileName(in(p)))
             => file'[h] = file[h]
  <2>1. CASE Code
    BY <2>1, WrittenIs
  <2>2. CASE Data
    BY <2>2, WrittenIs
  <2>3. CASE Drop
    BY <2>3
  <2> QED
    BY <1>1, <2>1, <2>2, <2>3
<1>4. FilesKept(in(p)) /\ (in(p) \in DOMAIN file => file'[in(p)] = file[in(p)])
  <2>1. (IF c.seg = "code" THEN CodeFileName(in(p)) ELSE DataFileName(in(p))) \in FilesOf(in(p))
    BY <1>1, PassNames
  <2>2. FilesKept(in(p))
    BY <1>1, <1>3, <2>1, PassNames, OwnFilesOnly
  <2>3. in(p) \in DOMAIN file => file'[in(p)] = file[in(p)]
    BY <1>1, <1>3, PassNames
  <2> QED
    BY <2>2, <2>3
<1>5. ASSUME OnTrack(p)
      PROVE  InPass1(stream'[p], file[in(p)], file'[CodeFileName(in(p))],
                     file'[DataFileName(in(p))], file'[OutfileName(in(p))])
  <2>1. PICK s \in Stream, s1 \in Stream : s = stream[p] /\ s1 = stream'[p]
    BY <1>1, <1>5, PassTyped
  <2>2. PICK text \in Seq(AnyCell), codes \in Seq(AnyCell), datas \in Seq(AnyCell) :
          /\ text = file[in(p)]
          /\ codes = file[CodeFileName(in(p))]
          /\ datas = file[DataFileName(in(p))]
    BY <1>1, <1>5, PassTyped
  <2>3. PICK image, codes1, datas1 :
          /\ image = file[OutfileName(in(p))]
          /\ codes1 = file'[CodeFileName(in(p))]
          /\ datas1 = file'[DataFileName(in(p))]
    OBVIOUS
  <2>4. InPass1(s, text, codes, datas, image) /\ file'[OutfileName(in(p))] = image
    <3>1. InPass1(s, text, codes, datas, image)
      BY <1>1, <1>5, <2>1, <2>2, <2>3 DEF OnTrack, Image
    <3>2. file'[OutfileName(in(p))] = image
      BY <1>1, <1>3, <1>5, <2>3, PassTyped, PassNames
    <3> QED
      BY <3>1, <3>2
  <2>5. s.codeAt = Len(codes) /\ s.dataAt = Len(datas) /\ s.dataOpen
    BY <2>4 DEF InPass1
  <2>6. c \in AnyCell /\ << c >> \in Seq(AnyCell) /\ s.infile # << >> /\ c = Head(s.infile)
    <3>1. s.infile \in Seq(AnyCell) /\ s.infile # << >>
      BY <1>1, <2>1 DEF Stream
    <3> QED
      BY <2>1, <3>1
  <2>7. /\ s1.infile = Tail(s.infile) /\ s1.infileAt = s.infileAt /\ s1.dataOpen = s.dataOpen
        /\ s1.buffer = s.buffer /\ s1.outfileAt = s.outfileAt
        /\ Code => s1.codeAt = s.codeAt + 1 /\ s1.dataAt = s.dataAt
        /\ Data => s1.dataAt = s.dataAt + 1 /\ s1.codeAt = s.codeAt
    <3>1. stream[p] \in Stream /\ stream \in [Proc -> Stream]
      BY DEF DriverInv, Typed
    <3>2. CASE Code
      <4>1. s1 = [s EXCEPT !.infile = Tail(@), !.codeAt = @ + 1]
        BY <2>1, <3>1, <3>2
      <4> QED
        BY <3>2, <4>1 DEF Stream
    <3>3. CASE Data
      <4>1. s1 = [s EXCEPT !.infile = Tail(@), !.dataAt = @ + 1]
        BY <2>1, <3>1, <3>3
      <4> QED
        BY <3>3, <4>1 DEF Stream
    <3>4. ~ Drop
      BY <2>1, <2>5
    <3> QED
      BY <1>1, <3>2, <3>3, <3>4
  <2>8. CASE Code
    <3>1. codes1 = WriteAt(codes, Len(codes), << c >>)
      <4>1. CodeFileName(in(p)) \in DOMAIN file
        BY <1>1, <1>5, PassTyped
      <4>2. file' = Written(CodeFileName(in(p)), stream[p].codeAt, << c >>)
        BY <2>8
      <4>3. file'[CodeFileName(in(p))] = WriteAt(file[CodeFileName(in(p))], stream[p].codeAt, << c >>)
        BY <4>1, <4>2, WrittenIs
      <4>4. stream[p].codeAt = Len(codes)
        BY <2>1, <2>5
      <4> QED
        BY <2>2, <2>3, <4>3, <4>4
    <3>2. codes1 = codes \o << c >>
      BY <2>6, <3>1, WriteAtEnd
    <3>3. datas1 = datas
      BY <1>1, <1>3, <1>5, <2>2, <2>3, <2>8, PassTyped, PassNames
    <3> HIDE DEF c
    <3>4. InPass1(s1, text, codes1, datas1, image)
      BY <2>4, <2>6, <2>7, <2>8, <3>2, <3>3, TranslateLineKeeps
    <3> QED
      BY <2>1, <2>2, <2>3, <2>4, <3>4
  <2>9. CASE Data
    <3>1. datas1 = WriteAt(datas, Len(datas), << c >>)
      <4>1. DataFileName(in(p)) \in DOMAIN file
        BY <1>1, <1>5, PassTyped
      <4>2. file' = Written(DataFileName(in(p)), stream[p].dataAt, << c >>)
        BY <2>9
      <4>3. file'[DataFileName(in(p))] = WriteAt(file[DataFileName(in(p))], stream[p].dataAt, << c >>)
        BY <4>1, <4>2, WrittenIs
      <4>4. stream[p].dataAt = Len(datas)
        BY <2>1, <2>5
      <4> QED
        BY <2>2, <2>3, <4>3, <4>4
    <3>2. datas1 = datas \o << c >>
      BY <2>6, <3>1, WriteAtEnd
    <3>3. codes1 = codes
      BY <1>1, <1>3, <1>5, <2>2, <2>3, <2>9, PassTyped, PassNames
    <3> HIDE DEF c
    <3>4. InPass1(s1, text, codes1, datas1, image)
      BY <2>4, <2>6, <2>7, <2>9, <3>2, <3>3, TranslateLineKeeps
    <3> QED
      BY <2>1, <2>2, <2>3, <2>4, <3>4
  <2> QED
    BY <1>1, <2>1, <2>5, <2>8, <2>9
<1> QED
  BY <1>1, <1>2, <1>3, <1>4, <1>5, PassOnTrack

(* The steps that only read.                                               *)
LEMMA ReadsOnly ==
  ASSUME DriverInv, DriverInv', ImageInv, NEW p \in Proc,
         pc[p] \in {"pass1", "code", "data"}, NEW where \in {"code", "data"}, Goto(p, where),
         NEW s1, stream' = [stream EXCEPT ![p] = s1], UNCHANGED << file, job, status, history >>,
         OnTrack(p) =>
           LET text  == file[in(p)]
               codes == file[CodeFileName(in(p))]
               datas == file[DataFileName(in(p))]
               image == Image(in(p))
           IN  /\ InPass2(s1, text, datas, image)
               /\ where = "code" => InCode(s1, text, codes, image)
               /\ where = "data" => InData(s1, text, datas, image)
  PROVE  ImageInv'
<1>1. pc'[p] = where /\ \A q \in Proc : q # p => pc'[q] = pc[q]
  BY OneMoves
<1>2. stream'[p] = s1 /\ \A q \in Proc : q # p => Undisturbed(q)
  BY <1>1 DEF Undisturbed, DriverInv, Typed
<1> QED
  BY <1>1, <1>2, SameFiles, PassOnTrack DEF Image

LEMMA EndOfSourceImage ==
  ASSUME DriverInv, DriverInv', ImageInv, NEW p \in Proc, EndOfSource(p)
  PROVE  ImageInv'
<1> DEFINE s1 == [stream[p] EXCEPT !.codeAt = 0, !.dataAt = 0]
<1>1. /\ pc[p] = "pass1" /\ stream[p].infile = << >> /\ stream[p].infileAt >= Len(file[in(p)])
      /\ Goto(p, "code") /\ UNCHANGED << file, job, status, history >>
      /\ stream' = [stream EXCEPT ![p] = s1]
  BY DEF EndOfSource, DriverInv, Typed
<1>2. stream'[p] = s1
  BY <1>1 DEF DriverInv, Typed
<1>3. ASSUME OnTrack(p)
      PROVE  /\ InPass2(s1, file[in(p)], file[DataFileName(in(p))], Image(in(p)))
             /\ InCode(s1, file[in(p)], file[CodeFileName(in(p))], Image(in(p)))
  <2>1. InPass1(stream[p], file[in(p)], file[CodeFileName(in(p))],
                file[DataFileName(in(p))], Image(in(p)))
    BY <1>1, <1>3 DEF OnTrack
  <2>2. s1 \in Stream
    BY <1>1, <1>2, <1>3, PassTyped
  <2> QED
    BY <1>1, <1>3, <2>1, <2>2, PassTyped, EndOfSourceLeads
<1> HIDE DEF s1
<1> QED
  BY <1>1, <1>3, ReadsOnly

LEMMA CopyCodeRowImage ==
  ASSUME DriverInv, DriverInv', ImageInv, NEW p \in Proc, CopyCodeRow(p)
  PROVE  ImageInv'
<1> DEFINE codes == file[CodeFileName(in(p))]
           s1 == [stream[p] EXCEPT !.codeAt = @ + 1,
                    !.buffer = Append(@, codes[stream[p].codeAt + 1])]
<1>1. /\ pc[p] = "code" /\ stream[p].codeAt < Len(codes)
      /\ Goto(p, "code") /\ UNCHANGED << file, job, status, history >>
      /\ stream' = [stream EXCEPT ![p] = s1]
  BY DEF CopyCodeRow, CodeLeft, Goto, DriverInv, Typed
<1>2. stream'[p] = s1
  BY <1>1 DEF DriverInv, Typed
<1>3. ASSUME OnTrack(p)
      PROVE  /\ InPass2(s1, file[in(p)], file[DataFileName(in(p))], Image(in(p)))
             /\ InCode(s1, file[in(p)], codes, Image(in(p)))
  <2>1. /\ InPass2(stream[p], file[in(p)], file[DataFileName(in(p))], Image(in(p)))
        /\ InCode(stream[p], file[in(p)], codes, Image(in(p)))
    BY <1>1, <1>3 DEF OnTrack
  <2>2. s1 \in Stream /\ stream[p] \in Stream /\ codes \in Seq(AnyCell)
        /\ file[in(p)] \in Seq(AnyCell) /\ Image(in(p)) \in Seq(AnyCell)
    BY <1>1, <1>2, <1>3, PassTyped
  <2>3. /\ s1.buffer = Append(stream[p].buffer, codes[stream[p].codeAt + 1])
        /\ s1.codeAt = stream[p].codeAt + 1 /\ s1.dataAt = stream[p].dataAt
        /\ s1.dataOpen = stream[p].dataOpen /\ s1.outfileAt = stream[p].outfileAt
    BY <2>2 DEF Stream
  <2> HIDE DEF s1, codes
  <2> QED
    BY <1>1, <2>1, <2>2, <2>3, CopyCodeRowKeeps
<1> HIDE DEF s1
<1> QED
  BY <1>1, <1>3, ReadsOnly

LEMMA EndOfCodeImage ==
  ASSUME DriverInv, DriverInv', ImageInv, NEW p \in Proc, EndOfCode(p)
  PROVE  ImageInv'
<1> DEFINE codes == file[CodeFileName(in(p))]
<1>1. /\ pc[p] = "code" /\ Goto(p, "data") /\ UNCHANGED << file, job, stream, status, history >>
      /\ stream[p].codeAt < Len(codes) => codes[stream[p].codeAt + 1] = Hole
  BY DEF EndOfCode, CodeLeft
<1>2. stream' = [stream EXCEPT ![p] = stream[p]]
  BY <1>1 DEF DriverInv, Typed
<1>3. ASSUME OnTrack(p)
      PROVE  /\ InPass2(stream[p], file[in(p)], file[DataFileName(in(p))], Image(in(p)))
             /\ InData(stream[p], file[in(p)], file[DataFileName(in(p))], Image(in(p)))
  <2>1. /\ InPass2(stream[p], file[in(p)], file[DataFileName(in(p))], Image(in(p)))
        /\ InCode(stream[p], file[in(p)], codes, Image(in(p)))
    BY <1>1, <1>3 DEF OnTrack
  <2>2. stream[p] \in Stream /\ codes \in Seq(AnyCell)
        /\ file[in(p)] \in Seq(AnyCell) /\ Image(in(p)) \in Seq(AnyCell)
    BY <1>1, <1>3, PassTyped
  <2> QED
    BY <1>1, <2>1, <2>2, EndOfCodeLeads
<1> QED
  BY <1>1, <1>2, <1>3, ReadsOnly

LEMMA CopyDataRowImage ==
  ASSUME DriverInv, DriverInv', ImageInv, NEW p \in Proc, CopyDataRow(p)
  PROVE  ImageInv'
<1> DEFINE datas == file[DataFileName(in(p))]
           s1 == [stream[p] EXCEPT !.dataAt = @ + 1,
                    !.buffer = Append(@, datas[stream[p].dataAt + 1])]
<1>1. /\ pc[p] = "data" /\ stream[p].dataAt < Len(datas)
      /\ Goto(p, "data") /\ UNCHANGED << file, job, status, history >>
      /\ stream' = [stream EXCEPT ![p] = s1]
  BY DEF CopyDataRow, DataLeft, Goto, DriverInv, Typed
<1>2. stream'[p] = s1
  BY <1>1 DEF DriverInv, Typed
<1>3. ASSUME OnTrack(p)
      PROVE  /\ InPass2(s1, file[in(p)], datas, Image(in(p)))
             /\ InData(s1, file[in(p)], datas, Image(in(p)))
  <2>1. /\ InPass2(stream[p], file[in(p)], datas, Image(in(p)))
        /\ InData(stream[p], file[in(p)], datas, Image(in(p)))
    BY <1>1, <1>3 DEF OnTrack
  <2>2. s1 \in Stream /\ stream[p] \in Stream /\ datas \in Seq(AnyCell)
        /\ file[in(p)] \in Seq(AnyCell) /\ Image(in(p)) \in Seq(AnyCell)
    BY <1>1, <1>2, <1>3, PassTyped
  <2>3. /\ s1.buffer = Append(stream[p].buffer, datas[stream[p].dataAt + 1])
        /\ s1.dataAt = stream[p].dataAt + 1
        /\ s1.dataOpen = stream[p].dataOpen /\ s1.outfileAt = stream[p].outfileAt
    BY <2>2 DEF Stream
  <2> HIDE DEF s1, datas
  <2> QED
    BY <1>1, <2>1, <2>2, <2>3, CopyDataRowKeeps
<1> HIDE DEF s1
<1> QED
  BY <1>1, <1>3, ReadsOnly

(* What is written goes to the end of the image.                           *)
LEMMA WritesImage ==
  ASSUME DriverInv, DriverInv', NEW p \in Proc, pc[p] \in {"code", "data"}, OnTrack(p),
         NEW cells \in Seq(AnyCell),
         file' = Written(OutfileName(in(p)), stream[p].outfileAt, cells)
  PROVE  file'[OutfileName(in(p))] = Image(in(p)) \o cells
<1>1. Image(in(p)) \in Seq(AnyCell) /\ OutfileName(in(p)) \in DOMAIN file
  BY PassTyped
<1>2. stream[p].outfileAt = Len(Image(in(p)))
  BY DEF OnTrack, InPass2
<1>3. file'[OutfileName(in(p))] = WriteAt(file[OutfileName(in(p))], stream[p].outfileAt, cells)
  BY <1>1, WrittenIs
<1>4. WriteAt(Image(in(p)), Len(Image(in(p))), cells) = Image(in(p)) \o cells
  BY <1>1, WriteAtEnd
<1> QED
  BY <1>2, <1>3, <1>4 DEF Image

LEMMA FlushImage ==
  ASSUME DriverInv, DriverInv', ImageInv, NEW p \in Proc, Flush(p)
  PROVE  ImageInv'
<1> DEFINE s1 == [stream[p] EXCEPT !.outfileAt = @ + Len(stream[p].buffer), !.buffer = << >>]
<1>1. /\ pc[p] \in {"code", "data"} /\ UNCHANGED << pc, job, status, history >>
      /\ file' = Written(OutfileName(in(p)), stream[p].outfileAt, stream[p].buffer)
      /\ stream' = [stream EXCEPT ![p] = s1]
  BY DEF Flush, DriverInv, Typed
<1>2. stream'[p] = s1 /\ \A q \in Proc : q # p => Undisturbed(q)
  BY <1>1 DEF Undisturbed, DriverInv, Typed
<1>3. /\ DOMAIN file' = DOMAIN file
      /\ \A h \in DOMAIN file : h # OutfileName(in(p)) => file'[h] = file[h]
  BY <1>1, WrittenIs
<1>4. FilesKept(in(p)) /\ (in(p) \in DOMAIN file => file'[in(p)] = file[in(p)])
  BY <1>1, <1>3, PassNames, OwnFilesOnly
<1>5. ASSUME OnTrack(p)
      PROVE  /\ InPass2(s1, file[in(p)], file'[DataFileName(in(p))], file'[OutfileName(in(p))])
             /\ pc[p] = "code" => InCode(s1, file[in(p)], file'[CodeFileName(in(p))],
                                         file'[OutfileName(in(p))])
             /\ pc[p] = "data" => InData(s1, file[in(p)], file'[DataFileName(in(p))],
                                         file'[OutfileName(in(p))])
  <2>1. stream[p] \in Stream /\ s1 \in Stream /\ Image(in(p)) \in Seq(AnyCell)
        /\ stream[p].buffer \in Seq(AnyCell)
    BY <1>1, <1>2, <1>5, PassTyped DEF Stream
  <2>2. /\ InPass2(stream[p], file[in(p)], file[DataFileName(in(p))], Image(in(p)))
        /\ pc[p] = "code" => InCode(stream[p], file[in(p)], file[CodeFileName(in(p))], Image(in(p)))
        /\ pc[p] = "data" => InData(stream[p], file[in(p)], file[DataFileName(in(p))], Image(in(p)))
    BY <1>1, <1>5 DEF OnTrack
  <2>3. /\ s1.buffer = << >> /\ s1.outfileAt = stream[p].outfileAt + Len(stream[p].buffer)
        /\ s1.codeAt = stream[p].codeAt /\ s1.dataAt = stream[p].dataAt
        /\ s1.dataOpen = stream[p].dataOpen
    BY <2>1 DEF Stream
  <2>4. file'[OutfileName(in(p))] = Image(in(p)) \o stream[p].buffer
    BY <1>1, <1>5, <2>1, WritesImage
  <2>5. /\ file'[DataFileName(in(p))] = file[DataFileName(in(p))]
        /\ pc[p] = "code" => file'[CodeFileName(in(p))] = file[CodeFileName(in(p))]
    BY <1>1, <1>3, <1>5, PassTyped, PassNames
  <2> HIDE DEF s1
  <2>6. InPass2(s1, file[in(p)], file'[DataFileName(in(p))], file'[OutfileName(in(p))])
    BY <2>1, <2>2, <2>3, <2>4, <2>5, FlushKeeps
  <2>7. CASE pc[p] = "code"
    BY <2>1, <2>2, <2>3, <2>4, <2>5, <2>6, <2>7, FlushKeeps
  <2>8. CASE pc[p] = "data"
    BY <2>1, <2>2, <2>3, <2>4, <2>5, <2>6, <2>8, FlushKeeps
  <2> QED
    BY <1>1, <2>6, <2>7, <2>8
<1> HIDE DEF s1
<1> QED
  BY <1>1, <1>2, <1>3, <1>4, <1>5, PassOnTrack

(* The last rows are written, and the image is what the run owes us.       *)
LEMMA EndOfDataImage ==
  ASSUME DriverInv, DriverInv', ImageInv, NEW p \in Proc, EndOfData(p)
  PROVE  ImageInv'
<1>1. /\ pc[p] = "data" /\ Exit(p, "EX_OK") /\ UNCHANGED << job, clean, made >>
      /\ file' = Written(OutfileName(in(p)), stream[p].outfileAt, Append(stream[p].buffer, End))
      /\ whole' = IF p \in clean THEN whole \cup {in(p)} ELSE whole
      /\ ~ DataLeft(p)
  BY DEF EndOfData
<1>2. /\ Active(p) /\ pc'[p] \in {"rename", "ended"}
      /\ \A q \in Proc : q # p => Undisturbed(q)
  <2>1. Active(p)
    BY <1>1 DEF Active
  <2> QED
    BY <1>1, <2>1, OneExits DEF Status
<1>3. /\ DOMAIN file' = DOMAIN file
      /\ \A h \in DOMAIN file : h # OutfileName(in(p)) => file'[h] = file[h]
  BY <1>1, WrittenIs
<1>4. FilesKept(in(p))
  BY <1>1, <1>3, PassNames, OwnFilesOnly
<1>5. OwedKept(in(p))
  BY <1>1 DEF OwedKept
<1>6. in(p) \in DOMAIN made => p \in clean
  BY <1>2 DEF ImageInv, DisturbedOwesNothing
<1>7. ASSUME in(p) \in DOMAIN made  PROVE  Delivered(in(p))'
  <2>1. OnTrack(p)
    <3>1. in(p).ext # ""
      BY <1>1, PassFacts, InfileFacts
    <3>2. StandardInput.ext = ""
      BY DEF StandardInput
    <3>3. pc[p] \in Tracked
      BY <1>1 DEF Tracked
    <3> QED
      BY <1>6, <1>7, <3>1, <3>2, <3>3 DEF ImageInv
  <2>2. /\ stream[p] \in Stream /\ file[in(p)] \in Seq(AnyCell) /\ Image(in(p)) \in Seq(AnyCell)
        /\ stream[p].dataOpen /\ OutfileName(in(p)) \in DOMAIN file
    BY <1>1, <2>1, PassTyped
  <2>3. /\ InPass2(stream[p], file[in(p)], file[DataFileName(in(p))], Image(in(p)))
        /\ InData(stream[p], file[in(p)], file[DataFileName(in(p))], Image(in(p)))
        /\ made[in(p)] = ImageOf(file[in(p)])
    BY <1>1, <2>1 DEF OnTrack
  <2>4. stream[p].dataAt < Len(file[DataFileName(in(p))])
          => file[DataFileName(in(p))][stream[p].dataAt + 1] = Hole
    BY <1>1, <2>2 DEF DataLeft
  <2>5. Image(in(p)) \o Append(stream[p].buffer, End) = ImageOf(file[in(p)])
    BY <2>2, <2>3, <2>4, EndOfDataDelivers
  <2>6. Append(stream[p].buffer, End) \in Seq(AnyCell)
    <3>1. End \in AnyCell /\ stream[p].buffer \in Seq(AnyCell)
      BY <2>2 DEF AnyCell, Stream
    <3> QED
      BY <3>1
  <2>7. file'[OutfileName(in(p))] = made[in(p)]
    BY <1>1, <2>1, <2>3, <2>5, <2>6, WritesImage
  <2>8. made[in(p)] \in Seq(AnyCell) /\ in(p) \in Infile
    BY <1>7 DEF ImageInv, Delivered
  <2>9. IsPrefix(made[in(p)], made[in(p)])
    BY <2>8 DEF IsPrefix
  <2> QED
    BY <1>1, <1>3, <2>2, <2>7, <2>8, <2>9 DEF Delivered, Image, in
<1>8. pc'[p] # "idle" /\ pc'[p] \notin Tracked
  BY <1>2 DEF Tracked, Early
<1> QED
  BY <1>1, <1>2, <1>4, <1>5, <1>6, <1>7, <1>8, LocalStep

LEMMA StepImage == DriverInv /\ DriverInv' /\ ImageInv /\ [Next]_vars => ImageInv'
<1> SUFFICES ASSUME DriverInv, DriverInv', ImageInv, [Next]_vars
             PROVE  ImageInv'
  OBVIOUS
<1>1. ASSUME NEW p \in Proc, Run(p)  PROVE  ImageInv'
  <2>1. PICK f \in Source : Start(p, f, FALSE, "open")
    BY <1>1 DEF Run
  <2> QED
    BY <2>1, StartImage
<1>2. ASSUME NEW p \in Proc, RunOnStandardInput(p)  PROVE  ImageInv'
  <2>1. Start(p, StandardInput, FALSE, "language")
    BY <1>2 DEF RunOnStandardInput
  <2> QED
    BY <2>1, StartImage
<1>3. ASSUME NEW p \in Proc, RunScript(p)  PROVE  ImageInv'
  <2>1. PICK f \in Source : Start(p, f, TRUE, "redirect")
    BY <1>3 DEF RunScript
  <2> QED
    BY <2>1, StartImage
<1>4. ASSUME NEW p \in Proc, Step(p)  PROVE  ImageInv'
  BY <1>4, RedirectImage, PappImage, RenameImage, OpenSourceImage, OpenOutputImage,
     ChooseLanguageImage, OpenCodeFileImage, OpenDataFileImage, ReadAheadImage,
     TranslateLineImage, EndOfSourceImage, CopyCodeRowImage, EndOfCodeImage,
     CopyDataRowImage, EndOfDataImage, FlushImage DEF Step
<1>5. CASE UNCHANGED vars
  <2>1. UNCHANGED << file, pc, job, stream, status, clean, made, whole >>
    BY <1>5 DEF vars, history
  <2>2. CleanIsSole' /\ DisturbedOwesNothing'
    BY <2>1 DEF ImageInv, CleanIsSole, DisturbedOwesNothing, Sole, Active, in
  <2>3. \A f \in DOMAIN made : Delivered(f)'
    BY <2>1 DEF ImageInv, Delivered, Image
  <2>4. \A p \in clean : pc[p] \in Tracked /\ in(p) # StandardInput => OnTrack(p)'
    BY <2>1 DEF ImageInv, OnTrack, Image, in
  <2>5. \A p \in clean : in(p)' = in(p)
    BY <2>1 DEF in
  <2> QED
    BY <2>1, <2>2, <2>3, <2>4, <2>5 DEF ImageInv
<1> QED
  BY <1>1, <1>2, <1>3, <1>4, <1>5, EditImage, ReapImage, CrashImage DEF Next

-----------------------------------------------------------------------------
(* The theorems.                                                           *)

(* Every file a process uses is there when it is used, every exit has a    *)
(* status, and no process that has ended holds a stream.                   *)
THEOREM TypeCorrect == Spec => []TypeOK
<1>1. DriverInv => TypeOK
  BY DEF DriverInv, Typed, Proper, Sound, StatusWhenEnded, ClosedWhenIdle, Unopened, Active, TypeOK
<1> QED
  BY <1>1, InitInv, StepInv, PTL DEF Spec

(* Runs of plasm may be interleaved with each other and with edits in any  *)
(* way, on the same source or on different ones, may fail at any open() and*)
(* crash in any pass: an image never has a row of another source.          *)
THEOREM ImagesAreOwn == Spec => []RowsAreOwn
<1>1. DriverInv => RowsAreOwn
  <2> SUFFICES ASSUME DriverInv, NEW f \in Infile, OutfileName(f) \in DOMAIN file,
                      NEW c \in Range(file[OutfileName(f)])
               PROVE  c \in {End, Hole} \/ PpSource(c.of) = PpSource(f)
    BY DEF RowsAreOwn
  <2>1. file[OutfileName(f)] \in Seq(OwnCell(f))
    BY DEF DriverInv, Proper, FilesOf
  <2>2. c \in OwnCell(f)
    BY <2>1 DEF Range
  <2> QED
    BY <2>2 DEF OwnCell
<1> QED
  BY <1>1, InitInv, StepInv, PTL DEF Spec

(* A run that could open its files, and whose source no one else uses or   *)
(* edits while it is assembled, puts nothing into its image but what it    *)
(* owes, from the first row on: also if it crashes in either pass, however *)
(* far the streams have read ahead and written behind, whatever the runs on*)
(* other sources do, and however often the source was assembled before.    *)
THEOREM ImagesArePrefixes == Spec => []ImageIsPrefix
<1>1. ImageInv => ImageIsPrefix
  BY DEF ImageInv, Delivered, Image, ImageIsPrefix
<1> QED
  BY <1>1, InitInv, StepInv, InitImage, StepImage, PTL DEF Spec

(* After EX_OK nothing of it is missing, and no later step of any process  *)
(* on another source takes anything away.                                  *)
THEOREM ImagesAreWhole == Spec => []ImageIsWhole
<1>1. ImageInv => ImageIsWhole
  BY DEF ImageInv, Delivered, Image, ImageIsWhole
<1> QED
  BY <1>1, InitInv, StepInv, InitImage, StepImage, PTL DEF Spec
=============================================================================
