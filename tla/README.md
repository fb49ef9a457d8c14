# plasm in TLA+

plasm is a two-pass assembler: a source file in ECISC or RISC-V assembly language
goes in, a text image of machine code comes out. This directory holds TLA+ models
of it, the configurations TLC checks them with, and proofs checked by TLAPS.

```
tlc -config Ecisc.cfg MCEcisc        # any run of the table below
tlapm SymTableProofs.tla             # all proofs of a module
```

## 1. The system

### Components

| component | state | operations | module |
|---|---|---|---|
| symbol table (`symtable.cc`) | a vector of (name, offset) | `addLabel`, `sortByName`, `lookupByName` | `SymTable` |
| statement reader (`statement.cc`: `read`, `parse`) | `sourceCode`, `label`, `endLabel`, `sourceLines`, `isAnInstruction` | read the next statement with its label, find its text, dispatch | `Statement` |
| directives (`statement.cc`: `processDirective`, `processInitializers`) | `currentDataType`, the locals `repeat` and `float_val` | translate the initializers of a data statement | `Directives` |
| ECISC encoder (`ecisc.cc`) | `binaryOpcode`, `dataSize`, `modeByte[]`, `operandValue[]`, `label[]` | `translateOpcode`, `translateOperand`, `outputMl` | `EciscEncoder` |
| RISC-V encoder (`riscv.cc`) | `machineInstruction`, `labelOperand`, `*bits` | five instruction formats, `translateOperand`; completion of the word in pass 2 | `RiscvEncoder` |
| translation unit (`transunit.cc`) | `sourceLine`, `codeOffset`, `dataOffset`, the two pass-1 files | count, write an offset, print a message | in `Statement`, `Assem` |
| two-pass assembly (`plasm.cc`: `assem`) | two symbol tables, the exit status, the position in pass 2 | pass 1, sort, pass 2 over code and data | `Assem` |
| driver (`plasm.cc`: `main`, `transunit.cc`: `openFiles`) | the source, the image and the two pass-1 files, their streams, the exit status | open, truncate, choose the language, write in pass 1, read back in pass 2, flush, exit | `Driver` |
| opcode table (`opcode.cc`, `*-table-init.cc`, `*-bits.h`) | a sorted vector | sort at construction, `lower_bound` | `OpcodeTable` |
| wrapper script (`plasm`; `plasm-test` and `test.sh` call the same commands) | the preprocessed source, the renamed image | preprocess, assemble, rename | `Driver` |

`test.cc` is an unfinished copy of the symbol table that no Makefile rule builds.

### How they interact

`assem()` is a loop in one thread. `read()` takes lines from the source until it has
a statement and perhaps a label; `parse()` hands its text to `translateInstruction()`
of the one `statement_ecisc` or `statement_riscv` object, or to `processDirective()`,
which leave the size and the text of the machine code in members of that object.
`assem()` then adds the label with the *current* offset to the table of the code or
of the data segment, appends the machine code to the pass-1 file of that segment,
labels used marked but not resolved, and moves the offset on. At the end of the
source both tables are sorted. Pass 2 reads the code file back, looks every marked
label up, first among code, then among data, and writes its address (ECISC) or
completes the machine word behind the mark (RISC-V); then it appends the data.

Around this, `main()` opens the source and truncates the image, `openFiles()` truncates
the two pass-1 files, and the script `plasm` runs the preprocessor in front of `plasm.bin`
and renames the image behind it. All files have names made from the name of the source,
the pass-1 files are never removed, and the image is written through a buffer.

There are no threads and no messages, so nothing is interleaved within a run. Runs
are interleaved with each other, and with edits, in the directory they share. What is
hard is this, and the protocol over one mutable object and two files:

* *Stale state.* One object translates all statements. What a statement does not
  overwrite (mode bytes, operand values, labels, the data type, `isAnInstruction`) is
  that of an earlier statement, or, for the first, uninitialized memory.
* *Order.* A label must be added before its offset moves on; a size is counted in
  one place and the bytes are written in another; the data of pass 1 have offsets that
  only mean something once the whole code is known.
* *Two halves.* A RISC-V word is half encoded in pass 1 and half in pass 2, by ORing.
* *Boundaries.* The empty symbol table, the 12-bit ranges of branch offsets and of
  `gp`, minimum field widths where exact ones are meant.
* *Errors.* A statement that was reported is still emitted, its label still defined,
  and assembly goes on: what is promised of the rest must survive it.
* *Files.* What an earlier run left, a run that goes on at the same time, a file that
  cannot be opened, a crash with output still in the buffer.

### What makes each component correct

* Symbol table: a lookup answers with *a* definition of the name, or with NULL
  exactly when there is none; it stays inside the vector and returns.
* Reader: every line is consumed once, every message names the line of its
  statement, every label reaches its statement.
* Encoders and directives: the machine code of an accepted statement is a function
  of its own text; the size counted is the bytes written; operands do not spill
  into each other's fields or into the opcode.
* Assembly: the image is the one that can be read off the source; a resolved
  reference points at its label's statement; exactly the undefined names are reported;
  both passes end.
* Opcode table: every opcode of the table is found, and no other.
* Driver: an image is made of its own source only; it is whole when the exit status
  is EX_OK, and a beginning of the whole one otherwise; every run ends.

`PROJECT.json` lists the hazards at their lines and the property for each.

## 2. The modules

```
Symbols ── SymTable ── SymTableProofs          SymMap  (what a table promises)
   └────── Source ── Statement ── Assem ── Image ── MCEcisc, MCRiscv, ImageProofs
                                    ├ AssemProofs ── ImageProofs
                                    └ implements Assembly  (what assem() promises)
SortedTable ── OpcodeTable ──┬── EciscEncoder ── MCEciscEncoder, EciscEncoderProofs
                             └── RiscvEncoder ── MCRiscvEncoder, RiscvEncoderProofs
Directives ── MCDirectives, DirectivesProofs
Driver ── DriverProofs, MCDriver
```

`SequenceFacts`, which all modules of proofs extend, has the lemmas about sequences,
sums, sorting and searching, and induction. `Sums` (used by `Image`, `EciscEncoder` and
`Directives`) adds up sizes and digits.

**Symbols, SymTable, SymMap.** `SymTable` is the class as `assem()` uses it. Names are
integers, as only `==` and `<` are applied to them. `SortByName` takes any sorted
rearrangement, because `std::sort` is not stable. `LookupByName` begins a call, and
each of `ProbeEqual`, `ProbeSmaller`, `ProbeGreater` is one turn of the `do` loop;
`ProbeOutside` is the read outside an empty vector. `SymMap` is the abstract map:
definitions are collected, the map is closed, and each question is answered with some
definition of the name or with "undefined". `ImplementsMap` is the refinement (`Map`,
an INSTANCE with the mapping): the window of the search is a detail of "asked".

**Source, Statement.** A source line is what the code can tell of it: its first column
(white space, label, bad label, other text), the name of the label, whether the text
touches the colon, and the text. A program is chosen in `Init` among all sequences of
up to `MaxLines` lines of the set `Line`, with a final newline or without
(`terminated`). `IsComment` has both architectures' methods: the RISC-V one ignores
its argument. Each action of `Statement` is one `getline()` of `read()` and what follows it:
`ReadComment`, `ReadUnlabelled`, `ReadLabel`, `SkipComment` and `SkipToStatement` (the
second loop of `read()`, behind a label on a line of its own), and `ReadEnd`, where
`getline()` fails and the label left in `sourceCode` is looked at once more.
`Parse` is `parse()` with its early return, which leaves `isAnInstruction` as it was.
The translation of a text is a constant here: a set of outcomes, because a text with
an error is translated with whatever earlier statements left behind.
`Clip` and `Mangle` say which text a wrong start makes of another.

**Assem.** `EmitCode` and `EmitData` are the two branches of pass 1, `SortTables` the
sort and the test of the status. In pass 2 a step is a piece of a row: bytes to copy,
or a marked label, which `FoundInCode`, `FoundInData`, `NotFound`, `NullSymbolUsed`
(`jalr` to an undefined name) and `EmptyTableSearched` deal with. `Encode` is the switch on the
opcode of the RISC-V word; `AtCode` and `AtData` are what takes the place of a label. A lookup is one step, with the result `SymMap` allows:
that is what `TableImplementsMap` is for. The crash on an empty table is kept.

**Assembly** is the abstract specification of `assem()`: statements are taken in the order of
the source and join one of two segments without a gap, their labels getting the place
where they start (`TakeInstruction`, `TakeData`); after `Link` the image is written a
row at a time, the code at its own addresses, the data at the end of the code, and each
reference that `Reaches` its label as a target that is one of the `Meanings` of its name
(`WriteInstruction`, `WriteData`). There are no pass-1 files, no sorted tables, no marks in a text and no
half-encoded words in it. `Assem!ImplementsAssembly` is the refinement: a row of the
image counts as written when its last piece is (`Written`), the targets are read back
from the immediate operands and addresses in the row, and a crash maps to
`Fail`, which is allowed only where a name has no definition or no label is in the code. How they
are read back is not the inverse of what `Encode` does: `PointsTo` is what the machine makes of the
word, as the comments at plasm.cc:283-285 and :324 and riscv.cc:418 say. An address is its own
target, a load or a store adds its immediate operand to `gp` (2048 past the start of the data), if
`gp` is the base register in the word, and a branch jumps by twice its operand from where it stands.
`Reaches` has what is promised then: all addresses of ECISC, and loads of data below 4096. Of branches and
stores nothing is promised, because the code does not keep what the comments say (the run
`riscv_branch`, and section 5 for stores).

**Image** defines what the output has to be without looking at the passes: which
statement a label is `Labelled` to, `AddressOf` a statement as a sum of sizes
(`SizeBefore`), which programs are `WellFormed`, the address or operand a reference stands
for (`Resolved`), and the image (`ImageOf`). Where the code contradicts its comments, the image says
nothing (`Settled`): of the immediate operand of a branch (`BranchesHitLabels` is what the comment
says of it) and of the base register of a store. The registers of a branch and the immediate operand
of a store are part of the image. The properties of `Assem` are here.

**OpcodeTable** is the vector both encoders build: `InitTable` is the order awk takes from
the header, `opcodeTable` the sorted one, `lower_bound` the library's halving search
(`SortsTo` and `LowerBound` of **SortedTable**, whose recursion is that of functions). An
opcode behind the last one gets `end`, which `translateOpcode()` reads before it
compares: this either ends the process (`DereferenceEnd` in both encoders) or yields
something that is not the name sought. The encoders' properties state what has to be
found with `Known` and `Entry`, on the table as it was before it was sorted, and
`SearchIsExact` is what the sort and the search come to together.

**EciscEncoder** translates one statement after another on the same members. There is
one action for each branch of `translateOperand()` (`LabelOffset` and `NumericOffset`
with the exchanged bodies they have in the code), and `OutputMl` writes pieces that know
how many digits they have (`DigitsWritten`, in `SizeIsBytes`, adds them up). An operand is the form of the first pattern it matches and
what `sscanf` reads from it, which `scan` tells: the whole, a part (3.14 matches the pattern of
integers first, and is read as 3), or nothing. A register in upper case matches and is not read, so
its number is any of `Garbage`; of `$0x10` and `label(0x10)` nothing is read either, because one
alternative of their patterns is not tied to the start (ecisc.cc:222, :224), and the value stays the
one of an earlier statement (`ReadValue`). The members start as any of `Garbage`: the constructor does
not set them. `machineCode` is one sequence of pieces for the opcode and one for each operand.

**RiscvEncoder** has words as sets of bit positions, so that ORing is union and
overlaps show. `TranslateOperand` is one operand of any format; where it goes is
`RegisterField` and `OffsetField`, which operands are expected is `Expected`. What `sscanf` does not
read is uninitialized here: `Garbage` for a register, `GarbageInt` for an immediate operand. `Resolve` is
what pass 2 does to the word of a branch, a load or a store. The table is assumed to have no
entry with bits in the place of an operand, which is so in `riscv-bits.h`.

**Directives** takes one initializer a step: `Integer`, `Float`, `String`, and the cases
the code does not expect (a number for a string, an open string, an unknown type).
`machineCode` has one sequence of pieces for each initializer.

**Driver** has the directory as a function from names to texts. A name is a record
(stem, `-pp`, extension, suffix), so that all the rules for making one name from
another, those of `plasm.cc`, of `transunit.cc` and of the script, act on one thing, and
`OutfileName`, `CodeFileName`, `DataFileName`, `PpSource` and `ScriptBin` are these rules. A
line, its row in a pass-1 file and its row in the image are one cell, and `RowsUpTo` has the
rows of a segment in the first lines of a text. A process starts
`plasm.bin` on a file, `plasm.bin` on standard input, or the script, and then takes one
step for each `open()`, each block of the source that the stream reads ahead, each row that
pass 1 writes (it ends in `endl`, so it is in the file at once), each row pass 2 reads back,
and each time the buffer of the image is written (`Flush`, at any time, and `EndOfData`).
Every `open()` may fail; that of the data file fails without notice. `Crash` is the
end of the process at an opcode or a lookup in a table that is empty. `clean`, `made` and `whole`
are history: which processes had their source to themselves, and the image they owe.

Definitions whose names end in `_Something` behind the name of another one and that
are commented *Fault* are mutations of the definition that follows: plausible bugs,
used to show that each property can fail.

## 3. The runs

Every cfg sets `CHECK_DEADLOCK FALSE`: a program ends, or crashes, and so does its model.

| run | cfg | what it shows |
|---|---|---|
| symtable | `SymTable.cfg` | `ProbesInBounds`, `WindowHoldsKey`, `AnswerRight`, `WindowShrinks`, `LookupReturns`, `ImplementsMap`: all tables of up to 4 labels over 3 names, so a sought name below, between and above them, duplicates, and three probes |
| ecisc | `Ecisc.cfg` | all programs of up to 4 lines of 10 kinds: `RefsHitLabels`, `UndefinedExactly`, `ImageIsRight`, `WellFormedIsAccepted`, `ImplementsAssembly`, `Terminates` |
| riscv | `Riscv.cfg` | the same for 11 kinds of RISC-V lines (of addresses, loads and what `Settled` leaves of branches and stores), and `ErrorLineRight` |
| ecisc_encoder | `EciscEncoder.cfg` | two statements with up to two operands of 16 kinds, opcodes in the table, between its entries and behind the last: `OpcodeFound`, `CodeIsFresh`, `SizeIsBytes` |
| riscv_encoder | `RiscvEncoder.cfg` | a statement of each format, operands of all forms at the edges of their fields: `InstructionKept`, `FieldsRecovered`, `LabelResolved` |
| directives | `Directives.cfg` | two data statements with up to two of 11 initializers: `DataIsFresh`, `SizeIsBytes` |
| driver | `Driver.cfg` | two processes, two runs, an edit, sources that share a stem, files that cannot be opened, crashes: `RowsAreOwn`, `ImageIsPrefix`, `ImageIsWhole`, `RunEnds` |

Runs that end in a counterexample, each for a statement the repository makes:

| run | property | what the code does |
|---|---|---|
| symtable_empty | `UndefinedIsReported` | a lookup in a table without labels reads `symbols[0]` of an empty vector |
| ecisc_encoder_offset | `OffsetsAreWritten` | the bodies for `label(reg)` and `number(reg)` are exchanged: neither offset is written |
| riscv_label_alone | `RefsHitLabels` | a label on a line of its own is not moved on to its statement in RISC-V |
| riscv_branch | `BranchesHitLabels` | the operand of a branch is half the absolute address of the label, less 2048: it is not PC-relative |
| driver_wrapper | `ScriptFindsImage` | the script renames `x-pp.bin`, and `plasm.bin` has written `x-pp.ecisc.bin` |

### Bounds, and why they are enough

* *Tables of 4 labels.* The window of the search takes every shape (both halves, one
  symbol, empty on both sides); the proofs are for all sizes.
* *Programs of 4 lines.* Every state the reader keeps between lines (a label waiting
  for its statement, the count of comments, the segment of the statement before)
  lasts from one line to the next statement; a definition, a reference, a statement of the
  other segment between them and a line with an error make four. The kinds of lines contain each
  branch of `read()` and each piece of pass 2. The RISC-V block of 4097 bytes puts a label
  behind the range of `gp`.
* *Two statements in the encoders.* A stale member is seen by the next statement or
  by none: each statement overwrites the same members, and the third starts from a state the
  second can start from. Two operands instead of MAX_OPERANDS = 3 is enough for one
  that is stale and one that is not; all slots are treated alike.
* *Values* are at and just beyond the limits of their fields: -2048, 2047 and 2048, five-bit registers
  31 and 40, values of two and three digits for a byte.

* *Two processes, two runs, one edit.* A file is shared by the run that writes it and by
  one other, at the same time or later; the edit makes the text shorter or longer
  between two runs, or under one. Of what a file holds, only the last writer and what it
  found there matter. The sources have one stem and different extensions: two languages, one
  extension that `main()` accepts and `assem()` refuses, one that neither accepts, and a file
  that is missing. The edit replaces a line of data and one of code by one of code. For the
  script to come to its end, the file it renames is there, left from long ago; `driver_wrapper`
  starts without it.

### Fairness

Within a run there is one thread. `Assem!FairSpec` has weak fairness of the whole next-state
relation: the process keeps running while it can. `SymTable!FairSpec` has it for `Probe`
alone: a call of `lookupByName()` that has begun goes on, but nobody need ever call it.
Both follow from running the program; nothing is assumed of the source file or of
the order of its lines. `Driver!FairSpec` has weak fairness of the steps of each process
on its own: the system schedules every process that has work to do. A crash, a new run
and an edit are not assumed to happen.

## 4. The proofs

`SymTableProofs` proves, for every set of names and offsets, every number of labels
and every order `std::sort` may leave equal names in:

| theorem | property |
|---|---|
| `TypeCorrect` | `TypeOK` |
| `ProbesStayInBounds` | `ProbesInBounds` |
| `WindowAlwaysHoldsKey` | `WindowHoldsKey` |
| `LookupCorrect` | `AnswerRight` |
| `WindowAlwaysShrinks` | `WindowShrinks` |
| `TableImplementsMap` | `ImplementsMap` |

The assumptions are those of the modules: names are integers (a linear order), and
`MaxSymbols` is a natural number.

`AnswerRight` is not inductive: that NULL is right depends on what has been ruled out
before. The inductive invariant `SearchInv` adds that the table is sorted from the first
lookup on (`TableSorted`), that the window is within the vector (`WindowInside`), and
that every symbol to the left of it is smaller and every symbol to the right of it greater
than the sought name (`RuledOut`). Each turn of the loop keeps `RuledOut` because the
table is sorted; when the window is empty nothing is left, and NULL is right.
`WindowShrinks` bounds the number of turns, which is the variant of the termination
that TLC checks as `LookupReturns`. For the refinement, `SortByName` must not change the set
of definitions (`SortFacts`), and the steps that narrow the window are stutters, or
answers "undefined".

`DriverProofs` proves, for any number of processes, runs, edits and sources, and any
interleaving of them:

| theorem | property |
|---|---|
| `TypeCorrect` | `TypeOK` |
| `ImagesAreOwn` | `RowsAreOwn` |
| `ImagesArePrefixes` | `ImageIsPrefix` |
| `ImagesAreWhole` | `ImageIsWhole` |

The assumption is `DriverAssumption`: a source has an extension (without one the script cuts its
name elsewhere), its texts are lines of its own, and what the directory holds to begin with is
what runs like these leave behind.

None of the last three is inductive: a run copies from files that other runs write. For
`RowsAreOwn`, `DriverInv` says of the directory that every file that belongs to a source (`FilesOf`: the image, the two pass-1 files
and the source) has rows of that source only (`Proper`), and of each process (`Sound`) that it
assembles a source or standard input (`JobKnown`), that the files it reads have been opened and
are still there (`Opened`: no action of the system removes one), and that the lines it has read
ahead and the rows in its buffer are of its source (`StreamsOwn`). The argument is about names:
the files of two sources are apart (`FilesAreApart`), and the name the script renames, and
the one it renames to, is never one of them (`ScriptBinIsApart`). A step of one process
leaves the others sound because it writes files of its own source and removes none that they read.

For the other two, `ImageInv` adds what becomes of a run that has its source to itself. Such a run
is alone on its four files (`CleanIsSole`); a source whose run was disturbed owes nothing
(`DisturbedOwesNothing`); of an image that is owed, a beginning is there, and all of it when it counts
as whole (`Delivered`). And a clean run is on its way to the image (`OnTrack`): in pass 1 the
pass-1 files hold the rows of the first `n` lines of the text and what has been read ahead follows
these (`InPass1`); in pass 2 they hold the rows of the whole text (`InPass2`), and what is in the
image, in the buffer and ahead in the stream make up the image together (`InCode`, `InData`). A block
of the source, a flush or a crash at any moment then leaves a prefix. What `RowsUpTo` returns
(`RowsUpToFacts`) is an induction over the lines.

`AssemProofs` proves, for both instruction sets, every source of any length, every
translation of its statements, and every order `std::sort` may leave the tables in:

| theorem | property |
|---|---|
| `TypeCorrect` | `TypeOK` of `Assem` |
| `TwoPassesImplementAssembly` | `ImplementsAssembly` |

The assumption is `SourceAssumption`: the translations are rows of pieces, and a marked label is an
address in ECISC and part of a machine word in RISC-V.

`TypeOK` is not enough for the refinement. `AssemInv` adds that the rows of pass 1 are of lines
before the one in hand (`RowsBehind`: the abstract assembly takes statements in order), that a
text handed to `parse()` is no comment, that nothing is written before pass 2, that
what is written are the rows of pass 1 with their addresses (`RowsWritten`), and, of the row in
progress, that each of its references is either still to do or stands for a meaning of its
name (`InProgress`, `RowLinked`). Reading steps, a piece that is not the last of its row, and
the sort are stutters or `Link`; the last piece of a row is `WriteInstruction`. That a
replacement is a meaning of the name rests on what the 12-bit field of a load does to an offset
(`EncodeFacts`, with `StandFor`), for all offsets. The theorem says nothing of where branches and
stores lead (`Reaches`).

`ImageProofs` builds on `AssemInv`:

| theorem | property | for |
|---|---|---|
| `MessagesGiveTheLine` | `ErrorLineRight` | sources where no label stands alone (`NoLabelAlone`) |
| `RiscvMessagesGiveTheLine` | `ErrorLineRight` | all RISC-V sources |
| `ReportsUndefinedExactly` | `UndefinedExactly` | all sources |
| `ReferencesHitTheirLabels` | `RefsHitLabels` | sources whose labels have statements behind them (`LabelsHaveStatements`) |
| `ImageIsTheSources` | `ImageIsRight` | all sources (the property is about the well-formed ones) |
| `WellFormedProgramsAreAccepted` | `WellFormedIsAccepted` | the same |

`ErrorLineRight` is of messages about statements; those about a bad label or a missing colon are
printed before the lines of the statement are added, and no theorem is about their numbers.
`NoLabelAlone` is needed because of the miscount in section 5, and `LabelsHaveStatements`, which
asks something of RISC-V sources only, because of what `riscv_label_alone` shows.

* `LineInv`: the lines that `assem()` and `read()` have counted are the lines read
  (`LinesCounted`), at every point where a message can be written.
* `UndefinedInv`: whatever has been reported is referred to and has no definition, and every
  piece that pass 2 has gone past refers to what is defined or has been reported. The
  property is about the end only, and holds there because nothing is ahead.
* `LabelInv`: a label that has been read and not yet defined belongs to the next statement
  (`LabelRead`), every symbol has the offset of a row that belongs to its label
  (`Placed`). `HitsInv`: every piece written hits a symbol, or its name has a complaint, or it is out of reach.
  The theorem follows when the row found through the symbol is the row of the image.
* `RightInv` says of a well-formed source, at every point of both passes, exactly what there is.
  `ReadRight`: the line in hand is the one of the source, no message was written, and the label that
  waits is the one that waits in the source (`Pending`), or that of the statement (`LabelsOf`).
  `CodeRight` and `DataRight` (`Segment`): the file of a segment has a row for each statement
  behind, in order and at the sum of the sizes before it; its table has the labels of these
  statements with the same sums; and the offset is the sum of them all. A statement adds one row
  to one segment and nothing to the other (`SegmentGrows`). `WriteRight`: every row written has the
  resolved pieces of its statement, and the row in progress has those of its pieces that are done
  (`Partial`). That a lookup answers with the only definition of a name, in the right table, and that
  the operand computed from it is that of `Image` is `CodeAnswer` and `DataAnswer`; that nothing is
  undefined, or out of reach, is what `WellFormed` says. This is proved of what the code writes
  (`WrittenRow`, branches and stores included); what `Image` asks of it is the same without what is not
  settled (`SettledImage`). At the end the rows are those of the two
  segments one after the other, and counting them is a bijection with the lines (`RightImage`).

`RiscvEncoderProofs`, `EciscEncoderProofs` and `DirectivesProofs` prove, for every table of opcodes,
every operand or initializer with numbers of the members' widths and, for ECISC and the
directives, any number of statements on the same members, whatever these held before (the
RISC-V encoder sets its own for each statement, so it is a model of one):

| module | theorem | property |
|---|---|---|
| `RiscvEncoderProofs` | `TypeCorrect` | `TypeOK` |
| | `OperandsKeepTheInstruction` | `InstructionKept` |
| | `OperandsCanBeReadBack` | `FieldsRecovered` |
| | `LabelsAreResolved` | `LabelResolved` |
| `EciscEncoderProofs` | `TypeCorrect` | `TypeOK` |
| | `OpcodesAreFound` | `OpcodeFound` |
| | `MembersDoNotLeak` | `CodeIsFresh` |
| | `SizesAreBytes` | `SizeIsBytes` |
| `DirectivesProofs` | `TypeCorrect` | `TypeOK` |
| | `NothingLeaksIntoData` | `DataIsFresh` |
| | `SizesAreBytes` | `SizeIsBytes` |

That an opcode is found exactly when the table has it, with its own entry (`SearchFindsOpcodes`:
`SearchIsExact`, in both modules about encoders), is no assumption. `SequenceFacts` proves it of every
vector without repetitions: putting an opcode into its place keeps the order (`InsertFacts`), so
sorting gives a permutation in order (`SortsToFacts`), and the halving search, by induction on the
length that is still to be searched, ends at the border between what is smaller than the key and what
is not (`LowerBoundFacts`). The assumptions are on data: the numbers that `sscanf` stores fit their members
(`Fits32`, `Fits64`), no two entries of a table have the same name, `ret` is another name of `movl`
as in `ecisc-bits.h`, and entries of the RISC-V table have no bits in the place of an operand.

* RISC-V. `KeptInv` says the bits of the instruction are those of its opcode whatever operands
  came; it needs to know that a register has five bits when it is placed (`Steps`).
  `FieldsRecovered` and `LabelResolved` talk of one field and need the whole word: `WordInv`
  says that a bit is in the word exactly if the opcode, one of the operands so far, or the
  resolved label puts it there. What reads a field back then only has to see that the others
  are elsewhere, format by format. Not covered: branches with an offset in figures, shifts by more than
  31, and operands of which `sscanf` reads a part or nothing. The lemmas on bits (`BitsAre`, `ShiftedIs`, `FieldIs`) are about a
  given number and need no induction.
* ECISC. `CodeIsFresh` is about the end of a statement. `OpcodeInv` and `MembersInv`
  carry what is true until then: the opcode and the data size are the statement's own,
  and for each operand the members of its slot hold what the operand says (`Kept`), if `sscanf` reads
  the whole of it: for others (`Plain`, and section 5) the theorem would be false. All
  branches of `translateOperand()` reduce to one step (`OperandStep`). For `SizeIsBytes`,
  `SizeInv` says what has been counted for each operand so far, before any code is there; that
  the digits written are twice as many is a sum over the pieces of each operand (`Total`).
* Directives. The code is right only as long as the data type is the one of the statement
  (`TypeIsOwn`), and every initializer so far has left its own pieces (`PiecesInv`). All
  branches of the loop reduce to `ItemEffect` or a crash (`Done`). `SizeInv` has the size so
  far as half the digits so far; a repeated item adds the same number each time (`TotalOfMultiples`).

### Induction

What a recursive function computes (sums, rows of a segment, sorting, searching) is proved by
induction. The library states induction for an operator, which the provers here cannot
instantiate, so `SequenceFacts` has it for a set: `NatSetInduction`, which follows from the
well-foundedness of `<` (`LeastNumber`). A recursive definition in TLA+ is a `CHOOSE`, so each of
these proofs shows first that there is a function that satisfies the equation (`TotalsFacts`,
`RowsUpToFacts`, `SortedUpToIs`, `SearchesIs`). That is why these operators are recursive functions
and not folds, which pass an operator on.

Model-checked only: liveness (`LookupReturns`, `Terminates`, `RunEnds`), which the prover does
not do under fairness; `WindowAlwaysShrinks` is the variant of the first. Every invariant and
every refinement that a passing run checks is also proved; `ErrorLineRight` and `RefsHitLabels` for
the sources named above, outside of which the code does not keep them: the miscount of section 5,
and the run `riscv_label_alone`.

## 5. What is abstracted, and what is not modelled

* Debug output, the alignment of the listing (`machineCodeCols`), and the symbol dump.
* Regular expressions: an operand comes with the form it matches.
* The texts behind `Translation` in `MCEcisc` and `MCRiscv` are what the encoders write
  for them; the encoders are modelled in modules of their own and are not composed with
  `Assem` yet.
* A string that is not closed is a crash: the loop over its characters leaves the string,
  and if it returns the line is searched again without end.
* In `Driver`, rows are equally long, so that two writers meet at the borders of rows
  and not within one; names are shorter than PATH_MAX, where `strlcat` would cut the suffix
  off; a write that fails (a full disk) is not modelled: the code never looks at the state
  of a stream it writes to. `papp`, which is not in the repository, is a copy.
* What is in the tables of opcodes is generated from `ecisc-bits.h` and `riscv-bits.h` by
  awk: the table is a constant, the numbers in it are data. The library's `sort` and
  `lower_bound` are modelled from their specifications.
* `test.cc`, the Makefiles, and `defs2sample.awk`, which makes a test source from a header.

Disagreements met while modelling that have no run of their own:

* Nothing ever sets `parseStatus` to an error (statement.cc:38, ecisc.cc:51, riscv.cc:52), so the test at
  plasm.cc:129 never fails and plasm exits with EX_OK after any error in a statement; statement.h:78
  says "0 if OK, bit codes for each error".
* The lines skipped between a label on a line of its own and its statement are not counted
  in `sourceLines` (statement.h:88 says "Comments above + label + code"): later messages name
  a line too low. `ErrorLineRight` is checked for RISC-V, where `read()` does not skip.
* "Bad label" and "Missing colon" are printed before the lines of the statement are added: they name
  the last line of the statement before. A comment in column 1 of a last line without a newline
  is looked at again after `getline()` has failed, and reported as "Missing colon".
* `$0x10` and `label(0x10)` are accepted as immediate operands without a message (ecisc.cc:222, :224,
  riscv.cc:603); `sscanf` reads nothing, and ECISC writes the value that an earlier statement left, RISC-V
  an uninitialized one. 3.14 matches the pattern of integers before that of floats, and is written as 3.
* `jalr` to an undefined name uses a NULL pointer after the message; `ImplementsAssembly` allows that
  crash as `Fail`.
* A label behind which the source ends is dropped: `read()` fails before `assem()` adds it.
* The line taken for the statement of a label may hold another label, which is lost.
* `.int8` with nothing behind it is not reported as "Missing initializer": its own 8 is
  taken for the value.
* `.float64` writes the lower 32 bits of the number behind 8 zeros; a minus sign in front
  of an initializer is ignored; digits in a comment on the line are initializers.
* Registers r16 to r95 and registers in upper case are accepted by the ECISC patterns and encoded
  as something else: r65 becomes the mode byte 0x41, an offset from r1, behind which 8 digits are written
  that were not counted (statement.h:96 says "Size of machine code in bytes"). So it is with an
  immediate operand wider than the data size, which is written in full. `jal`, `lui` and `fence` are in the RISC-V table and not translated.
* A label 4096 bytes into the data passes the test `data_offset > 4096` (plasm.cc:265), and
  its immediate, (4096 - 2048) & 0xfff, is the one of offset 0; the same for 8192 and a branch.
* A store to a label ORs `gp` into the field that `translateStype()` has filled with the
  register to be stored (plasm.cc:324 "gp = x3", riscv.cc:387): `sd x4, c` has base x7, against
  riscv.cc:418, "use offset-2048(gp)". No property claims a base for it.
* If the data file cannot be opened nothing is said: the test is of the code file again
  (transunit.cc:49). The image then has no data, and the exit status is EX_OK.
* riscv.cc:525 says of a branch to a label "use offset-2048(gp)", as of loads and stores, and
  plasm.cc:283-285 that it is PC-relative. The code follows neither: it takes 2048 from half the
  absolute address. `riscv_branch` has the second.
* `usage()` says `[source-file]`, but without one the name is "standard-input", which has no extension:
  the exit status is always EX_USAGE.

## 6. Plan

Done: the symbol table; reader and assembly, with the specification they
implement; both encoders with their table; directives; the driver and the script; and proofs
of all safety properties, as section 4 lists.

1. The encoders composed with `Assem`, in place of the constant `Translation`: that each of them
   refines an outcome of it.
2. `RefsHitLabels` for RISC-V sources with labels on lines of their own, once `read()` skips
   to their statements.
3. `RunEnds` and `Terminates` by variants, as `WindowShrinks` is for the search.
