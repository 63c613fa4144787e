# Specifications of jyyyx-simulator

This directory models the simulator of `src/` in TLA+: a small x86 machine
(instructions, address translation with demand paging, a write-back cache, physical
memory), a static linker for a textual object format, and two demonstrations, of the
MESI protocol and of sharing between threads. TLC checks the models on small
instances; TLAPS proves the main invariants for all values of the constants. Source
paths in `PROJECT.json` are relative to the directory above; below, `sram.c` is
`src/src/hardware/cpu/sram.c`, and so on. `PROJECT.json` maps every definition to the
lines it stands for.

## 1. The system

| Component | Source | State | Operations | Modules |
|---|---|---|---|---|
| MESI simulator | `mains/mesi.c` | a line per core, one memory cell | read, write, evict, drawn at random by `main`, which checks the states after each | `WriteBackCell`, `MESI` |
| SRAM cache and bus | `hardware/cpu/sram.c`, `hardware/memory/dram.c` | sets of lines with state, timer, tag, block; physical memory | `sram_cache_read`, `sram_cache_write`, line transfers; words and instructions, byte by byte | `FlatMemory`, `SRAM`, `SRAMHistory`, `Machine` |
| MMU, page faults, swap | `hardware/cpu/mmu.c`, `hardware/memory/swap.c` | page tables, `page_map` with an entry per frame, swap files | `va2pa`, `page_walk`, `page_fault_handler`, `swap_in`, `swap_out` | `MMU`, `Machine` |
| Instruction set | `hardware/cpu/isa.c` | registers, flags, `rip` | `instruction_cycle` with eleven handlers, `parse_instruction`, `parse_operand` | `ISA`, `Assembly`, `ISAPrograms` |
| Static linker | `linker/staticlink.c`, `mains/test_elf.c` | symbol map, output file | resolution, headers, merging, relocation, from object files to the output | `SymbolResolution`, `StaticLink`, `Linker` |
| Sharing benchmark | `mains/false_sharing.c` | words of result pages, two threads | three runs of create, count, join | `FalseSharing` |
| ELF parser | `linker/parseELF.c` | none | text to tables, `write_eof` | `ParseELF` |
| Number conversion | `common/convert.c` | none | text to number, number to float | `Convert` |
| Printing | `common/print.c` | none | | not modelled |
| Containers, tagged allocation | `algorithm/`, `common/tagmalloc.c`, `common/cleanup.c` | | in no make target | not modelled |
| Allocator sketch | `mains/mem_alloc.c` | | in no make target | not modelled |

How they interact. `instruction_cycle` translates `rip` with `va2pa`, reads an
instruction from memory behind the cache, and its handler translates and accesses
each memory operand. `va2pa` walks four levels of tables; if the page is not present
the fault handler takes a free frame, a clean victim or a dirty victim, and moves
pages between frames and swap files. A memory access is eight byte accesses through
the cache, which loads and spills lines over the bus; swapping and the loader access
memory behind it. The linker is separate: the parser's tables go through resolution,
then the sections are laid out, merged and relocated, and the output is written as text
in the format of the inputs. Parser and decoder call `string2uint`. `mesi.c` and `false_sharing.c` are programs of their own.

What is hard about them, and what makes them correct:

* **MESI**: any order of operations of any cores. The states must never conflict,
  all copies must agree, and no written value may get lost. Hazards are the promotion
  of a last sharer, the source of a missed value, and the order of write-back and reset.
* **Cache**: long sequences of accesses of which one replaces a line. A tag is in one
  place, clean lines equal memory, and together they are a flat memory.
* **Paging**: three structures (entry, descriptor, file) that must agree after any
  sequence of faults, and an exit in the middle of a replacement.
* **Cache and paging together**: nothing keeps them in step. Each byte of an access must
  reach the page it was made for, whatever was swapped and replaced in between.
* **Instructions**: wrap-around, flags told from wrapped results, and the discipline of
  stack and frame pointers over a recursion.
* **Decoding and conversion**: small automata over text in which one character in an
  unusual place leads to another instruction or another number.
* **Parser**: line numbers that count only some lines, and tables that point at each other.
* **Linker**: any order of files and symbols; numbers (rows, offsets, sizes) that one
  phase computes and another uses; phases that silently pass over what they do not know.
* **Sharing benchmark**: true interleavings. What is lost and what may never be.

`PROJECT.json` lists the hazards one by one, with the properties that cover them.

## 2. Modules, and how they correspond to the code

**`WriteBackCell`** is the abstract specification of the MESI program: a visible value
over a copy in memory. **`MESI`** has an action for every branch of `read_cacheline`,
`write_cacheline` and `evict_cacheline`, and `Next` is `main`'s choice of a core and an
operation. The scan for a supplier stops at the first valid line, as in the code.
`read_value` is uninitialised in `main` and so starts anywhere. `MESI` implements
`WriteBackCell` (`ImplementsCell`), which has to allow a drop that brings back memory's
copy, since line 223 uses `==` for `=` and leaves a written line EXCLUSIVE.

**`FlatMemory`** is what cache and memory promise. **`SRAM`** is one set of the cache
and the memory lines that map to it; sets share nothing, so one stands for all. Each
call is one step, since the simulator has one thread. What the code does is kept where
it differs from its comments: the read hit that resets the timer of a copy, the dirty
victim that is spilled as its raw record over the address that missed (`Image`,
`Spill`), the write that replaces a line and leaves its tag. **`SRAMHistory`** adds a
history variable that counts the accesses since a line was last used.

**`MMU`** has `va2pa` with the walk that finds the page, the one that faults (free
frame, clean victim, dirty victim) and the one that finds no table, and the access that
follows. A page is one content. The code contains nothing that fills tables and
`page_map`; `Init` is any state such a kernel could leave. What a swap file looks like
decides whether the fault handler survives reading it (`Form`, `CanSwapIn`). `swap_in` gives
`string2uint` what `fgets` returned, and that exits on a line break: a file with a number on
each line, which is what the comment at `swap.c:10` describes, ends the process at its first
line. The only file that is read is one of blocks, 512 numbers of 63 characters (the buffer
of 64) without a line break, which nothing in the repository writes but a kernel could. A
file that `swap_out` wrote has the numbers joined and is never read again. A fault that
evicts a page therefore ends the process in the middle of the replacement (`Replace`), after a
dirty victim is written and before anything is bound, unless the file to read is of
blocks; the model has all three forms and the missing file. The
TLB is compiled out.

**`Machine`** composes the two: it instantiates `SRAM` and `MMU` over one physical memory
(`Cache`, `Paging`) and adds the four functions of `dram.c`. A page offset has the 12 bits
of cache index and cache offset, so that one set holds one line of each frame and its tag
is the frame's number: the tags of `SRAM` are the frames of `MMU`. An access is a
translation (`Begin`) and then a step for each byte, through the cache (`cpu_read64bits_dram`,
`cpu_write64bits_dram`) or behind it (`cpu_readinst_dram`, `cpu_writeinst_dram`). A byte is
promoted to int and shifted, with what that may leave of it where it is undefined
(`Shifted`). What the program sees of its pages (`Seen`) is compared with a `FlatMemory`
of virtual pages (`Virtual`), step by step.

**`ISA`** has an action per handler, `ParseError` for memory that holds no instruction,
`NullPointer` for an operand whose register is not named, and `NoCase` for a handler that
has no case for its operands: nothing changes and `rip` stays. `code` is the program by
address; memory is by words; a word holds `0 .. 2 * HALF - 1` and wraps. An operand is
what is written (`Written`), and `Parts` is the choice among the nine memory types.
**`Assembly`** is the decoding: `parse_instruction` splits a text by the automaton drawn at
`isa.c:161`, `parse_operand` cuts an operand by its brackets and commas, and names are
looked up. A text is a sequence of characters, a name being one; a function that may end
the process returns the set of its results, empty if it exits. The programs of `ISA` are
what `Assembly` decodes from text (`Assemble`), and `InstructionText` writes an instruction
in a given style, for the comparison. **`Convert`** is `string2uint_range`, arrow by arrow,
and `uint2float`, with the undefined shift of its mask. **`ISAPrograms`** has the two
programs of the tests in `isa.c`, for any summands and any count.

**`SymbolResolution`** is `symbol_processing`: the symbols of all files, in order, are
inserted, resolved against the entry of their name by priority, or skipped (weak ones);
then the map is cleaned up. Refusals, failed assertions and the overrun of the map at
line 196 are values of `status`. A symbol may name any section (`OtherSection`), since the parser
copies it unchecked (`parseELF.c:166`) and resolution looks at it only when it compares two
symbols. **`StaticLink`** extends it with the later phases, one
action per symbol, section or relocation: `compute_section_header`, `merge_section`
(`SkipSymbol`, `MergeSymbol`, `NextSection`, `WriteSymbols`) and
`relocation_processing` (`Relocate`, by its outcomes). A line of the output is the index of
the line of its source file that was copied: the offset in the last header that the file has
for the symbol's section, plus the symbol's place and the row (`src_index`), behind the
assertion that it is in the file's buffer (`Fits`). A file without such a header has its
symbols skipped (`HasSource`, `SkipSymbol`), and the entry that no symbol went to shows in a
later assertion. The line also records its symbol and its row, for the properties. `.rodata` is
given the header name `.data`, as at line 412; unset pointers (`smap_table[].dst`, and the
symbol table entries that `malloc` returned) end in the phases `undefined` and `exited`. The
last row of an empty symbol at 0 is -1, compared as unsigned, so that such a symbol has every
row of its section (`Referencing`): the scan then stops there, or goes on if the name is not
found (`ScanReaches`, `InVain`), and what is patched may be a line of another symbol, of the
symbol table (`stray`) or behind the buffer (`Patch`).

**`ParseELF`** is `parse_elf` as a function of a file: which lines count (`Buffer`), how
headers give the rows of the tables, and how it ends: `read`, `exited`, `aborted`, or
`undefined` where it reads lines that were never written. A line is its columns; columns
are words or numbers. **`Linker`** is the program of `test_elf.c` on top of `StaticLink`: it
opens object files one by one (`ParseFile`), links what they hold, and writes the output
(`write_eof`) as the text that `compute_section_header` and `merge_section` print into it.
`parse_table_entry` hands out the address of its own array: `FollowColumns` is the outcome
in which that array does not survive.

**`FalseSharing`** splits `*ptr += 1` into load and store, for two threads and `main`. As
nothing orders the accesses, the compiler may turn the loop into one addition (gcc -O2
does): `stride` chooses which.

## 3. Runs

Distinct states are in brackets. `TypeOK` is checked in `mesi`, `sram`, `mmu`, `symbols`
and `isa` and not repeated here.

| Run | Question | Result |
|---|---|---|
| `mesi` (324) | four cores, three values | `CheckState` (the program's own check), `ValuesAgree`, `OnlyExclusiveEvictionLoses` (only evicting a written EXCLUSIVE line loses a value), `ImplementsCell` hold |
| `sram` (429086) | two lines, three memory lines of two bytes | `UniqueTags`, `CleanLinesMatchMemory`, `FlatButForReplacement` (a flat memory, except for the steps that replace a dirty line, or a line by a write, and these change no third line) hold |
| `sram_writeback` | does replaced data reach its place? | violated: `sram.c:167` |
| `sram_lru` | is the victim the least recently used line? | violated: `sram.c:132` |
| `mmu` (553600) | two frames, four pages and one without tables, from every boot state with files of lines or blocks | `ReverseMapping`, `SlotLostOnlyToFreeFrame`, `PagesMoveThroughFiles`, `ContentLossHasACause` hold |
| `machine` (2841231) | four pages in three frames behind two cache lines; loads, stores, fetches and the loader | `BytesReachTheirPage` (a flat virtual memory but for the access of a fault, a lossy replacement, a fetch and a load behind a cached line), `PagesSurviveTranslation`, `SmallWordsAreLoaded`, `StoresLandWhole` hold |
| `symbols` (389114) | all sequences of up to four of 16 symbols, one kind in a section of its own | `OneBestCandidate`, `StrongDefinitionsKept`, `RefusalHasACause`, `ResolvedIsPlaced` (no entry is undefined or common, and one of a name with several symbols is a definition; the only symbol of a name may be in any section), `EntriesOnlyImprove` hold |
| `static_link` (1107701) | 28360 pairs of object files, and damaged second files | `ObjectsAreRead` (sound files are read as meant; damaged ones are refused, but for three slips that the parser cannot see), `OutputReadsBack` (with two slips put right the output is read as the linked symbols), `MergedInPlace`, `ReferencesReachTheirSymbol`, `FailureHasACause` hold |
| `link_addresses` | do header and relocation agree where `.data` is? | violated: `staticlink.c:371` uses 64 bytes per instruction, relocation 88 |
| `isa` (12804) | both test programs for 100 and 9 inputs, single instructions in four styles, all texts of up to four characters as numbers | `ParsedAsWritten`, `NumbersAsWritten`, `ProgramsCompute`, `FlagsTellTheTruth`, `LoadsFromMeaning`, `ProgramsEnd` hold; `FloatIsNearest` is an assumption that TLC evaluates ahead of the run |
| `isa_overflow` | is OF of a subtraction what the comment defines? | violated: `isa.c:721` |
| `false_sharing` (3453) | four additions per thread, all interleavings | `ApartIsExact`, `SharedKeepsSome`, `RunsDoNotOverlap`, `Terminates` hold |

### Bounds, and why they are enough

* `mesi`: four cores give a supplier before and after the core at hand and a sharer that
  leaves two or one behind. Values: the reset value 0, the initial memory and another.
* `sram`: two lines and three tags give hits, free lines, clean and dirty victims. A
  spilled record of `HEADER` 1 and `BLOCK` 2 covers header and part of the block, as 16
  and 64 do. `MAX_TIME` bounds the timers: the run stops when a timer would pass 4, which
  is why deadlock is not checked.
* `mmu`: a page can be evicted, return and be evicted again if its file is of blocks; frames
  boot free, clean or dirty, of any age, and every file is of lines or of blocks. The process
  may exit, so deadlock is not checked.
* `machine`: fewer cache lines than frames and fewer frames than pages, so that a line is
  replaced while its page is in memory and a page is evicted while its line is cached. A
  byte has four values and an int one byte, so that the first byte of a word can be
  negative and the second is shifted by more than an int has. It boots with a free
  frame, with frame 0 as victim or with another one (`MCInit`), one word to store and one
  to load, and timers up to 4. All files are of blocks at boot, as one of lines only ends
  the process, which `mmu` has.
* `symbols`: two names, four symbols: the shortest sequences in which a definition, a
  tentative definition and a reference of a name meet in any order, around another name.
  One kind of function is in a section that the linker does not know. The map has three
  entries, so that it can be full.
* `static_link`: two files of two or three symbols, with all pairs of local, common,
  defined, weak, read-only, empty and undefined symbols that resolution accepts, and with one
  in a section that the linker does not know, in both orders, as text without and with
  comments and blank lines everywhere. A relocation is in one of two rows, or in one that no
  symbol has lines in. Second files are damaged in fifteen ways: one slip each in length, line
  count, indentation, headers, columns, names and numbers; two of them, a header of `.text`
  with another name or with an offset behind the buffer, pass the parser and make the linker
  fail. The output buffer has 15 lines, so that some outputs are too long; the map has room
  for all entries here, and is full in `symbols`. `INST_SIZE` and
  `MAX_INSTRUCTION_CHAR` differ as 88 and 64 do.
* `isa`: a word of 64 values has every relation of signs, carries and borrows; `Corners`
  has both ends, the sign boundary and their neighbours. The stack has room for a
  recursion of depth eight. Words and instructions have size 1, since only the order of
  addresses matters. The four styles have each blank that the automaton allows and lack it,
  both bases, both signs and each name of a register. `Chars` has one of each kind that the
  conversion tells apart and the letter that follows the digits; four characters wrap a word
  of 64 values in both bases. Floats have three bits of fraction, the number eight bits:
  exact, rounded down, rounded up and carried into the exponent.
* `false_sharing`: with four additions per thread results 2 to 8 are reachable, so that
  the bound of two is met.

Resolution, linking and the programs of `isa` end, so deadlock is not checked there; the
machine stops when a page whose file cannot be read is to return.

### Fairness

`FalseSharing` assumes weak fairness of `main` and of each thread: the operating system
runs every thread that can run, and none is blocked but in `pthread_join`. `ISA` assumes
weak fairness of `instruction_cycle`: the processor does nothing else. The tests stop
after 100 cycles; the model goes on until the program ends, which `ProgramsEnd` shows it does.

## 4. Proofs

Each `*Proofs` module extends its component and proves theorems of its specification for all
constants that satisfy the named assumptions of the component, which TLC also evaluates.
All of them follow one argument: an inductive invariant, holding initially and kept by
every action; the rest follows from it. TLC checked each invariant on an instance first.

Induction over data is stated with sets, since the library's theorems about predicates
cannot be used: a set of lengths, texts or numbers that has the first and with each the
next has all (`Induction`, `TextInduction`, `LineInduction`), which is proved from the least
element of a set (`WFMin`). The scanners of the code are runs: a function over the lengths
of a text, each value the step of an automaton from the one before (`RunExists`, `RunStep`).

* **`MESIProofs`** (any number of cores, any values): `IInv` is types, `Exclusion` (a
  MODIFIED or EXCLUSIVE line is the only valid one), `NoLoneSharer` and `ValuesAgree`. The
  two facts about states are needed because the scan looks at the first copy only and takes
  it for all. From it: `CheckNeverFails` (with a count of the cores in each state),
  `CopiesAgree`, `LossOnlyByExclusiveEviction`, and `CoresImplementCell`, the refinement.
* **`SRAMProofs`** (any geometry and program): types, `UniqueTags` and
  `CleanLinesMatchMemory` hold each other up. That a spill goes to the address that missed
  is why clean lines stay clean: no line holds that address. From it:
  `OnlyReplacementDisturbs` (a step that is none of `FlatMemory` replaces a dirty line, or a
  line by a write, and changes nothing but the line that goes and the one that comes), and
  `FittingProgramSeesMemory`: if the lines of a program fit into the set (`NUM_TAG <=
  NUM_CACHE_LINE_PER_SET`), the cache implements `FlatMemory` outright, since a full set
  then never misses.
* **`MMUProofs`** (any number of frames and pages): types and `ReverseMapping` are inductive
  together; that no file is overwritten with another page also needs `SlotsApart`,
  `WrittenFramesHaveSlots` and `FreeFramesHaveNone`. Nothing is assumed about the forms of the
  files at boot but that each is of lines or of blocks; a replacement that ends the process is a
  step like the others. From it: `SlotsAreKept`, `FilesCarryPages` (the form of a file included),
  `ContentIsKept`.
* **`MachineProofs`** (any geometry, frames, pages and widths, up to `SizeAssumption`:
  frame numbers fit into a byte, timers into two): `Machinery` is the cache's types and
  `UniqueTags`, the pager's types, `ReverseMapping` and the three facts about slots, all over
  the one memory that both write to; `TaskInv`, that an access is under way exactly when a
  translation waits for it; and `Storing`, that the bytes a store has moved are together in
  its line, or the set is full and the line is not in it, in which case every byte replaces
  a line. `CleanLinesMatchMemory` is not part of it: swapping and loading go behind the cache
  and break it. From it: `StoresAreWhole`; `BytesArrive` (each step of an access is the step
  of the flat virtual memory, but for the four causes), which needs `ReverseMapping` for
  "no other page"; and `PagesSurvive`. A theorem of an instantiated module cannot be cited,
  so the lemmas about `SRAM` and `MMU` that it rests on are stated again for `Cache` and
  `Paging`. `Loading` says of a load under way that what has been assembled is the beginning
  of every small word that agrees with the line so far; the upper bytes of a small word
  are 0, and 0 shifted is 0 however the shift comes out. From it: `SmallWordsArrive`, and
  with it the rest of the types (`MachineTypeCorrect`). That the bytes of a word add up to
  it is an induction over its bytes; `PowerAssumption` tells the provers what a power of
  `BYTES` is.
* **`SymbolResolutionProofs`** (any symbols of any files): `OneBestCandidate` needs
  `EntriesAreSeen`, or the next symbol could be in the map already. From it: `BestIsKept`,
  `NoStrongIsDropped`, `EntriesImprove`. `Accounting` adds that the map has exactly the
  entries that the symbols so far need (`EntriesCounted`, a sum of two cardinalities that
  grows by one or not at all with each symbol), that entries differ, how far the clean-up is,
  and that an entry whose name had another symbol has been compared, so that its section
  is one that `symbol_priority` knows. From it: `RefusalIsJustified` and `NamesArePlaced`, for
  any set of other sections.
* **`StaticLinkProofs`** (files of any number and length, any relocations, an output of any
  length, any source headers): `LinkerResolves` shows that the linker is a refinement of symbol resolution, so
  that `Accounting` holds through all phases. `Linking` is `Setting` (types, `Accounting`,
  `NoneIsLost`, the input, and in which phase what is set), `Layout` and the two properties
  `FailureHasACause` and `ReferencesReachTheirSymbol`. `Layout` says where merging is:
  the number of lines written is that of the sections before and the entries before
  (`LinesCounted`); exactly those entries have an output symbol (`SymbolsCounted`); and the
  lines of each are where its section and its symbol say, copied from the index that the source
  header gives, and every line is one of these (`LinesPlaced`). Without the last, a relocation could find a line of another symbol. From it:
  `OutputIsInPlace`, `ReferencesAreRight`, `FailuresAreJustified`. The first two are about
  ordinary programs (`Ordinary`: no `.rodata`, no symbol said to be in `.symtab`, and a source
  header for every entry of code or data); the second also asks that no empty symbol draws a
  relocation (`NoneIsDrawn`), as otherwise a line is patched for another. `ProgramLinks` carries the
  three over to the program of `Linker`, on the condition that what it reads is an input the
  linker may be given (`SoundInput`); that undamaged files are read as such is what
  `ObjectsAreRead` checks. `OutputIsObject` is about the text that is written and the parser
  that reads it. `Writing` says that what is merged fits and that what is written is what is
  linked. The lines that count are found by induction over the file (`BufferIs`): all of the
  repaired output (`AllLinesCount`), all but the header of `.symtab` of the output as it is
  (`OneLineSkipped`, `OneLineIsEmpty`), so that its first line is wrong by one
  (`WrongLength`). `ObjectIsRead` says when the parser reads a buffer and as what. Every
  entry has an output symbol of its own, so by counting all of them are taken
  (`AllNumbersTaken`). Names are neither blank nor a comment (`NamesAssumption`).
* **`FalseSharingProofs`** (any number of additions): `Counting` counts the additions that
  each thread has stored (`Done`). A word of a thread's own holds this number, and so does
  the copy that the thread is about to store (`WordsCount`); a shared word lies between bounds
  (`SharedBounds`): never more than both have done, at least one stride once somebody is past
  the first store, at least two in the end. `OtherRuns` keeps the words of past and future
  runs. From it: `ApartLosesNothing`, `SharingKeepsSome`, `JoinsSeparateRuns`.
* **`ISAProofs`** (any width of a word, any programs): types and `CodeOK`, which says what is
  known of the program and does not change. `FlagsRight` rests on two lemmas about
  arithmetic, `AddFlagsRight` and `SubFlagsRight`, that compare a wrapped result with an
  operand. `LoadsAreMeant` rests on `AddressIsMeant`: the parts that the type of an operand
  names add up to what is written, and none that it names is missing. It needs to know that
  an address without brackets has no commas and is 0 if it is not written (`Unbracketed`),
  which the decoder sees to and `BootAssumption` says.

  `TextIsUnderstood` follows a text through its three automata: `Separate` cuts it into parts
  whatever the blanks (`InstructionParts`), `Cut` an operand into its parts
  (`CutBrackets`), and `string2uint` gives each numeral the number it was made from
  (`ReadDigits`, by induction over the number: its digits are those of its quotient and one
  more), in either base and with either sign. No two registers or operators share a name
  (`RegisterNamesOwned`, `OperatorNamesOwned`).

  `NumbersAreRight` has no author: the text is any. `Shape` relates the state of the automaton
  to the text read so far: how many blanks, which sign, where the digits are, and that the
  value is theirs modulo the width. Every arrow keeps it (`ShapeKept`), so that whatever is
  accepted is a numeral and its value right (`ReadAsSaid`). The other way, a numeral is
  followed from blanks to sign, prefix and digits (`ReadBlanks`, `ReadSign`, `DigitsRead`,
  `ReadBehind`): a number that fits never seems to overflow, since the value only grows
  (`PartGrows`). A bracket keeps a comma from ending the operand, and then
  both sides refuse (`MoveParts`, `NotRead`).

  `ProgramsAreRight` is a proof of the two programs: `Computing` says for each of their
  instructions what registers, stack and frames hold there (`AddAt`, `SumAt`), for the
  recursion at every depth k, with the frames of all callers (`FramesKept`); each step
  leads from one such assertion to the next (`AddStep`, `SumStep`). `RoomAssumption` asks for
  room for the programs and their stack, `BootsAssumption` that they start with a stack. That
  the code is the program is `TextIsUnderstood`, so nothing is assumed of the decoder.

What the proofs changed in the models: `MergedInPlace` had claimed a header for sections of
symbols without lines, which have none; `FailureHasACause` had missed the symbols without
lines, which are never merged and whose output symbol is unset (`staticlink.c:660`).
`OutputReadsBack` had missed them too: an entry of size 0 in a section without lines gets no
header, and what is written as its row is whatever the memory held (`AllWritten`,
`Arbitrary`). That a text is a sequence of characters and a name neither blank nor comment was
taken for granted and is now assumed and evaluated (`TextAssumption`, `NamesAssumption`).
`MergedInPlace` also has the condition that no symbol is said to be in `.symtab`, which is a
section name like any other and has a header in the output.

Only checked by TLC:

* `Terminates` and `ProgramsEnd`: liveness under fairness, which TLAPS does not prove.
* `ObjectsAreRead`: the texts of objects, what they were made from and how they are damaged
  are constants of `Linker` that only `MCLinker` defines, one slip at a time; for all texts
  the property would say no more than the parser. What of it is general is `BufferIs` and
  `ObjectIsRead`.
* `FloatIsNearest`: an assumption that TLC evaluates for all numbers of eight bits. It asks
  for quotients by powers of 2, of which the provers know nothing.

## 5. Where code and comments disagree

Runs with a counterexample: `sram_writeback`, `sram_lru`, `link_addresses`,
`isa_overflow` (`PROJECT.json` quotes the lines). The models contain more, which shape a
property without a run of their own:

* A swap file with a number on each line, as `swap.c:10` describes it, ends the process when
  it is read, and so does one that `swap_out` wrote (`swap.c:31`, `:55`): `CanSwapIn`.
* The last row of an empty symbol is computed as an `int` and compared with an unsigned one
  (`staticlink.c:640` and `:702`), so that one at 0 has every row: `Referencing`, and the
  condition of `ReferencesReachTheirSymbol`.
* A walk that faults returns 0 and not the page's address (`mmu.c:272`; the comment at 151
  promises the physical address): `Mistranslated`, an exception of `BytesReachTheirPage`.
* Swapping, fetching and loading go behind the cache (`dram.c:83`): exceptions of
  `BytesReachTheirPage` and `PagesSurviveTranslation`.
* A byte read is shifted as an int (`dram.c:39`), so that only words below 2^31 are loaded
  for certain (`SmallWordsAreLoaded`).
* The output's header of `.symtab` is never printed (`staticlink.c:449` to 461) and global
  symbols become `STT_GLOBAL` (`:868`), so that the parser refuses every output
  (`OutputReadsBack`); `files/exe/output.eof.txt` has the blank line and the name.
* The test for overflow of a number compares with the value before the digit
  (`convert.c:97`), so that many numbers beyond 64 bits are taken modulo 2^64; -2^63 cannot
  be written; a text without digits is 0; a hexadecimal number must not have blanks behind
  it, though decimal ones may: the exceptions of `NumbersAsWritten`.
* A blank ahead of the comma becomes part of the source operand (`isa.c:188`), whose register
  is then unknown, although the drawing at 161 allows it.
* `uint2float` shifts a mask by 32 for the number 1 (`convert.c:224`); every outcome gives the
  right float, since the mask is only too wide by the leading bit (`Packed`).
* `mesi.c:223` compares instead of assigning, so that EXCLUSIVE lines may be dirty, and
  `OnlyExclusiveEvictionLoses` has its exception.
* Nothing sets `dirty` on a write (`mmu.c:323`), so that written pages are dropped as
  clean: an exception of `ContentLossHasACause`.
* A fault with a free frame reads nothing from disk (`mmu.c:305`): another one.
* A map of 64 entries takes a 65th (`staticlink.c:196`): the status `overrun`.
* `.rodata` gets a header named `.data` (`staticlink.c:412`), and symbols in `.bss`
  or without lines have no output symbol (`:660`): the causes that `FailureHasACause` names.

## 6. What is not modelled

* **The TLB** (`mmu.c:85` to 149): two macros that differ in a letter enable it, and no build
  defines either.
* **Containers, tagged allocation and cleanup** (`algorithm/`, `common/tagmalloc.c`,
  `common/cleanup.c`): no make target compiles them and nothing calls them, and they could
  not be linked: they call functions that are defined nowhere. `mem_alloc.c` is an empty main.
* **Printing** (`common/print.c`) and the verbose output of the other files.
* **Registers of 8 to 32 bits**: the handlers move 64 bits whatever the name, so that
  `%eax` is `%rax` in the model; names of the second byte (`%ah`), from which a handler
  would reach into the next register, are left out.
* **Unaligned words**, which lie in two cache lines; a word fills its line in `Machine`.
* **Long texts**: operands of more than 63 characters, columns of more than 32 and lines of
  more than 127 write behind arrays, abort or are split.
* **Large numbers in object files**: the code keeps places, sizes and offsets in variables of
  type `int`; the model's numbers are unbounded and stand for those that fit. Section names
  and damaged files are samples in the runs: any name may stand for a section in the proofs,
  but `ObjectsAreRead` says of fifteen slips, not of every damage, whether it is noticed.
* The column of a relocation in its line and its addend; files that cannot be opened; the
  limit of 100000 rounds of `mesi.c`, whose random choices are nondeterministic.

## 7. Plan

Done, in this order: `MESI` and its cell; `SRAM` over `FlatMemory`; `MMU`;
`SymbolResolution`; `FalseSharing`; `StaticLink` on top of `SymbolResolution`; `ISA` and
its programs; proofs of each but `StaticLink` and `FalseSharing`; then `Machine` over `SRAM`
and `MMU`; `Convert` and `Assembly`; `ParseELF` and `Linker`; then `FalseSharingProofs`, the
rest of `SymbolResolutionProofs`, `StaticLinkProofs`, `MachineProofs` and `LoadsAreMeant`;
then the proofs by induction: words of bytes, the decoder, numbers, the test programs and
the output as an object file.

Next:

1. A condition under which `Machine` implements the virtual `FlatMemory` outright: pages
   that all have a frame and whose frames all fit into the set, loaded before the cache is
   used, as `FittingProgramSeesMemory` has it for the cache alone.
2. That `SoundInput` follows from a condition on the texts of files, with `BufferIs` and
   `ObjectIsRead`.
