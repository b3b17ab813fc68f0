# TLA+ models of DyneLang

DyneLang is a small NewtonScript toolbox in C++: an object system with tagged
references, a reader for Newton Streamed Object Format (NSOF), a reader and
writer for Newton packages, a transcoder and decompiler for NewtonScript
bytecode, and a printer for objects. The program is single threaded and never
frees memory. What makes it hard is not concurrency but long sequences of legal
calls, recursion over graphs with cycles and sharing, counters at their limits,
and two pieces of code that have to agree without checking each other.

All paths below are relative to `src/`; `objects.cpp` is `src/src/objects/objects.cpp`,
`stream.cpp` is `src/src/io/stream.cpp`, and so on.

## 1. Inventory

| Component | Source | State it keeps | Operations |
|---|---|---|---|
| Refs | `include/dyn/ref.h`, `src/ref.cpp` | none; a Ref is an immediate (integer, character, special), a pointer or a magic pointer | constructors, `IsInteger`, `IsPtr`, `IsSymbol`, `Ref::Print` |
| Object heap | `include/dyn/objects.h`, `src/objects/objects.cpp` | every object: 24 bit `size_`, `flags_`, class or map, bytes or a block of slots with `reserve_` spare bytes | `AllocateFrame`, `AllocateArray`, `AllocateBinary`, `Sym`, `SetFrameSlot`, `GetFrameSlot`, `AddArraySlot`, `GetArraySlot`, `SetArraySlot`, `SetLength` |
| Printer | `src/io/print.cpp`, the `Print` methods in `objects.cpp` | `PrintState`: `current_depth_`, `print_depth_`, `sym_next_`, layout flags | `incr_depth`, `decr_depth`, `more_depth`, `expect_symbol`, `Print` |
| Stream reader | `src/io/stream.cpp` | bytes and a position, the table `precedent_` | `open`, `read`, `read_next_`, `close` |
| Transcoder | `src/lang/transcode.cpp` | while it runs: the byte position, `pc_map`, the vector of instructions | `transcode_from_ns` |
| Decompiler | `src/lang/decompile.cpp`, `ast.cpp`, `ast.h` | the instructions, a stack of AST nodes, `pc` | `decode`, one handler for each bytecode, one check for each control structure |
| Package reader and writer | `src/io/package.cpp`, `src/io/package/part_entry.cpp` | header, part entries, parts | `load`, `writeAsm`, `compare`, `toNOS` |
| Package parts | `src/io/package/part_data.cpp` | a map from offsets to objects, the labels, the Refs already made | `load`, `makeAsmLabel`, `writeAsm`, `compare`, `toNOS` |
| Package bytes, relocation | `src/io/package/package_bytes.cpp`, `relocation_data.cpp` | bytes and a position; relocation sets | `get_uint`, `get_cstring`, `load`, `writeAsm` |
| Tools | `src/tools/tools.cpp` | none | UTF-16 conversion, escaping of strings |
| Program | `src/dynec.cpp`, `test/test.cpp` | none | a fixed order of calls to the above |

How they interact:

* The stream reader and the package parts build graphs with the object heap's
  public calls. They give objects numbers (precedent IDs, offsets) and refer to
  objects by number before these are complete.
* The printer calls itself through `Ref::Print` and the virtual `Print` of
  each object; all activations share one `PrintState`.
* The decompiler takes a function object from the heap, hands its instructions
  to the transcoder, and works on the vector that comes back. The transcoder
  tells it how many branches lead to each instruction (`references`), and the
  decompiler searches for control structures only where that is not zero.

What is hard, and what makes each part correct:

* *Object heap.* `SetLength` spends the reserve or reallocates, truncates to 24
  bits, and fills the slots that come into use; a frame grows its map and then
  itself. Correct: an object owns the memory it counts, no slot in use was left
  unwritten, a frame and its map stay in step, reading is a dictionary lookup
  by *name* although each `Sym()` makes a new object.
* *Stream reader.* An object's ID is taken before its class and slots are read.
  Correct: IDs are those the writer counted, a malformed stream leaves no
  object half read, a well formed one gives the graph that was written.
* *Printer.* Cycles. Correct: printing ends, the depth is the nesting, flags
  set for one part do not leak into another.
* *Transcoder.* Two passes count bytes independently, then branch addresses
  become indices. Correct: the passes agree, branches land, labels are marked.
* *Decompiler.* Each handler takes nodes from a stack and searches downward
  without a bound; several structures may end at one label. Correct: the
  bottom stays, nothing is lost or printed twice, and the text is the function
  the code was compiled from.
* *Package parts.* Offsets into the part are followed in any order, cycles
  included, while marks and remembered results are set; labels must be unique.
  Correct: each object is made once, keeps its slots, tags and references, and
  the assertion that discovers recursion fails for cycles only.
* *Package files.* The loader reads everything one behind the other and never
  looks at the offsets in the headers, so each length, filler and padding must be
  right for what comes behind it. The writer counts bytes on its own to find
  what lies behind the package. Sizes and references become labels, fillers and part
  offsets stay numbers. Correct: everything is found where the builder of the
  package put it, what nobody edits becomes the same file again, what is edited
  keeps its references, and packages compare as the same only if they are.

`PROJECT.json` lists every hazard at its line with the properties aimed at it.

## 2. Modules

### Object heap

| Module | What it is |
|---|---|
| `SlottedObjects` | Pure operators: Refs, symbols compared by name, slotted objects as records `[tag, head, length, reserve, slot]`, `SetLength`, `AddSlot`, `SetSlot`, `FindOffset`, `Frame::SetSlot`, `Frame::GetSlot`, and for each the assertion it makes (`...Asserts`). |
| `ObjectHeap` | The heap as a state machine. One action for each public call, with every early return, exception and assertion; `Next` is a client that may do anything, wrong types and negative indices included. |
| `ObjectStore` | The abstract specification: frames are dictionaries from names to Refs, arrays are sequences. No reserves, maps, symbol objects or crashes. |
| `DisciplinedHeap` | `ObjectHeap` driven by a client that keeps to its contract, and the refinement mapping to `ObjectStore`. |
| `SlottedObjectProofs` | Lemmas about the operators of `SlottedObjects` and `FreshObjects`, which all proofs about heaps share. |
| `ObjectHeapProofs` | Theorems about `ObjectHeap` and about `DisciplinedHeap`, the refinement among them (section 5). |

`heap[p]` is the object at address `p`; `slot` is a function on the memory the
object owns, so an index outside its domain is an access outside the block, and
`Garbage` is what `realloc` leaves in new memory. Lengths count Refs and not
bytes. The variable `answer` is what a call returned or threw, `status` names the assertion that
ended the program. A frame's map is a slotted object of its own in `head`; slot 0
of the map is its supermap. The 24 bit size becomes `SizeLimit`, the growth
rule of lines 54-80 the constants `GrowthStep`, `SmallReserve`,
`LargeReserve` and `InitialReserve`.

`FreshObjects` is what the code that builds graphs (streams, packages) uses of
the object system: binaries, an unused address, a new symbol for each `Sym()`.
The guards `HasRoom` and `HasSymbol` are bounds of the model: `new` never fails in the
code, and an action that needs an address or a symbol object waits for ever where
the finite sets have none left.

### Bytecode

| Module | What it is |
|---|---|
| `Bytecode` | Instructions `[bc, arg, references]`, the classes of bytecodes, the precedence table, the text of a node as a tree; code with its labels counted (`Linked`). |
| `Transcode` | `transcode_from_ns`: one action for each step of each pass. A byte read behind the object is any byte of `Behind`; a read before the vector is the phase `"undefined"`. |
| `Decompiler` | `decode`: a handler for each bytecode, `DoLabel` and its checks, in their order. |
| `SourceCode` | External: the NewtonScript compiler whose output the decompiler expects, written from the code sequences the handlers name in their comments; and what a printed tree means to a reader. |
| `CompiledPrograms` | The decompiler on compiled functions: the round trip. |
| `AssembledCode` | External: code that a compiler may write, as bytes; and the transcoder on these bytes: the round trip. |
| `DecompilerProofs`, `TranscodeProofs` | Theorems about `Decompiler`, and about `Transcode` and `AssembledCode`. |

A node of the decompiler's stack keeps its type, first and last `pc`, argument
or precedence, what the text is (`info` says whether it is the constant nil or
true, which the checks for `and` and `or` look at), and the text itself as a tree; wording and
indentation are left out. A text comes with the places where it shows an instruction (`shows`), which are
a function of the tree, put together with it; no handler looks at them, only `PrintedOnce` does. The phases `"label"` and `"code"` are
the two halves of the loop in `decode`. A handler that returns a negative
number ends the loop, as `kBC_EndOfFile` does. A push of a literal with a negative index
fails the assertion of `Array::GetSlot` where the literals of the function are an array (`HasLiterals`),
which is the phase `"dead"`; an index behind their end is nil, as any other name is a leaf.

### Streams

| Module | What it is |
|---|---|
| `StreamReader` | `read_next_` as an explicit stack of activations; each action is one activation up to its next recursive call. It EXTENDS `FreshObjects`, and so `SlottedObjects`: slots are set by the heap's own operators, assertions included. |
| `StreamedGraphs` | External: the writer of a graph, token by token, as the head of `stream.cpp` describes the format; and the property that the graph is read back, up to a renaming of objects. |
| `StreamReaderProofs` | Theorems about `StreamReader` and `StreamedGraphs`. |

A token is a tag with the numbers that belong to it; bytes inside a token are
left out, except that an integer is one of `Word` values of a 32 bit word.

### Package parts

| Module | What it is |
|---|---|
| `PartObjects` | What loading, writing and converting have in common: the kind of an object, the offset that a reference leads to. |
| `PartConversion` | `PartDataNOS::toNOS` and `refToNOS` as an explicit stack of activations: the objects of a part become objects of the heap, made by the heap's own operators. |
| `PartConversionProofs` | Theorems about `PartConversion`. |

The variable `part` of `PartConversion` is `object_list_` as `load` left it, a function from offsets
to `[type, class, refs, name]`; `holes` are the null entries that
`object_at` adds to that list when it does not find an offset. `marked` and `memo`
are `mark_` and `nos_object_` of the objects, `pending` is the reference
that `refToNOS` was just called with, and a frame of `calls` keeps the locals of one
`toNOS`: the object made so far, the tag, the index. References are numbers
of `Word` values, so signs and tags are computed as the code does. The
program may end by the assertion (`"recursion"`), by an error of the heap,
by a null pointer, or by reading what is not there (`"undefined"`).

### Package files

| Module | What it is |
|---|---|
| `PackageBytes` | Numbers of two and four bytes, slices, alignment. |
| `AsmLabels` | `makeAsmLabel` of every kind of object and `addLabel`; and what `asmRef` writes of a label. |
| `PackageReader` | `Package::load` as a state machine over the bytes of the file, and the loaders it calls for part entries, texts, infos, relocation data, parts and objects: one action for each of them. |
| `PackageWriter` | `Package::writeAsm` and the `writeAsm` it calls, as operators from a loaded package to a sequence of assembler items, and the number of bytes they return. |
| `PackageComparison` | `Package::compare` down to `Object::compareBase`. |
| `GnuAssembler` | External: how the assembler lays the items out and encodes them, as far as the writer relies on it. |
| `BuiltPackages` | External: package files as other tools build them, from a description, and badly copied ones. |
| `Repacking` | The composition, `main_01`: load, write, edit by hand, assemble, load again, compare; or compare with another file. |
| `RepackingProofs` | Theorems about `Repacking` and about what it is made of. |

`file` and `pos` are `pkg_bytes_` and its iterator, `pkg` is the package read so
far, `phase` and `index` say what is read next and for which part, and `status` how
`load` ended: `"loaded"`, `"refused"` (it returned -1), `"undefined"` (the iterator
went beyond the end, where nothing stops it, the end of a part is larger than
an int, or a label that was not terminated is read), or `"endless"` (no number makes the label unique). The fields of the
headers are kept as the bytes that they are; sizes, offsets, flags and references
are computed from these bytes as the code does: the number of parts, their sizes and those of
the relocation data become an `int`, and half of all words negative (`AsInt`); a loop that counts to such a
number has no rounds (`Rounds`). An assembler item is bytes, a label, a label's
address, the distance of two labels, or a filler; comments, the macros for
references and the names of instructions are left out, since all of them stand
for the bytes that were read. `stage` of `Repacking` says how far `main_01` is,
`original` is its `my_pkg`, and `edit` the object that somebody made longer in
the assembler file.

### Printer

| Module | What it is |
|---|---|
| `Printer` | `Print` of Refs, arrays, frames, binaries and leaves, as an explicit stack of activations with the shared depth and symbol flag. |
| `PrintedText` | The text a graph should print as: its unfolding, cut at `print_depth_`. |
| `PrinterProofs` | The bound of the recursion and the nesting of the depth, proved for every graph and every depth. |

Every family has an `MC...` module, which defines the sources, streams and
graphs for TLC. Definitions whose comment starts with "Faulty" are variations
of the code with a plausible bug; they are used by nothing in the
specifications and exist to see that a property notices them
(`PROJECT.json`, "mutants").

## 3. Runs

| Run | Specification | What it shows |
|---|---|---|
| `heap_any` | `ObjectHeap!Spec` | `MemorySafe`, `NoGarbageInUse`, `TagsMirrorSlots`, `TagReadsNeverAssert` under any client. |
| `heap_disciplined` | `DisciplinedSpec` | `DisciplineSurvives`: no assertion fails; `ImplementsStore`: the refinement. |
| `transcode` | `AssembledCode!SourceSpec` | On all byte strings of up to four bytes, `PassesAgree`, `BranchesLand`, `LabelsCounted`; on compiled functions, `RestoresTheCode`. |
| `decompiler` | `CompiledPrograms!SourceSpec` | `BottomStays`, `Contiguous`, `PrintedOnce` on arbitrary and compiled programs, `RoundTrip` on compiled ones. |
| `stream` | `GraphSpec` | `HolesAreOpen`, `IdsInOrder`, `NothingHalfRead` on any stream, `SameGraph` on streamed graphs. Deadlock is checked: the reader stops only where `Stopped` says. |
| `part_conversion` | `PartConversion!Spec` | `MarksAreHonest`, `CyclesAreDiscovered`: the assertion against recursion fails for cycles only, and for all of them; `MadeOnce`, `MemoKept`: one object for each, also in a second conversion; `GraphKept`: what was converted is the object in the part; `WellFormedConverts`: in a well formed part nothing but recursion stops it, no tag is read behind the map and all of them are symbols. |
| `package` | `Repacking!Spec` | `LoadedAsBuilt`: every object of every part is found where the builder put it, the parts end where they say, and damaged files are not accepted; `LabelsAreUnique`; `BytesCounted`: the writer counts no more than the bytes that the loader read, and all of them if every part ends where it says; `RepackedAlike`: the file that is assembled from an unedited text is the original, byte by byte except for fillers, extra data included, and compares as the same if all parts are interpreted; `EditKeepsStructure`: after an object is made longer by hand, every reference leads to the object it led to; `CompareSeesParts`: packages that compare as the same, and whose parts are placed alike, have the same objects, and their references lead to the same ones. |
| `printing` | `Printer!Spec` | `DepthIsNesting`; `PrintsTheGraph`: at any time the text is a beginning of the unfolding of the graph, quotes included, and all of it at the end; and the liveness property `PrintingEnds`: printing comes to its end, or to a binary with an immediate for a class. |

Each of these runs also checks the type invariant of its module, except
`heap_disciplined`, whose heap is that of `heap_any`.

Four runs end in a counterexample. Each shows that the code does not do what a
comment or an assertion of the repository says (`PROJECT.json`, "findings"):

| Run | Property | What happens |
|---|---|---|
| `heap_reset` | `FrameSlotInRange` | `SetFrameSlot` with a tag the frame has: `FindOffset` returns the slot's index, `SetSlot` subtracts one again (`objects.cpp:363-364`). The first tag fails the assertion, a later one overwrites its neighbour. |
| `brackets` | `BracketsKeepMeaning` | `a - (b - c)` prints as `a - b - c` (`decompile.cpp:230`). |
| `final_return` | `SilentReturnIsNil` | A function that ends in `return a and b` loses the return: the code of `and` ends in a push of nil (`decompile.cpp:276`). |
| `stream_negative` | `IntegersKeepTheirSign` | The integer -1 is read as 2^30 - 1 (`stream.cpp:134-136`). |

The passing runs stay clear of these four, and of those of section 4 that they would meet, on purpose:
`SameGraph` uses integers that are not negative, the sources of `RoundTrip` have no
right operand of the same precedence and no final return of `and`; `MCGraphs` of the printer has `'instructions` only above
the limit; the disciplined client sets a tag once, `GraphKept`
says nothing of the slots of a frame whose map has a tag twice, and `WellFormed`
requires distinct tags. `Regular` and `AlignedByLabels` of `Repacking` name what
`RepackedAlike` and `EditKeepsStructure` leave out: names that `asmRef` cuts or
`.asciz` reads differently, uninterpreted parts whose size is not a multiple of four, relocation data
shorter or longer than it says, parts that are larger than an int (which `LoadedAsBuilt` leaves out, too), and, for edits, parts aligned to eight bytes. The packages
that are left out are still in the run, for the other properties. `PlacedAlike` of `CompareSeesParts` is
there because `Package::compare` looks neither at where a part begins nor at its alignment (the
reference counts that hold it are not compared): `MCRepacking!Realigned` is a file
that compares as the same as `Pair` although its reference leads to no object.

### Bounds, and why they are enough

* *Heap.* Two addresses, so one object can hold the other and itself; four
  symbols, two of which differ only in case and must be equal; `SizeLimit` 4, so
  that `Lengths` {0, 1, 4, 5} reach it and go beyond; a reserve of one or two
  slots, so growing both spends the reserve and reallocates. A frame's map
  reaches the limit, so `SetLength`'s assertion fires. Pointers are symmetric:
  no module orders or chooses among them. The refinement run has one address, because
  what a call does to the *other* objects is also the subject of `heap_any`
  and of the proofs, and the mapping is by object.
* *Transcoder.* Four bytes hold a long instruction with a neighbour on either
  side, an instruction cut off after one or two of its three bytes, and a
  branch in either direction to each kind of place. The alphabet has bytes that
  are a command in one place and an argument in another. Compiled functions
  are longer, with arguments of one byte, two bytes and negative ones.
* *Decompiler.* All programs of three instructions, and all programs that differ in
  one instruction from six seeds of up to thirteen instructions with every
  control structure: an exhaustive search on longer programs would add
  repetitions of the same neighbourhoods, since a handler looks at a window at the top
  of the stack. Sources nest control structures three deep, so that two and three
  structures end at one label. A push has the argument 0 or the least one, so literals are looked for
before their array, too. The run has functions with literals; the theorems hold without them as well.
* *Stream.* Five tokens make a frame with two slots, or an array whose class
  is an object with a class. Graphs have two objects of every kind with two
  slots each, which hold each other and themselves; they take ten tokens at most,
  and `LongestStream` is 16.
* *Package parts.* A root, two objects of every kind with up to two slots
  (arrays of five reach `SizeLimit`), which refer to each other, to themselves, to
  symbols and to an offset where nothing is, so sharing, cycles of one
  and two objects and cycles through a class or a map all occur; a third object
  would add longer cycles only. Frames have a map with two tags, a map with
  a tag twice, an array instead of a map, or an integer for a class. `Word` is 2^16, which
  has room for the class of symbols, negative integers and magic pointers.
  Two conversions, since the second starts from whatever the first can leave behind.
* *Package files.* A byte has `Base` = 128 values, so that a word of four bytes
  fits the integers of TLC; no constant of the format that matters here needs
  the eighth bit of a byte (the fillers do, and are reduced). A word is 2^28 then, and an `int` has
the same width, so the upper half of the words is negative as it is in the code. Packages have no, one or two parts, interpreted
  and not, aligned to four and to eight; objects of every kind and with data of
  every length modulo the alignment, references to each other, to nothing and
  immediates; texts, infos, relocation data of two sets, extra data. `RefRoom`,
  `StemRoom` and `LastNumber` are small, so that cut labels, labels that are too
  long for a number, and labels without a free number all occur; three symbols
  take all combinations of four names that collide as written, by number and by digits.
  Each package is compared with ten others, and four of them with the files that
  differ from theirs in one byte, by one or by its highest bit: such a byte can be a length, a count, the
  alignment or a type, which becomes wrong, very large or negative, so the second package may be misread in every way. In one
  more file the size of the first part is the largest int, and built packages may say of all parts that they
  are larger than that. An edit adds one
  byte or one slot to one object, which already moves everything behind it by
  less than, or by just, the alignment.
* *Printer.* A depth of three is enough for two nested objects and a cycle
  through both, by slots or by the class of one. A class exists before its object (there is no
  setter, and a precedent in a stream reads NIL until its object is made), so no object is its own class, and no
  two are each other's: without this, binaries, which do not count for the depth, would recurse without end. An
  array of class `'array` that is a class itself prints its slots with `expect_symbol` still set
  (`objects.cpp:448-459`); for these graphs `PrintsTheGraph` says nothing of quotes (`FlagIsForSymbols`).
  `StackLimit` stands for the machine's stack, so that endless recursion
  shows as `"overflow"`; in `printing` it is never reached.

`CHECK_DEADLOCK FALSE` is set where the function really returns (transcoder,
decompiler, printer, package parts, package files) or the program dies by an assertion (heap,
decompiler, package parts).

### Fairness

Only `Printer` assumes any, `WF_vars(Next)`: `Print` is a plain function
call on the only thread, which runs until it returns. Everything else is a
safety property. In the transcoder and the decompiler each step advances `ip`, `pc`
or shortens the stack, and the type invariants bound these.

## 4. Other disagreements, without a run

* `decode` ends with success when a handler returns -1 for an error, because -1
  is also the end of the function (`decompile.cpp:188`, 922, 1027).
  `RoundTrip` requires that the end was reached.
* `f()` cannot be decompiled. `DoArgList` returns -1 "if an error occurred"
  (`decompile.cpp:823`), and the same number when there are no arguments;
  `DoCallOrInvoke` and `DoSend` then give up (lines 852, 882). `CallWith` models it.
* The table in `transcode.cpp:51` gives the operands of send in another order than
  `DoSend` takes them (`decompile.cpp:865`, 873). The model follows the handler.
* The table in `transcode.cpp:61-66` names functions that no byte is transcoded to
  (lines 181-183).
* A class that contains its own object reads NIL there, because the ID is
  reserved with NIL (`stream.cpp:142-156`): `HolesAreOpen` says precisely when.
* `IsReadOnly` never holds: the constructors set another bit of the flags
  (`objects.h:151-179`).
* A magic pointer of a package loses two bits of its index: `part_data.cpp:1021`
  takes it from bit 4, where `ref.h:76` puts it at bit 2 and `asmRef` (line 849) reads it
  there. `Immediate` models it, and `GraphKept` says nothing of magic pointers.
* A reference to an offset without an object is converted to `RefUNREF` with a warning, but
  `operator[]` has then added a null entry to the list, and the next `toNOS`,
  `writeAsm` or `compare` follows it (`part_data.cpp:932`): the state
  `"null object"` of `ToNOS` and `VisitAll`.
* A binary whose class is an immediate follows a null pointer when it is printed
  (`objects.cpp:145`), although the comment in line 135 says "binary.class_ is not
  necessarily an object!" and line 137 tests for it. `CompareNullClass` models it, and
  `PrintingEnds` says that nothing else stops the printer.
* An `'instructions` binary at the limit of the depth gives back a level that
  `incr_depth` never took (`objects.cpp:147-156`), so a cycle behind it is followed
  beyond `print_depth_`, and an array that holds such a binary and then itself is printed
  without end; `print.h:48` remarks "TODO: return value not used". `DepthAfter`
  models it, `MCGraphs` has such binaries above the limit only, and the theorems about the printer
  name it as their hypothesis, `InstructionsAboveLimit`.
* `README.md:56-59` and `package.cpp:182-184` say that data added to the assembler
  file rearranges what follows. In parts aligned to eight bytes
  (NewtonOS 1.x) the filler behind each object is the number of bytes it was
  (`part_data.cpp:800-802`), so an added byte leaves all later objects off their
  alignment, and the package cannot be loaded again: without the condition
  `AlignedByLabels`, TLC refutes `EditKeepsStructure` in a few steps. The offset of a second part
  (`part_entry.cpp:177`, "not yet symbolic" in line 79) and relocation sets
  (`relocation_data.cpp:57`) stay what they were, too; nothing in the program reads that offset.
* `compare` overwrites a difference it found in the header with the result of the
  first part (`package.cpp:328`): packages that differ in date, version or name
  are the same for it when their parts are, although line 287 says "0 if they are the same".
  `FirstDifference` models it. Uninterpreted parts always differ (`part_data.cpp:57-62`).
* An uninterpreted part whose size is not a multiple of four grows by its
  `.balign` (`part_data.cpp:91`), and extra data then follows behind it.
* `asmRef` writes at most 79 characters (`part_data.cpp:827`), a label may be longer: the
  file does not assemble. A label of 121 characters or more that is taken already is
  copied without its end (line 538), and after number 9999 the search for a label repeats
  itself without end (lines 540-544).
* `\xHH` in `.asciz` takes all hexadecimal digits that follow (`part_data.cpp:498`): the
  symbol `\x01a` comes back as another name. `AscizText` models it.
* Binaries of class `'instructions` that end in the middle of an instruction, and reals
  shorter than eight bytes, are read beyond their end (`part_data.cpp:294`, 378): `WriteIsUndefined`.
* The loader ignores the error of the relocation data (`package.cpp:161`), and the test
  for a negative size is of an unsigned number (`part_data.cpp:169`): an object
  that says it is shorter than its head is read as a very long one.
* Sizes and counts that are 2^31 or more are negative where an `int` takes them: no
  part is read (`package.cpp:134`), a part has no objects or ends no iteration where it should
  (`part_entry.cpp:54`, `part_data.cpp:756`), relocation data has no sets
  (`relocation_data.cpp:95`, 101), and `load` succeeds. `writeAsm` then counts backwards (`relocation_data.cpp:130`),
  before the first byte if need be. No doc says what becomes of such a file; `AsInt` models it, and
  `BytesCounted` and `CompareSeesParts` hold for it.
* A push with an argument below 0 fails the assertion in `objects.cpp:74` when the function has literals
  (`decompile.cpp:901`): arguments of 2^15 and more are negative in the transcoder. `DoPushDies` models it.
* `open` keeps `precedent_` (`stream.cpp:113`); a reader is never reused in the repository.

## 5. Proofs

Each theorem holds for every value of the constants that satisfies the named
assumptions of the modules, which TLC evaluates in the runs. Those about heaps
assume that symbols, immediates and pointers are disjoint, that `SizeLimit` is at
least two and that reserves are natural numbers, and nothing of how many addresses
and symbols there are. `PROJECT.json` lists the theorems under "theorems".

| Module | Theorem | States |
|---|---|---|
| `ObjectHeapProofs` | `TypeCorrect` | `TypeOK` |
| | `MemorySafety` | `MemorySafe`: an object owns the memory it counts |
| | `SlotsInitialised` | `NoGarbageInUse` |
| | `FramesInStep` | `TagsMirrorSlots` |
| | `TagReadsInRange` | `TagReadsNeverAssert`: the assertion at `objects.cpp:374` cannot fail |
| | `Survives` | `DisciplineSurvives` |
| | `Implements` | `ImplementsStore`, the refinement of `ObjectStore` |
| `TranscodeProofs` | `TypeCorrect` | `TypeOK` |
| | `PassesAlwaysAgree` | `PassesAgree` |
| | `LabelsAlwaysCounted` | `LabelsCounted` |
| | `BranchesAlwaysLand` | `BranchesLand` |
| | `AlwaysRestores` | `RestoresTheCode`, for every code that satisfies `IsSource` |
| | `ReturnsAProgram` | what is returned is `IsProgram`, the assumption of `Decompiler` |
| `DecompilerProofs` | `TypeCorrect` | `TypeOK` |
| | `BottomNeverTaken` | `BottomStays` |
| | `NodesAreContiguous` | `Contiguous` |
| | `AlwaysPrintedOnce` | `PrintedOnce` |
| `StreamReaderProofs` | `TypeCorrect` | `TypeOK` |
| | `HolesAlwaysOpen` | `HolesAreOpen` |
| | `IdsAlwaysInOrder` | `IdsInOrder` |
| | `NothingStaysHalfRead` | `NothingHalfRead` |
| | `GraphsAreRead` | `SameGraph` |
| `PartConversionProofs` | `TypeCorrect` | `TypeOK` |
| | `MakesOnce` | `MadeOnce` |
| | `RemembersForever` | `MemoKept`, an action property |
| | `MarksAreTrue` | `MarksAreHonest` |
| | `DiscoversCycles` | `CyclesAreDiscovered` |
| | `KeepsTheGraph` | `GraphKept` |
| | `ConvertsWellFormed` | `WellFormedConverts` |
| `PrinterProofs` | `TypeCorrect` | `TypeOK`, the bound of the stack included, while `InstructionsAboveLimit` |
| | `DepthAlwaysIsNesting` | `DepthIsNesting`, likewise |
| | `OverflowsOnlyBelow` | memory for `Deepest(graph)` activations is enough, likewise |
| `RepackingProofs` | `TypeCorrect` | `TypeOK`: loaded packages and assembler files are well formed |
| | `LabelsAlwaysUnique` | `LabelsAreUnique` |
| | `SameIsTheSame` | `CompareSeesParts` |
| | `BytesAreCounted` | `BytesCounted` |

None of the properties is inductive alone. TLC checked every inductive invariant on
the instances of section 3, that of the printer on a part of its graphs.

*Heap, any client* (`IInv` of `ObjectHeapProofs`). That a frame's slot can
be read needs its map to be as long as the frame plus
one; that the map stays so through `Frame::SetSlot` needs `SetLength` to succeed for
both or for neither; that a new slot is initialised needs the memory behind `length`
to be owned, and the old slots to survive `realloc`. The invariant is
therefore one sentence about every live object, `SoundArray` or `SoundFrame`:
it owns `length + reserve` slots, the ones in use hold Refs, and a frame's map
has one symbol for each slot. The lemmas of `SlottedObjectProofs` take each
operator from sound objects to sound ones, with no temporal logic; one lemma for each
action carries that to the heap. Clients pass Refs, lengths that are natural numbers
and any integers as indices. The bug of `heap_reset` does not break `IInv`: a wrong slot is
overwritten with a Ref, or the program stops.

*Heap, disciplined client.* A disciplined step is a step of the heap, so `IInv`
holds. `Survives` shows that each guard of the client rules out each assertion
(`RoomForOne`, `RoomForTag`). `Implements` maps each call to the call of the store: the
lemmas `FrameGrow` and `OffsetOfTag` say that the first tag of a name is found by
`FindOffset`, and that a new one leaves the others as they are, so the dictionary
from names to Refs that the mapping reads out of a frame changes at one name only.

*Transcoder.* `IInv` of `TranscodeProofs` says of the addresses that the first pass has gone over
that `pc_map` sends the address behind an instruction to the next index (`Mapped`), and that as
many instructions were counted. In the second pass `ip` is an address of the map and `pc` its
index, so the passes cannot drift apart. For `LabelsCounted`, each branch that was decoded has
added one to a target that is an index of the vector. For `BranchesLand`, `LandInv` adds that an
address has the number of addresses before it for its index (`Numbered`), and that the instruction at an
index is the one that the bytes at its address say (`DecodedFrom`). The property finds instructions by a recursive
function of its own, `FoundBelow`; `StartsAreMapped` shows that it finds the domain of `pc_map`,
by the least address where the two would differ. The bytes are any binary; a read behind its end gives any
byte. Operands that `branch` reads there, and targets between instructions, end in the phase
`"undefined"` of the model.

`AlwaysRestores` is about `AssembledCode!SourceSpec`, for code of any length. `SourcesAssumption` is
what the format asks of a compiler: the names and arguments that an instruction of the format can have
(16 bits, with a sign), branches to instructions of the function, code that ends within 16 bit addresses, `EndOfFile` at the end, and
no exception handlers, whose references are not counted from branches. Addresses are running sums of the widths
(`SumsExist`, `SumsGrow`), so a byte belongs to one instruction (`OneOwner`), and at its address the
transcoder reads its command and operand (`ReadsBack`). By `Mapped`, the first pass finds the
addresses one after the other, the last of which ends the code (`FoundWhereWritten`); `DecodedFrom` then
gives each instruction, and `LabelsCounted` its references.

*Decompiler.* The assumption is `IsProgram`: one `EndOfFile`, at the end, which
`ReturnsAProgram` proves of the transcoder. `IInv` says that the stack is `Sound`
(well formed nodes above one `EndOfStack` node at the bottom), and that each node starts where the one
below it stops (`Chain`) while decoding goes on. Searches down the stack without a bound stop at the
bottom since no handler accepts its type, and what a handler takes is a final part of
the stack (`Joined`). Where the model says "the first such that", the lemmas `LeastNumber` and
`GreatestNumber` prove that there is one, from the well-foundedness theorems of the library.

For `PrintedOnce`, `PInv` adds that the stack is `Whole`: an instruction that has to show is in one place
of one node when it is before `pc`, and nowhere otherwise; and that the nodes a join leaves out, branches
and the constants of "and" and "or", print nothing that has to show (`Silent`). What a text
is made of is put in terms of the nodes it stands for: it `Gathers` them when it shows each instruction
once that they show once between them. `TextGathers` takes this from parts that gather sets of nodes with
nothing in common to the whole, so for each handler and check it remains to prove that its parts
do not overlap, and that what lies between them is silent (`JoinWhole`). A return that prints
nothing may drop anything, but it ends the function.

*Stream reader.* The first four theorems are about `StreamReader!Spec`, whose environment may open any
stream; the run drives the same actions with the streams of `StreamedGraphs` besides arbitrary
ones. `IInv` has one activation for each hole of the precedent table and one hole for each activation that
reads a class (`HolesMatch`), every other activation with an object that is sound and has the
slots it is going to fill (`CallsSound`), and every slot that was not filled yet belongs to an
activation that will (`AllAwaited`). Nothing is assumed of the stream beyond the types of its tokens.

`SameGraph` is proved for `GraphSpec`, by an invariant (`GraphInv`) that puts reader and writer side by side: before
each token, the reader is in step with the writer that is about to write it (`Tracks`). The IDs the
reader gave are the nodes the writer numbered, in the same order; each activation reads the object
that the one around it awaits (`Nested`), and what the writer still has to write is exactly what the
activations, from the inside out, still have to read (`InStepWith`). The objects that no activation holds
are complete, those in hand are read up to the part that is awaited (`ReadSoFar`), and a value *means*
what was written for it (`Means`). The delicate case is an ID whose object is still a hole: only classes are awaited by
holes, and a class is a symbol, which no activation reads, so an ID that is written leads to
an object that was made (`AwaitedIsMade`). At the end nothing is awaited, so nothing
was left to write. It is assumed (`GraphAssumption`, `IsSource`) that classes and tags are symbols, that a
frame has no tag twice, that counts of slots are below the size limit, and that the stream is finite
(`LongestStream`); that integers are not negative is a hypothesis of the property.

*Package parts.* `Inductive` of `PartConversionProofs` has four layers, each inductive
relative to those before it:

1. `Typed`: the types, sound objects in the heap, and each activation with the object it fills.
   Every step is shown to have one of a few shapes (`Begun`, `Continued`, `Completed`, `Returned`,
   `Started`, `Dies`); the other layers are proved by shape.
2. `Once`: activations convert different objects, which are marked and not remembered yet, and
   each object of the heap is owned by one activation or one entry of the memory. Hence `MadeOnce`
   and `MemoKept`.
3. `Linked`: each activation converts the object that the one below it asked for
   (`Chain`), what it asked for before is complete, and complete objects refer to complete objects only
   and have no cycle. A mark that is found set then belongs to an open activation, and the activations from there
   to the top are the cycle. Hence `MarksAreHonest` and `CyclesAreDiscovered`.
4. `Kept`: a complete object of the heap has the class, slots and tags that the part
   says (except for magic pointers, and for the slots of a frame whose map has a tag twice), an incomplete one the first of them, and what an activation waits for is what its
   reference should become. Hence `GraphKept`.

`WellFormedConverts` needs all four: a frame has room for its next tag because it
has as many slots as its activation has reached, and the tag is a new one because symbols keep their names.
`PartAssumption` says what `load` makes of any bytes (words, a type of two bits, at least one object);
parts are not assumed to be well formed, finite or free of cycles except where
a theorem says so.

*Printer.* `print_depth_` bounds the arrays and frames that are open, and nothing in the code counts the
binaries, which print their class at any depth. `StackIsBounded` shows that the depth bounds them too:
binaries that print each other with no array or frame between are a chain of classes, which never returns to
where it began because a class is there before its object (`ClassesCameFirst` of
`GraphAssumption`); so the number of arrays and frames below a binary tells it from the other activations
of the same object (`ToldApart`), and at most `PrintDepth + 1` of those fit. `IInv` says that each activation was reached from
the one below (`IsStack`) and that `current_depth_` counts the open arrays and frames. It is inductive
except for one step, `Close` of an `'instructions` binary at the limit (section 4): the
attempt to prove the theorems without their hypothesis stops there, and they are false without it. A graph with no
such binary satisfies it, and so does every graph of the run.

*Package files.* `Inv` of `RepackingProofs` is about every file, sound or not, and every stage of
`main_01`. `ReaderInv` says what has been read so far, phase by phase (`Progress`): the fields are
bytes of the widths of the format, the iterator is inside the file, and the part whose
objects are being read is one that the header announced. `LabelInv` says that the objects of a part stand one
behind the other, so labels that are made of an offset differ, and that labels that are made of a name are those
that `addLabel` had not met yet; a label names its part and its kind, so neither
can be taken for the other. `MainInv` adds that the assembler file is one (`IsAsm`):
sequences of items whose operands the assembler can encode, whatever package is written and
wherever an edit inserts its item. What the assembler makes of such a file are bytes again
(`AssembledIsBytes`), so the second `load` starts as the first did.
`SameInv` adds what `CompareSeesParts` needs. `LayoutInv` says that the first object of a part is where the part
starts and that each of the others is where the one before it ends (`Behind`), its padding included, which follows from its
type, class and size and the alignment of the part; that `load` keeps no data of an interpreted part, and that parts it
has not come to have no objects. `CompareInv` says that both packages
were loaded like that (`Sound`). So objects that `compareContents` found equal in all but their
places have the same places as well, by the least one that does not (`SameOffsets`), and a reference that is the same
number leads to the same object. `CountInv`, for `BytesCounted`, says in each phase where the loader is in the writer's
count: at the entries it has read, then at the texts and infos (`BeforeInfo`), at the end of the directory, and from
then on each part begins where the one before it says that it ends, or behind. The writer's sum over all parts
follows by `Telescope`; it is a sum of integers of either sign (`WrittenIsInt`). Relocation data that says it is smaller than
it is, or negative, has no padding, so the loader is behind the end it gives in any case (`DirectoryCounted`). The assumptions are
`BaseAssumption` and `FilesAssumption`: files are bytes.

## 6. Model-checked only

Liveness: `PrintingEnds`, under fairness. Comparison with recursive operators, which the proof system
does not admit: `RoundTrip`, `PrintsTheGraph`. Of `Repacking`, the properties that compare a loaded package with the description
it was built from, byte for byte (`LoadedAsBuilt`, `RepackedAlike`, `EditKeepsStructure`).

## 7. Not modelled

* `compareFile`, which prints the place of a difference; the frames that
  `Package::toNOS` and `PartEntry::toNOS` put around the objects of the parts; a
  `Package` that is loaded twice, which nothing in the repository does.
* Quotes and backslashes in texts and symbols, which the writer does not escape, and UTF-16
  surrogates: texts in `Repacking` are characters that stand for themselves.
* Loops other than `while`: the checks for `for`, `foreach`, `repeat`, `loop` and
  `try` only return 0, and bytecodes without a handler stop the decompiler
  (`DoUnsupported`).
* Binaries, reals, strings and symbols as bytes; comparison by hash; `DelObj`;
  tags of printed frames that are not symbols; layout of printed text.
* Unicode conversion (`tools.cpp`), the program's `main`, file I/O; the files of
  `main_01` can always be read and written.

## 8. Plan

Order: heap, bytecode, streams, printer, conversion of package parts, labels and package
files (done); then `RefCodec`: the encodings of Refs in `ref.h`, `stream.cpp`, `part_data.cpp`
and `asmRef` against each other; and the frames of `Package::toNOS` around the parts, composed with `PartConversion`.

Proofs, in order of worth: `PrintsTheGraph`, with the unfolding written token by token as the writer of
`StreamedGraphs` is; `LoadedAsBuilt`.

The runs that end in a counterexample may be merged or give way to new passing runs when these need the room.
