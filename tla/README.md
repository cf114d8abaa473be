# A formal model of Versat

Versat compiles a dataflow graph of functional units into a coarse grained
reconfigurable accelerator: a Verilog top with configuration registers, units
that stream data between memory and the graph, and a C driver that configures,
starts and awaits runs. This directory holds TLA+ modules of the hardware and
the driver, clock edge by clock edge, and of the compiler's passes between the
specification and the accelerator; TLC configurations that check them on small
instances; and proofs that TLAPS checks for every instance.

Paths below are relative to the repository's root (`hw/` stands for
`hardware/src/`, `sw/` for `software/`; `.cpp` files without a directory are in
`sw/compiler/`).

## 1. The system

| component | state | operations | interacts with |
|---|---|---|---|
| handshake buffers (`hw/SkidBuffer.v`, `hw/JoinTwoHandshakes.v`) | one or two words per stream | a clock edge with any valid, ready and force reset; reset | the databus words and the addresses they go to, in VRead |
| memory reader (`hw/MemoryReader.v`, `SimpleFifo.v`, `versat_ram_2p.v`) | fifo, reads in flight, output registers of the memory | a clock edge; force reset | address generator before, databus after, in VWrite |
| streaming units (`hw/units/VRead.v`, `VWrite.v`) | two halves of a memory each, which half is whose, whether the bus and the graph are done | a clock edge; the start of a run | all of the above, the databus, the graph |
| databus (`hw/MuxNative.v`, the lower half of `SuperAddress.v`, `CountNLoops.v`) | grant of each channel, state and transfers left of each unit | a clock edge; the start of a run | all streaming units and the two AXI sides |
| AXI read side (`hw/SimpleAXIToAXIRead.v`, `AXITransferController.v`, `BurstAlign.v`) | state machine, remaining length, next address, a held-back word, count of words | a clock edge | MuxNative, an AXI memory |
| AXI write side (`hw/SimpleAXIToAXIWrite2.v`, `AXITransferController2.v`, `BurstSplit.v`) | state machine, remaining length, strobes, the previous word | a clock edge | MuxNative, a VWrite, an AXI memory |
| address generators (the upper half of `hw/SuperAddress.v`; `AddressGen*.v` wrap it) | eight counters, four bases, delay, work group | a clock edge; the start of a run | the units; configured from `addressGen.cpp` |
| run control (`sw/templates/versat_top_instance.tpl`, blocks of `codeGeneration.cpp`) | start pulse, run, running, answer to a read | register reads and writes, soft reset | the driver, all units (`run`, `done`) |
| configuration registers (`codeGeneration.cpp:1289-1430`) | shadow, active and two intermediate copies | a write; the shift at a start | driver, units |
| DMA (`hw/SimpleDMA.v`, `hw/JoinTwoSimple.v`) | address, running; length and addresses in the top | a word; start | driver, read side, memory mapped units |
| driver (`sw/templates/iob-versat.tpl`) | none of its own but the program counter | StartAccelerator, EndAccelerator, RunAccelerator, ResetAccelerator, VersatLoadDelay, VersatMemoryCopy | the register interface |
| graph of an accelerator (`accelerator.cpp`, `versat.cpp`, `declaration.cpp`) | units, connections, the role of each unit | create a unit, connect, disconnect, insert a unit into an edge, register a module | all passes below |
| delay calculation (`delayCalculation.cpp`) | delay of each edge, unit and output | latencies from the sources down, delays from the sinks up, buffers for what is left | graph, configurations, merge |
| merge (`merge.cpp`) | the merged graph, one graph per merged module, the mapping between them | map two graphs, fold one into the other, add multiplexers, insert buffers | graph, delay calculation |
| configurations (`configurations.cpp`, `sw/compiler/codeGeneration.cpp`) | the tree of instances with the places of their wires, states, delays and memories | calculate the places of a module; emit the registers of the hardware, the structs and addresses of the header | graph, run control, driver |
| address expressions (`sw/common/symbolic.cpp`, `addressGen.cpp`) | nodes of expressions, sums over loops | build in normal form, derive, factor, substitute, evaluate; compile loops and an address to the registers of a generator | user configurations, address generators |
| user configurations (`userConfigs.cpp`) | the functions instantiated so far, the turn of the loops around the statement at hand | a turn of a statement; emission; a call of the emitted C | address expressions, configuration registers |
| maps (`Hashmap`, `TrieMap` and their sets, `sw/common/memory.hpp`) | pairs in the order of insertion; chains or a tree by hash | insert, get, allocate, list, clear; remove from a trie | all passes of the compiler |
| pool (`sw/common/memory.hpp`) | blocks of elements with a bitmap and a count | allocate, remove, iterate, clear | the graph, debug output |
| arenas (`sw/common/memory.cpp`, `.hpp`) | a mark of how much is used; two for functions, eight of single use | take a region, push, grow an array, give back at return | all passes |
| front end, options, text emission (`versatSpecificationParser.cpp`, `main.cpp`, `codeGeneration.cpp`) | data structures in arenas | passes run once, in order, by one thread | files in, files out |

What is hard in it is, in the hardware, that everything happens in the same
clock edge: handshakes of both sides of a buffer, grants of two channels, the
end of a burst and of a transfer, a start and a poll. None of the testbenches
(`hardware/simulation/coverage`) varies the stalls of both sides of a block
systematically. In the driver it is the distance between an access and its
effect. The compiler is sequential; what is hard there is that two passes, or
two emissions, must undo or repeat each other's arithmetic: the buffers of one
module lengthen the paths of another, a second delay calculation must agree with
the first, the struct of the header must land on the registers of the hardware,
and the registers of a generator must give back the loops they came from. Some of
its choices depend on the addresses of pointers in hash maps, or on a time limit.
`PROJECT.json` lists every hazard at its line.

What makes each component correct:

- a buffer neither loses nor doubles nor reorders words, and does not block for ever;
- the memory reader does not overflow and keeps address and data paired;
- the databus gives every unit its own words and its own last, and rests between runs;
- an AXI side turns a request into bursts that cover exactly its bytes, within a
  page and the longest burst, and hands over exactly its words;
- an address generator visits the loop nest it was compiled from;
- every start is followed by exactly one run, with the configuration meant for it,
  and a wait ends when the run has;
- a copy has arrived when it returns (it has not, see section 3; when it returns the
  words its registers name have been sent);
- the data of a run meets in every unit in the same cycle, whichever buffers were
  inserted in whichever order, and the buffers change nothing of the graph;
- a merged accelerator is each of its modules when its multiplexers are set;
- every wire, state, delay and memory is where the program looks for it, and
  units that share a configuration share its registers and nothing else;
- a configuration function leaves every unit with the addresses its loops say;
- a map tells what was stored last and lists its keys in the order they came, a
  pool gives what lives, and nothing that a function was given or left with is
  overwritten before its owner returns.

## 2. Modules

A step of every hardware module is one clock edge; the inputs of the edge are
quantified. A step of a compiler module is one turn of the pass it models, and
the program it compiles is a value chosen at the start. A definition has the name
of the wire, register, state or function it stands for. A history variable is
marked as such where it is declared; no guard reads one.

| module | models | built on |
|---|---|---|
| `HandshakeFifo` | what a buffer promises: a bounded queue between two handshakes, which keeps its words until it is told to reset | |
| `SkidBuffer` | `SkidBuffer.v`; implements `HandshakeFifo` with two places | |
| `JoinTwoHandshakes` | two skid buffers that give their words together | two instances of `SkidBuffer` |
| `MemoryReader` | `MemoryReader.v` with the pointers and memory of `SimpleFifo.v` and the two registers of `versat_ram_2p.v`; implements `HandshakeFifo` with six places | |
| `VReadVWrite` | `VRead.v`, `VWrite.v` and the graph between them, over runs whose tiles pass from fetch to computation to sending | `MemoryReader`, `Databus`, `JoinTwoHandshakes` |
| `Databus` | the grants and the shared ready and last vectors of `MuxNative.v`, and the databus half of `SuperAddress.v` for each unit around them, in front of both AXI sides as their callers see them | |
| `AxiTransfer` | what a side promises of a request: bursts that cover its bytes in order | |
| `AXITransferController2` | the bus, and how a write is cut into bursts | |
| `AXITransferController` | how a read is cut into bursts | `AXITransferController2`, for the bus |
| `AxiBursts` | the two cutters alone, a step per burst; each implements `AxiTransfer` | `AXITransferController` |
| `SimpleAXIToAXIRead` | the read side edge by edge with `BurstAlign.v`, a caller and a memory | `AXITransferController` |
| `SimpleAXIToAXIWrite2` | the write side edge by edge with `BurstSplit.v`, a caller and a memory | `AXITransferController2` |
| `AddressAccess` | `CompileAccess` of `addressGen.cpp` with numbers and, as reference, the addresses of a nest | |
| `SuperAddress` | the address half of `SuperAddress.v`, configured by `CompileAccess` | `AddressAccess` |
| `SimpleDMA` | `SimpleDMA.v` and its setup registers in the top, of which a write leaves the last byte | |
| `VersatTop` | the generated top's control, the shadow, intermediate and active configuration registers of the three stages, and a program that calls the driver | `SimpleDMA` |
| `Accelerator` | the graph of an accelerator as a value: declarations, units, edges, roles, and the operations on it | |
| `DelayCalculation` | `CalculateDelay` and the order it walks the units in | `Accelerator` |
| `InstanceInfo` | `CalculateAcceleratorInfo`: the tree of instances with the places of wires, delays, states and memories | `DelayCalculation` |
| `ConfigStruct` | the ports of the emitted hardware, the structs of the emitted header, the address space and the select lines of the memories | `InstanceInfo` |
| `RegisterSubUnit` | the compiler from modules to an accelerator: instantiate, fix delays one edge at a time, register | `InstanceInfo` |
| `CompiledAccelerator` | what must hold of the result, against a reference timing that knows nothing of modules | `RegisterSubUnit`, `ConfigStruct` |
| `Merge` | the merge of modules: mapping, multiplexers, buffers in turns over the modules | `DelayCalculation` |
| `Symbolic` | symbolic expressions in their normal form | |
| `AddressGen` | from an address expression over loops to registers and to the C that chooses how to fetch | `Symbolic` |
| `UserConfigs` | instantiation, emission and a call of user configuration functions, and the addresses the registers then mean | `AddressGen` |
| `Dictionary` | what a map promises: keys in the order they came, each with what was stored last | |
| `Hashmap`, `TrieMap` | the two maps; implement `Dictionary` | |
| `Pool` | blocks, bitmaps and counts, with a loop over the elements that goes on while they are allocated and removed | |
| `Arena` | which arena a function takes, its region, and growable arrays that move or grow in place | |
| `MaxClique` | the search for the largest clique, over `BitArray` | |
| `MC*` | instances of the above for TLC; those of `AxiBursts` and `VersatTop` are at the end of these | |
| `*_proofs` | theorems | |

Definitions whose name ends in a word after an underscore and that are preceded
by "Mutated" are faulty versions of the definition behind them; a run's property
must fail with them.

### Correspondence, where it is not by name

- **Data.** A word of a stream is a model value; a bus word on the read side is
  its word address, a byte on the write side its position in the stream. That is
  all the properties tell apart. Addresses and lengths are numbers. Widths
  matter in the address generator (`Wrap`), the fifo level, the burst length and
  the saturation of lengths, and are kept there.
- **Databus.** `state`, `count` and `count_is_zero` are those of
  `SuperAddress.v:295-355` and `CountNLoops.v`; `rleft` and `wleft` stand for an
  AXI side in the middle of a transfer. `SimpleAXIToAXIRead` and
  `SimpleAXIToAXIWrite2` say when a side keeps that promise.
- **VReadVWrite.** A word carries the run that fetched it, which is how a word of an
  old tile in a new place is told from the word that belongs there. The stages of
  configuration make a tile pass through three runs: fetched into one half of
  VRead's memory in the first, computed in the second from there into a half of
  VWrite's, sent in the third. The graph is its `Latency`. The addresses inside a
  half are places of the tile, one loop long.
- **SimpleAXIToAXIRead.** The caller is MuxNative: it holds address and length
  until last and shows zeros for at least a cycle. The memory is any AXI memory
  that answers in order.
- **SimpleAXIToAXIWrite2.** The caller's words come from a VWrite, whose reader
  gives a word up whenever ready is up. The memory raises wready only after it
  took an address.
- **SuperAddress.** `counter[1..8]` are per, iter, per2, iter2 ... iter4;
  `base[2..4]` are addr2, addr3 and addr4; `Moving` is the case of `cases` that
  applies. `ignore` starts arbitrary because the code does not reset it.
- **VersatTop.** A step is a cycle with at most one access of the processor.
  `call` is where the program is in the driver, and the program between calls
  does anything. `busy` is the complement of `unitDone`: after `run` any set of
  units is at work and each ends when it likes. `gap` counts cycles since the
  last access. `told`, `owed` and `arrived` are histories. RunAccelerator is a
  sequence of StartAccelerator and EndAccelerator. VersatLoadDelay writes one of
  the registers of stage COMPUTE, where delays live.
- **Accelerator.** An instance is its name; the linked lists of instances and of
  edges are a sequence and a set. `type` is stored as in the code and not computed
  when asked for, because the code recomputes it when units are connected and not
  when a connection is removed. Names are pairs of a text and a number, so
  that what the compiler adds cannot meet a name of the specification; the
  code's can (`fixedBuffer0`).
- **RegisterSubUnit.** `FixDelays` takes the edges in any order, since the code
  walks a hash map of pointers. `library` holds the declarations with the instance
  info of each module, from which `CalculateAcceleratorInfo` copies. The top is the
  instance `TOP` of the last module, as `main.cpp` makes it.
- **ConfigStruct.** Hardware and software are two computations from the same
  info, as in the code: `RegisterOf`, `StatePort`, `DelayPort` and `SelectPort`
  follow the ports through the emitted modules, `StructWords` lays the members of
  the emitted structs out and `OffsetOf` follows a name through them.
- **Merge.** A unit of the merged graph is named by the module and unit it was
  made for. `Next` takes any of the largest cliques, since which one the search
  returns depends on the order of the connections. A search that is cut off after ten
  seconds (`merge.cpp:816`) returns a smaller one, which the runs of `Merge` do not cover; `MaxClique` is the
  search itself, with a number of calls for the time. A multiplexer's drivers are connected in
  any order and buffers are inserted in any order, for the reason above.
- **Symbolic, AddressGen.** A node is a record; that nodes are shared, and that
  two expressions are compared as pointers, is equality of records. A function node is not
  shared: `GetOrAllocateFunc` looks for it among the variables (`symbolic.cpp:478`) and makes
  another at each call. The name of its record tells the calls apart: the function, the statement
  and turn, the place in it, and the passes that made it again. Two Duties written the same
  are therefore different, which `SameNode` says; nothing is configured wrongly by it,
  because a Duty is taken apart before anything of it is compared. Two passes of the same kind over
  one node would give one name; no expression of the runs holds a Duty twice. Names are
  sequences of letters as numbers, because the order of names decides the normal
  form. The C that is emitted is a tree of conditions and assignments.
- **UserConfigs.** `RunConfigFunction` runs the C; the addresses the registers
  mean are read off as in `AddressAccess`, which the run `StreamingUnits` checks
  against the generator itself. A fetch puts word `ext_addr + p % length +
  (p ÷ length) * addr_shift` at the place `p` of the unit's memory.

- **Hashmap, TrieMap.** A pointer to a pair or node is its number, 0 the null
  pointer. `hash` is any function; that of the trie is given in the pairs of
  bits it descends by. `InsertIfNotExist` of a key that is there tells nothing
  in one map and the data in the other; `Dictionary` allows both.
- **Pool.** A position is a block and a unit in it; the bit that is scanned is that
  of the unit. A page has `PageSize` bytes, and a block as many units as
  `CalculatePoolInfo` gives it. `live`, `seen` and `lasting` are histories.
- **Arena.** `frames` are the functions being executed. A function pushes to the
  arenas it was given for results, to the one it took and to those of single use
  it holds; which arena it takes is `GetArena2` of the ones it was given. Cells
  count elements and hold who wrote them; cells that are not in use are `Poison`, as under the
  address sanitizer.

## 3. What TLC checks

The properties are ones that several steps, often of several actors or passes,
would be needed to break. Where several parts are in one run they share no
register, each behaviour exercises one of them, and each has the fairness it had
alone.

| run | instance | states | properties |
|---|---|---|---|
| `Streams`, part reader | two addresses with different contents | 667 thousand in both parts | `ImplementsStream`: the reader is a six-place queue of pairs of address and word that only a reset empties |
| part units | tiles of three words, fetched at once and sent one by one, and empty ones, in any order of runs | | `WordsAlwaysTaken`: the buffer that VRead pushes into without a look at its ready never refuses; `SendsWhatWasFetched`: a VWrite sends the tile fetched two runs before, word for word |
| `StreamingUnits`, part join | two values per stream | 26 thousand in all parts | `EachInOrder`: each buffer implements the two-place queue, and loses words to a reset only; `PairsLeave`: pairs keep leaving |
| part databus | two readers and a writer, up to two transfers of up to two words each per run, any number of runs | | `LastEndsTransfer`, `RunEnds` |
| part address | every nest of one or two loops of sizes 1 to 3, duties 1 to 3, nests of up to seven loops, work groups, ignored first periods, delays 0 and 1 | | `VisitsTheNest`, `StoredOnce`, `RunCompletes` |
| `AxiBursts` | the widths of a 32-bit accelerator; addresses and lengths around the places where a burst is cut | 12 thousand | `BurstsImplementTransfer`: both cutters implement `AxiTransfer` |
| `DatabusToAXI`, parts read and write | bursts of two words, pages of four, every start and lengths to 18 bytes | 46 thousand in both parts | `LastOnLastWord`, `WordsInOrder`, `ReleasedWhenDrained`; `BytesInPlace`, `EndsWithLastByte`; `TransfersServed` |
| `VersatTop` | two units, two values, a mapped unit at 2^20, a copy of 589824 bytes to it, of which the registers make three words, and one of eight from it, three cycles between accesses | 321 thousand | `StartsServed`, `RunsAsTold`, `EndMeansDone`, `CopyReturnsWhenSent`, `CallsReturn` |
| `Compile`, part compile | circuits of two sources, an adder, a register, a store and a memory, connected in every way; three levels of modules with every way to share a configuration; edges met in every order | 49 thousand in both parts | of delays `BuffersKeepTheGraph`, `DataArrivesTogether`, `NothingLeftToDelay`; of places `StructsMatchTheRegisters`, `OneRegisterPerSharedWire`, `StatesReadWhereDriven`, `AccessReachesItsMemory` |
| part merge | pairs and triples of small modules, along every largest clique, multiplexed and buffered in every order | | `MergedIsEachModule`, `NoBufferTwice`, `EachModuleInTime` |
| `UserConfigs` | 762 functions, each input from 1 to 3 | 10 thousand | `AddressesAsWritten`, `OneAssignmentEach`, `ReadsAtMostTheSpan`, `SameNode` |
| `Containers`, part maps | three keys that share a bucket and a branch, two values, four pairs | 526 thousand in all parts | `MapsAreDictionaries`: `Hashmap` and `TrieMap` implement `Dictionary` |
| part pool | two blocks of eight elements, up to ten allocations with two removed between them, a loop open at any time | | `IteratesWhatLives` |
| part arena | functions three deep, two growable arrays, four arenas of five elements | | `LiveDataIntact` |
| part clique | every graph of five mappings, every bound, and time for two calls or for all | | `FindsLargestClique` |

Deadlock is checked in every run of the hardware. A compilation ends and an arena
is full, so the runs of the compiler and its containers do not check it, and none of them states fairness:
what they show is about the result, whichever way the passes came to it.

Four further runs show a disagreement between the code and what it or its
documents say; what each shows is quoted in the findings of `PROJECT.json`.

- `TransfersAsked` (`SomeTransferAsAsked`): in an unaligned read longer than a burst the controller
  asks for a word too many and the next read starts with it; and of an aligned
  write of which a burst starts exactly one longest burst before a page boundary,
  bytes are skipped, since the comparisons of `hw/AXITransferController2.v:128`
  and `:131` are both strict.
- `VersatTop_copy` (`CopiesWork`): VersatMemoryCopy with the DMA on. The setup
  registers keep the last byte of what is written (`codeGeneration.cpp:2565-2588`: every
  strobe assigns the whole register), so a copy to the accelerator sends other words
  than it was asked for, to other addresses; a copy from it only reads memory; and a
  poll that meets a word whose address is that of a mapped unit is never answered.
  With such registers a copy to the accelerator does not reach a mapped unit at all. If it
  did, the unit would take the place from `csr_addr`, the processor's own bus, and not from the
  joined one (`codeGeneration.cpp:817`, `:2822`); no run shows that, as the registers hide it,
  and `Delivered` asks only that a word crosses with the right address.
- `Compile_validity` (`SomeCircuitInTime`): a source all of whose edges
  wait by different amounts, and a memory fed by a source that starts late: the
  delays are calculated again after the buffers are in, with another result; and
  a sink gets its delay before its source is shifted. And, merged, a unit all of
  whose inputs pass buffers, behind which the third module would need one more; the
  modules of this one have a single largest clique at each step, so that the code has no other choice.
- `UserConfigs_validity` (`SomeUnitAsWritten`): a fetch of three loops with
  variable terms, a fetch of nothing, and a call with two loops of a function of
  an inner module.

Where a run lists several causes, its property is that not all of them go wrong
together, so that one property stands for all; each is reproduced alone by
leaving the others out of the instance.

### Bounds, and why they are enough

- Words that differ in value are told apart by two values, because a buffer
  never compares words. Its states are reached within three edges.
- Three words fill the reader's queue behind a bus that stalls, and tiles of three
  beside empty ones let a half be swapped while the other side still works, is
  done, or had nothing to do. Tags wrap at four, one more than the runs a tile lives.
- `MaxCount = MaxLen = 2`: the databus tells the first, an inner and the last
  word and transfer apart, and three units give a unit that waits for two others
  and channels that are busy at the same time. Zero counts and lengths are included.
- `AxiBursts` runs at the real widths, because the arithmetic is what is checked. The
  edge-by-edge parts shrink the burst to two words (the least
  `iob_versat.py:331` allows) and the page to four, so that requests of few
  words are cut by either.
- Nests of up to seven loops pass through every counter but the last; terms are
  chosen so that no two counters add the same.
- In `VersatTop` the three stages need three starts to show themselves; the
  runs are unbounded, so any number of starts occurs. `MinGap` is the least
  distance of two accesses and is an assumption about the processor, below.
- The circuits of `Compile` have paths that differ by every amount from none to
  the sum of three latencies, a source with one and with several edges, and up
  to four buffers, met in every order. Three levels are the least at which the
  info of a module contains copies of copies. Latencies differ from each other,
  so that no two mistakes cancel; `MaxOutputs` is 4 instead of 50.
- Pairs suffice to show what a mapping does to two graphs; triples let a unit of
  the third meet one that two modules share, and a buffer of the first lie on
  paths of the others. `MuxPorts` is the code's.
- The functions of `UserConfigs` have up to three loops, sums and products of
  depth two, and moved, divided and nested bounds. With inputs 1 to 3 every
  comparison the emitted C makes comes out either way.
- Two keys in one bucket show a chain and three its middle. In the trie the keys
  of the instance agree in one level and two of them in two. A pool of two blocks
  has one that is full, is emptied by one and filled again while a loop is before,
  at or behind it. Of the arenas a caller, a function and one it calls are what
  can mistake two arenas for one; two arrays are what can be in each other's way.

### What the instances leave out, because the code does not keep its promise there

These can be reproduced by giving the constant the value in brackets.

- Unaligned reads that span bursts or pages (`ReadFits`; `AxiBursts` with `Reads <-
  LongTransfers`): `NoPageCrossing` and `BeatsOfTransfer`,
  which state what `hw/AXITransferController.v:3` and its table at line 255 say,
  fail. `TransfersAsked` shows what that does to a caller.
- Writes of which a burst starts exactly a longest burst before a page boundary with
  more than that to go (the first conjunct of `WriteFits`), shown by `TransfersAsked`.
- Unaligned writes shorter than a burst in bytes that touch 257 words (the second
  conjunct of `WriteFits`): the beats saturate at 256 (`Writes <- LongTransfers`).
- Unaligned writes that touch one bus word more than their bytes fill (the last
  conjunct of `UnitWrites`): a VWrite gives up a word that belongs to its next
  transfer, and `EndsWithLastByte` fails.
- Nests of eight loops: the last counter adds `incr4` instead of `shift4`
  (`hw/SuperAddress.v:265`), and `VisitsTheNest` fails.
- Fewer than three cycles between accesses (`VersatTop` with `MinGap = 1` or
  `2`): `StartsServed` and `EndMeansDone` fail, because `done` stays up for three
  cycles after the write that starts a run.
- In `Compile`: units that both take and give data on their own (`Mem` read and
  written in one run), composites none of whose inputs is needed at the start or
  whose output an inner source drives, a delay `{N}` on an edge into a unit of
  several inputs, sources all of whose edges wait by different amounts, units of
  two inputs fed straight by a source that waits. The delays are then wrong, as
  `Compile_validity` shows for two of these. Of sharing: composites that share
  part of their wires and static composites: the struct keeps all of such wires, the hardware
  one (`codeGeneration.cpp:1800`), and `StructsMatchTheRegisters` fails, though the registers and
  states are as the specification shares them, which is proved for all of these. The only padding in the
  structs of these families is in leaf units that share part of their wires, where every
  entry is one word and the index of an entry is its place; behind a longer member
  `GenerateStructs` writes the padding to the wrong entry (`codeGeneration.cpp:2127`),
  which is not met.
- In the merge part of `Compile`: units of two inputs fed straight by a source, units with an input
  that nothing drives, loops of a unit to itself (an assertion,
  `merge.cpp:729`), static and shared units, delays `{N}`, and modules that need a
  buffer behind a unit all of whose inputs pass buffers (`Compile_validity`).
- In `UserConfigs`: a loop variable that is subtracted on its own (`a - x`), which
  stays in the start expression because `SYM_Replace` skips negated variables,
  so that the C does not compile; inputs called `y` or of which one is a prefix
  of another; `n / 2` for an odd `n`, since divisions cancel; triangular loops;
  a read in a function of an inner module, and fetches of three loops with
  variable terms, of nothing, and calls with two loops
  (`UserConfigs_validity`).
- In `Containers`: a key removed from a trie while others are below it
  (`RemovesInner = TRUE`): a later `Insert` puts a node without children in its
  place (`sw/common/memory.hpp:1069`) and `MapsAreDictionaries` fails. No caller
  removes from a trie at all. A pool whose block is more than a page (`PageSize` small
  against eight elements): `Pool::Remove` masks the address to one page and would
  clear a bit elsewhere, so the model does not remove there.

### Fairness

Liveness is under weak fairness of a single action, the clock edge in which the
environment is helpful: producer and consumer are both ready (join), the memory
answers and the writers have their words (databus, the two AXI sides), the
consumer is ready (address generator), every unit is done and the processor goes
on (`VersatTop`). The clock does not stop, and an environment that never helps
would legitimately stall the hardware. Such an edge is always possible, so weak
fairness only says that it comes again and again; nothing is assumed about the
order in which the hardware serves. In the databus this leaves the fixed priority
of `MuxNative.v` free to starve a unit, and `RunEnds` holds because the others run
out of transfers. `CallsReturn` speaks of the calls that start and await; the
copy is left out because a poll that coincides with a word of the DMA for a mapped unit is
never answered, which `VersatTop_copy` shows. Compiler runs state no liveness.

## 4. What is proved

`tlapm` checks every proof; all leaves cite what they use.

- **SkidBuffer_proofs.** `SkidBufferIsFifo`: for every set of words the buffer
  implements the two-place queue; every edge maps to a step of the queue, and since that
  is emptied by a reset only, no word is lost otherwise. The
  invariant `IInv` adds to the type that the registers the state says are in use
  hold words, without which the mapping has no queue to map to.
- **StreamingUnits_proofs** of the join. `BuffersAreFifos` carries this over to both
  buffers of the join: every step of the join is a step of each buffer, so its
  specification implies theirs. `JoinStallsLate` and `WordsLeaveTogether`, which no
  run repeats: a buffer refuses a word only after it gave none, and words leave in
  pairs.
- **StreamingUnits_proofs** of the address generator. `EveryNestVisited` and
  `EveryAddressStoredOnce`, which a run repeats, for every nest that `Fits`, any sizes, terms, duty
  division, work groups, delay and stalls. Neither says where the counters and bases are: the invariant
  carries along the point `I[k]` at which the loops from the k-th outwards stand and the sum
  `A[k]` of their terms there (`Chain`), and says that each base is the start plus one of the
  `A[k]`, and which of them the address shows (`Stands`). `ChainMoves` is the step: where counter j
  moves on, every `I[k]` up to j goes one up; `OuterTarget` and `InnerTarget` show
  that incr or shift is what the address needs for it. The reference is recursive
  over the loops; since a nest has at most seven, that it is what the
  `A[k]` and sizes say (`ChainSums`, `ChainPoints`) follows from the last loop down (`FromTheLast`).
- **VReadVWrite_proofs**, of the reader. `ReaderIsQueue`: for every memory and
  address set the reader implements the six-place queue of pairs of address and
  word, which only a reset empties and a run repeats. `IInv` is the type, that words held and reads in flight never
  exceed six (`NeverOverflows`) and that the word that arrives is that of the address beside
  it (`ReadsStayAligned`): without the bound the level of the fifo wraps and not even
  the type follows. The mapping takes the words between the two
  pointers (`Ring`, with a lemma for taking from it and one for putting to it),
  then the reads in flight.
- **VReadVWrite_proofs**, of the units. `TilesPassThrough` and `RoomForEveryWord`, for
  halves of any size and all tiles, so for any transfers and stalls: what a
  VWrite sends is what the VRead fetched two runs before. Neither invariant says what is
  on its way, so `StreamIInv` has a part for each stage: `FetchInv` relates the
  words a VRead has seen to those it stored, to the places that wait in the join and to the next place of its
  generator; `ComputeInv` says what each register between the two memories holds
  so many cycles into the run; `SendInv` says what each place in the reader's queue
  is; and `BusInv` takes the invariant of the databus for two units. Over the
  start of a run each becomes the next. The join never refuses a word because the places are
  ahead of the words: a unit that is in a transfer has one waiting.
- **Databus_proofs.** `ChannelsOwned`, `LastIsLast` and `DoneIsQuiet`, for any
  number of units, readers and writers, counts and lengths; a run repeats the second. `ChannelOwned` is
  not inductive: it does not say that a granted channel's unit is in a transfer
  before the first word, nor that a unit without a grant has seen none. `IInv`
  adds `ReadGranted`, `WriteGranted`, `OthersWait` and `LengthsSet`. There is one
  lemma for the units, one for each channel, and one for their composition.
- **DatabusToAXI_proofs** of reads. `LastToldWithTheLastWord`, `WordsComeInOrder` and
  `ReadsDrain`, which a run repeats, for every width of the bus, longest burst, page, set of reads and
  pauses of the memory. The burst side counts bytes and the caller's side words, and
  neither of the properties says how the two are related: `ReadInv` counts bus words. `Got` have come, `pending` are to come
  of the burst under way, and before each burst but the first the controller stands at the word behind
  both with the bytes that are left (`Covered`); the beats of a read are then `BusWords`
  in all (`BurstIs`, a lemma about the widths' arithmetic), and the aligner, which holds one
  word back, gives `symbolsToRead_o` of them, with the last beat or with the flush
  after it.
- **DatabusToAXI_proofs** of writes. `BytesLandInPlace` and `WritesEndWithLastByte`, as
  general. `WriteInv` says where a write stands before a burst (`StandsAt`: how many words went out,
  and that address and remaining length are those of the request behind these) and in
  it (`InBurst`: the strobes are the lanes of the burst's own bytes). `CutIs` and `RestFits`
  are the induction over the bursts: a burst covers the rest of the write, or up to the end of the page,
  or a longest burst, and what is left is again a write that is cut right.
- Both sides assume of the requests what `ReadFits` and `WriteFits` say, which TLC shows to be needed
  (`TransfersAsked`; section 3 on what the instances leave out): `ReadsFit`, `WritesFit`. On buses of 256 and
  512 bits a longest write is a page whatever `AXI_LEN_W` is, so `WritesFit` also asks that
  axlen can say it. `WritesEndWithLastByte` is about writes that touch no more bus words than
  their bytes fill.
- **DatabusToAXI_proofs** of the bursts. `BurstsAreTransfers`: both cutters implement `AxiTransfer`, as
  general. What is left of a transfer is mapped to the bytes behind `NextByte`; the lemmas on
  single bursts of the two parts above (`BurstIs`; `CutIs`, `BeatsAre`, `RestFits`) make
  each burst one that `AxiTransfer` allows.
- **VersatTop_proofs.** Under `MinGap >= 3`, for any units, values and copies:
  `NoStartLost`, `RunsWorkAsTold` and `WaitingMeansDone`. `ControlInv` says where
  the start is in each cycle after its write (`Distance`), what a poll that was
  answered implies (`Learned`) and which start each register of the
  configuration belongs to (`Pipeline`). The assumption is needed: TLC finds the
  counterexamples for one and two cycles. `CopiesSendWhatRegistersSay` needs no distance:
  `CopyInv` says of each call of the copy which of the DMA's registers are written
  (`SetUp`, with the byte each keeps), and of a transfer that the words sent are exactly those
  in front of the DMA's counter (`Transfer`). It says nothing of whether these are the words the
  program wanted, which `VersatTop_copy` denies.
- **Memory_proofs** of pools. `EveryElementGiven`, for any sizes of a page, its header and an
  element, any number of blocks, and elements that come and go while a loop is open.
  The places of all blocks are numbered one block after the other; the recursive definitions
  of the pool are solved on these numbers from the last place down (`ValidFromIs`, `ElementsAre`, `SizeIs`,
  `BlockToUseIs`). `PoolIInv` says that the bits set are the elements that live and each
  block's count is that of its bits, that what lasts was given or lies behind the place of the loop
  (`GivenOrAhead`), and that the loop gave places in order and stands at the last of them
  (`GivenInOrder`). Adding a block moves no number, which is why a loop may go on.
- **Memory_proofs** of the hash map. `MapIsDictionary`: `HashmapSpec` implements
  `Dictionary`, operation by operation, for any set of keys and of data, any hash and any
  positive number of elements. The lookup follows links and the dictionary looks at all pairs, so the
  invariant `TableIInv` says which link is which: `Chained`, that a bucket and each pair link
  to the first pair behind them that is in the bucket (`FirstBehind`); `OncePerKey`. Links that lead up end
  (`LinksEnd`), so the recursions along them have solutions, and the lookup finds the
  pair of a key or there is none (`LookupIs`). Each operation then keeps the invariant and does to the pairs
  what the dictionary does (`InsertIs`, `CheckOrInsertIs`, `ClearIs`, ...).
- **Memory_proofs** of arenas. `DataStaysIntact`, for any number of arenas of any size, of functions and of
  arrays. That live cells hold what was written is not inductive: it does not say
  where the arrays lie. `Discipline` says that a function's results go to arenas its
  callers took and never to its own temporary one, and that an arena of single
  use is taken once; `Marks`, that the marks in an arena grow with the depth;
  `Regions`, that arrays of one arena are apart, and that each lies before the
  mark of every later function that took its arena, though functions called
  later push to the arenas of functions called earlier.
- **Memory_proofs** of the clique. `SearchFindsLargest`, for any number of mappings, any graph,
  bound and time: the clique is the largest up to the bound unless the time is over, and a
  clique even then. The search prunes by the number of candidates and by a table of what earlier turns
  found, and ends a turn at the first success. So a call that fails must have lost nothing: `Right` says of its result
  that no clique it could still have made (`Open`) is larger than the best, or that
  the best has one more mapping than before, or that the time is over. `Known` is
  what the table then says of the mappings behind a turn, and `CliqueInv` keeps it
  from turn to turn. One mapping more is all a turn can add, which is why ending it early loses nothing.
  The recursive function of the calls is solved from the last mapping down
  (`CallIs`).
- **Compiler_proofs** of the buffers. `BuffersKeepGraph`, for every library and every
  well-formed program: whichever edges FixDelays has met, in whatever order,
  taking its buffers out again gives the graph of the module. The property is not
  inductive, since it does not say what the next edge and the next buffer are:
  `IInv` adds that the module itself has no buffer (`BaseInv`), that an edge still
  to be met is an edge of the module and that every unit of the circuit is one of
  the module or a buffer numbered below `buffersInserted` (`EdgesInv`), so that
  the next buffer is new.
- **Compiler_proofs** of the delays. `OrderFollowsData`: on every graph without a loop of
  computing units `CalculateDAGOrder` has each unit once and behind all that feed it, which is what
  its assertions ask for. `DelaysMeet`: on such a graph no edge is delayed by less than nothing,
  the data of two edges from sources or computing units into one unit is taken in the same
  cycle, and a computing unit starts in exactly that cycle (if any of its edges adds no less than nothing;
  a unit that only takes data starts with its first edge, see the findings).
  `DelaysAreNotNegative` carries this to the program: whatever edges FixDelays has
  met, those left have the delays of the module's own graph, so its assertion holds.
  The hypothesis is that the edges are finitely many, their ports
  have latencies and each computing unit has a rank above those that feed it
  (`Ranked`); with it the recursion of `Visit` is solved rank by rank
  (`VisitSolved`), what a visit gives has inputs first (`VisitInOrder`) and stays so when visits are joined
  and all but the first place of each unit dropped (`FlatInOrder`, `FirstsAre`). In
  such an order nothing the walk does later changes what a unit was given
  (`LatenciesSolved`), and from there `DataMeets` goes on, which holds for all latencies. TLC finds that the
  circuits of the runs satisfy the hypothesis.
- **Compiler_proofs** of the trie. `TrieIsDictionary`: for every hash of the
  keys and any number of nodes, `TrieMap` makes the dictionary's steps, provided
  `RemovesInner` is FALSE. No code of the repository removes a key of a trie, so
  callers keep the hypothesis. That the list is the dictionary says nothing of
  where a lookup ends. `Tree` adds that there are a parent and a depth for each
  valid node: it is the child its hash selects there, the parent is the map or a
  valid node with the same bits so far, and a child that is valid has its node
  as parent. A key is once in the tree (`OnceEach`); the valid nodes are linked
  in the order they were made (`Links`) and the last is the tail. So the
  descents, which pass nodes with greater numbers only and therefore end
  (`DescentSolved`), find the node of a key or the place where it belongs
  (`PlaceIs`, `TrieLookupIs`), and the list is all valid nodes (`ListIs`).
  Removing a node with none valid below it and hanging a new one in its place
  keep the tree.

- **Compiler_proofs** of the places. `StatesMeet` and `RegistersAreShared`, which a
  run repeats, for every library and every program, so for modules in modules to any depth and any
  sharing. Neither property says how the list of units hangs together, so the proof has two
  halves. The first is about the list: it is `Nested`, each module is followed by a copy of what
  its declaration says, moved (`EnterNests`; each later pass changes fields
  that this does not speak of, `SameNests`), and its first level is placed as
  the declaration says (`AllPasses`, `Calculated`). The declaration made of it is again
  `Whole`, which is what the next module's list needs: `DeclarationIsWhole`. `UnitsInv` carries
  this along the program: the library is whole, a module uses what is there when
  its turn comes, and the circuit in work is good with the buffers put in so far
  (`GrownIsGood`: the next buffer has a new name). The second
  half is about one list. Sums over the first level go on inside a module from where the
  module starts (`SumInside`), so a state's place and its port are the same number (`StatesMeetIn`).
  Places of wires are given to keys in the order they are met, one to each (`PlacesApart`), and are as
  many as the module has wires (`ConfigsAreKeys`); a wire in a module therefore has the register of
  one wire of the module (`RegisterWithin`), and two wires of one level meet in one register
  exactly if, going outwards, they have one key in each module and end in one wire (`MeetWithin`, `AllMeet`).
  Units of different depth have no common register, since at the level of the
  outer one the other's wire is a module's, and only units of one type share (`DeeperApart`).

The assumptions are the named ASSUMEs of the modules: sizes are positive,
writers are units, a nest has at most seven loops of which only the innermost may be
empty (`Fits`: the generator takes an outer loop of no turns for one of a single turn, and the
eighth counter adds the wrong amount), no word and no pair of address and word is the absent word, a tile has as many words as its
transfers to and from memory together, the bus is as wide and axlen as long as
`iob_versat.py` allows and a page holds whole words, a program's connections are
between its instances, no instance has the name of a buffer, names are given once, instances
that share are of one type and a module comes after those it uses (`ProgramsAssumption`: the front end refuses
the rest or sees to it), and a unit of the library has nothing inside. `VReadVWrite`
gives its reader the place together with what it holds for an address, so that
the reader's memory may be a constant there.

Out of TLAPS'
reach and left to TLC: liveness; the properties of
`UserConfigs` (expressions are recursive); what `Merge` computes with folds over graphs; when data
arrives in the accelerator, which is a recursion over paths through modules within modules and
not so for every program (the findings); the structs, which match the registers only
without padding behind longer members and without partial shares of modules; and memory addresses, whose ranges are powers of two.

## 5. Plan

Done: the databus from the AXI sides to the units' ports, the streaming units
from the databus to the graph and back, their buffers, address generators, run control, configuration, DMA and driver;
the compiler's graph, delay calculation, registration of modules, layout of
configurations, states and memories, merge, address expressions and user
configuration functions; the maps, pool and arenas they are written with.

Next, in this order:

1. Flattening of modules before a merge (`accelerator.cpp:1350-1620`), which
   the merge takes as done.
2. The symbols and trees of the specification's parser
   (`versatSpecificationParser.cpp`).

Not planned: parsers and text emission (functions of text), the units whose
behaviour is their data path, inferred memories, waveform tools, the kernel
module, and hardware that no generated accelerator contains.

## 6. What is not modelled of the parts that are

- The write response of AXI, which the code ignores, and errors on either channel.
- Data widths other than 32 bits in the burst runs; of 256 and 512 bits see the hazards.
- Reset of the AXI sides in the middle of a transfer.
- The processor's access in the cycle of a DMA word, other than that it gets no
  answer; several memory mapped units; profiling, debug and capture registers.
- Soft reset while a start is under way is modelled as the registers see it at
  clock edges; the pulse of the combinational reset itself is not.
- The simulation wrapper (`versat_wrapper.tpl`), which runs the same units under
  Verilator with another control.
- Of the compiler: parsing, the checks of the front end and their messages, other
  than what a well-formed module is; arrays of instances and transformations in a
  specification, which the parser expands; the text that is emitted, other than
  which register, port, member or select line it names; wire widths and stages of
  wires; parameters of units; debug output.
- Of the merge: the strategies other than folding (`merge.cpp:1645-2237` is not
  called), the flattening before it, and the
  explicit pairs a specification may give, which the code ignores.
- Of the containers: `BiMap`, linked lists, the dynamic arena, the pool's access by
  index, the string builder.
- Of the user configurations: state functions, duty for reads, ping-pong, and the order
  of statements that are split between units. `CompileAddressGen2` is the same
  pass for a second front end that nothing calls yet.
