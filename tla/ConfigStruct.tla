----------------------------- MODULE ConfigStruct -----------------------------
(***************************************************************************)
(* The two accounts codeGeneration.cpp gives of the wires of an accelerator *)
(* whose instance info is "info": the ports of the modules it emits, and    *)
(* the structures through which the program reaches them.                   *)
(***************************************************************************)
EXTENDS InstanceInfo

-----------------------------------------------------------------------------
\* Hardware.  A unit of the accelerator has the registers in order; a unit in a module has
\* for each wire the port of the module with the place the module's info gives that wire.
RegisterOf(info) ==
  LET Reg[p \in DOMAIN info] ==
        IF info[p].level = 0 THEN [w \in DOMAIN info[p].wires |-> w - 1]
        ELSE LET place == InDeclaration(info, p).globalWires
             IN  [w \in DOMAIN place |-> IF place[w] = None THEN None
                                         ELSE Reg[Parent(info, p)][place[w] + 1]]
  IN  Reg

\* Delays and states, and the selects of memories, are handed to the ports of a module one
\* unit after the other.
PortsFrom(info, amount) ==
  LET First[p \in DOMAIN info] ==
        SumUpTo(Children(info, Parent(info, p)), amount)[p - 1]
          + (IF info[p].level = 0 THEN 0 ELSE First[Parent(info, p)])
  IN  First
DelayPort(info) == PortsFrom(info, [p \in DOMAIN info |-> info[p].unit.decl.delays])
\* Mutated: states are counted like delays.
StatePort_Delays(info) == PortsFrom(info, [p \in DOMAIN info |-> info[p].unit.decl.delays])
StatePort(info) == PortsFrom(info, [p \in DOMAIN info |-> info[p].unit.decl.states])
SelectPort(info) ==
  PortsFrom(info, [p \in DOMAIN info |->
                     IF info[p].unit.decl.memMap = None THEN 0
                     ELSE IF info[p].unit.decl.composite THEN info[p].memSize ELSE 1])

-----------------------------------------------------------------------------
\* Software.  A structure has an entry for every place at which members start, a union if
\* they are several, and a word of padding for every place no member covers.
Members(info, p) == {q \in Children(info, p) : info[q].globalPos # None}
\* Mutated: the wires are taken to be in a row.
SizeInStruct_Count(entry) == Len(entry.wires)
SizeInStruct(entry) == MaxOf({0} \cup Range(entry.wires)) - entry.localPos + 1
Covers(entry) == entry.localPos .. entry.localPos + SizeInStruct(entry) - 1
EntryPlaces(members) ==
  LET covered == UNION {Covers(m) : m \in members}
      starts  == {m.localPos : m \in members}
  IN  {i \in 0 .. MaxOf({-1} \cup covered) : i \in starts \/ i \notin covered}

\* The words the compiler of the program gives a structure, its entries one after the other.
StructWords(info) ==
  LET Words[p \in DOMAIN info] ==
        IF ~info[p].unit.decl.composite THEN SizeInStruct(info[p])
        ELSE LET members == Members(info, p)
                 entry(i) == MaxOf({1} \cup {Words[q] : q \in {m \in members : info[m].localPos = i}})
             IN  MapThenSumSet(entry, EntryPlaces({info[q] : q \in members}))
  IN  Words

\* Where a member really is.  The structure of the accelerator is the one member of the
\* outermost level.
OffsetOf(info) ==
  LET words == StructWords(info)
      Offset[p \in DOMAIN info] ==
        IF info[p].level = 0 THEN 0
        ELSE LET members == Members(info, Parent(info, p))
                 before == {i \in EntryPlaces({info[q] : q \in members}) : i < info[p].localPos}
                 entry(i) == MaxOf({1} \cup {words[q] : q \in {m \in members : info[m].localPos = i}})
             IN  Offset[Parent(info, p)] + MapThenSumSet(entry, before)
  IN  Offset

\* The configuration without structures, the registers that are some unit's in order.
FlatPlaces(info) ==
  UNION {Range(info[p].globalWires) : p \in {q \in DOMAIN info :
           ~info[q].unit.decl.composite /\ info[q].globalPos # None}}
FlatPlace(info, place) == Cardinality({g \in FlatPlaces(info) : g < place})

\* The delays the program writes when it loads the accelerator.
DelaysWritten(info) ==
  FlattenSeq([i \in DOMAIN Leaves(info) |->
                LET entry == info[Leaves(info)[i]] IN [d \in 1 .. entry.unit.decl.delays |-> entry.base]])

-----------------------------------------------------------------------------
\* The address space of an accelerator (ComputeVersatValues and the masks of main.cpp):
\* where each memory mapped unit is, and the select lines emitted for them.
log2i(value) ==
  IF value <= 1 THEN 0 ELSE CHOOSE n \in 1 .. value : 2 ^ (n - 1) < value /\ value <= 2 ^ n

Mapped(info) == SelectSeq(Leaves(info), LAMBDA p : info[p].unit.decl.memMap # None)

\* A tree of memories: the bits of its addresses, and the address of each unit in it.
Leaf(info, p) == [value |-> info[p].unit.decl.memMap, at |-> [q \in {p} |-> 0]]
\* Mutated: two trees need no bit to tell them apart.
Join_SameBits(left, right) ==
  [value |-> MaxOf({left.value, right.value}),
   at |-> [p \in DOMAIN left.at \cup DOMAIN right.at |->
             IF p \in DOMAIN left.at THEN left.at[p] + 2 ^ left.value ELSE right.at[p]]]

Join(left, right) ==
  [value |-> MaxOf({left.value, right.value}) + 1,
   at |-> [p \in DOMAIN left.at \cup DOMAIN right.at |->
             IF p \in DOMAIN left.at THEN left.at[p] + 2 ^ left.value ELSE right.at[p]]]

\* Descending; trees of one size come in some order.
Sort(trees) == SortSeq(trees, LAMBDA a, b : a.value > b.value)

\* The two smallest trees become one until one is left.
JoinSmallest(trees) ==
  LET n == Len(trees) IN Sort(Append(SubSeq(trees, 1, n - 2), Join(trees[n - 1], trees[n])))
MemoryTree(info) ==
  LET trees == Sort([i \in DOMAIN Mapped(info) |-> Leaf(info, Mapped(info)[i])])
  IN  FoldLeft(LAMBDA t, i : JoinSmallest(t), trees, [i \in 1 .. Len(trees) - 1 |-> i])[1]

VersatRegisters == 5   \* control and those of the DMA
MaxMemoryBit(info, statics) ==
  LET decl    == [p \in DOMAIN info |-> info[p].unit.decl]
      configs == VersatRegisters + TopSum(info, [p \in DOMAIN info |-> decl[p].configs]) + statics
                   + TopSum(info, [p \in DOMAIN info |-> decl[p].delays])
      states  == VersatRegisters + TopSum(info, [p \in DOMAIN info |-> decl[p].states])
  IN  MaxOf({log2i(configs) + 2, log2i(states) + 2, MemoryTree(info).value})

\* The first and the last address of every unit, the bits of an address that may differ
\* between the two, and its place in unit_valids.
BitsNotInMask(first, end) ==
  CHOOSE k \in 0 .. 32 : /\ first \div 2 ^ k = end \div 2 ^ k
                         /\ \A j \in 0 .. k - 1 : first \div 2 ^ j # end \div 2 ^ j
MemoryUnits(info) ==
  LET tree == MemoryTree(info)
      unit(p) == LET first == tree.at[p]
                     end == first + 2 ^ info[p].unit.decl.memMap - 1
                 IN  [at |-> p, memStart |-> first, memEnd |-> end, index |-> info[p].memIndex,
                      open |-> BitsNotInMask(first, end)]
  IN  {unit(p) : p \in Range(Mapped(info))}

\* The bits of unit_valids that an access to a memory mapped address sets.
unit_valids(memories, csr_addr) ==
  LET masked(m) == csr_addr \div 2 ^ m.open = m.memStart \div 2 ^ m.open
  IN  IF Cardinality(memories) = 1 THEN {0} ELSE {m.index : m \in {n \in memories : masked(n)}}
=============================================================================
