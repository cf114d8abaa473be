-------------------------- MODULE CompiledAccelerator --------------------------
(***************************************************************************)
(* What must be true of the accelerator RegisterSubUnit ends with: that the *)
(* hardware it describes and the program that drives it mean the same.      *)
(***************************************************************************)
EXTENDS RegisterSubUnit, ConfigStruct

-----------------------------------------------------------------------------
Finished == stage = "done"

\* What the units of an accelerator do with the delays they are given: a reference that knows
\* nothing of the delays of modules.  Only the units of the library count.  A unit with a delay
\* starts on its own, so many cycles after the run; any other gives its data so many cycles
\* after it took it.

\* The circuit inside the composite at a place of the info, at 0 that of the accelerator; and
\* the place of its unit n.
CircuitAt(at) == IF at = 0 THEN circuit ELSE info[at].unit.decl.circuit
PlaceIn(at, n) == CHOOSE p \in Children(info, at) : info[p].name = n

\* The unit that drives an input, and how much later than it gives its data the edges on the
\* way say that data is meant to be taken.
Drivers ==
  LET Driver[at \in 0 .. Len(info), in \in UNION {{e.in : e \in CircuitAt(p).edges} : p \in 0 .. Len(info)}] ==
        LET edge == CHOOSE e \in CircuitAt(at).edges : e.in = in
            unit == CircuitAt(at).unit[edge.out.inst]
            from == IF unit.decl.name = "CircuitInput"
                    THEN Driver[Parent(info, at), Port(info[at].name, unit.special)]
                    ELSE IF unit.decl.composite
                    THEN Driver[PlaceIn(at, edge.out.inst), Port(OutName, edge.out.port)]
                    ELSE [at |-> PlaceIn(at, edge.out.inst), port |-> edge.out.port, later |-> 0]
        IN  [from EXCEPT !.later = @ + edge.delay]
  IN  Driver

\* The units of the library in the accelerator by their place, with the delay the program
\* writes to the register theirs is connected to, and what drives their inputs.
DelayedUnits ==
  LET driver   == Drivers
      written  == DelaysWritten(info)
      port     == DelayPort(info)
      inputs(p) == {e.in.port : e \in Into(CircuitAt(Parent(info, p)), info[p].name)}
  IN  [p \in {q \in Range(Leaves(info)) : info[q].unit.decl.name \notin {"CircuitInput", "CircuitOutput"}} |->
         [unit |-> info[p].unit,
          delay |-> IF info[p].unit.decl.delays = 0 THEN 0 ELSE written[port[p] + 1],
          inputs |-> [i \in inputs(p) |-> driver[Parent(info, p), Port(info[p].name, i)]]]]

\* From the start of the unit that drives an input to the cycle the input is for.
Transit(units, p, i) ==
  LET from == units[p].inputs[i]
      unit == units[from.at].unit
  IN  unit.decl.outputLatencies[from.port] + unit.special + from.later - units[p].unit.decl.inputDelays[i]

\* The cycle in which each unit starts: with the delay the program wrote for it, or with
\* the last of its data.
StartTimes(units) ==
  LET Start[p \in DOMAIN units] ==
        IF units[p].unit.decl.delays > 0 THEN units[p].delay
        ELSE MaxOf({0} \cup {Start[units[p].inputs[i].at] + Transit(units, p, i) : i \in DOMAIN units[p].inputs})
  IN  Start

\* The cycle for which an input has its data, counted as the unit counts it.
Arrival(units, start, p, i) == start[units[p].inputs[i].at] + Transit(units, p, i)

InputsTogether(units) ==
  LET start == StartTimes(units)
  IN  \A p \in DOMAIN units : \A i, j \in DOMAIN units[p].inputs :
        Arrival(units, start, p, i) = Arrival(units, start, p, j)

StartsWithData(units) ==
  LET start == StartTimes(units)
  IN  \A p \in DOMAIN units : \A i \in DOMAIN units[p].inputs :
        units[p].unit.decl.delays > 0 => Arrival(units, start, p, i) = start[p]

\* All the inputs of a unit carry valid data in the same cycle, and one with a delay starts
\* in that cycle, however the units are nested and whatever was shared (delayCalculation.cpp).
DataArrivesTogether == Finished => InputsTogether(DelayedUnits) /\ StartsWithData(DelayedUnits)

\* The weaker promise that of a circuit at least one of the two is kept (document/tsrc/data_validity.tex,
\* document/tsrc/if.tex).
SomeDataArrivesTogether == Finished => InputsTogether(DelayedUnits) \/ StartsWithData(DelayedUnits)

\* When every edge has its buffer the delays calculated anew are all zero, except into the output.
NothingLeftToDelay ==
  stage = "fix" /\ DOMAIN edgesDelay = {} =>
    \A e \in circuit.edges : e.in.inst = OutName \/ CalculateDelay(circuit).edge[e] = 0

-----------------------------------------------------------------------------
Configured == {p \in DOMAIN info : ~info[p].unit.decl.composite /\ ~info[p].globallyStatic}

\* The structures the program writes through, and the flat one of the simulation, have every
\* wire where the hardware has its register.
StructsMatchTheRegisters ==
  Finished =>
    LET reg == RegisterOf(info) IN
    \A p \in Configured : \A w \in 1 .. info[p].unit.decl.configs :
      /\ OffsetOf(info)[p] + info[p].wires[w] - info[p].localPos = reg[p][w]
      /\ FlatPlace(info, info[p].globalWires[w]) = reg[p][w]

\* What a wire is shared under: from the outside in, the group or the name of each unit.  A
\* module's wire has a name in the module (versat.cpp:280-296), so it can be left out of a share.
SharedAs ==
  LET Shared[p \in DOMAIN info] ==
        LET unit == info[p].unit
            key(w) == IF unit.share = None \/ w \in unit.unshared THEN info[p].name ELSE GroupName(unit.share)
            outside(w) == InDeclaration(info, p).globalWires[w] + 1
        IN  [w \in 1 .. unit.decl.configs |->
               IF info[p].level = 0 THEN <<key(w)>> ELSE Append(Shared[Parent(info, p)][outside(w)], key(w))]
  IN  Shared

\* Two wires have one register exactly if the specification shares them.
OneRegisterPerSharedWire ==
  Finished =>
    LET reg    == RegisterOf(info)
        shared == SharedAs
    IN  \A p, q \in Configured :
          \A v \in 1 .. info[p].unit.decl.configs : \A w \in 1 .. info[q].unit.decl.configs :
            reg[p][v] = reg[q][w] <=> shared[p][v] = shared[q][w] /\ v = w

\* A state is read where the hardware drives it, and those of a module start where its ports do.
StatesReadWhereDriven ==
  Finished => \A p \in DOMAIN info :
                info[p].unit.decl.states > 0 => info[p].statePos = StatePort(info)[p]

\* An access to an address of a unit selects that unit, over the select lines of all the modules
\* around it, and no other, at its own offset; the units lie below the configuration's bit.
AccessReachesItsMemory ==
  Finished =>
    LET memories == MemoryUnits(info)
        select   == SelectPort(info)
    IN  \A m \in memories :
          /\ m.memEnd < 2 ^ MaxMemoryBit(info, 0)
          /\ \A csr_addr \in m.memStart .. m.memEnd :
               /\ unit_valids(memories, csr_addr) = {select[m.at]}
               /\ csr_addr % 2 ^ info[m.at].unit.decl.memMap = csr_addr - m.memStart
=============================================================================
