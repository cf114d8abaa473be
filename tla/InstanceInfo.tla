----------------------------- MODULE InstanceInfo -----------------------------
(***************************************************************************)
(* CalculateAcceleratorInfo (configurations.cpp): one sequence with every    *)
(* unit of an accelerator, units of units included, each right behind the    *)
(* composite it is in.  What lies inside a composite is a copy of what its   *)
(* declaration says, moved by where the composite is: its wires, delays,     *)
(* states and memories are given places once, in the declaration, and again  *)
(* in every accelerator that contains it.                                    *)
(***************************************************************************)
EXTENDS DelayCalculation

Zeros(n) == [i \in 1 .. n |-> 0]
Nones(n) == [i \in 1 .. n |-> None]

\* "path" is the full name, "outer" where the composite around the unit is, 0 if there is
\* none, and "parent" the type the unit is in.
SetBaseInfo(a, n) ==
  LET decl == a.unit[n].decl
  IN  [name |-> n, path |-> <<n>>, outer |-> 0, parent |-> None, unit |-> a.unit[n], level |-> 0,
       globallyStatic |-> a.unit[n].static,
       localPos |-> None, wires |-> Zeros(decl.configs),
       globalPos |-> None, globalWires |-> Zeros(decl.configs),
       statePos |-> None, memIndex |-> 0, memSize |-> decl.memSize, base |-> 0, port |-> <<>>]

Inner(entry, outer) == [entry EXCEPT !.level = @ + 1, !.outer = @ + outer, !.globalWires = Zeros(Len(@))]

GenerateInitialInstanceInfo(a) ==
  LET Entered[i \in 0 .. Len(a.allocated)] ==
        LET before == Entered[i - 1]
            n      == a.allocated[i]
            inside == a.unit[n].decl.info
        IN  IF i = 0 THEN <<>>
            ELSE before \o <<SetBaseInfo(a, n)>> \o [k \in DOMAIN inside |-> Inner(inside[k], Len(before) + 1)]
  IN  Entered[Len(a.allocated)]

\* The unit at p, below the first level, in the declaration of the composite it is in.
Parent(info, p) == info[p].outer
InDeclaration(info, p) == info[Parent(info, p)].unit.decl.info[p - Parent(info, p)]
Leaves(info) == SelectSeq([p \in DOMAIN info |-> p], LAMBDA p : ~info[p].unit.decl.composite)
Children(info, p) == {q \in DOMAIN info : Parent(info, q) = p}

\* What some of the units have, added up from the first unit to each.
SumUpTo(units, amount) ==
  LET Sum[p \in 0 .. Len(amount)] ==
        IF p = 0 THEN 0 ELSE Sum[p - 1] + (IF p \in units THEN amount[p] ELSE 0)
  IN  Sum
TopSum(info, amount) == SumUpTo(Children(info, 0), amount)[Len(info)]

GroupName(share) == <<"share", share>>

\* Mutated: a partial share is taken for a share of all wires.
WireKeys_AllShared(entry) ==
  [w \in 1 .. entry.unit.decl.configs |->
     IF entry.unit.share = None THEN <<entry.name, w>> ELSE <<GroupName(entry.unit.share), w>>]

\* The wires of a unit of the first level by what they have to themselves: a group has one
\* of each shared wire.  Wires are given places in the order in which they are met.
WireKeys(entry) ==
  [w \in 1 .. entry.unit.decl.configs |->
     IF entry.unit.share = None \/ w \in entry.unit.unshared THEN <<entry.name, w>>
     ELSE <<GroupName(entry.unit.share), w>>]

\* A wire is met unit by unit.  The place of a key is the number of keys met before it.
MetWires(info) ==
  UNION {{p} \X (1 .. info[p].unit.decl.configs) : p \in {q \in Children(info, 0) : ~info[q].unit.static}}
KeyOf(info, wire) == WireKeys(info[wire[1]])[wire[2]]
MetBefore(x, y) == x[1] < y[1] \/ (x[1] = y[1] /\ x[2] < y[2])
PlaceOf(info, key) ==
  LET its == {x \in MetWires(info) : KeyOf(info, x) = key}
  IN  Cardinality({KeyOf(info, x) : x \in {y \in MetWires(info) : \A z \in its : MetBefore(y, z)}})

\* The places of a unit of the first level: of each wire, and of the unit itself, that of
\* its first wire or of the first wire of the first of its group.
TopWires(info, p) ==
  LET key == WireKeys(info[p])
  IN  IF info[p].unit.static THEN Nones(Len(key)) ELSE [w \in DOMAIN key |-> PlaceOf(info, key[w])]

TopPos(info, p) ==
  LET group == {q \in DOMAIN info : info[q].level = 0 /\ info[q].unit.share = info[p].unit.share
                                    /\ ~info[q].unit.static /\ info[q].unit.decl.configs > 0}
      first == IF info[p].unit.share = None THEN p ELSE MinOf(group)
  IN  IF info[p].unit.static \/ info[p].unit.decl.configs = 0 THEN None ELSE TopWires(info, first)[1]

\* The places of the wires in the whole accelerator, from the first level down.  Inside a
\* composite without a place, a static one, the entry keeps what was copied.
PlaceConfigs(info) ==
  LET Pos[p \in DOMAIN info] ==
        IF info[p].level = 0 THEN TopPos(info, p)
        ELSE IF Pos[Parent(info, p)] = None \/ InDeclaration(info, p).localPos = None THEN info[p].globalPos
        ELSE Pos[Parent(info, p)] + InDeclaration(info, p).localPos
      Wires(p) ==
        LET above == Pos[Parent(info, p)]
            decl  == InDeclaration(info, p).wires
        IN  IF info[p].level = 0 THEN TopWires(info, p)
            ELSE IF above = None THEN info[p].globalWires
            ELSE [w \in DOMAIN info[p].globalWires |-> IF decl[w] = None THEN None ELSE above + decl[w]]
  IN  [p \in DOMAIN info |->
         [info[p] EXCEPT !.globalPos = Pos[p], !.globalWires = Wires(p),
                         !.localPos = IF info[p].level = 0 THEN Pos[p] ELSE @,
                         !.wires = IF info[p].level = 0 THEN Wires(p) ELSE @]]

\* States have the places of the first level one after the other and inside a composite
\* those of its declaration, moved; a unit without a state has none.
PlaceStates(info) ==
  LET states == [p \in DOMAIN info |-> info[p].unit.decl.states]
      Start[p \in DOMAIN info] ==
        IF info[p].level = 0 THEN SumUpTo(Children(info, 0), states)[p - 1]
        ELSE IF InDeclaration(info, p).statePos = None THEN None
        ELSE Start[Parent(info, p)] + InDeclaration(info, p).statePos
  IN  [p \in DOMAIN info |-> [info[p] EXCEPT !.statePos = IF states[p] = 0 THEN None ELSE Start[p]]]

SizesOf(size, units) == MapThenSumSet(LAMBDA q : size[q], units)

\* Memory mapped units are numbered as they are met; a composite has those inside it.
PlaceMemories(info) ==
  LET mapped == [p \in DOMAIN info |-> IF info[p].unit.decl.memMap # None THEN 1 ELSE 0]
      Size[p \in DOMAIN info] ==
        IF ~info[p].unit.decl.composite THEN IF mapped[p] = 1 THEN 1 ELSE info[p].memSize
        ELSE SizesOf(Size, Children(info, p))
  IN  [p \in DOMAIN info |->
         [info[p] EXCEPT !.memIndex = IF info[p].unit.decl.composite \/ mapped[p] = 0 THEN @
                                      ELSE SumUpTo(Range(Leaves(info)), mapped)[p - 1],
                         !.memSize = Size[p]]]

\* The delays of the first level are calculated; further in they add up.
SetDelays(info, delays) ==
  LET Base[p \in DOMAIN info] ==
        IF info[p].level = 0 THEN delays.node[info[p].name]
        ELSE Base[Parent(info, p)] + InDeclaration(info, p).base
  IN  [p \in DOMAIN info |-> [info[p] EXCEPT !.base = Base[p],
         !.port = IF info[p].level > 0 THEN @
                  ELSE [i \in {port.port : port \in {q \in DOMAIN delays.port : q.inst = info[p].name}} |->
                          delays.port[Port(info[p].name, i)]]]]

\* Full names, the type a unit is in, and whether a static unit is around it.
NameUnits(info, typeName) ==
  LET Path[p \in DOMAIN info] ==
        IF info[p].level = 0 THEN info[p].path ELSE Append(Path[Parent(info, p)], info[p].name)
      Static[p \in DOMAIN info] ==
        info[p].globallyStatic \/ (info[p].level > 0 /\ Static[Parent(info, p)])
  IN  [p \in DOMAIN info |->
         [info[p] EXCEPT !.path = Path[p], !.globallyStatic = Static[p],
                         !.parent = IF info[p].level = 0 THEN typeName ELSE info[Parent(info, p)].unit.decl.name]]

CalculateAcceleratorInfo(a, typeName) ==
  LET named == NameUnits(GenerateInitialInstanceInfo(a), typeName)
  IN  SetDelays(PlaceMemories(PlaceStates(PlaceConfigs(named))), CalculateDelay(a))

-----------------------------------------------------------------------------
\* What a composite tells the circuits that use it.
ExtractInputDelays(info) ==
  LET inputs == {p \in DOMAIN info : info[p].level = 0 /\ info[p].unit.decl.name = "CircuitInput"}
      ports  == {info[p].unit.special : p \in inputs}
  IN  [i \in 1 .. (IF ports = {} THEN 0 ELSE MaxOf(ports)) |->
         IF i \in ports THEN info[CHOOSE p \in inputs : info[p].unit.special = i].base ELSE 0]

ExtractOutputLatencies(info) ==
  LET outputs == {p \in DOMAIN info : info[p].level = 0 /\ info[p].unit.decl.name = "CircuitOutput"}
      port == info[CHOOSE p \in outputs : TRUE].port
  IN  IF outputs = {} THEN <<>>
      ELSE [i \in 1 .. MaxOf({0} \cup DOMAIN port) |-> IF i \in DOMAIN port THEN port[i] ELSE 0]

\* As many wires as places are taken on the first level.
ConfigsOf(info) ==
  Cardinality((UNION {{info[p].globalWires[w] : w \in DOMAIN info[p].globalWires} :
                      p \in {q \in DOMAIN info : info[q].level = 0}}) \ {None})

MemMapOf(info) ==
  MaxOf({None} \cup {info[p].unit.decl.memMap : p \in {q \in DOMAIN info : info[q].level = 0}})

\* A module is a source of its own only if a unit in it both takes data and gives it when it likes.
DelayTypeIsSource(a) ==
  \E n \in DOMAIN a.unit : a.type[n] = "SOURCE_AND_SINK" /\ a.unit[n].decl.isSource

DeclarationOf(name, a) ==
  LET info == CalculateAcceleratorInfo(a, name)
      decl == [p \in DOMAIN info |-> info[p].unit.decl]
  IN  [name |-> name, inputDelays |-> ExtractInputDelays(info), outputLatencies |-> ExtractOutputLatencies(info),
       isSource |-> DelayTypeIsSource(a),
       delays |-> TopSum(info, [p \in DOMAIN info |-> decl[p].delays]), configs |-> ConfigsOf(info),
       states |-> TopSum(info, [p \in DOMAIN info |-> decl[p].states]), memMap |-> MemMapOf(info),
       memSize |-> TopSum(info, [p \in DOMAIN info |-> info[p].memSize]),
       composite |-> TRUE, info |-> info, circuit |-> a]
=============================================================================
