---------------------------- MODULE Compiler_proofs ----------------------------
(***************************************************************************)
(* Passes of the compiler and the tables all of them keep.                  *)
(*                                                                         *)
(* FixDelays puts its buffers into the middle of edges and changes nothing  *)
(* else of a module's graph, for every library and every program; and       *)
(* before it, CalculateDelay makes the data of a unit meet, whatever the    *)
(* latencies of its units, on every graph in which no computing units feed  *)
(* each other in a loop: the units are put in an order in which each comes  *)
(* after its inputs, latencies are sent along it, and from these come the   *)
(* delays of edges and sources.                                             *)
(*                                                                         *)
(* A trie map is the dictionary, whatever the hash of its keys.  Its nodes  *)
(* are a tree and a list at once.  The tree: a valid node has a parent, at  *)
(* a depth, and hangs where the bits of its key's hash select at that       *)
(* depth; whatever is valid below the map or a valid node is its child.     *)
(* Nodes that were removed stay below their parents until a node is put in  *)
(* their place, so a lookup may go on through one; it ends since a node is  *)
(* made after the nodes above it.  The list: from the head, by the links,   *)
(* the valid nodes come in the order they were made, whichever were         *)
(* removed, and the last of them is the tail.                               *)
(*                                                                         *)
(* The instance info: the list of the units of an accelerator, each module  *)
(* followed by the units in it.  The places handed out on one level add up, *)
(* so a place below a module is the module's and an offset, and the numbers *)
(* a module's declaration gives are those its circuit asks for.  Hence a    *)
(* unit's states are read where its ports drive them, and two wires have    *)
(* one configuration register exactly if the specification shares them, at  *)
(* every depth of modules within modules.                                   *)
(***************************************************************************)
EXTENDS CompiledAccelerator, TrieMap, SequenceTheorems, FiniteSetTheorems, WellFoundedInduction, TLAPS

-----------------------------------------------------------------------------
(* Graphs and their buffers.                                                *)

Fields == {"allocated", "unit", "edges", "type"}

\* What each operation on a graph does to its edges; none loses a field.
LEMMA CreateKeepsEdges ==
  ASSUME NEW a, DOMAIN a = Fields, NEW name, NEW unit
  PROVE  /\ DOMAIN CreateFUInstance(a, name, unit) = Fields
         /\ CreateFUInstance(a, name, unit).edges = a.edges
BY DEF CreateFUInstance, Fields

LEMMA ConnectAddsEdge ==
  ASSUME NEW a, DOMAIN a = Fields, NEW out, NEW in, NEW delay
  PROVE  /\ DOMAIN ConnectUnits(a, out, in, delay) = Fields
         /\ ConnectUnits(a, out, in, delay).edges = a.edges \cup {Edge(out, in, delay)}
BY DEF ConnectUnits, Fields

LEMMA RemoveDropsPair ==
  ASSUME NEW a, DOMAIN a = Fields, NEW out, NEW in
  PROVE  /\ DOMAIN RemoveConnection(a, out, in) = Fields
         /\ RemoveConnection(a, out, in).edges = {e \in a.edges : e.out # out \/ e.in # in}
BY DEF RemoveConnection, Fields

LEMMA InsertSplitsEdge ==
  ASSUME NEW a, DOMAIN a = Fields, NEW before, NEW after, NEW newOutput, NEW newInput, NEW delay
  PROVE  /\ DOMAIN InsertUnit(a, before, after, newOutput, newInput, delay) = Fields
         /\ InsertUnit(a, before, after, newOutput, newInput, delay).edges =
              {e \in a.edges : e.out # before \/ e.in # after}
                \cup {Edge(newOutput, after, 0), Edge(before, newInput, delay)}
<1> DEFINE removed == RemoveConnection(a, before, after)
           joined == ConnectUnits(removed, newOutput, after, 0)
<1>1. DOMAIN removed = Fields /\ removed.edges = {e \in a.edges : e.out # before \/ e.in # after}
  BY RemoveDropsPair
<1>2. DOMAIN joined = Fields /\ joined.edges = removed.edges \cup {Edge(newOutput, after, 0)}
  BY <1>1, ConnectAddsEdge
<1> HIDE DEF removed, joined
<1>3. /\ DOMAIN ConnectUnits(joined, before, newInput, delay) = Fields
      /\ ConnectUnits(joined, before, newInput, delay).edges = joined.edges \cup {Edge(before, newInput, delay)}
  BY <1>2, ConnectAddsEdge
<1>4. QED BY <1>1, <1>2, <1>3 DEF InsertUnit, removed, joined

-----------------------------------------------------------------------------
\* A place of the graph is a port of the module's own units or of a buffer inserted so far.
Known(n) == n \in DOMAIN baseCircuit.unit \/ \E k \in 0 .. buffersInserted - 1 : n = BufferName(k)

\* BuffersKeepTheGraph alone is not inductive: nothing in it says that the next buffer's name
\* is new, that the edges still to be met are between units, or that the circuit is a graph.
TodoInv == todo \in Seq(Modules) \ {<<>>}
BaseInv ==
  /\ \A n \in DOMAIN baseCircuit.unit : n[1] # "fixedBuffer"
  /\ \A e \in baseCircuit.edges : {e.out.inst, e.in.inst} \subseteq DOMAIN baseCircuit.unit
EdgesInv ==
  /\ DOMAIN edgesDelay \subseteq baseCircuit.edges
  /\ DOMAIN circuit = Fields
  /\ \A e \in circuit.edges : Known(e.out.inst) /\ Known(e.in.inst)
IInv ==
  /\ TodoInv
  /\ buffersInserted \in Nat
  /\ stage = "fix" => BaseInv /\ EdgesInv /\ Contracted = Ends(baseCircuit.edges)

LEMMA InitInv == Init => IInv
BY ProgramsAssumption DEF Init, IInv, TodoInv

\* The circuit of a module has its connections, between its instances.
LEMMA ModuleGraph ==
  ASSUME NEW def, NEW types
  PROVE  /\ DOMAIN InstantiateModule(def, types) = Fields
         /\ InstantiateModule(def, types).edges = def.connections
         /\ DOMAIN InstantiateModule(def, types).unit = Range(NamesOf(def))
<1> DEFINE raw == [allocated |-> NamesOf(def), unit |-> [n \in Range(NamesOf(def)) |-> UnitNamed(def, n, types)],
                   edges |-> def.connections, type |-> <<>>]
<1>1. DOMAIN raw = Fields BY DEF Fields
<1>2. raw.edges = def.connections /\ DOMAIN raw.unit = Range(NamesOf(def)) OBVIOUS
<1>3. InstantiateModule(def, types) = CopyAccelerator(raw) BY DEF InstantiateModule, MakeCircuit
<1> HIDE DEF raw
<1>4. /\ DOMAIN CopyAccelerator(raw) = Fields
      /\ CopyAccelerator(raw).edges = raw.edges
      /\ CopyAccelerator(raw).unit = raw.unit
  BY <1>1 DEF CopyAccelerator, Fields
<1>5. QED BY <1>2, <1>3, <1>4

LEMMA InstantiateInv ==
  ASSUME IInv, Instantiate
  PROVE  IInv'
<1> DEFINE def == Head(todo)
<1>1. def \in Modules /\ todo' = todo BY DEF IInv, TodoInv, Instantiate
<1>2. WellFormed(def) BY <1>1, ProgramsAssumption
<1>3. /\ DOMAIN circuit' = Fields
      /\ circuit'.edges = def.connections
      /\ DOMAIN circuit'.unit = Range(NamesOf(def))
  BY ModuleGraph DEF Instantiate
<1> HIDE DEF def
<1>4. baseCircuit'.edges = circuit'.edges /\ baseCircuit'.unit = circuit'.unit
  BY <1>3 DEF Instantiate, CopyAccelerator, Fields
<1>5. DOMAIN edgesDelay' = circuit'.edges BY DEF Instantiate, CalculateDelay, Balance
<1>6. BaseInv' BY <1>2, <1>3, <1>4 DEF BaseInv, WellFormed
<1>7. EdgesInv' BY <1>2, <1>3, <1>4, <1>5 DEF EdgesInv, Known, WellFormed
<1>8. Contracted' = Ends(baseCircuit'.edges)
  <2>1. \A e \in circuit'.edges : ~IsBuffer(e.out.inst)' /\ ~IsBuffer(e.in.inst)'
    BY <1>2, <1>3, <1>4 DEF WellFormed, IsBuffer
  <2>2. ThroughBuffers' = {} BY <2>1 DEF ThroughBuffers
  <2>3. \A pair \in Ends(circuit'.edges) : ~IsBuffer(pair[1].inst)' /\ ~IsBuffer(pair[2].inst)'
    BY <2>1 DEF Ends
  <2>4. Contracted' = Ends(circuit'.edges) BY <2>2, <2>3 DEF Contracted
  <2>5. QED BY <2>4, <1>4
<1>9. QED BY <1>1, <1>6, <1>7, <1>8 DEF IInv, TodoInv, Instantiate

-----------------------------------------------------------------------------
\* The heart of it: an edge between two units, replaced by one into a buffer of a new name and
\* one out of it, is what the buffer contracts to, and nothing else changes.
LEMMA BufferInv ==
  ASSUME IInv, stage = "fix", NEW edge \in DOMAIN edgesDelay, BufferEdge(edge),
         UNCHANGED baseCircuit
  PROVE  /\ buffersInserted' \in Nat
         /\ DOMAIN circuit' = Fields
         /\ \A e \in circuit'.edges : Known(e.out.inst)' /\ Known(e.in.inst)'
         /\ Contracted' = Ends(baseCircuit'.edges)
<1> DEFINE n == BufferName(buffersInserted)
           kept == {e \in circuit.edges : e.out # edge.out \/ e.in # edge.in}
           first == Edge(edge.out, Port(n, 1), 0)
           second == Edge(Port(n, 1), edge.in, 0)
<1>1. BaseInv /\ EdgesInv /\ Contracted = Ends(baseCircuit.edges) /\ buffersInserted \in Nat
  BY DEF IInv
<1>2. /\ edge \in baseCircuit.edges
      /\ edge.out.inst \in DOMAIN baseCircuit.unit /\ edge.in.inst \in DOMAIN baseCircuit.unit
  BY <1>1 DEF EdgesInv, BaseInv
<1>3. /\ DOMAIN circuit' = Fields
      /\ circuit'.edges = kept \cup {first, second}
  <2> DEFINE created == CreateFUInstance(circuit, n, BufferOf(edgesDelay[edge]))
  <2>1. DOMAIN created = Fields /\ created.edges = circuit.edges
    BY <1>1, CreateKeepsEdges DEF EdgesInv
  <2>2. circuit' = InsertUnit(created, edge.out, edge.in, Port(n, 1), Port(n, 1), 0) BY DEF BufferEdge
  <2> HIDE DEF created, n
  <2>3. /\ DOMAIN circuit' = Fields
        /\ circuit'.edges = {e \in created.edges : e.out # edge.out \/ e.in # edge.in}
                              \cup {Edge(Port(n, 1), edge.in, 0), Edge(edge.out, Port(n, 1), 0)}
    BY <2>1, <2>2, InsertSplitsEdge
  <2>4. QED BY <2>1, <2>3
<1>4. buffersInserted' = buffersInserted + 1 BY DEF BufferEdge
<1>5. n \notin DOMAIN baseCircuit.unit BY <1>1 DEF BaseInv, BufferName
<1>6. ~\E k \in 0 .. buffersInserted - 1 : n = BufferName(k) BY <1>1 DEF BufferName
<1>7. ~Known(n) BY <1>5, <1>6 DEF Known
<1>8. \A m : m = n => Known(m)' BY <1>1, <1>4 DEF Known
<1>9. \A m : Known(m) => Known(m)' BY <1>1, <1>4 DEF Known
<1> HIDE DEF n
<1>10. /\ first.out = edge.out /\ first.in.inst = n /\ first.in = Port(n, 1)
       /\ second.out = Port(n, 1) /\ second.out.inst = n /\ second.in = edge.in
  BY DEF Edge, Port
<1>11. \A e \in kept : e \in circuit.edges /\ e.out.inst # n /\ e.in.inst # n
  BY <1>1, <1>7 DEF EdgesInv
<1>12. \A e \in circuit'.edges : Known(e.out.inst)' /\ Known(e.in.inst)'
  <2>1. Known(edge.out.inst)' /\ Known(edge.in.inst)' BY <1>2, <1>9 DEF Known
  <2>2. \A e \in kept : Known(e.out.inst)' /\ Known(e.in.inst)' BY <1>1, <1>9 DEF EdgesInv
  <2>3. QED BY <2>1, <2>2, <1>2, <1>3, <1>8, <1>10
<1>13. \A m : IsBuffer(m)' <=> IsBuffer(m) BY DEF IsBuffer
<1>14. ~IsBuffer(edge.out.inst) /\ ~IsBuffer(edge.in.inst) /\ IsBuffer(n) BY <1>2, <1>5 DEF IsBuffer
<1> HIDE DEF kept, first, second
<1>15. ThroughBuffers' = ThroughBuffers \cup {<<first, second>>}
  <2>1. ASSUME NEW e \in circuit'.edges, NEW f \in circuit'.edges, e.in.inst = f.out.inst, IsBuffer(e.in.inst)
        PROVE  <<e, f>> \in ThroughBuffers \cup {<<first, second>>}
    <3>1. CASE e = first BY <3>1, <2>1, <1>3, <1>10, <1>11, <1>14
    <3>2. CASE e = second BY <3>2, <2>1, <1>10, <1>14
    <3>3. CASE e \in kept /\ f = first BY <3>3, <2>1, <1>10, <1>14
    <3>4. CASE e \in kept /\ f = second BY <3>4, <2>1, <1>10, <1>11
    <3>5. CASE e \in kept /\ f \in kept BY <3>5, <2>1, <1>11 DEF ThroughBuffers
    <3>6. QED BY <1>3, <3>1, <3>2, <3>3, <3>4, <3>5
  <2>2. ASSUME NEW pair \in ThroughBuffers
        PROVE  pair[1] \in kept /\ pair[2] \in kept
    BY <1>14 DEF ThroughBuffers, kept
  <2>3. ThroughBuffers \subseteq ThroughBuffers' BY <2>2, <1>3, <1>13 DEF ThroughBuffers
  <2>4. <<first, second>> \in ThroughBuffers' BY <1>3, <1>10, <1>13, <1>14 DEF ThroughBuffers
  <2>5. ThroughBuffers' \subseteq ThroughBuffers \cup {<<first, second>>}
    BY <2>1, <1>13 DEF ThroughBuffers
  <2>6. QED BY <2>3, <2>4, <2>5
<1>16. Contracted' = Contracted
  <2> DEFINE Direct(edges) == {pair \in Ends(edges) : ~IsBuffer(pair[1].inst) /\ ~IsBuffer(pair[2].inst)}
             Through(pairs) == {<<pair[1].out, pair[2].in>> : pair \in pairs}
             joined == <<edge.out, edge.in>>
  <2>1. Contracted = Direct(circuit.edges) \cup Through(ThroughBuffers) BY DEF Contracted
  <2>2. Contracted' = Direct(circuit'.edges) \cup Through(ThroughBuffers') BY <1>13 DEF Contracted
  <2>3. Through(ThroughBuffers') = Through(ThroughBuffers) \cup {joined}
    <3>1. \A S, pair : Through(S \cup {pair}) = Through(S) \cup {<<pair[1].out, pair[2].in>>} BY Zenon
    <3>2. Through(ThroughBuffers \cup {<<first, second>>}) = Through(ThroughBuffers) \cup {<<first.out, second.in>>}
      BY <3>1
    <3>3. QED BY <3>2, <1>10, <1>15
  <2>4. joined \in Contracted BY <1>1, <1>2 DEF Ends
  <2>5. Direct(circuit'.edges) \subseteq Direct(circuit.edges) BY <1>3, <1>10, <1>11, <1>14 DEF Ends
  <2>6. Direct(circuit.edges) \subseteq Direct(circuit'.edges) \cup {joined} BY <1>3 DEF Ends, kept
  <2>7. QED BY <2>1, <2>2, <2>3, <2>4, <2>5, <2>6
<1>17. QED BY <1>1, <1>3, <1>4, <1>12, <1>16

LEMMA FixDelaysInv ==
  ASSUME IInv, FixDelays
  PROVE  IInv'
<1>1. PICK edge \in DOMAIN edgesDelay :
        /\ edgesDelay' = [e \in DOMAIN edgesDelay \ {edge} |-> edgesDelay[e]]
        /\ SkipEdge(edge) \/ BufferEdge(edge)
  BY DEF FixDelays
<1>2. /\ stage = "fix" /\ stage' = "fix" /\ UNCHANGED <<todo, baseCircuit>>
      /\ BaseInv /\ EdgesInv /\ TodoInv /\ buffersInserted \in Nat /\ Contracted = Ends(baseCircuit.edges)
  BY DEF FixDelays, IInv
<1>3. DOMAIN edgesDelay' \subseteq baseCircuit'.edges BY <1>1, <1>2 DEF EdgesInv
<1>4. /\ buffersInserted' \in Nat
      /\ DOMAIN circuit' = Fields
      /\ \A e \in circuit'.edges : Known(e.out.inst)' /\ Known(e.in.inst)'
      /\ Contracted' = Ends(baseCircuit'.edges)
  <2>1. CASE BufferEdge(edge) BY <2>1, <1>2, BufferInv
  <2>2. CASE SkipEdge(edge)
    BY <2>2, <1>2 DEF SkipEdge, EdgesInv, Known, Contracted, ThroughBuffers, IsBuffer, Ends
  <2>3. QED BY <1>1, <2>1, <2>2
<1>5. BaseInv' /\ TodoInv' BY <1>2 DEF BaseInv, TodoInv
<1>6. QED BY <1>2, <1>3, <1>4, <1>5 DEF IInv, EdgesInv

LEMMA RegisterInv ==
  ASSUME IInv, Register
  PROVE  IInv'
<1>1. stage' # "fix" /\ buffersInserted' \in Nat BY DEF Register, IInv
<1>2. TodoInv'
  <2>1. CASE Len(todo) > 1 BY <2>1 DEF Register, IInv, TodoInv
  <2>2. CASE ~(Len(todo) > 1) BY <2>2 DEF Register, IInv, TodoInv
  <2>3. QED BY <2>1, <2>2
<1>3. QED BY <1>1, <1>2 DEF IInv

LEMMA NextInv == IInv /\ [Next]_vars => IInv'
<1> SUFFICES ASSUME IInv, [Next]_vars PROVE IInv' OBVIOUS
<1>1. CASE Instantiate BY <1>1, InstantiateInv
<1>2. CASE FixDelays BY <1>2, FixDelaysInv
<1>3. CASE Register BY <1>3, RegisterInv
<1>4. CASE UNCHANGED vars
  BY <1>4 DEF vars, IInv, TodoInv, BaseInv, EdgesInv, Known, Contracted, ThroughBuffers, IsBuffer, Ends
<1>5. QED BY <1>1, <1>2, <1>3, <1>4 DEF Next

\* At every moment of FixDelays (accelerator.cpp:436-483) the circuit with its buffers taken
\* out is the circuit of the module: no edge lost, none led to another place, no buffer that
\* delays two edges, in whatever order the hash map gives the edges.
THEOREM BuffersKeepGraph == Spec => []BuffersKeepTheGraph
<1>1. IInv => BuffersKeepTheGraph BY DEF IInv, BuffersKeepTheGraph
<1>2. QED BY InitInv, NextInv, <1>1, PTL DEF Spec
-----------------------------------------------------------------------------
(* CalculateDelay.                                                          *)

\* A finite set of integers has a least member: the one with the fewest members below it.
LEMMA LeastExists ==
  ASSUME NEW S \in SUBSET Int, IsFiniteSet(S), S # {}
  PROVE  MinOf(S) \in S /\ \A y \in S : MinOf(S) <= y
<1> DEFINE Lesser(x) == {y \in S : y < x}
           Counts == {Cardinality(Lesser(x)) : x \in S}
<1>1. \A x \in S : IsFiniteSet(Lesser(x)) /\ Cardinality(Lesser(x)) \in Nat
  BY FS_Subset, FS_CardinalityType
<1>2. Counts \subseteq Nat /\ Counts # {} BY <1>1
<1>3. PICK c \in Counts : \A d \in Counts : <<d, c>> \notin OpToRel(<, Nat)
  BY <1>2, NatLessThanWellFounded, WFMin
<1>4. PICK x \in S : c = Cardinality(Lesser(x)) OBVIOUS
<1>5. ASSUME NEW y \in S, y < x PROVE FALSE
  <2>1. \A z \in Lesser(y) : z \in Lesser(x) BY <1>5
  <2>2. y \in Lesser(x) /\ y \notin Lesser(y) BY <1>5
  <2>3. Lesser(y) \in SUBSET Lesser(x) /\ Lesser(y) # Lesser(x) BY <2>1, <2>2
  <2>4. IsFiniteSet(Lesser(x)) /\ Cardinality(Lesser(x)) \in Nat /\ Cardinality(Lesser(y)) \in Nat BY <1>1
  <2> HIDE DEF Lesser
  <2>5. Cardinality(Lesser(y)) < Cardinality(Lesser(x)) BY <2>3, <2>4, FS_Subset
  <2> USE DEF Lesser
  <2>6. Cardinality(Lesser(y)) \in Counts OBVIOUS
  <2>7. <<Cardinality(Lesser(y)), c>> \in OpToRel(<, Nat) BY <2>5, <1>1, <1>4 DEF OpToRel
  <2>8. QED BY <2>6, <2>7, <1>3
<1>6. \A y \in S : x <= y BY <1>5
<1>7. QED BY <1>6 DEF MinOf

\* A nonempty set of numbers, one for each edge of a set of edges, has a least one.
LEMMA LeastOfEdges ==
  ASSUME NEW E, IsFiniteSet(E), E # {}, NEW value \in [E -> Int]
  PROVE  /\ MinOf({value[e] : e \in E}) \in Int
         /\ \A e \in E : MinOf({value[f] : f \in E}) <= value[e]
<1> DEFINE S == {value[e] : e \in E}
<1>1. S \in SUBSET Int /\ S # {} BY Zenon
<1>2. value \in Surjection(E, S) BY DEF Surjection
<1>3. IsFiniteSet(S) BY <1>2, FS_Surjection
<1>4. QED BY <1>1, <1>3, LeastExists

\* EdgeDelays keeps the differences between the edges into a unit and delays none by less than
\* nothing (delayCalculation.cpp:309-351).
LEMMA EdgesKeepDistance ==
  ASSUME NEW a, IsFiniteSet(a.edges), NEW slack \in [a.edges -> Int]
  PROVE  /\ EdgeDelays(a, slack) \in [a.edges -> Nat]
         /\ \A e, f \in a.edges : e.in.inst = f.in.inst =>
              EdgeDelays(a, slack)[e] - EdgeDelays(a, slack)[f] = slack[e] - slack[f]
<1> DEFINE E(n) == Into(a, n)
           least(n) == MinOf({slack[f] : f \in E(n)})
           delay == EdgeDelays(a, slack)
<1>1. delay = [e \in a.edges |-> slack[e] - least(e.in.inst)] BY DEF EdgeDelays
<1>2. ASSUME NEW e \in a.edges PROVE least(e.in.inst) \in Int /\ least(e.in.inst) <= slack[e]
  <2> DEFINE F == E(e.in.inst)
             part == [f \in F |-> slack[f]]
  <2>1. F \in SUBSET a.edges /\ e \in F BY DEF Into
  <2>2. IsFiniteSet(F) BY <2>1, FS_Subset
  <2>3. part \in [F -> Int] BY <2>1
  <2>4. {part[f] : f \in F} = {slack[f] : f \in F} OBVIOUS
  <2>5. part[e] = slack[e] BY <2>1
  <2> HIDE DEF F, part
  <2>6. MinOf({part[f] : f \in F}) \in Int /\ MinOf({part[f] : f \in F}) <= part[e]
    BY <2>1, <2>2, <2>3, LeastOfEdges
  <2>7. QED BY <2>4, <2>5, <2>6 DEF F
<1> HIDE DEF least, delay
<1>3. QED BY <1>1, <1>2 DEF delay

-----------------------------------------------------------------------------
\* What Balance is given: a latency for every unit, nothing for one that gives data on its own,
\* and for each edge what it adds to the unit it leaves.
Latencies(a, global) ==
  /\ IsFiniteSet(a.edges)
  /\ \A e \in a.edges : {e.out.inst, e.in.inst} \subseteq DOMAIN a.unit /\ EdgeLatency(a, e) \in Int
  /\ global.node \in [DOMAIN a.unit -> Int]
  /\ \A n \in DOMAIN a.unit : a.type[n] = "SOURCE" => global.node[n] = 0
  /\ global.edge = [e \in a.edges |-> IF a.type[e.out.inst] = "SOURCE_AND_SINK" THEN 0
                                       ELSE global.node[e.out.inst] + EdgeLatency(a, e)]

\* The cycle in which the data of an edge is taken, counted from the start of the run: that of
\* its unit, the latency of the edge and its delay.
TakenAt(a, delays, e) == delays.node[e.out.inst] + EdgeLatency(a, e) + delays.edge[e]

\* A unit that only takes data starts with the first of its edges; that is a number too.
LEMMA BaseIsNumber ==
  ASSUME NEW a, NEW global, Latencies(a, global), NEW e \in a.edges
  PROVE  BaseLatency(a, global)[e.in.inst] \in Int
<1> DEFINE F == Into(a, e.in.inst)
           part == [f \in F |-> global.edge[f]]
<1>1. F \in SUBSET a.edges /\ e \in F /\ e.in.inst \in DOMAIN a.unit BY DEF Into, Latencies
<1>2. IsFiniteSet(F) BY <1>1, FS_Subset DEF Latencies
<1>3. part \in [F -> Int] BY <1>1 DEF Latencies
<1>4. {part[f] : f \in F} = {global.edge[f] : f \in F} OBVIOUS
<1> HIDE DEF F, part
<1>5. MinOf({part[f] : f \in F}) \in Int BY <1>1, <1>2, <1>3, LeastOfEdges
<1>6. MinOf({global.edge[f] : f \in F}) \in Int BY <1>4, <1>5
<1>7. QED BY <1>1, <1>6 DEF BaseLatency, Latencies, F

\* A source is shifted by no more than any of its edges waits (delayCalculation.cpp:354-388).
LEMMA SourceWaitsLess ==
  ASSUME NEW a, IsFiniteSet(a.edges), NEW delay \in [a.edges -> Nat], NEW e \in a.edges,
         e.out.inst \in DOMAIN a.unit
  PROVE  /\ SourceLatency(a, delay)[e.out.inst] \in Int
         /\ SourceLatency(a, delay)[e.out.inst] <= delay[e]
<1> DEFINE F == OutOf(a, e.out.inst)
           part == [f \in F |-> delay[f]]
<1>1. F \in SUBSET a.edges /\ e \in F BY DEF OutOf
<1>2. IsFiniteSet(F) BY <1>1, FS_Subset
<1>3. part \in [F -> Int] BY <1>1
<1>4. {part[f] : f \in F} = {delay[f] : f \in F} /\ part[e] = delay[e] BY <1>1
<1> HIDE DEF F, part
<1>5. MinOf({part[f] : f \in F}) \in Int /\ MinOf({part[f] : f \in F}) <= part[e]
  BY <1>1, <1>2, <1>3, LeastOfEdges
<1>6. MinOf({delay[f] : f \in F}) \in Int /\ MinOf({delay[f] : f \in F}) <= delay[e] BY <1>4, <1>5
<1>7. QED BY <1>6 DEF SourceLatency, F

\* What an edge has left before its unit starts.
Slack(a, global) == [e \in a.edges |-> BaseLatency(a, global)[e.in.inst] - global.edge[e]]

LEMMA TakenIs ==
  ASSUME NEW a, NEW global, Latencies(a, global)
  PROVE  /\ Slack(a, global) \in [a.edges -> Int]
         /\ EdgeDelays(a, Slack(a, global)) \in [a.edges -> Nat]
         /\ Balance(a, global).edge \in [a.edges -> Nat]
         /\ \A e \in a.edges : a.type[e.out.inst] \in {"SOURCE", "COMPUTE"} =>
              TakenAt(a, Balance(a, global), e) = global.edge[e] + EdgeDelays(a, Slack(a, global))[e]
<1> DEFINE base == BaseLatency(a, global)
           slack == Slack(a, global)
           delay == EdgeDelays(a, slack)
           late == SourceLatency(a, delay)
           result == Balance(a, global)
<1>1. /\ result.edge = [e \in a.edges |-> delay[e] - late[e.out.inst]]
      /\ result.node = [n \in DOMAIN a.unit |-> IF a.type[n] = "SOURCE" THEN late[n] ELSE base[n]]
  BY DEF Balance, Slack
<1>2. IsFiniteSet(a.edges) /\ \A e \in a.edges : {e.out.inst, e.in.inst} \subseteq DOMAIN a.unit
  BY DEF Latencies
<1>3. \A e \in a.edges : global.edge[e] \in Int BY DEF Latencies
<1>4. \A e \in a.edges : base[e.in.inst] \in Int BY BaseIsNumber
<1> HIDE DEF base, result
<1>5. slack \in [a.edges -> Int] BY <1>3, <1>4 DEF Slack, base
<1>6. /\ delay \in [a.edges -> Nat]
      /\ \A e, f \in a.edges : e.in.inst = f.in.inst => delay[e] - delay[f] = slack[e] - slack[f]
  <2> HIDE DEF slack
  <2>1. QED BY <1>2, <1>5, EdgesKeepDistance
<1>7. \A e \in a.edges : late[e.out.inst] \in Int /\ late[e.out.inst] <= delay[e]
  <2> HIDE DEF delay, late
  <2>1. TAKE e \in a.edges
  <2>2. QED BY <1>2, <1>6, SourceWaitsLess DEF late
<1> HIDE DEF delay, late
<1>8. result.edge \in [a.edges -> Nat] BY <1>1, <1>6, <1>7
\* What the unit of an edge is shifted by is taken off the edge.
<1>9. ASSUME NEW e \in a.edges, a.type[e.out.inst] \in {"SOURCE", "COMPUTE"}
      PROVE  TakenAt(a, result, e) = global.edge[e] + delay[e]
  <2>1. /\ e.out.inst \in DOMAIN a.unit /\ global.node[e.out.inst] \in Int /\ EdgeLatency(a, e) \in Int
        /\ global.edge[e] = global.node[e.out.inst] + EdgeLatency(a, e)
    BY <1>9, <1>2 DEF Latencies
  <2>2. result.edge[e] = delay[e] - late[e.out.inst] BY <1>1
  <2>3. CASE a.type[e.out.inst] = "SOURCE"
    <3>1. global.node[e.out.inst] = 0 BY <2>1, <2>3 DEF Latencies
    <3>2. result.node[e.out.inst] = late[e.out.inst] BY <1>1, <2>1, <2>3
    <3>3. QED BY <2>1, <2>2, <3>1, <3>2, <1>6, <1>7 DEF TakenAt
  <2>4. CASE a.type[e.out.inst] = "COMPUTE"
    <3>1. result.node[e.out.inst] = global.node[e.out.inst] BY <1>1, <2>1, <2>4 DEF base, BaseLatency
    <3>2. late[e.out.inst] = 0 BY <2>1, <2>4 DEF late, SourceLatency
    <3>3. QED BY <2>1, <2>2, <3>1, <3>2, <1>6 DEF TakenAt
  <2>5. QED BY <1>9, <2>3, <2>4
<1>10. QED BY <1>5, <1>6, <1>8, <1>9 DEF result, delay

\* No edge waits less than nothing, which FixDelays asserts (accelerator.cpp:457), and the data
\* of two edges from sources or computing units into one unit is taken in the same cycle
\* (CalculateDelay, delayCalculation.cpp:187-388), on every graph and for all latencies.
THEOREM DataMeets ==
  ASSUME NEW a, NEW global, Latencies(a, global)
  PROVE  /\ Balance(a, global).edge \in [a.edges -> Nat]
         /\ \A e, f \in a.edges :
              e.in.inst = f.in.inst /\ {a.type[e.out.inst], a.type[f.out.inst]} \subseteq {"SOURCE", "COMPUTE"}
                => TakenAt(a, Balance(a, global), e) = TakenAt(a, Balance(a, global), f)
<1> DEFINE base == BaseLatency(a, global)
           slack == Slack(a, global)
           delay == EdgeDelays(a, slack)
           result == Balance(a, global)
<1>1. \A e \in a.edges : global.edge[e] \in Int BY DEF Latencies
<1>2. \A e \in a.edges : base[e.in.inst] \in Int BY BaseIsNumber
<1>3. /\ slack \in [a.edges -> Int] /\ delay \in [a.edges -> Nat] /\ result.edge \in [a.edges -> Nat]
      /\ \A e \in a.edges : a.type[e.out.inst] \in {"SOURCE", "COMPUTE"} =>
           TakenAt(a, result, e) = global.edge[e] + delay[e]
  BY TakenIs
<1>4. \A e, f \in a.edges : e.in.inst = f.in.inst => delay[e] - delay[f] = slack[e] - slack[f]
  <2>1. IsFiniteSet(a.edges) BY DEF Latencies
  <2> HIDE DEF slack
  <2>2. QED BY <1>3, <2>1, EdgesKeepDistance
<1>5. \A e \in a.edges : slack[e] = base[e.in.inst] - global.edge[e] BY DEF Slack
<1> HIDE DEF base, slack, delay, result
<1>6. ASSUME NEW e \in a.edges, NEW f \in a.edges, e.in.inst = f.in.inst,
             a.type[e.out.inst] \in {"SOURCE", "COMPUTE"}, a.type[f.out.inst] \in {"SOURCE", "COMPUTE"}
      PROVE  TakenAt(a, result, e) = TakenAt(a, result, f)
  <2>1. delay[e] - delay[f] = slack[e] - slack[f] BY <1>4, <1>6
  <2>2. slack[e] - slack[f] = global.edge[f] - global.edge[e] BY <1>1, <1>2, <1>5, <1>6
  <2>3. /\ delay[e] \in Nat /\ delay[f] \in Nat
        /\ global.edge[e] \in Int /\ global.edge[f] \in Int
    BY <1>1, <1>3
  <2>4. global.edge[e] + delay[e] = global.edge[f] + delay[f] BY <2>1, <2>2, <2>3
  <2>5. TakenAt(a, result, e) = global.edge[e] + delay[e] BY <1>3, <1>6
  <2>6. TakenAt(a, result, f) = global.edge[f] + delay[f] BY <1>3, <1>6
  <2>7. QED BY <2>4, <2>5, <2>6
<1>7. QED BY <1>3, <1>6 DEF result

-----------------------------------------------------------------------------
(* Numbers and lists of numbers.                                            *)

\* u is s, of m places, and t, of k places, behind it.
IsJoin(S, u, s, m, t, k) ==
  /\ u \in Seq(S) /\ Len(u) = m + k
  /\ \A i \in 1 .. m + k : u[i] = IF i <= m THEN s[i] ELSE t[i - m]

LEMMA Joined ==
  ASSUME NEW S, NEW s \in Seq(S), NEW t \in Seq(S), NEW u, u = s \o t,
         NEW m, NEW k, m = Len(s), k = Len(t)
  PROVE  IsJoin(S, u, s, m, t, k)
BY ConcatProperties, Zenon DEF IsJoin

LEMMA LeastOf ==
  ASSUME NEW S \in SUBSET Nat, S # {}
  PROVE  \E x \in S : \A y \in S : x <= y
<1>1. PICK x \in S : \A y \in S : ~(<<y, x>> \in OpToRel(<, Nat)) BY WFMin, NatLessThanWellFounded
<1>2. ASSUME NEW y \in S PROVE x <= y
  <2>1. SUFFICES ASSUME y < x PROVE FALSE OBVIOUS
  <2>2. <<y, x>> \in OpToRel(<, Nat) BY <2>1 DEF OpToRel
  <2>3. QED BY <1>1, <2>2
<1>3. QED BY <1>2

\* What holds of a number when it holds of all behind it, holds of all.
LEMMA DownFrom ==
  ASSUME NEW N \in Nat, NEW G,
         \A q \in 0 .. N : (\A r \in 0 .. N : r > q => r \in G) => q \in G
  PROVE  \A q \in 0 .. N : q \in G
<1>1. SUFFICES ASSUME NEW m \in 0 .. N, m \notin G PROVE FALSE OBVIOUS
<1>2. PICK Bad : Bad = {N - q : q \in {q \in 0 .. N : q \notin G}} OBVIOUS
<1>3. Bad \subseteq Nat BY <1>2
<1>4. N - m \in Bad BY <1>1, <1>2
<1>5. PICK x \in Bad : \A y \in Bad : x <= y BY <1>3, <1>4, LeastOf
<1>6. PICK q \in 0 .. N : q \notin G /\ x = N - q BY <1>2, <1>5
<1>7. PICK r \in 0 .. N : r > q /\ r \notin G BY <1>6
<1>8. N - r \in Bad BY <1>2, <1>7
<1>9. x <= N - r BY <1>5, <1>8
<1>10. QED BY <1>6, <1>7, <1>9

Increasing(n, f) == \A a, b \in 1 .. n : a < b => f[a] < f[b]

\* An increasing list is known by what is in it.
LEMMA SameMembers ==
  ASSUME NEW n \in Nat, NEW m \in Nat, NEW s \in [1 .. n -> Nat], NEW t \in [1 .. m -> Nat],
         Increasing(n, s), Increasing(m, t),
         \A a \in 1 .. n : \E b \in 1 .. m : t[b] = s[a],
         \A b \in 1 .. m : \E a \in 1 .. n : s[a] = t[b]
  PROVE  n = m /\ s = t
<1> DEFINE Same(a) == a \in 1 .. m /\ s[a] = t[a]
<1>1. ASSUME NEW a \in 1 .. n, \A c \in 1 .. n : c < a => Same(c) PROVE Same(a)
  <2>1. PICK b \in 1 .. m : t[b] = s[a] OBVIOUS
  <2>2. ~(b < a)
    <3>1. SUFFICES ASSUME b < a PROVE FALSE OBVIOUS
    <3>2. b \in 1 .. n /\ s[b] = t[b] BY <1>1, <3>1
    <3>3. s[b] < s[a] BY <3>1, <3>2 DEF Increasing
    <3>4. s[a] \in Nat OBVIOUS
    <3>5. QED BY <2>1, <3>2, <3>3, <3>4
  <2>3. ~(b > a)
    <3>1. SUFFICES ASSUME b > a PROVE FALSE OBVIOUS
    <3>2. a \in 1 .. m /\ t[a] < t[b]
      <4>1. a \in 1 .. m /\ a < b BY <3>1
      <4>2. QED BY <4>1 DEF Increasing
    <3>3. PICK c \in 1 .. n : s[c] = t[a] BY <3>2
    <3>4. s[c] < s[a] /\ s[a] \in Nat /\ s[c] \in Nat BY <2>1, <3>2, <3>3
    <3>5. ~(a < c) /\ a # c
      <4>1. PICK x \in Nat, y \in Nat : x = s[a] /\ y = s[c] BY <3>4
      <4>2. y < x BY <3>4, <4>1
      <4>3. a < c => x < y BY <4>1, Zenon DEF Increasing
      <4>4. a = c => x = y BY <4>1, Zenon
      <4>5. QED BY <4>2, <4>3, <4>4
    <3>6. c < a BY <3>5
    <3>7. t[c] = s[c] /\ c \in 1 .. m BY <1>1, <3>6
    <3>8. t[c] < t[a] BY <3>2, <3>6, <3>7 DEF Increasing
    <3>9. t[a] \in Nat BY <3>2
    <3>10. QED BY <3>3, <3>7, <3>8, <3>9
  <2>4. b = a BY <2>2, <2>3
  <2>5. QED BY <2>1, <2>4
<1>2. \A a \in 1 .. n : Same(a)
  <2> HIDE DEF Same
  <2>1. SUFFICES ASSUME NEW x \in 1 .. n, ~Same(x) PROVE FALSE OBVIOUS
  <2>2. PICK Bad : Bad = {a \in 1 .. n : ~Same(a)} OBVIOUS
  <2>3. Bad \subseteq Nat /\ x \in Bad BY <2>1, <2>2
  <2>4. PICK y \in Bad : \A z \in Bad : y <= z BY <2>3, LeastOf
  <2>5. y \in 1 .. n /\ ~Same(y) BY <2>2
  <2>6. ASSUME NEW c \in 1 .. n, c < y PROVE Same(c)
    <3>1. c \notin Bad BY <2>4, <2>5, <2>6
    <3>2. QED BY <2>2, <3>1
  <2>7. QED BY <1>1, <2>5, <2>6
<1>3. ~(m > n)
  <2>1. SUFFICES ASSUME m > n PROVE FALSE OBVIOUS
  <2>2. m \in 1 .. m BY <2>1
  <2>3. PICK a \in 1 .. n : s[a] = t[m] BY <2>2
  <2>4. a \in 1 .. m /\ t[a] = t[m] /\ a < m BY <1>2, <2>1, <2>3
  <2>5. t[a] < t[m] /\ t[m] \in Nat BY <2>2, <2>4 DEF Increasing
  <2>6. QED BY <2>4, <2>5
<1>4. ~(n > m)
  <2>1. SUFFICES ASSUME n > m PROVE FALSE OBVIOUS
  <2>2. n \in 1 .. n BY <2>1
  <2>3. n \in 1 .. m BY <1>2, <2>2
  <2>4. QED BY <2>1, <2>3
<1>5. n = m BY <1>3, <1>4
<1>6. \A a \in 1 .. n : s[a] = t[a] BY <1>2
<1>7. QED BY <1>5, <1>6

\* A recursion along links that lead up or to 0 has a solution.
Follows(N, e, nx, step, h) ==
  h[0] = e /\ \A i \in 1 .. N : h[i] = step[i][h[nx[i]]]

LEMMA LinksSolved ==
  ASSUME NEW N \in Nat, NEW S, NEW e \in S, NEW nx \in [1 .. N -> 0 .. N],
         NEW step \in [1 .. N -> [S -> S]], \A i \in 1 .. N : nx[i] = 0 \/ nx[i] > i
  PROVE  \E h \in [0 .. N -> S] : Follows(N, e, nx, step, h)
<1> DEFINE From(m) == \E h \in [0 .. N -> S] :
                        h[0] = e /\ \A i \in 1 .. N : i >= m => h[i] = step[i][h[nx[i]]]
<1>1. ASSUME NEW m \in 0 .. N, m < N => From(m + 1) PROVE From(m)
  <2>1. PICK h \in [0 .. N -> S] :
          h[0] = e /\ \A i \in 1 .. N : i > m => h[i] = step[i][h[nx[i]]]
    <3>1. CASE m < N
      <4>1. PICK h \in [0 .. N -> S] :
              h[0] = e /\ \A i \in 1 .. N : i >= m + 1 => h[i] = step[i][h[nx[i]]]
        BY <1>1, <3>1
      <4>2. \A i \in 1 .. N : i > m => i >= m + 1 OBVIOUS
      <4>3. QED BY <4>1, <4>2
    <3>2. CASE ~(m < N)
      <4>1. PICK h : h = [i \in 0 .. N |-> e] OBVIOUS
      <4>2. h \in [0 .. N -> S] /\ h[0] = e /\ \A i \in 1 .. N : ~(i > m) BY <3>2, <4>1
      <4>3. QED BY <4>2
    <3>3. QED BY <3>1, <3>2
  <2>2. CASE m = 0 BY <2>1, <2>2
  <2>3. CASE m # 0
    <3>1. m \in 1 .. N BY <2>3
    <3>2. PICK x \in S : x = step[m][h[nx[m]]] BY <3>1
    <3>3. PICK g : g = [i \in 0 .. N |-> IF i = m THEN x ELSE h[i]] OBVIOUS
    <3>4. g \in [0 .. N -> S] /\ g[m] = x /\ \A i \in 0 .. N : i # m => g[i] = h[i] BY <2>1, <3>3
    <3>5. ASSUME NEW i \in 1 .. N, i >= m PROVE g[i] = step[i][g[nx[i]]]
      <4>1. PICK y \in 0 .. N : y = nx[i] OBVIOUS
      <4>2. y = 0 \/ y > i BY <4>1, Zenon
      <4>3. y # m BY <2>3, <3>5, <4>2
      <4>4. g[y] = h[y] BY <3>4, <4>3
      <4>5. CASE i = m BY <3>2, <3>4, <4>1, <4>4, <4>5
      <4>6. CASE i # m
        <5>1. g[i] = h[i] /\ h[i] = step[i][h[y]] BY <2>1, <3>4, <3>5, <4>1, <4>6
        <5>2. QED BY <4>1, <4>4, <5>1
      <4>7. QED BY <4>5, <4>6
    <3>6. g[0] = e BY <2>1, <2>3, <3>4
    <3>7. QED BY <3>4, <3>5, <3>6
  <2>4. QED BY <2>2, <2>3
<1>2. From(0)
  <2> HIDE DEF From
  <2>1. PICK G : G = {m \in 0 .. N : From(m)} OBVIOUS
  <2>2. ASSUME NEW q \in 0 .. N, \A r \in 0 .. N : r > q => r \in G PROVE q \in G
    <3>1. q < N => q + 1 \in 0 .. N /\ q + 1 > q OBVIOUS
    <3>2. q < N => From(q + 1) BY <2>1, <2>2, <3>1
    <3>3. QED BY <1>1, <2>1, <3>2
  <2>3. 0 \in G
    <3>1. \A q \in 0 .. N : q \in G BY <2>2, DownFrom
    <3>2. QED BY <3>1
  <2>4. QED BY <2>1, <2>3
<1>3. QED BY <1>2 DEF Follows

\* So has one that goes down a tree: to the next level, and to a greater number.
Descends(N, nx, stop, val, f) ==
  \A p \in 0 .. N : \A d \in Nat :
    f[p][d] = IF stop[p][d] THEN val[p][d] ELSE f[nx[p][d]][d + 1]

LEMMA DescentSolved ==
  ASSUME NEW N \in Nat, NEW S, NEW nx \in [0 .. N -> [Nat -> 0 .. N]],
         NEW stop \in [0 .. N -> [Nat -> BOOLEAN]], NEW val \in [0 .. N -> [Nat -> S]],
         \A p \in 0 .. N : \A d \in Nat : stop[p][d] \/ nx[p][d] > p
  PROVE  \E f \in [0 .. N -> [Nat -> S]] : Descends(N, nx, stop, val, f)
<1> DEFINE From(m) == \E f \in [0 .. N -> [Nat -> S]] :
                        \A p \in 0 .. N : p >= m =>
                          \A d \in Nat :
                            f[p][d] = IF stop[p][d] THEN val[p][d] ELSE f[nx[p][d]][d + 1]
<1>1. ASSUME NEW m \in 0 .. N, m < N => From(m + 1) PROVE From(m)
  <2>1. PICK f \in [0 .. N -> [Nat -> S]] :
          \A p \in 0 .. N : p > m => \A d \in Nat :
            f[p][d] = IF stop[p][d] THEN val[p][d] ELSE f[nx[p][d]][d + 1]
    <3>1. CASE m < N
      <4>1. \A i \in 0 .. N : i > m => i >= m + 1 OBVIOUS
      <4>2. QED BY <1>1, <3>1, <4>1
    <3>2. CASE ~(m < N)
      <4>1. \A p \in 0 .. N : ~(p > m) BY <3>2
      <4>2. QED BY <4>1
    <3>3. QED BY <3>1, <3>2
  <2>2. PICK x : x = [d \in Nat |-> IF stop[m][d] THEN val[m][d] ELSE f[nx[m][d]][d + 1]] OBVIOUS
  <2>3. x \in [Nat -> S]
    <3>1. ASSUME NEW d \in Nat
          PROVE  (IF stop[m][d] THEN val[m][d] ELSE f[nx[m][d]][d + 1]) \in S
      <4>1. nx[m][d] \in 0 .. N /\ d + 1 \in Nat /\ val[m][d] \in S
        <5>1. nx[m] \in [Nat -> 0 .. N] /\ val[m] \in [Nat -> S] OBVIOUS
        <5>2. nx[m][d] \in 0 .. N /\ val[m][d] \in S BY <5>1, Zenon
        <5>3. d + 1 \in Nat OBVIOUS
        <5>4. QED BY <5>2, <5>3
      <4>2. f[nx[m][d]] \in [Nat -> S] BY <4>1
      <4>3. f[nx[m][d]][d + 1] \in S BY <4>1, <4>2
      <4>4. QED BY <4>1, <4>3
    <3>2. QED BY <2>2, <3>1
  <2>4. PICK g : g = [p \in 0 .. N |-> IF p = m THEN x ELSE f[p]] OBVIOUS
  <2>5. g \in [0 .. N -> [Nat -> S]] /\ g[m] = x /\ \A p \in 0 .. N : p # m => g[p] = f[p]
    BY <2>1, <2>3, <2>4
  <2>6. ASSUME NEW p \in 0 .. N, p >= m, NEW d \in Nat
        PROVE  g[p][d] = IF stop[p][d] THEN val[p][d] ELSE g[nx[p][d]][d + 1]
    <3>1. PICK y \in 0 .. N : y = nx[p][d]
      <4>1. nx[p] \in [Nat -> 0 .. N] OBVIOUS
      <4>2. nx[p][d] \in 0 .. N BY <4>1
      <4>3. QED BY <4>2
    <3>2. stop[p][d] \/ y > p BY <3>1, Zenon
    <3>3. stop[p][d] \/ g[y] = f[y]
      <4>1. y > p => y # m BY <2>6
      <4>2. QED BY <2>5, <3>2, <4>1
    <3>4. g[p][d] = IF stop[p][d] THEN val[p][d] ELSE f[y][d + 1]
      <4>1. CASE p = m BY <2>2, <2>5, <3>1, <4>1, Zenon
      <4>2. CASE p # m
        <5>1. g[p] = f[p] /\ p > m BY <2>5, <2>6, <4>2
        <5>2. QED BY <2>1, <3>1, <5>1, Zenon
      <4>3. QED BY <4>1, <4>2
    <3>5. QED BY <3>1, <3>3, <3>4, Zenon
  <2>7. QED BY <2>5, <2>6
<1>2. From(0)
  <2> HIDE DEF From
  <2>1. PICK G : G = {m \in 0 .. N : From(m)} OBVIOUS
  <2>2. ASSUME NEW q \in 0 .. N, \A r \in 0 .. N : r > q => r \in G PROVE q \in G
    <3>1. q < N => q + 1 \in 0 .. N /\ q + 1 > q OBVIOUS
    <3>2. q < N => From(q + 1) BY <2>1, <2>2, <3>1
    <3>3. QED BY <1>1, <2>1, <3>2
  <2>3. 0 \in G
    <3>1. \A q \in 0 .. N : q \in G BY <2>2, DownFrom
    <3>2. QED BY <3>1
  <2>4. QED BY <2>1, <2>3
<1>3. PICK f \in [0 .. N -> [Nat -> S]] :
        \A p \in 0 .. N : p >= 0 =>
          \A d \in Nat : f[p][d] = IF stop[p][d] THEN val[p][d] ELSE f[nx[p][d]][d + 1]
  BY <1>2
<1>4. \A p \in 0 .. N : p >= 0 OBVIOUS
<1>5. QED BY <1>3, <1>4 DEF Descends

-----------------------------------------------------------------------------
(* The tree.                                                                *)

TrieNode ==
  [childs : [0 .. 3 -> Nat], key : Keys, value : Values \cup {Zero}, next : Nat, valid : BOOLEAN]

TrieTypeOK ==
  /\ hash \in [Keys -> [Nat -> 0 .. 3]]
  /\ nodes \in Seq(TrieNode)
  /\ childs \in [0 .. 3 -> Nat]
  /\ \A p \in 0 .. Len(nodes) : \A s \in 0 .. 3 :
       Child(p, s) = 0 \/ Child(p, s) \in p + 1 .. Len(nodes)
  /\ \A n \in 1 .. Len(nodes) : nodes[n].next = 0 \/ nodes[n].next \in n + 1 .. Len(nodes)

Valid == {n \in 1 .. Len(nodes) : nodes[n].valid}

\* Where a path may stop: the map or a valid node.
Parents == Valid \cup {0}

OnceEach == \A m, n \in Valid : nodes[m].key = nodes[n].key => m = n

\* The bits of the hash that lead to p are those of k.
Leads(dep, p, k) == \A j \in 0 .. dep[p] - 1 : hash[k][j] = hash[nodes[p].key][j]

\* Each valid node has a parent, at a depth, and hangs where its hash selects; what is
\* valid below a parent is its child.
Tree(par, dep) ==
  /\ par \in [Nat -> Nat] /\ dep \in [Nat -> Nat] /\ dep[0] = 0
  /\ \A n \in Valid :
       /\ par[n] \in Parents /\ par[n] < n /\ dep[n] = dep[par[n]] + 1
       /\ Child(par[n], hash[nodes[n].key][dep[par[n]]]) = n
       /\ Leads(dep, par[n], nodes[n].key)
  /\ \A p \in Parents : \A s \in 0 .. 3 :
       Child(p, s) \in Valid =>
         par[Child(p, s)] = p /\ hash[nodes[Child(p, s)].key][dep[p]] = s

LEMMA NodesAre ==
  ASSUME TrieTypeOK
  PROVE  /\ Len(nodes) \in Nat /\ DOMAIN nodes = 1 .. Len(nodes)
         /\ \A n \in 1 .. Len(nodes) :
              /\ nodes[n] \in TrieNode /\ nodes[n].key \in Keys /\ nodes[n].valid \in BOOLEAN
              /\ nodes[n].next \in 0 .. Len(nodes) /\ nodes[n].childs \in [0 .. 3 -> Nat]
         /\ \A p \in 0 .. Len(nodes) : \A s \in 0 .. 3 : Child(p, s) \in 0 .. Len(nodes)
<1>1. Len(nodes) \in Nat /\ DOMAIN nodes = 1 .. Len(nodes) BY DEF TrieTypeOK
<1>2. \A n \in 1 .. Len(nodes) : nodes[n] \in TrieNode BY DEF TrieTypeOK
<1>3. ASSUME NEW n \in 1 .. Len(nodes)
      PROVE  /\ nodes[n].key \in Keys /\ nodes[n].valid \in BOOLEAN
             /\ nodes[n].next \in 0 .. Len(nodes) /\ nodes[n].childs \in [0 .. 3 -> Nat]
  <2>1. nodes[n].key \in Keys /\ nodes[n].valid \in BOOLEAN /\ nodes[n].childs \in [0 .. 3 -> Nat]
    BY <1>2 DEF TrieNode
  <2>2. PICK x : x = nodes[n].next OBVIOUS
  <2>3. x = 0 \/ x \in n + 1 .. Len(nodes) BY <2>2 DEF TrieTypeOK
  <2>4. x \in 0 .. Len(nodes) BY <1>1, <2>3
  <2>5. QED BY <2>1, <2>2, <2>4
<1>4. ASSUME NEW p \in 0 .. Len(nodes), NEW s \in 0 .. 3 PROVE Child(p, s) \in 0 .. Len(nodes)
  <2>1. PICK c : c = Child(p, s) OBVIOUS
  <2>2. c = 0 \/ c \in p + 1 .. Len(nodes) BY <2>1, Zenon DEF TrieTypeOK
  <2>3. c \in 0 .. Len(nodes) BY <1>1, <2>2
  <2>4. QED BY <2>1, <2>3
<1>5. QED BY <1>1, <1>2, <1>3, <1>4

\* What does not change from a node to its child on the way of a key, does not change on
\* the way from the map to the key's parent.
Steady(dep, m, k, F) ==
  \A p \in Parents : \A c \in Valid :
    Leads(dep, p, k) /\ Child(p, hash[k][dep[p]]) = c /\ c # m => F[p] = F[c]
Reached(dep, q, m, k, F) ==
  F[0] = F[q] /\ Leads(dep, q, k) /\ q \in Parents /\ Child(q, hash[k][dep[q]]) = m

LEMMA Upwards ==
  ASSUME TrieTypeOK, OnceEach, NEW par, NEW dep, Tree(par, dep), NEW m \in Valid, NEW k,
         nodes[m].key = k, NEW F, Steady(dep, m, k, F)
  PROVE  Reached(dep, par[m], m, k, F)
<1>1. Valid \subseteq Nat /\ Parents \subseteq Nat /\ Valid \subseteq Parents
  <2>1. Valid \subseteq 1 .. Len(nodes) /\ Len(nodes) \in Nat BY NodesAre DEF Valid
  <2>2. QED BY <2>1 DEF Parents
<1>2. par \in [Nat -> Nat] /\ dep \in [Nat -> Nat] /\ dep[0] = 0 BY DEF Tree
<1>3. ASSUME NEW n \in Valid
      PROVE  /\ par[n] \in Parents /\ par[n] < n /\ dep[n] = dep[par[n]] + 1
             /\ Child(par[n], hash[nodes[n].key][dep[par[n]]]) = n
             /\ Leads(dep, par[n], nodes[n].key)
  BY DEF Tree
<1>4. SUFFICES F[0] = F[par[m]] BY <1>3 DEF Reached
<1>5. PICK Bad : Bad = {q \in Parents : q < m /\ Leads(dep, q, k) /\ F[q] # F[0]} OBVIOUS
<1>6. par[m] \in Parents /\ par[m] < m /\ Leads(dep, par[m], k) BY <1>3
<1>7. SUFFICES ASSUME par[m] \in Bad PROVE FALSE BY <1>5, <1>6
<1>8. Bad \in SUBSET Nat /\ Bad # {} BY <1>1, <1>5, <1>7
<1>9. PICK q \in Bad : \A y \in Bad : q <= y BY <1>8, LeastOf
<1>10. q \in Parents /\ q < m /\ Leads(dep, q, k) /\ F[q] # F[0] BY <1>5
<1>11. q \in Valid /\ q # m BY <1>1, <1>10 DEF Parents
<1>12. PICK p \in Nat : p = par[q] BY <1>1, <1>2, <1>11
<1>13. /\ p \in Parents /\ p < q /\ dep[q] = dep[p] + 1
       /\ Child(p, hash[nodes[q].key][dep[p]]) = q /\ Leads(dep, p, nodes[q].key)
  BY <1>3, <1>11, <1>12
<1>14. PICK d \in Nat : d = dep[p] /\ d + 1 = dep[q] BY <1>2, <1>12, <1>13
<1>15. \A j \in 0 .. d : hash[k][j] = hash[nodes[q].key][j]
  <2>1. d + 1 - 1 = d OBVIOUS
  <2>2. QED BY <1>10, <1>14, <2>1 DEF Leads
<1>16. Leads(dep, p, k)
  <2>1. \A j \in 0 .. d - 1 : hash[nodes[q].key][j] = hash[nodes[p].key][j]
    BY <1>13, <1>14 DEF Leads
  <2>2. \A j \in 0 .. d - 1 : j \in 0 .. d OBVIOUS
  <2>3. QED BY <1>14, <1>15, <2>1, <2>2 DEF Leads
<1>17. hash[k][d] = hash[nodes[q].key][d]
  <2>1. d \in 0 .. d OBVIOUS
  <2>2. QED BY <1>15, <2>1
<1>18. F[p] = F[q] BY <1>11, <1>13, <1>14, <1>16, <1>17 DEF Steady
<1>19. p < m BY <1>1, <1>10, <1>13
<1>20. p \in Bad BY <1>5, <1>10, <1>13, <1>16, <1>18, <1>19
<1>21. q <= p /\ q \in Nat BY <1>1, <1>9, <1>10, <1>20
<1>22. QED BY <1>12, <1>13, <1>21

\* On the way of a key, a valid child is reached at its depth.
NextOn(dep, p, c, k) ==
  hash[k][dep[p]] \in 0 .. 3 /\ Leads(dep, p, k) /\ Child(p, hash[k][dep[p]]) = c
OneDeeper(dep, p, c, k) ==
  dep[c] = dep[p] + 1 /\ Leads(dep, c, k) /\ c \in Parents /\ dep[p] \in Nat

LEMMA Onwards ==
  ASSUME TrieTypeOK, NEW par, NEW dep, Tree(par, dep), NEW k, NEW p \in Parents, NEW c \in Valid,
         NextOn(dep, p, c, k)
  PROVE  OneDeeper(dep, p, c, k)
<1>0. hash[k][dep[p]] \in 0 .. 3 /\ Leads(dep, p, k) /\ Child(p, hash[k][dep[p]]) = c BY DEF NextOn
<1>1. Valid \subseteq Nat /\ Parents \subseteq Nat /\ Valid \subseteq Parents
  <2>1. Valid \subseteq 1 .. Len(nodes) /\ Len(nodes) \in Nat BY NodesAre DEF Valid
  <2>2. QED BY <2>1 DEF Parents
<1>2. PICK d \in Nat : d = dep[p] BY <1>1 DEF Tree
<1>3. par[c] = p /\ hash[nodes[c].key][d] = hash[k][d] BY <1>0, <1>2 DEF Tree
<1>4. dep[c] = d + 1 /\ Leads(dep, p, nodes[c].key) BY <1>2, <1>3 DEF Tree
<1>5. ASSUME NEW j \in 0 .. d PROVE hash[k][j] = hash[nodes[c].key][j]
  <2>1. CASE j = d BY <1>3, <2>1
  <2>2. CASE j # d
    <3>1. j \in 0 .. d - 1 BY <2>2
    <3>2. hash[k][j] = hash[nodes[p].key][j] /\ hash[nodes[c].key][j] = hash[nodes[p].key][j]
      BY <1>0, <1>2, <1>4, <3>1 DEF Leads
    <3>3. QED BY <3>2
  <2>3. QED BY <2>1, <2>2
<1>6. d + 1 - 1 = d OBVIOUS
<1>7. Leads(dep, c, k) BY <1>2, <1>4, <1>5, <1>6 DEF Leads
<1>8. QED BY <1>1, <1>2, <1>4, <1>7 DEF OneDeeper

\* Where a key is, or would be inserted.
PlaceAt(dep, k, p, c) ==
  /\ p \in Parents /\ c \in 0 .. Len(nodes) /\ c = Child(p, hash[k][dep[p]]) /\ Leads(dep, p, k)
  /\ Place(k) = [parent |-> p, select |-> hash[k][dep[p]], node |-> c]
  /\ c = 0 \/ ~nodes[c].valid \/ nodes[c].key = k
  /\ \A m \in Valid : nodes[m].key = k => c = m

LEMMA PlaceIs ==
  ASSUME TrieTypeOK, OnceEach, NEW par, NEW dep, Tree(par, dep), NEW k \in Keys
  PROVE  \E p, c : PlaceAt(dep, k, p, c)
<1> DEFINE Loop(down) == [p \in 0 .. Len(nodes) |-> [d \in Nat |->
             LET c == Child(p, Select(k, d))
             IN  IF c = 0 \/ ~nodes[c].valid \/ Holds(c, k)
                 THEN [parent |-> p, select |-> Select(k, d), node |-> c] ELSE down[c][d + 1]]]
<1>1. PICK N \in Nat : N = Len(nodes) BY NodesAre
<1>2. hash[k] \in [Nat -> 0 .. 3] /\ \A d \in Nat : hash[k][d] \in 0 .. 3
  <2>1. hash[k] \in [Nat -> 0 .. 3] BY DEF TrieTypeOK
  <2>2. QED BY <2>1
<1>3. PICK nx : nx = [p \in 0 .. N |-> [d \in Nat |-> Child(p, hash[k][d])]] OBVIOUS
<1>4. PICK val : val = [p \in 0 .. N |-> [d \in Nat |->
                   [parent |-> p, select |-> hash[k][d], node |-> Child(p, hash[k][d])]]]
  OBVIOUS
<1>5. PICK stop : stop = [p \in 0 .. N |-> [d \in Nat |->
                    nx[p][d] = 0 \/ ~nodes[nx[p][d]].valid \/ nodes[nx[p][d]].key = k]]
  OBVIOUS
<1> DEFINE S == [parent : 0 .. N, select : 0 .. 3, node : 0 .. N]
<1>6. nx \in [0 .. N -> [Nat -> 0 .. N]]
  <2>1. \A p \in 0 .. N : \A d \in Nat : Child(p, hash[k][d]) \in 0 .. N BY <1>1, <1>2, NodesAre
  <2>2. QED BY <1>3, <2>1
<1>7. val \in [0 .. N -> [Nat -> S]]
  <2>1. ASSUME NEW p \in 0 .. N, NEW d \in Nat
        PROVE  [parent |-> p, select |-> hash[k][d], node |-> Child(p, hash[k][d])] \in S
    <3>1. Child(p, hash[k][d]) \in 0 .. N /\ hash[k][d] \in 0 .. 3 BY <1>1, <1>2, NodesAre
    <3>2. QED BY <3>1
  <2> HIDE DEF S
  <2>2. QED BY <1>4, <2>1
<1>8. stop \in [0 .. N -> [Nat -> BOOLEAN]] BY <1>5
<1>9. ASSUME NEW p \in 0 .. N, NEW d \in Nat PROVE stop[p][d] \/ nx[p][d] > p
  <2>1. PICK c : c = Child(p, hash[k][d]) OBVIOUS
  <2>2. c = nx[p][d] BY <1>3, <2>1
  <2>3. c = 0 \/ c \in p + 1 .. N BY <1>1, <1>2, <2>1, Zenon DEF TrieTypeOK
  <2>4. c = 0 \/ c > p BY <2>3
  <2>5. c = 0 => stop[p][d] BY <1>5, <2>2
  <2>6. QED BY <2>2, <2>4, <2>5
<1>10. PICK f \in [0 .. N -> [Nat -> S]] : Descends(N, nx, stop, val, f)
  <2> HIDE DEF S
  <2>1. QED BY <1>6, <1>7, <1>8, <1>9, DescentSolved
<1> HIDE DEF S
<1>11. ASSUME NEW p \in 0 .. N, NEW d \in Nat
       PROVE  f[p][d] = LET c == Child(p, Select(k, d))
                        IN  IF c = 0 \/ ~nodes[c].valid \/ Holds(c, k)
                            THEN [parent |-> p, select |-> Select(k, d), node |-> c] ELSE f[c][d + 1]
  <2>1. f[p][d] = IF stop[p][d] THEN val[p][d] ELSE f[nx[p][d]][d + 1] BY <1>10 DEF Descends
  <2>2. nx[p][d] = Child(p, hash[k][d]) BY <1>3
  <2>3. stop[p][d] = (nx[p][d] = 0 \/ ~nodes[nx[p][d]].valid \/ nodes[nx[p][d]].key = k) BY <1>5
  <2>4. val[p][d] = [parent |-> p, select |-> hash[k][d], node |-> Child(p, hash[k][d])] BY <1>4
  <2>5. QED BY <2>1, <2>2, <2>3, <2>4, Zenon DEF Select, Holds
<1>12. f = Loop(f)
  <2>1. f = [p \in 0 .. N |-> [d \in Nat |-> f[p][d]]]
    <3>1. \A p \in 0 .. N : f[p] = [d \in Nat |-> f[p][d]]
      <4>1. \A p \in 0 .. N : f[p] \in [Nat -> S] OBVIOUS
      <4>2. QED BY <4>1
    <3>2. f = [p \in 0 .. N |-> f[p]] OBVIOUS
    <3>3. QED BY <3>1, <3>2, Zenon
  <2>2. QED BY <1>1, <1>11, <2>1, Zenon
<1>13. PICK g : g = CHOOSE down : down = Loop(down) OBVIOUS
<1>14. g = Loop(g) BY <1>12, <1>13, Zenon
<1>15. Place(k) = g[0][0] BY <1>13, Zenon DEF Place
<1>16. \A p \in 0 .. N : \A d \in Nat :
         g[p][d] = LET c == Child(p, Select(k, d))
                   IN  IF c = 0 \/ ~nodes[c].valid \/ Holds(c, k)
                       THEN [parent |-> p, select |-> Select(k, d), node |-> c] ELSE g[c][d + 1]
  <2>1. \A p \in 0 .. N : g[p] = [d \in Nat |->
             LET c == Child(p, Select(k, d))
             IN  IF c = 0 \/ ~nodes[c].valid \/ Holds(c, k)
                 THEN [parent |-> p, select |-> Select(k, d), node |-> c] ELSE g[c][d + 1]]
    BY <1>1, <1>14, Zenon
  <2>2. ASSUME NEW p \in 0 .. N, NEW d \in Nat
        PROVE  g[p][d] = LET c == Child(p, Select(k, d))
                         IN  IF c = 0 \/ ~nodes[c].valid \/ Holds(c, k)
                             THEN [parent |-> p, select |-> Select(k, d), node |-> c]
                             ELSE g[c][d + 1]
    <3>1. g[p] = [e \in Nat |->
             LET c == Child(p, Select(k, e))
             IN  IF c = 0 \/ ~nodes[c].valid \/ Holds(c, k)
                 THEN [parent |-> p, select |-> Select(k, e), node |-> c] ELSE g[c][e + 1]]
      BY <2>1
    <3>2. QED BY <3>1
  <2>3. QED BY <2>2
<1> HIDE DEF Loop
<1>17. /\ Valid \subseteq 1 .. N /\ Parents \subseteq 0 .. N /\ Valid \subseteq Parents /\ 0 \in Parents
       /\ \A p \in Parents : dep[p] \in Nat
       /\ dep[0] = 0
  <2>1. Valid \subseteq 1 .. N /\ Parents \subseteq 0 .. N BY <1>1 DEF Valid, Parents
  <2>2. dep \in [Nat -> Nat] /\ dep[0] = 0 BY DEF Tree
  <2>3. QED BY <2>1, <2>2 DEF Parents
<1> DEFINE Stops(p, c) == /\ p \in Parents /\ c \in 0 .. N /\ c = Child(p, hash[k][dep[p]])
                          /\ Leads(dep, p, k)
                          /\ c = 0 \/ ~nodes[c].valid \/ nodes[c].key = k
           Rec(p, c) == [parent |-> p, select |-> hash[k][dep[p]], node |-> c]
<1>18. ASSUME NEW p \in Parents, NEW c, c = Child(p, hash[k][dep[p]])
       PROVE  /\ c \in 0 .. N
              /\ c = 0 \/ ~nodes[c].valid \/ nodes[c].key = k => g[p][dep[p]] = Rec(p, c)
              /\ ~(c = 0 \/ ~nodes[c].valid \/ nodes[c].key = k) => g[p][dep[p]] = g[c][dep[p] + 1]
  <2>1. p \in 0 .. N /\ dep[p] \in Nat BY <1>17
  <2>2. c \in 0 .. N BY <1>1, <1>2, <1>18, <2>1, NodesAre
  <2>3. QED BY <1>16, <1>18, <2>1, <2>2, Zenon DEF Select, Holds
<1>19. ASSUME NEW p \in Parents, NEW c, c = Child(p, hash[k][dep[p]]), Leads(dep, p, k),
              ~(c = 0 \/ ~nodes[c].valid \/ nodes[c].key = k)
       PROVE  c \in Valid /\ c > p /\ g[p][dep[p]] = g[c][dep[c]] /\ Leads(dep, c, k)
  <2>1. c \in 0 .. N /\ g[p][dep[p]] = g[c][dep[p] + 1] BY <1>18, <1>19
  <2>2. c \in Valid BY <1>1, <1>19, <2>1 DEF Valid
  <2>3. p \in 0 .. N /\ hash[k][dep[p]] \in 0 .. 3 BY <1>2, <1>17
  <2>4. dep[c] = dep[p] + 1 /\ Leads(dep, c, k)
    <3>1. NextOn(dep, p, c, k) BY <1>19, <2>3 DEF NextOn
    <3>2. OneDeeper(dep, p, c, k) BY <2>2, <3>1, Onwards, Zenon
    <3>3. QED BY <3>2 DEF OneDeeper
  <2>5. c = 0 \/ c \in p + 1 .. N BY <1>1, <1>19, <2>3, Zenon DEF TrieTypeOK
  <2>6. c > p BY <1>19, <2>3, <2>5
  <2>7. QED BY <2>1, <2>2, <2>4, <2>6
<1>20. \E p, c : Stops(p, c) /\ g[0][0] = Rec(p, c)
  <2> HIDE DEF Stops, Rec
  <2> DEFINE Right(q) == \E p, c : Stops(p, c) /\ g[q][dep[q]] = Rec(p, c)
  <2>1. PICK G : G = {q \in 0 .. N : q \in Parents /\ Leads(dep, q, k) => Right(q)} OBVIOUS
  <2>2. ASSUME NEW q \in 0 .. N, \A r \in 0 .. N : r > q => r \in G PROVE q \in G
    <3>1. SUFFICES ASSUME q \in Parents, Leads(dep, q, k) PROVE Right(q) BY <2>1
    <3>2. PICK c : c = Child(q, hash[k][dep[q]]) OBVIOUS
    <3>3. CASE c = 0 \/ ~nodes[c].valid \/ nodes[c].key = k
      <4>1. c \in 0 .. N /\ g[q][dep[q]] = Rec(q, c) BY <1>18, <3>1, <3>2, <3>3
      <4>2. Stops(q, c) BY <3>1, <3>2, <3>3, <4>1 DEF Stops
      <4>3. QED BY <4>1, <4>2
    <3>4. CASE ~(c = 0 \/ ~nodes[c].valid \/ nodes[c].key = k)
      <4>1. c \in Valid /\ c > q /\ g[q][dep[q]] = g[c][dep[c]] /\ Leads(dep, c, k)
        BY <1>19, <3>1, <3>2, <3>4
      <4>2. c \in 0 .. N /\ c \in Parents BY <1>17, <4>1
      <4>3. Right(c) BY <2>1, <2>2, <4>1, <4>2
      <4>4. QED BY <4>1, <4>3
    <3>5. QED BY <3>3, <3>4
  <2>3. \A q \in 0 .. N : q \in G BY <2>2, DownFrom
  <2>4. 0 \in 0 .. N /\ Leads(dep, 0, k) BY <1>17 DEF Leads
  <2>5. Right(0) BY <1>17, <2>1, <2>3, <2>4
  <2>6. QED BY <1>17, <2>5
<1>21. PICK p, c : Stops(p, c) /\ g[0][0] = Rec(p, c) BY <1>20
<1>22. ASSUME NEW m \in Valid, nodes[m].key = k PROVE c = m
  <2>1. PICK F : F = [q \in 0 .. N |-> g[q][dep[q]]] OBVIOUS
  <2>2. ASSUME NEW q \in Parents, NEW r \in Valid, Leads(dep, q, k),
               Child(q, hash[k][dep[q]]) = r, r # m
        PROVE  F[q] = F[r]
    <3>1. nodes[r].key # k /\ r # 0 /\ nodes[r].valid BY <1>17, <1>22, <2>2 DEF OnceEach, Valid
    <3>2. g[q][dep[q]] = g[r][dep[r]] BY <1>19, <2>2, <3>1
    <3>3. q \in 0 .. N /\ r \in 0 .. N BY <1>17
    <3>4. QED BY <2>1, <3>2, <3>3
  <2>3. PICK q \in Parents : F[0] = F[q] /\ Leads(dep, q, k) /\ Child(q, hash[k][dep[q]]) = m
    <3>1. Steady(dep, m, k, F) BY <2>2 DEF Steady
    <3>2. Reached(dep, par[m], m, k, F) BY <1>22, <3>1, Upwards, Zenon
    <3>3. QED BY <3>2 DEF Reached
  <2>4. g[q][dep[q]] = Rec(q, m) BY <1>18, <1>22, <2>3
  <2>5. 0 \in 0 .. N /\ q \in 0 .. N BY <1>17
  <2>6. g[0][0] = Rec(q, m) BY <1>17, <2>1, <2>3, <2>4, <2>5
  <2>7. Rec(q, m).node = m /\ Rec(p, c).node = c OBVIOUS
  <2>8. QED BY <1>21, <2>6, <2>7, Zenon
<1>23. PlaceAt(dep, k, p, c) BY <1>1, <1>15, <1>21, <1>22 DEF PlaceAt
<1>24. QED BY <1>23

\* Where a key is found.
LEMMA TrieLookupIs ==
  ASSUME TrieTypeOK, OnceEach, NEW par, NEW dep, Tree(par, dep), NEW k \in Keys
  PROVE  /\ Lookup(k) # 0 => Lookup(k) \in Valid /\ nodes[Lookup(k)].key = k
         /\ \A m \in Valid : nodes[m].key = k => Lookup(k) = m
<1> DEFINE Loop(down) == [p \in 0 .. Len(nodes) |-> [d \in Nat |->
             LET c == Child(p, Select(k, d))
             IN  IF c = 0 \/ (nodes[c].valid /\ Holds(c, k)) THEN c ELSE down[c][d + 1]]]
<1>1. PICK N \in Nat : N = Len(nodes) BY NodesAre
<1>2. hash[k] \in [Nat -> 0 .. 3] /\ \A d \in Nat : hash[k][d] \in 0 .. 3
  <2>1. hash[k] \in [Nat -> 0 .. 3] BY DEF TrieTypeOK
  <2>2. QED BY <2>1
<1>3. PICK nx : nx = [p \in 0 .. N |-> [d \in Nat |-> Child(p, hash[k][d])]] OBVIOUS
<1>4. PICK stop : stop = [p \in 0 .. N |-> [d \in Nat |->
                    nx[p][d] = 0 \/ (nodes[nx[p][d]].valid /\ nodes[nx[p][d]].key = k)]]
  OBVIOUS
<1>5. nx \in [0 .. N -> [Nat -> 0 .. N]]
  <2>1. \A p \in 0 .. N : \A d \in Nat : Child(p, hash[k][d]) \in 0 .. N BY <1>1, <1>2, NodesAre
  <2>2. QED BY <1>3, <2>1
<1>6. stop \in [0 .. N -> [Nat -> BOOLEAN]] BY <1>4
<1>7. ASSUME NEW p \in 0 .. N, NEW d \in Nat PROVE stop[p][d] \/ nx[p][d] > p
  <2>1. PICK c : c = Child(p, hash[k][d]) OBVIOUS
  <2>2. c = nx[p][d] BY <1>3, <2>1
  <2>3. c = 0 \/ c \in p + 1 .. N BY <1>1, <1>2, <2>1, Zenon DEF TrieTypeOK
  <2>4. c = 0 \/ c > p BY <2>3
  <2>5. c = 0 => stop[p][d] BY <1>4, <2>2
  <2>6. QED BY <2>2, <2>4, <2>5
<1>8. PICK f \in [0 .. N -> [Nat -> 0 .. N]] : Descends(N, nx, stop, nx, f)
  BY <1>5, <1>6, <1>7, DescentSolved
<1>9. ASSUME NEW p \in 0 .. N, NEW d \in Nat
      PROVE  f[p][d] = LET c == Child(p, Select(k, d))
                       IN  IF c = 0 \/ (nodes[c].valid /\ Holds(c, k)) THEN c ELSE f[c][d + 1]
  <2>1. f[p][d] = IF stop[p][d] THEN nx[p][d] ELSE f[nx[p][d]][d + 1] BY <1>8 DEF Descends
  <2>2. nx[p][d] = Child(p, hash[k][d]) BY <1>3
  <2>3. stop[p][d] = (nx[p][d] = 0 \/ (nodes[nx[p][d]].valid /\ nodes[nx[p][d]].key = k)) BY <1>4
  <2>4. QED BY <2>1, <2>2, <2>3, Zenon DEF Select, Holds
<1>10. f = Loop(f)
  <2>1. f = [p \in 0 .. N |-> [d \in Nat |-> f[p][d]]]
    <3>1. \A p \in 0 .. N : f[p] = [d \in Nat |-> f[p][d]]
      <4>1. \A p \in 0 .. N : f[p] \in [Nat -> 0 .. N] OBVIOUS
      <4>2. QED BY <4>1
    <3>2. f = [p \in 0 .. N |-> f[p]] OBVIOUS
    <3>3. QED BY <3>1, <3>2, Zenon
  <2>2. QED BY <1>1, <1>9, <2>1, Zenon
<1>11. PICK g : g = CHOOSE down : down = Loop(down) OBVIOUS
<1>12. g = Loop(g) BY <1>10, <1>11, Zenon
<1>13. Lookup(k) = g[0][0] BY <1>11, Zenon DEF Lookup
<1>14. ASSUME NEW p \in 0 .. N, NEW d \in Nat
       PROVE  g[p][d] = LET c == Child(p, Select(k, d))
                        IN  IF c = 0 \/ (nodes[c].valid /\ Holds(c, k)) THEN c ELSE g[c][d + 1]
  <2>1. g[p] = [e \in Nat |->
          LET c == Child(p, Select(k, e))
          IN  IF c = 0 \/ (nodes[c].valid /\ Holds(c, k)) THEN c ELSE g[c][e + 1]]
    BY <1>1, <1>12
  <2>2. QED BY <2>1
<1> HIDE DEF Loop
<1>15. /\ Valid \subseteq 1 .. N /\ Parents \subseteq 0 .. N /\ Valid \subseteq Parents
       /\ \A p \in Parents : dep[p] \in Nat
       /\ dep[0] = 0
  <2>1. Valid \subseteq 1 .. N /\ Parents \subseteq 0 .. N BY <1>1 DEF Valid, Parents
  <2>2. dep \in [Nat -> Nat] /\ dep[0] = 0 BY DEF Tree
  <2>3. ASSUME NEW p \in Parents PROVE dep[p] \in Nat
    <3>1. p \in Nat BY <2>1
    <3>2. QED BY <2>2, <3>1
  <2>4. Valid \subseteq Parents BY DEF Parents
  <2>5. QED BY <2>1, <2>2, <2>3, <2>4, Zenon
<1> DEFINE Halts(c) == c = 0 \/ (nodes[c].valid /\ nodes[c].key = k)
<1>16. ASSUME NEW p \in 0 .. N, NEW d \in Nat, NEW c, c = Child(p, hash[k][d])
       PROVE  /\ c \in 0 .. N /\ (c # 0 => c > p)
              /\ Halts(c) => g[p][d] = c
              /\ ~Halts(c) => g[p][d] = g[c][d + 1]
  <2>1. c \in 0 .. N BY <1>1, <1>2, <1>16, NodesAre
  <2>2. c = 0 \/ c \in p + 1 .. N BY <1>1, <1>2, <1>16, Zenon DEF TrieTypeOK
  <2>3. c # 0 => c > p BY <2>1, <2>2
  <2>4. QED BY <1>14, <1>16, <2>1, <2>3, Zenon DEF Select, Holds
<1> HIDE DEF Halts
<1>17. g[0][0] # 0 => g[0][0] \in Valid /\ nodes[g[0][0]].key = k
  <2> DEFINE Right(q) == \A d \in Nat : g[q][d] # 0 => g[q][d] \in Valid /\ nodes[g[q][d]].key = k
  <2>1. PICK G : G = {q \in 0 .. N : Right(q)} OBVIOUS
  <2>2. ASSUME NEW q \in 0 .. N, \A r \in 0 .. N : r > q => r \in G PROVE q \in G
    <3>1. ASSUME NEW d \in Nat, g[q][d] # 0 PROVE g[q][d] \in Valid /\ nodes[g[q][d]].key = k
      <4>1. PICK c : c = Child(q, hash[k][d]) OBVIOUS
      <4>2. c \in 0 .. N /\ (c # 0 => c > q) BY <1>16, <4>1
      <4>3. CASE Halts(c)
        <5>1. g[q][d] = c BY <1>16, <4>1, <4>3
        <5>2. c \in 1 .. N BY <3>1, <4>2, <5>1
        <5>3. nodes[c].valid /\ nodes[c].key = k BY <4>3, <5>2 DEF Halts
        <5>4. QED BY <1>1, <5>1, <5>2, <5>3 DEF Valid
      <4>4. CASE ~Halts(c)
        <5>1. g[q][d] = g[c][d + 1] BY <1>16, <4>1, <4>4, Zenon
        <5>2. c # 0 BY <4>4 DEF Halts
        <5>3. Right(c) BY <2>1, <2>2, <4>2, <5>2
        <5>4. d + 1 \in Nat OBVIOUS
        <5>5. QED BY <3>1, <5>1, <5>3, <5>4, Zenon
      <4>5. QED BY <4>3, <4>4
    <3>2. QED BY <2>1, <3>1
  <2>3. \A q \in 0 .. N : q \in G BY <2>2, DownFrom
  <2>4. Right(0)
    <3>1. 0 \in 0 .. N OBVIOUS
    <3>2. QED BY <2>1, <2>3, <3>1
  <2>5. QED BY <2>4
<1>18. ASSUME NEW m \in Valid, nodes[m].key = k PROVE g[0][0] = m
  <2>1. PICK F : F = [q \in 0 .. N |-> g[q][dep[q]]] OBVIOUS
  <2>2. ASSUME NEW q \in Parents, NEW r \in Valid, Leads(dep, q, k),
               Child(q, hash[k][dep[q]]) = r, r # m
        PROVE  F[q] = F[r]
    <3>1. ~Halts(r)
      <4>1. nodes[r].key # k BY <1>18, <2>2, Zenon DEF OnceEach
      <4>2. r # 0 BY <1>15
      <4>3. QED BY <4>1, <4>2, Zenon DEF Halts
    <3>2. q \in 0 .. N /\ dep[q] \in Nat /\ hash[k][dep[q]] \in 0 .. 3 /\ r \in 0 .. N
      BY <1>2, <1>15
    <3>3. g[q][dep[q]] = g[r][dep[q] + 1] BY <1>16, <2>2, <3>1, <3>2, Zenon
    <3>4. dep[r] = dep[q] + 1
      <4>1. NextOn(dep, q, r, k) BY <2>2, <3>2, Zenon DEF NextOn
      <4>2. OneDeeper(dep, q, r, k) BY <4>1, Onwards, Zenon
      <4>3. QED BY <4>2 DEF OneDeeper
    <3>5. QED BY <2>1, <3>2, <3>3, <3>4
  <2>3. PICK q \in Parents : F[0] = F[q] /\ Leads(dep, q, k) /\ Child(q, hash[k][dep[q]]) = m
    <3>1. Steady(dep, m, k, F) BY <2>2 DEF Steady
    <3>2. Reached(dep, par[m], m, k, F) BY <1>18, <3>1, Upwards, Zenon
    <3>3. QED BY <3>2 DEF Reached
  <2>4. 0 \in 0 .. N /\ q \in 0 .. N /\ dep[q] \in Nat BY <1>15
  <2>5. Halts(m)
    <3>1. nodes[m].valid BY DEF Valid
    <3>2. QED BY <1>18, <3>1, Zenon DEF Halts
  <2>6. g[q][dep[q]] = m BY <1>16, <2>3, <2>4, <2>5, Zenon
  <2>7. QED BY <1>15, <2>1, <2>3, <2>4, <2>6
<1>19. QED BY <1>13, <1>17, <1>18

-----------------------------------------------------------------------------
(* The list.                                                                *)

\* j is the first valid node behind i, 0 when there is none.
FirstValid(i, j) ==
  /\ j # 0 => j \in Valid /\ j > i
  /\ \A m \in Valid : m > i => j # 0 /\ j <= m

Links ==
  /\ FirstValid(0, head)
  /\ \A n \in Valid : FirstValid(n, nodes[n].next)

\* s lists the valid nodes behind i.
Lists(s, i) ==
  /\ Increasing(Len(s), s)
  /\ \A a \in 1 .. Len(s) : s[a] \in Valid /\ s[a] > i
  /\ \A m \in Valid : m > i => \E a \in 1 .. Len(s) : s[a] = m

\* The list has all valid nodes, in the order in which they came.
LEMMA ListedIs ==
  ASSUME TrieTypeOK, Links
  PROVE  Listed \in Seq(Nat) /\ Lists(Listed, 0)
<1> DEFINE Loop(from) == [n \in 0 .. Len(nodes) |->
             IF n = 0 THEN <<>> ELSE <<n>> \o from[nodes[n].next]]
<1>1. PICK N \in Nat : N = Len(nodes) BY NodesAre
<1>2. PICK nx : nx = [n \in 1 .. N |-> nodes[n].next] OBVIOUS
<1>3. nx \in [1 .. N -> 0 .. N] BY <1>1, <1>2, NodesAre
<1>4. ASSUME NEW n \in 1 .. N PROVE nx[n] = 0 \/ nx[n] > n
  <2>1. PICK y : y = nodes[n].next OBVIOUS
  <2>2. y = 0 \/ y \in n + 1 .. N BY <1>1, <2>1 DEF TrieTypeOK
  <2>3. y = 0 \/ y > n BY <2>2
  <2>4. QED BY <1>2, <2>1, <2>3
<1>5. PICK S : S = Seq(Nat) OBVIOUS
<1>6. PICK step : step = [n \in 1 .. N |-> [s \in S |-> <<n>> \o s]] OBVIOUS
<1>7. step \in [1 .. N -> [S -> S]] /\ <<>> \in S
  <2>1. ASSUME NEW n \in 1 .. N, NEW s \in S PROVE <<n>> \o s \in S
    <3>1. <<n>> \in Seq(Nat) /\ s \in Seq(Nat) BY <1>5
    <3>2. QED BY <1>5, <3>1
  <2>2. QED BY <1>5, <1>6, <2>1
<1>8. PICK f \in [0 .. N -> S] : f[0] = <<>> /\ \A n \in 1 .. N : f[n] = step[n][f[nx[n]]]
  <2>1. PICK e \in S : e = <<>> BY <1>7
  <2>2. \A n \in 1 .. N : nx[n] = 0 \/ nx[n] > n BY <1>4
  <2>3. \E h \in [0 .. N -> S] : Follows(N, e, nx, step, h) BY <1>3, <1>7, <2>2, LinksSolved, Zenon
  <2>4. QED BY <2>1, <2>3, Zenon DEF Follows
<1>9. f = Loop(f)
  <2>1. f = [n \in 0 .. N |-> f[n]] OBVIOUS
  <2>2. ASSUME NEW n \in 0 .. N
        PROVE  f[n] = IF n = 0 THEN <<>> ELSE <<n>> \o f[nodes[n].next]
    <3>1. CASE n = 0 BY <1>8, <3>1
    <3>2. CASE n # 0
      <4>1. n \in 1 .. N BY <3>2
      <4>2. f[n] = step[n][f[nx[n]]] /\ f[nx[n]] \in S /\ nx[n] = nodes[n].next
        BY <1>2, <1>3, <1>8, <4>1
      <4>3. QED BY <1>6, <3>2, <4>1, <4>2
    <3>3. QED BY <3>1, <3>2
  <2>3. QED BY <1>1, <2>1, <2>2, Zenon
<1>10. PICK g : g = CHOOSE from : from = Loop(from) OBVIOUS
<1>11. g = Loop(g) BY <1>9, <1>10, Zenon
<1>12. Listed = g[head] BY <1>10, Zenon DEF Listed
<1>13. \A n \in 0 .. N : g[n] = IF n = 0 THEN <<>> ELSE <<n>> \o g[nodes[n].next]
  BY <1>1, <1>11, Zenon
<1> HIDE DEF Loop
<1>14. Valid \subseteq 1 .. N BY <1>1 DEF Valid
<1> DEFINE Right(j) == g[j] \in Seq(Nat) /\ \A i \in 0 .. N : FirstValid(i, j) => Lists(g[j], i)
<1>15. Right(0)
  <2>1. g[0] = <<>>
    <3>1. 0 \in 0 .. N BY <1>1
    <3>2. g[0] = IF 0 = 0 THEN <<>> ELSE <<0>> \o g[nodes[0].next] BY <1>13, <3>1, Zenon
    <3>3. QED BY <3>2, Zenon
  <2>2. g[0] \in Seq(Nat) /\ Len(g[0]) = 0 /\ (1 .. 0) = {} BY <2>1
  <2>3. \A i \in 0 .. N : FirstValid(i, 0) => Lists(g[0], i)
    BY <2>2 DEF FirstValid, Lists, Increasing
  <2>4. QED BY <2>2, <2>3
<1>16. ASSUME NEW j \in Valid, Right(nodes[j].next) PROVE Right(j)
  <2>1. PICK s \in Seq(Nat) : s = g[nodes[j].next] BY <1>16
  <2>2. j \in 0 .. N /\ j # 0 /\ j \in Nat BY <1>14
  <2>3. PICK t \in Seq(Nat) : t = g[j] /\ t = <<j>> \o s
    <3>1. g[j] = <<j>> \o s BY <1>13, <2>1, <2>2
    <3>2. <<j>> \o s \in Seq(Nat) BY <2>2
    <3>3. QED BY <3>1, <3>2
  <2>4. PICK l \in Nat : l = Len(s) OBVIOUS
  <2>5. /\ Len(t) = l + 1 /\ t[1] = j
        /\ \A a \in 1 .. l : t[a + 1] = s[a] /\ s[a] \in Nat
    BY <2>2, <2>3, <2>4
  <2>6. Lists(s, j) BY <1>16, <2>1, <2>2 DEF Links
  <2>7. /\ \A a, b \in 1 .. l : a < b => s[a] < s[b]
        /\ \A a \in 1 .. l : s[a] \in Valid /\ s[a] > j
        /\ \A m \in Valid : m > j => \E a \in 1 .. l : s[a] = m
    BY <2>4, <2>6 DEF Lists, Increasing
  <2>8. ASSUME NEW a \in 1 .. l + 1, a # 1 PROVE a - 1 \in 1 .. l /\ t[a] = s[a - 1]
    <3>1. a - 1 \in 1 .. l /\ (a - 1) + 1 = a BY <2>8
    <3>2. QED BY <2>5, <3>1
  <2>9. ASSUME NEW a \in 1 .. l + 1, NEW b \in 1 .. l + 1, a < b PROVE t[a] < t[b]
    <3>1. b # 1 BY <2>9
    <3>2. CASE a = 1 BY <2>5, <2>7, <2>8, <3>1, <3>2
    <3>3. CASE a # 1
      <4>1. a - 1 \in 1 .. l /\ b - 1 \in 1 .. l /\ a - 1 < b - 1 BY <2>8, <2>9, <3>1, <3>3
      <4>2. QED BY <2>7, <2>8, <3>1, <3>3, <4>1
    <3>4. QED BY <3>2, <3>3
  <2>10. ASSUME NEW i \in 0 .. N, FirstValid(i, j) PROVE Lists(t, i)
    <3>1. j > i /\ \A m \in Valid : m > i => j <= m BY <2>2, <2>10 DEF FirstValid
    <3>2. ASSUME NEW a \in 1 .. l + 1 PROVE t[a] \in Valid /\ t[a] > i
      <4>1. CASE a = 1 BY <2>5, <3>1, <4>1
      <4>2. CASE a # 1
        <5>1. t[a] \in Valid /\ t[a] > j /\ t[a] \in Nat BY <2>5, <2>7, <2>8, <4>2
        <5>2. QED BY <2>2, <3>1, <5>1
      <4>3. QED BY <4>1, <4>2
    <3>3. ASSUME NEW m \in Valid, m > i PROVE \E a \in 1 .. l + 1 : t[a] = m
      <4>1. CASE m = j
        <5>1. 1 \in 1 .. l + 1 OBVIOUS
        <5>2. QED BY <2>5, <4>1, <5>1
      <4>2. CASE m # j
        <5>1. m \in Nat /\ j <= m BY <1>14, <3>1, <3>3
        <5>2. m > j BY <2>2, <4>2, <5>1
        <5>3. PICK a \in 1 .. l : s[a] = m BY <2>7, <5>2
        <5>4. a + 1 \in 1 .. l + 1 /\ t[a + 1] = m BY <2>5, <5>3
        <5>5. QED BY <5>4
      <4>3. QED BY <4>1, <4>2
    <3>4. QED BY <2>5, <2>9, <3>2, <3>3 DEF Lists, Increasing
  <2>11. QED BY <2>3, <2>10
<1>17. ASSUME NEW j, j = 0 \/ j \in Valid PROVE Right(j)
  <2> HIDE DEF Right
  <2>1. PICK G : G = {q \in 0 .. N : q \in Valid => Right(q)} OBVIOUS
  <2>2. ASSUME NEW q \in 0 .. N, \A r \in 0 .. N : r > q => r \in G PROVE q \in G
    <3>1. SUFFICES ASSUME q \in Valid PROVE Right(q) BY <2>1
    <3>2. PICK r : r = nodes[q].next OBVIOUS
    <3>3. r # 0 => r \in Valid /\ r > q BY <3>1, <3>2 DEF Links, FirstValid
    <3>4. Right(r)
      <4>1. CASE r = 0 BY <1>15, <4>1
      <4>2. CASE r # 0
        <5>1. r \in Valid /\ r > q BY <3>3, <4>2, Zenon
        <5>2. r \in 0 .. N BY <1>14, <5>1
        <5>3. QED BY <2>1, <2>2, <5>1, <5>2
      <4>3. QED BY <4>1, <4>2
    <3>5. QED BY <1>16, <3>1, <3>2, <3>4
  <2>3. \A q \in 0 .. N : q \in G BY <2>2, DownFrom
  <2>4. CASE j = 0 BY <1>15, <2>4
  <2>5. CASE j \in Valid
    <3>1. j \in 0 .. N BY <1>14, <2>5
    <3>2. QED BY <2>1, <2>3, <2>5, <3>1
  <2>6. QED BY <1>17, <2>4, <2>5
<1>18. head = 0 \/ head \in Valid BY DEF Links, FirstValid
<1>19. Right(head) BY <1>17, <1>18
<1>20. 0 \in 0 .. N /\ FirstValid(0, head) BY DEF Links
<1>21. QED BY <1>12, <1>19, <1>20

LEMMA ListedOnly ==
  ASSUME TrieTypeOK, Links, NEW s \in Seq(Nat), Lists(s, 0) PROVE Listed = s
<1>1. Listed \in Seq(Nat) /\ Lists(Listed, 0) BY ListedIs
<1>2. PICK t \in Seq(Nat) : t = Listed /\ Lists(t, 0) BY <1>1
<1>3. PICK n \in Nat : n = Len(s) OBVIOUS
<1>4. PICK m \in Nat : m = Len(t) OBVIOUS
<1>5. s \in [1 .. n -> Nat] /\ t \in [1 .. m -> Nat] BY <1>3, <1>4
<1>6. Valid \subseteq Nat BY NodesAre DEF Valid
<1>7. /\ Increasing(n, s) /\ \A a \in 1 .. n : s[a] \in Valid /\ s[a] > 0
      /\ \A v \in Valid : v > 0 => \E a \in 1 .. n : s[a] = v
  BY <1>3 DEF Lists
<1>8. /\ Increasing(m, t) /\ \A a \in 1 .. m : t[a] \in Valid /\ t[a] > 0
      /\ \A v \in Valid : v > 0 => \E a \in 1 .. m : t[a] = v
  BY <1>2, <1>4 DEF Lists
<1>9. \A a \in 1 .. n : \E b \in 1 .. m : t[b] = s[a] BY <1>7, <1>8
<1>10. \A b \in 1 .. m : \E a \in 1 .. n : s[a] = t[b] BY <1>7, <1>8
<1>11. s = t BY <1>5, <1>7, <1>8, <1>9, <1>10, SameMembers
<1>12. QED BY <1>2, <1>11

LEMMA ListedThen ==
  \A s \in Seq(Nat) : (TrieTypeOK /\ Links /\ Lists(s, 0))' => Listed' = s
<1>1. \A s \in Seq(Nat) : TrieTypeOK /\ Links /\ Lists(s, 0) => Listed = s BY ListedOnly
<1>2. (\A s \in Seq(Nat) : TrieTypeOK /\ Links /\ Lists(s, 0) => Listed = s)' BY <1>1, PTL
<1>3. QED BY <1>2

\* The list that the tail ends, and its pairs.
TailIsLast ==
  /\ tail # 0 => tail \in Valid
  /\ \A m \in Valid : tail # 0 /\ m <= tail

TrieIInv ==
  /\ TrieTypeOK /\ OnceEach /\ Links /\ TailIsLast
  /\ inserted = Len(Listed)
  /\ \E par, dep : Tree(par, dep)

Stored == Values \cup {Zero}

LEMMA ListIs ==
  ASSUME TrieTypeOK, Links
  PROVE  \E s \in Seq(Nat) :
           /\ s = Listed /\ Lists(s, 0) /\ Len(s) \in Nat /\ DOMAIN s = 1 .. Len(s)
           /\ \A a \in 1 .. Len(s) : s[a] \in Valid
           /\ \A m \in Valid : \E a \in 1 .. Len(s) : s[a] = m
           /\ \A a, b \in 1 .. Len(s) : a < b => s[a] < s[b]
           /\ \A a, b \in 1 .. Len(s) : s[a] = s[b] => a = b
           /\ Pairs = [i \in 1 .. Len(s) |-> <<nodes[s[i]].key, nodes[s[i]].value>>]
           /\ Pairs \in Seq(Keys \X Stored) /\ Len(Pairs) = Len(s)
<1>1. Listed \in Seq(Nat) /\ Lists(Listed, 0) BY ListedIs
<1>2. PICK s \in Seq(Nat) : s = Listed /\ Lists(s, 0) BY <1>1
<1>3. Len(s) \in Nat /\ DOMAIN s = 1 .. Len(s) /\ \A a \in 1 .. Len(s) : s[a] \in Nat OBVIOUS
<1>4. \A m \in Valid : m > 0 BY NodesAre DEF Valid
<1>5. /\ \A a \in 1 .. Len(s) : s[a] \in Valid
      /\ \A m \in Valid : \E a \in 1 .. Len(s) : s[a] = m
      /\ \A a, b \in 1 .. Len(s) : a < b => s[a] < s[b]
  BY <1>2, <1>4 DEF Lists, Increasing
<1>6. ASSUME NEW a \in 1 .. Len(s), NEW b \in 1 .. Len(s), s[a] = s[b] PROVE a = b
  <2>1. ~(a < b) /\ ~(b < a) BY <1>3, <1>5, <1>6
  <2>2. QED BY <2>1
<1>7. Pairs = [i \in 1 .. Len(s) |-> <<nodes[s[i]].key, nodes[s[i]].value>>]
  BY <1>2, <1>3, Zenon DEF Pairs
<1>8. \A m \in Valid : nodes[m].key \in Keys /\ nodes[m].value \in Stored
  BY NodesAre DEF Valid, TrieNode, Stored
<1>9. \A i \in 1 .. Len(s) : <<nodes[s[i]].key, nodes[s[i]].value>> \in Keys \X Stored BY <1>5, <1>8
<1>10. Pairs \in Seq(Keys \X Stored) /\ Len(Pairs) = Len(s) BY <1>3, <1>7, <1>9
<1>11. QED BY <1>2, <1>3, <1>5, <1>6, <1>7, <1>10

\* Where the dictionary has a key, the node of the key is found and has its data.
KeyFound(k, l, i) ==
  /\ l = Lookup(k) /\ l \in Valid /\ l # 0 /\ nodes[l].key = k
  /\ Dictionary!Has(k) /\ Dictionary!At(k) = i /\ i \in 1 .. Len(Listed) /\ Listed[i] = l
  /\ IsThere(Place(k)) /\ Place(k).node = l
  /\ Dictionary!Found(k) = <<nodes[l].value>> /\ Content(k) = <<nodes[l].value>>
KeyMissing(k) ==
  /\ Lookup(k) = 0 /\ ~Dictionary!Has(k) /\ ~IsThere(Place(k))
  /\ \A m \in Valid : nodes[m].key # k

LEMMA KeyIs ==
  ASSUME TrieIInv, NEW k \in Keys PROVE KeyMissing(k) \/ \E l, i : KeyFound(k, l, i)
<1>1. PICK par, dep : Tree(par, dep) BY DEF TrieIInv
<1>2. PICK l : l = Lookup(k) OBVIOUS
<1>3. /\ l # 0 => l \in Valid /\ nodes[l].key = k
      /\ \A m \in Valid : nodes[m].key = k => l = m
  BY <1>1, <1>2, TrieLookupIs DEF TrieIInv
<1>4. PICK p, c : PlaceAt(dep, k, p, c) BY <1>1, PlaceIs DEF TrieIInv
<1>5. /\ c \in 0 .. Len(nodes) /\ Place(k) = [parent |-> p, select |-> hash[k][dep[p]], node |-> c]
      /\ c = 0 \/ ~nodes[c].valid \/ nodes[c].key = k
      /\ \A m \in Valid : nodes[m].key = k => c = m
  BY <1>4 DEF PlaceAt
<1>6. Place(k).node = c BY <1>5
<1>7. PICK s \in Seq(Nat) :
        /\ s = Listed /\ Len(s) \in Nat
        /\ \A a \in 1 .. Len(s) : s[a] \in Valid
        /\ \A m \in Valid : \E a \in 1 .. Len(s) : s[a] = m
        /\ \A a, b \in 1 .. Len(s) : s[a] = s[b] => a = b
        /\ Pairs = [i \in 1 .. Len(s) |-> <<nodes[s[i]].key, nodes[s[i]].value>>]
  BY ListIs DEF TrieIInv
<1>8. /\ DOMAIN Pairs = 1 .. Len(s)
      /\ \A i \in 1 .. Len(s) : Pairs[i][1] = nodes[s[i]].key /\ Pairs[i][2] = nodes[s[i]].value
  BY <1>7
<1>9. \A m \in Valid : m # 0 /\ nodes[m].valid /\ m \in 1 .. Len(nodes)
  BY NodesAre DEF Valid, TrieIInv
<1>10. \A m \in 1 .. Len(nodes) : nodes[m].valid => m \in Valid BY DEF Valid
<1>11. CASE l = 0
  <2>1. \A m \in Valid : nodes[m].key # k BY <1>3, <1>9, <1>11
  <2>2. ~Dictionary!Has(k) BY <1>7, <1>8, <2>1 DEF Dictionary!Has
  <2>3. ~IsThere(Place(k))
    <3>1. c = 0 \/ ~nodes[c].valid
      <4>1. SUFFICES ASSUME c # 0, nodes[c].valid PROVE FALSE OBVIOUS
      <4>2. nodes[c].key = k BY <1>5, <4>1
      <4>3. c \in 1 .. Len(nodes) BY <1>5, <4>1
      <4>4. QED BY <1>10, <2>1, <4>1, <4>2, <4>3
    <3>2. QED BY <1>6, <3>1, Zenon DEF IsThere
  <2>4. QED BY <1>2, <1>11, <2>1, <2>2, <2>3 DEF KeyMissing
<1>12. CASE l # 0
  <2>1. l \in Valid /\ nodes[l].key = k /\ c = l BY <1>3, <1>5, <1>12
  <2>2. PICK i \in 1 .. Len(s) : s[i] = l BY <1>7, <2>1
  <2>3. ASSUME NEW j \in DOMAIN Pairs, Pairs[j][1] = k PROVE j = i
    <3>1. j \in 1 .. Len(s) /\ nodes[s[j]].key = k /\ s[j] \in Valid BY <1>7, <1>8, <2>3
    <3>2. l = s[j] BY <1>3, <3>1
    <3>3. QED BY <1>7, <2>2, <3>1, <3>2
  <2>4. i \in DOMAIN Pairs /\ Pairs[i][1] = k /\ Pairs[i][2] = nodes[l].value BY <1>8, <2>1, <2>2
  <2>5. Dictionary!Has(k) /\ Dictionary!At(k) = i BY <2>3, <2>4 DEF Dictionary!Has, Dictionary!At
  <2>6. IsThere(Place(k)) BY <1>6, <1>9, <2>1, Zenon DEF IsThere
  <2>7. Dictionary!Found(k) = <<nodes[l].value>> BY <2>4, <2>5, Zenon DEF Dictionary!Found
  <2>8. Content(k) = <<nodes[l].value>> BY <1>2, <1>12, Zenon DEF Content, Exists
  <2>9. QED BY <1>2, <1>6, <1>7, <1>12, <2>1, <2>2, <2>5, <2>6, <2>7, <2>8 DEF KeyFound
<1>13. QED BY <1>11, <1>12

-----------------------------------------------------------------------------
(* What the operations do to the nodes.                                     *)

\* One node of ns is replaced by another.
Replaced(ns, m, r, us) ==
  Len(us) = Len(ns) /\ us[m] = r /\ \A i \in 1 .. Len(ns) : i # m => us[i] = ns[i]

LEMMA NodeSet ==
  ASSUME NEW ns \in Seq(TrieNode), NEW m \in 1 .. Len(ns), NEW r \in TrieNode,
         NEW us, us = [ns EXCEPT ![m] = r]
  PROVE  us \in Seq(TrieNode) /\ Replaced(ns, m, r, us)
BY DEF Replaced

SameButNext(r, u, x) ==
  u.key = r.key /\ u.value = r.value /\ u.valid = r.valid /\ u.childs = r.childs /\ u.next = x
SameButChild(r, u, t, x) ==
  /\ u.key = r.key /\ u.value = r.value /\ u.valid = r.valid /\ u.next = r.next
  /\ u.childs[t] = x /\ \A o \in 0 .. 3 : o # t => u.childs[o] = r.childs[o]
SameButValue(r, u, v) ==
  u.key = r.key /\ u.value = v /\ u.valid = r.valid /\ u.childs = r.childs /\ u.next = r.next

LEMMA NextSet ==
  ASSUME NEW r \in TrieNode, NEW x \in Nat, NEW u, u = [r EXCEPT !.next = x]
  PROVE  u \in TrieNode /\ SameButNext(r, u, x)
BY DEF TrieNode, SameButNext

LEMMA ChildSet ==
  ASSUME NEW r \in TrieNode, NEW t \in 0 .. 3, NEW x \in Nat, NEW u, u = [r EXCEPT !.childs[t] = x]
  PROVE  u \in TrieNode /\ SameButChild(r, u, t, x)
<1>1. PICK ch \in [0 .. 3 -> Nat] : ch = r.childs BY DEF TrieNode
<1>2. PICK new : new = [ch EXCEPT ![t] = x] OBVIOUS
<1>3. new \in [0 .. 3 -> Nat] /\ new[t] = x /\ \A o \in 0 .. 3 : o # t => new[o] = ch[o] BY <1>2
<1>4. u = [r EXCEPT !.childs = new] BY <1>1, <1>2, Zenon
<1>5. u \in TrieNode /\ u.childs = new BY <1>3, <1>4 DEF TrieNode
<1>6. u.key = r.key /\ u.value = r.value /\ u.valid = r.valid /\ u.next = r.next
  BY <1>4 DEF TrieNode
<1>7. QED BY <1>1, <1>3, <1>5, <1>6, Zenon DEF SameButChild

LEMMA ValueSet ==
  ASSUME NEW r \in TrieNode, NEW v \in Stored, NEW u, u = [r EXCEPT !.value = v]
  PROVE  u \in TrieNode /\ SameButValue(r, u, v)
BY DEF TrieNode, SameButValue, Stored

LEMMA NodeIs ==
  ASSUME NEW k \in Keys, NEW v \in Stored
  PROVE  /\ Node(k, v) \in TrieNode /\ Node(k, v).key = k /\ Node(k, v).value = v
         /\ Node(k, v).next = 0 /\ Node(k, v).valid /\ \A t \in 0 .. 3 : Node(k, v).childs[t] = 0
BY DEF Node, TrieNode, Stored, NoChilds

\* A new node at a place.
Grew(N, k, v, p, t) ==
  /\ Len(nodes) = N /\ Len(nodes') = N + 1 /\ nodes' \in Seq(TrieNode) /\ childs' \in [0 .. 3 -> Nat]
  /\ \A m \in 1 .. N :
       /\ nodes'[m].key = nodes[m].key /\ nodes'[m].value = nodes[m].value
       /\ nodes'[m].valid = nodes[m].valid
       /\ nodes'[m].next = IF head # 0 /\ m = tail THEN N + 1 ELSE nodes[m].next
  /\ nodes'[N + 1].key = k /\ nodes'[N + 1].value = v /\ nodes'[N + 1].next = 0
  /\ nodes'[N + 1].valid
  /\ \A q \in 0 .. N : \A u \in 0 .. 3 :
       Child(q, u)' = IF q = p /\ u = t THEN N + 1 ELSE Child(q, u)
  /\ \A u \in 0 .. 3 : Child(N + 1, u)' = 0
  /\ head' = (IF head = 0 THEN N + 1 ELSE head) /\ tail' = N + 1 /\ inserted' = inserted + 1

LEMMA NewNodeGrows ==
  ASSUME TrieTypeOK, TailIsLast, Links, NEW k \in Keys, NEW v \in Stored, NEW place, NEW N \in Nat,
         N = Len(nodes), NEW p \in 0 .. N, NEW t \in 0 .. 3, place.parent = p, place.select = t,
         NewNode(place, k, v)
  PROVE  Grew(N, k, v, p, t)
<1>1. nodes \in Seq(TrieNode) /\ childs \in [0 .. 3 -> Nat] /\ \A m \in 1 .. N : nodes[m] \in TrieNode
  BY NodesAre DEF TrieTypeOK
<1>2. PICK F \in Nat : F = N + 1 /\ F = Fresh BY DEF Fresh
<1>3. PICK grown : grown = Append(nodes, Node(k, v)) OBVIOUS
<1>4. /\ grown \in Seq(TrieNode) /\ Len(grown) = F /\ F \in 1 .. F
      /\ \A m \in 1 .. N : grown[m] = nodes[m] /\ m \in 1 .. F /\ m # F
      /\ grown[F] = Node(k, v)
  BY <1>1, <1>2, <1>3, NodeIs
<1>5. PICK listed : listed = IF head = 0 THEN grown ELSE [grown EXCEPT ![tail].next = F] OBVIOUS
<1> DEFINE SameNode(a, b) == a.key = b.key /\ a.value = b.value /\ a.valid = b.valid
           NextOf(m) == IF head # 0 /\ m = tail THEN F ELSE nodes[m].next
<1>6. /\ listed \in Seq(TrieNode) /\ Len(listed) = F /\ listed[F] = Node(k, v)
      /\ \A m \in 1 .. N : /\ SameNode(listed[m], nodes[m]) /\ listed[m].childs = nodes[m].childs
                           /\ listed[m].next = NextOf(m)
  <2>1. CASE head = 0 BY <1>4, <1>5, <2>1
  <2>2. CASE head # 0
    <3>1. tail \in 1 .. N
      <4>1. head \in Valid BY <2>2 DEF Links, FirstValid
      <4>2. tail \in Valid BY <4>1 DEF TailIsLast
      <4>3. QED BY <4>2 DEF Valid
    <3>2. PICK r \in TrieNode : r = nodes[tail] /\ r = grown[tail] BY <1>1, <1>4, <3>1
    <3>3. PICK u : u = [r EXCEPT !.next = F] OBVIOUS
    <3>4. u \in TrieNode /\ SameButNext(r, u, F) BY <1>2, <3>3, NextSet
    <3>5. listed = [grown EXCEPT ![tail] = u] BY <1>5, <2>2, <3>2, <3>3, Zenon
    <3>6. listed \in Seq(TrieNode) /\ Replaced(grown, tail, u, listed)
      <4>1. tail \in 1 .. Len(grown) BY <1>4, <3>1
      <4>2. QED BY <1>4, <3>4, <3>5, <4>1, NodeSet
    <3>7. /\ Len(listed) = F /\ listed[tail] = u /\ tail # F
          /\ \A i \in 1 .. F : i # tail => listed[i] = grown[i]
      BY <1>4, <3>1, <3>6 DEF Replaced
    <3>8. listed[F] = Node(k, v) BY <1>4, <3>7
    <3>9. ASSUME NEW m \in 1 .. N
          PROVE  /\ SameNode(listed[m], nodes[m]) /\ listed[m].childs = nodes[m].childs
                 /\ listed[m].next = NextOf(m)
      <4>1. CASE m = tail
        <5>1. listed[m] = u /\ nodes[m] = r BY <3>2, <3>7, <4>1
        <5>2. NextOf(m) = F BY <2>2, <4>1, Zenon
        <5>3. QED BY <3>4, <5>1, <5>2, Zenon DEF SameButNext
      <4>2. CASE m # tail
        <5>1. listed[m] = nodes[m] BY <1>4, <3>7, <4>2
        <5>2. NextOf(m) = nodes[m].next BY <4>2, Zenon
        <5>3. QED BY <5>1, <5>2, Zenon
      <4>3. QED BY <4>1, <4>2
    <3>10. QED BY <3>6, <3>7, <3>8, <3>9
  <2>3. QED BY <2>1, <2>2
<1>7. Len(nodes) = N /\ head' = (IF head = 0 THEN F ELSE head) /\ tail' = F /\ inserted' = inserted + 1
  BY <1>2 DEF NewNode
<1>8. IF p = 0 THEN childs' = [childs EXCEPT ![t] = F] /\ nodes' = listed
               ELSE nodes' = [listed EXCEPT ![p].childs[t] = F] /\ childs' = childs
  BY <1>2, <1>3, <1>5, Zenon DEF NewNode
<1> DEFINE ChildOf(q, u) == IF q = p /\ u = t THEN F ELSE Child(q, u)
<1>9. \A u \in 0 .. 3 : Node(k, v).childs[u] = 0 BY NodeIs
<1>10. /\ nodes' \in Seq(TrieNode) /\ childs' \in [0 .. 3 -> Nat] /\ Len(nodes') = F
       /\ SameNode(nodes'[F], Node(k, v)) /\ nodes'[F].next = Node(k, v).next
       /\ \A u \in 0 .. 3 : Child(F, u)' = 0
       /\ \A m \in 1 .. N : SameNode(nodes'[m], nodes[m]) /\ nodes'[m].next = NextOf(m)
       /\ \A q \in 0 .. N : \A u \in 0 .. 3 : Child(q, u)' = ChildOf(q, u)
  <2>1. CASE p = 0
    <3>1. childs' = [childs EXCEPT ![t] = F] /\ nodes' = listed BY <1>8, <2>1
    <3>2. /\ childs' \in [0 .. 3 -> Nat] /\ childs'[t] = F
          /\ \A u \in 0 .. 3 : u # t => childs'[u] = childs[u]
      BY <1>1, <1>2, <3>1
    <3>3. \A u \in 0 .. 3 : Child(F, u)' = 0
      <4>1. F # 0 BY <1>2
      <4>2. QED BY <1>6, <1>9, <3>1, <4>1 DEF Child
    <3>4. ASSUME NEW q \in 0 .. N, NEW u \in 0 .. 3 PROVE Child(q, u)' = ChildOf(q, u)
      <4>1. CASE q = 0 BY <2>1, <3>2, <4>1 DEF Child
      <4>2. CASE q # 0
        <5>1. q \in 1 .. N BY <4>2
        <5>2. Child(q, u)' = listed[q].childs[u] /\ Child(q, u) = nodes[q].childs[u]
          BY <3>1, <4>2, Zenon DEF Child
        <5>3. ChildOf(q, u) = Child(q, u) BY <2>1, <4>2, Zenon
        <5>4. QED BY <1>6, <5>1, <5>2, <5>3
      <4>3. QED BY <4>1, <4>2
    <3>5. SameNode(nodes'[F], Node(k, v)) /\ nodes'[F].next = Node(k, v).next BY <1>6, <3>1, Zenon
    <3>6. QED BY <1>6, <3>1, <3>2, <3>3, <3>4, <3>5
  <2>2. CASE p # 0
    <3>1. nodes' = [listed EXCEPT ![p].childs[t] = F] /\ childs' = childs BY <1>8, <2>2
    <3>2. p \in 1 .. N /\ p \in 1 .. F /\ p # F /\ p \in 1 .. Len(listed) BY <1>2, <1>6, <2>2
    <3>3. PICK r \in TrieNode : r = listed[p] BY <1>6, <3>2
    <3>4. PICK x : x = [r EXCEPT !.childs[t] = F] OBVIOUS
    <3>5. x \in TrieNode /\ SameButChild(r, x, t, F) BY <1>2, <3>4, ChildSet
    <3>6. nodes' = [listed EXCEPT ![p] = x] BY <3>1, <3>3, <3>4, Zenon
    <3>7. nodes' \in Seq(TrieNode) /\ Replaced(listed, p, x, nodes')
      BY <1>6, <3>2, <3>5, <3>6, NodeSet
    <3>8. /\ Len(nodes') = F /\ nodes'[p] = x
          /\ \A i \in 1 .. F : i # p => nodes'[i] = listed[i]
      BY <1>6, <3>7 DEF Replaced
    <3>9. nodes'[F] = Node(k, v) BY <1>4, <1>6, <3>2, <3>8
    <3>10. \A u \in 0 .. 3 : Child(F, u)' = 0
      <4>1. F # 0 BY <1>2
      <4>2. QED BY <1>9, <3>9, <4>1 DEF Child
    <3>11. ASSUME NEW m \in 1 .. N PROVE SameNode(nodes'[m], nodes[m]) /\ nodes'[m].next = NextOf(m)
      <4>1. SameNode(listed[m], nodes[m]) /\ listed[m].next = NextOf(m) BY <1>6
      <4>2. CASE m = p
        <5>1. nodes'[m] = x /\ listed[m] = r BY <3>3, <3>8, <4>2
        <5>2. QED BY <3>5, <4>1, <5>1, Zenon DEF SameButChild
      <4>3. CASE m # p
        <5>1. nodes'[m] = listed[m] BY <1>4, <3>8, <4>3
        <5>2. QED BY <4>1, <5>1, Zenon
      <4>4. QED BY <4>2, <4>3
    <3>12. ASSUME NEW q \in 0 .. N, NEW u \in 0 .. 3 PROVE Child(q, u)' = ChildOf(q, u)
      <4>1. CASE q = 0 BY <2>2, <3>1, <4>1, Zenon DEF Child
      <4>2. CASE q # 0
        <5>1. q \in 1 .. N BY <4>2
        <5>2. Child(q, u)' = nodes'[q].childs[u] /\ Child(q, u) = nodes[q].childs[u]
          BY <4>2, Zenon DEF Child
        <5>3. nodes[q].childs[u] = listed[q].childs[u] BY <1>6, <5>1
        <5>4. CASE q = p
          <6>1. nodes'[q] = x /\ listed[q] = r BY <3>3, <3>8, <5>4
          <6>2. CASE u = t BY <3>5, <5>2, <5>4, <6>1, <6>2, Zenon DEF SameButChild
          <6>3. CASE u # t BY <3>5, <5>2, <5>3, <5>4, <6>1, <6>3, Zenon DEF SameButChild
          <6>4. QED BY <6>2, <6>3
        <5>5. CASE q # p
          <6>1. nodes'[q] = listed[q] BY <1>4, <3>8, <5>1, <5>5
          <6>2. QED BY <5>2, <5>3, <5>5, <6>1, Zenon
        <5>6. QED BY <5>4, <5>5
      <4>3. QED BY <4>1, <4>2
    <3>13. SameNode(nodes'[F], Node(k, v)) /\ nodes'[F].next = Node(k, v).next BY <3>9, Zenon
    <3>14. QED BY <1>1, <3>1, <3>7, <3>8, <3>10, <3>11, <3>12, <3>13
  <2>3. QED BY <2>1, <2>2
<1>11. Node(k, v).key = k /\ Node(k, v).value = v /\ Node(k, v).next = 0 /\ Node(k, v).valid
  BY NodeIs
<1>12. \A m \in 1 .. N :
         /\ nodes'[m].key = nodes[m].key /\ nodes'[m].value = nodes[m].value
         /\ nodes'[m].valid = nodes[m].valid
         /\ nodes'[m].next = IF head # 0 /\ m = tail THEN N + 1 ELSE nodes[m].next
  BY <1>2, <1>10, Zenon
<1>13. \A q \in 0 .. N : \A u \in 0 .. 3 :
         Child(q, u)' = IF q = p /\ u = t THEN N + 1 ELSE Child(q, u)
  BY <1>2, <1>10, Zenon
<1>14. /\ nodes'[N + 1].key = k /\ nodes'[N + 1].value = v /\ nodes'[N + 1].next = 0
       /\ nodes'[N + 1].valid
  BY <1>2, <1>10, <1>11, Zenon
<1>15. /\ Len(nodes) = N /\ Len(nodes') = N + 1 /\ nodes' \in Seq(TrieNode)
       /\ childs' \in [0 .. 3 -> Nat] /\ \A u \in 0 .. 3 : Child(N + 1, u)' = 0
  BY <1>2, <1>7, <1>10, Zenon
<1>16. head' = (IF head = 0 THEN N + 1 ELSE head) /\ tail' = N + 1 /\ inserted' = inserted + 1
  BY <1>2, <1>7, Zenon
<1> HIDE DEF SameNode, NextOf, ChildOf
<1>17. QED BY <1>12, <1>13, <1>14, <1>15, <1>16, Zenon DEF Grew
-----------------------------------------------------------------------------
(* The tree, of its valid nodes, their children and the bits of their keys. *)

TreeOf(V, kid, h, par, dep) ==
  /\ par \in [Nat -> Nat] /\ dep \in [Nat -> Nat] /\ dep[0] = 0
  /\ \A n \in V :
       /\ par[n] \in V \cup {0} /\ par[n] < n /\ dep[n] = dep[par[n]] + 1
       /\ kid[par[n]][h[n][dep[par[n]]]] = n
       /\ \A j \in 0 .. dep[par[n]] - 1 : h[n][j] = h[par[n]][j]
  /\ \A q \in V \cup {0} : \A t \in 0 .. 3 :
       kid[q][t] \in V => par[kid[q][t]] = q /\ h[kid[q][t]][dep[q]] = t

Kids == [q \in 0 .. Len(nodes) |-> [t \in 0 .. 3 |-> Child(q, t)]]
Bits == [n \in 1 .. Len(nodes) |-> hash[nodes[n].key]]

LEMMA TreeIs ==
  ASSUME TrieTypeOK, NEW par, NEW dep
  PROVE  Tree(par, dep) <=> TreeOf(Valid, Kids, Bits, par, dep)
<1>1. PICK N \in Nat : N = Len(nodes) BY NodesAre
<1>2. PICK kid : kid = Kids OBVIOUS
<1>3. PICK h : h = Bits OBVIOUS
<1>4. \A q \in 0 .. N : \A t \in 0 .. 3 : kid[q][t] = Child(q, t) BY <1>1, <1>2 DEF Kids
<1>5. \A n \in 1 .. N : h[n] = hash[nodes[n].key] /\ h[n] \in [Nat -> 0 .. 3]
  <2>1. \A n \in 1 .. N : h[n] = hash[nodes[n].key] BY <1>1, <1>3 DEF Bits
  <2>2. \A n \in 1 .. N : hash[nodes[n].key] \in [Nat -> 0 .. 3] BY <1>1, NodesAre DEF TrieTypeOK
  <2>3. QED BY <2>1, <2>2
<1>6. Valid \subseteq 1 .. N /\ Parents \subseteq 0 .. N /\ Parents = Valid \cup {0}
  BY <1>1 DEF Valid, Parents
<1>7. SUFFICES ASSUME par \in [Nat -> Nat], dep \in [Nat -> Nat], dep[0] = 0
               PROVE  Tree(par, dep) <=> TreeOf(Valid, kid, h, par, dep)
  BY <1>2, <1>3 DEF Tree, TreeOf
<1> DEFINE First(n) == /\ par[n] \in Parents /\ par[n] < n /\ dep[n] = dep[par[n]] + 1
                       /\ Child(par[n], hash[nodes[n].key][dep[par[n]]]) = n
                       /\ Leads(dep, par[n], nodes[n].key)
           FirstOf(n) == /\ par[n] \in Valid \cup {0} /\ par[n] < n /\ dep[n] = dep[par[n]] + 1
                         /\ kid[par[n]][h[n][dep[par[n]]]] = n
                         /\ \A j \in 0 .. dep[par[n]] - 1 : h[n][j] = h[par[n]][j]
<1>8. ASSUME NEW n \in Valid PROVE First(n) <=> FirstOf(n)
  <2>0. n \in Nat BY <1>6
  <2>1. PICK q \in Nat : q = par[n] BY <1>7, <2>0
  <2>2. PICK d \in Nat : d = dep[q] BY <1>7
  <2>3. n \in 1 .. N /\ h[n] = hash[nodes[n].key] /\ h[n][d] \in 0 .. 3 BY <1>5, <1>6
  <2>4. ASSUME q \in Parents
        PROVE  Leads(dep, q, nodes[n].key) <=> \A j \in 0 .. d - 1 : h[n][j] = h[q][j]
    <3>1. CASE q = 0
      <4>1. (0 .. d - 1) = {} BY <1>7, <2>2, <3>1
      <4>2. QED BY <2>2, <4>1 DEF Leads
    <3>2. CASE q # 0
      <4>1. h[q] = hash[nodes[q].key] BY <1>5, <1>6, <2>4, <3>2
      <4>2. QED BY <2>2, <2>3, <4>1 DEF Leads
    <3>3. QED BY <3>1, <3>2
  <2>5. ASSUME q \in Parents PROVE Child(q, hash[nodes[n].key][d]) = kid[q][h[n][d]]
    BY <1>4, <1>6, <2>3, <2>5
  <2>6. QED BY <1>6, <2>1, <2>2, <2>4, <2>5, Zenon
<1> DEFINE Second(q) == \A t \in 0 .. 3 : Child(q, t) \in Valid =>
                          par[Child(q, t)] = q /\ hash[nodes[Child(q, t)].key][dep[q]] = t
           SecondOf(q) == \A t \in 0 .. 3 : kid[q][t] \in Valid =>
                            par[kid[q][t]] = q /\ h[kid[q][t]][dep[q]] = t
<1>9. ASSUME NEW q \in Parents PROVE Second(q) <=> SecondOf(q)
  <2>1. ASSUME NEW t \in 0 .. 3
        PROVE  (Child(q, t) \in Valid => par[Child(q, t)] = q /\ hash[nodes[Child(q, t)].key][dep[q]] = t)
                 <=> (kid[q][t] \in Valid => par[kid[q][t]] = q /\ h[kid[q][t]][dep[q]] = t)
    <3>1. PICK c : c = Child(q, t) /\ c = kid[q][t] BY <1>4, <1>6
    <3>2. c \in Valid => h[c] = hash[nodes[c].key] BY <1>5, <1>6
    <3>3. QED BY <3>1, <3>2, Zenon
  <2>2. QED BY <2>1, Zenon
<1>10. Tree(par, dep) <=> (\A n \in Valid : First(n)) /\ (\A q \in Parents : Second(q))
  BY <1>7, Zenon DEF Tree
<1>11. TreeOf(Valid, kid, h, par, dep)
         <=> (\A n \in Valid : FirstOf(n)) /\ (\A q \in Parents : SecondOf(q))
  BY <1>6, <1>7, Zenon DEF TreeOf
<1> HIDE DEF First, FirstOf, Second, SecondOf
<1>12. QED BY <1>8, <1>9, <1>10, <1>11

\* Nodes that stay, with their parents, are a tree.
LEMMA TreeShrinks ==
  ASSUME NEW V, NEW W, NEW kid, NEW h, NEW par, NEW dep, TreeOf(V, kid, h, par, dep),
         W \subseteq V, \A n \in W : par[n] \in W \cup {0}
  PROVE  TreeOf(W, kid, h, par, dep)
<1>1. par \in [Nat -> Nat] /\ dep \in [Nat -> Nat] /\ dep[0] = 0 BY Zenon DEF TreeOf
<1>2. ASSUME NEW n \in W
      PROVE  /\ par[n] \in W \cup {0} /\ par[n] < n /\ dep[n] = dep[par[n]] + 1
             /\ kid[par[n]][h[n][dep[par[n]]]] = n
             /\ \A j \in 0 .. dep[par[n]] - 1 : h[n][j] = h[par[n]][j]
  <2>1. n \in V OBVIOUS
  <2>2. QED BY <2>1, Zenon DEF TreeOf
<1>3. ASSUME NEW q \in W \cup {0}, NEW t \in 0 .. 3, kid[q][t] \in W
      PROVE  par[kid[q][t]] = q /\ h[kid[q][t]][dep[q]] = t
  <2>1. q \in V \cup {0} /\ kid[q][t] \in V BY <1>3
  <2>2. \A p \in V \cup {0} : \A b \in 0 .. 3 :
          kid[p][b] \in V => par[kid[p][b]] = p /\ h[kid[p][b]][dep[p]] = b
    BY Zenon DEF TreeOf
  <2>3. QED BY <2>1, <2>2, Zenon
<1>4. QED BY <1>1, <1>2, <1>3, Zenon DEF TreeOf

\* A node for bits that lead to p, at a place where no node is.
GrowsAt(N, V, kid, h, dep, p, b, t, kid2, h2) ==
  /\ N \in Nat /\ V \in SUBSET (1 .. N) /\ p \in V \cup {0} /\ b \in [Nat -> 0 .. 3] /\ t \in 0 .. 3
  /\ t = b[dep[p]] /\ \A j \in 0 .. dep[p] - 1 : b[j] = h[p][j]
  /\ kid[p][t] \notin V /\ \A q \in 0 .. N : \A u \in 0 .. 3 : kid[q][u] \in 0 .. N
  /\ \A n \in 1 .. N : h[n] \in [Nat -> 0 .. 3]
  /\ (\A n \in 1 .. N : h2[n] = h[n]) /\ h2[N + 1] = b
  /\ \A u \in 0 .. 3 : kid2[N + 1][u] = 0
  /\ \A q \in 0 .. N : \A u \in 0 .. 3 :
       kid2[q][u] = IF q = p /\ u = t THEN N + 1 ELSE kid[q][u]

LEMMA TreeGrows ==
  ASSUME NEW N, NEW V, NEW kid, NEW h, NEW par, NEW dep, NEW p, NEW b, NEW t, NEW kid2, NEW h2,
         TreeOf(V, kid, h, par, dep), GrowsAt(N, V, kid, h, dep, p, b, t, kid2, h2)
  PROVE  \E par2, dep2 : TreeOf(V \cup {N + 1}, kid2, h2, par2, dep2)
<1> USE DEF GrowsAt
<1>1. PICK F \in Nat : F = N + 1 OBVIOUS
<1>2. /\ par \in [Nat -> Nat] /\ dep \in [Nat -> Nat] /\ dep[0] = 0 /\ p \in 0 .. N /\ p \in Nat
      /\ F \notin V /\ F # 0 /\ F \notin 0 .. N /\ V \subseteq Nat /\ p # F /\ V \subseteq 0 .. N
  <2>1. par \in [Nat -> Nat] /\ dep \in [Nat -> Nat] /\ dep[0] = 0 BY Zenon DEF TreeOf
  <2>2. N \in Nat /\ V \in SUBSET (1 .. N) /\ p \in V \cup {0} BY Zenon
  <2> HIDE DEF GrowsAt
  <2>3. QED BY <1>1, <2>1, <2>2
<1>3. PICK par2 : par2 = [par EXCEPT ![F] = p] OBVIOUS
<1>4. PICK dep2 : dep2 = [dep EXCEPT ![F] = dep[p] + 1] OBVIOUS
<1>5. /\ par2 \in [Nat -> Nat] /\ par2[F] = p /\ \A n \in 0 .. N : par2[n] = par[n]
      /\ dep2 \in [Nat -> Nat] /\ dep2[F] = dep[p] + 1 /\ \A n \in 0 .. N : dep2[n] = dep[n]
      /\ dep2[0] = 0
  BY <1>1, <1>2, <1>3, <1>4
<1>6. ASSUME NEW n \in V
      PROVE  /\ par2[n] \in V \cup {F, 0} /\ par2[n] < n /\ dep2[n] = dep2[par2[n]] + 1
             /\ kid2[par2[n]][h2[n][dep2[par2[n]]]] = n
             /\ \A j \in 0 .. dep2[par2[n]] - 1 : h2[n][j] = h2[par2[n]][j]
  <2>1. PICK q \in V \cup {0} : q = par[n] BY DEF TreeOf
  <2>2. q \in 0 .. N /\ n \in 0 .. N /\ n \in 1 .. N /\ q \in Nat
    <3>1. n \in 1 .. N OBVIOUS
    <3>2. n \in 0 .. N /\ q \in 0 .. N BY <1>2
    <3>3. QED BY <3>1, <3>2
  <2>3. PICK d \in Nat : d = dep[q] BY <1>2, <2>2
  <2>4. /\ q < n /\ dep[n] = d + 1 /\ kid[q][h[n][d]] = n
        /\ \A j \in 0 .. d - 1 : h[n][j] = h[q][j]
    BY <2>1, <2>3 DEF TreeOf
  <2>5. par2[n] = q /\ dep2[n] = d + 1 /\ dep2[q] = d /\ h2[n] = h[n]
    BY <1>5, <2>1, <2>2, <2>3, <2>4
  <2>6. kid2[q][h[n][d]] = n
    <3>1. PICK u \in 0 .. 3 : u = h[n][d] BY <2>2
    <3>2. ~(q = p /\ u = t) BY <2>4, <3>1
    <3>3. QED BY <2>2, <2>4, <3>1, <3>2
  <2>7. ASSUME NEW j \in 0 .. d - 1 PROVE h2[n][j] = h2[q][j]
    <3>1. q # 0 BY <1>2, <2>3, <2>7
    <3>2. h2[q] = h[q] BY <2>2, <3>1
    <3>3. QED BY <2>4, <2>5, <3>2
  <2>8. QED BY <2>1, <2>4, <2>5, <2>6, <2>7
<1>7. /\ par2[F] \in V \cup {F, 0} /\ par2[F] < F /\ dep2[F] = dep2[par2[F]] + 1
      /\ kid2[par2[F]][h2[F][dep2[par2[F]]]] = F
      /\ \A j \in 0 .. dep2[par2[F]] - 1 : h2[F][j] = h2[par2[F]][j]
  <2>1. PICK d \in Nat : d = dep[p] BY <1>2
  <2>2. par2[F] = p /\ dep2[p] = d /\ dep2[F] = d + 1 /\ h2[F] = b /\ b[d] = t
    BY <1>1, <1>2, <1>5, <2>1
  <2>3. p < F BY <1>1, <1>2
  <2>4. kid2[p][t] = F BY <1>1, <1>2
  <2>5. ASSUME NEW j \in 0 .. d - 1 PROVE h2[F][j] = h2[p][j]
    <3>1. p # 0 BY <1>2, <2>1, <2>5
    <3>2. h2[p] = h[p] BY <1>2, <3>1
    <3>3. QED BY <2>1, <2>2, <3>2
  <2>6. QED BY <2>2, <2>3, <2>4, <2>5
<1>8. ASSUME NEW q \in V \cup {F, 0}, NEW u \in 0 .. 3, kid2[q][u] \in V \cup {F}
      PROVE  par2[kid2[q][u]] = q /\ h2[kid2[q][u]][dep2[q]] = u
  <2>1. q # F
    <3>1. SUFFICES ASSUME q = F PROVE FALSE OBVIOUS
    <3>2. kid2[q][u] = 0 BY <1>1, <3>1
    <3>3. QED BY <1>2, <1>8, <3>2
  <2>2. q \in 0 .. N /\ q \in V \cup {0} BY <1>2, <2>1
  <2>3. CASE q = p /\ u = t
    <3>1. kid2[q][u] = F BY <1>1, <2>2, <2>3
    <3>2. par2[F] = p /\ dep2[p] = dep[p] /\ h2[F] = b BY <1>1, <1>2, <1>5
    <3>3. QED BY <2>3, <3>1, <3>2
  <2>4. CASE ~(q = p /\ u = t)
    <3>1. PICK c : c = kid2[q][u] /\ c = kid[q][u] BY <2>2, <2>4
    <3>2. c \in V BY <1>2, <1>8, <2>2, <3>1
    <3>3. par[c] = q /\ h[c][dep[q]] = u
      <4>1. kid[q][u] \in V BY <3>1, <3>2
      <4>2. \A x \in V \cup {0} : \A y \in 0 .. 3 :
              kid[x][y] \in V => par[kid[x][y]] = x /\ h[kid[x][y]][dep[x]] = y
        BY DEF TreeOf
      <4>3. par[kid[q][u]] = q /\ h[kid[q][u]][dep[q]] = u BY <2>2, <4>1, <4>2
      <4>4. QED BY <3>1, <4>3
    <3>4. par2[c] = par[c] /\ h2[c] = h[c] /\ dep2[q] = dep[q] BY <1>2, <1>5, <2>2, <3>2
    <3>5. QED BY <3>1, <3>3, <3>4
  <2>5. QED BY <2>3, <2>4
<1>9. V \cup {F, 0} = (V \cup {F}) \cup {0} OBVIOUS
<1> HIDE DEF GrowsAt
<1>10. TreeOf(V \cup {F}, kid2, h2, par2, dep2) BY <1>5, <1>6, <1>7, <1>8, <1>9 DEF TreeOf
<1>11. QED BY <1>1, <1>10
-----------------------------------------------------------------------------
(* The operations keep the invariant, and change the pairs as a dictionary. *)

\* What is known of the tree before a step, and has to be after it.
LEMMA TreeThen ==
  \A par, dep : TrieTypeOK' /\ TreeOf(Valid', Kids', Bits', par, dep) => Tree(par, dep)'
<1>1. \A par, dep : TrieTypeOK /\ TreeOf(Valid, Kids, Bits, par, dep) => Tree(par, dep) BY TreeIs
<1>2. (\A par, dep : TrieTypeOK /\ TreeOf(Valid, Kids, Bits, par, dep) => Tree(par, dep))'
  BY <1>1, PTL
<1>3. ASSUME NEW par, NEW dep
      PROVE  TreeOf(Valid, Kids, Bits, par, dep)' <=> TreeOf(Valid', Kids', Bits', par, dep)
  BY DEF TreeOf
<1>4. QED BY <1>2, <1>3

LEMMA NewNodeKeeps ==
  ASSUME TrieIInv, NEW k \in Keys, NEW v \in Stored, KeyMissing(k), NewNode(Place(k), k, v),
         hash' = hash
  PROVE  TrieIInv' /\ Pairs' = Append(Pairs, <<k, v>>)
<1>1. PICK par, dep : Tree(par, dep) BY DEF TrieIInv
<1>2. PICK N \in Nat : N = Len(nodes) BY NodesAre DEF TrieIInv
<1>3. PICK F \in Nat : F = N + 1 OBVIOUS
<1>4. PICK p, c : PlaceAt(dep, k, p, c) BY <1>1, PlaceIs DEF TrieIInv
<1>5. /\ p \in Parents /\ c \in 0 .. N /\ c = Child(p, hash[k][dep[p]]) /\ Leads(dep, p, k)
      /\ Place(k) = [parent |-> p, select |-> hash[k][dep[p]], node |-> c]
  BY <1>2, <1>4 DEF PlaceAt
<1>6. Valid \in SUBSET (1 .. N) /\ Parents = Valid \cup {0} /\ p \in 0 .. N
  BY <1>2, <1>5 DEF Valid, Parents
<1>7. dep[p] \in Nat BY <1>1, <1>6 DEF Tree
<1>8. hash[k] \in [Nat -> 0 .. 3] BY DEF TrieIInv, TrieTypeOK
<1>9. PICK t \in 0 .. 3 : t = hash[k][dep[p]] BY <1>7, <1>8
<1>10. Place(k).parent = p /\ Place(k).select = t /\ Place(k).node = c BY <1>5, <1>9
<1>11. c \notin Valid
  <2>1. c = 0 \/ ~nodes[c].valid BY <1>10, Zenon DEF KeyMissing, IsThere
  <2>2. QED BY <1>6, <2>1 DEF Valid
<1>12. Grew(N, k, v, p, t)
  <2>1. TrieTypeOK /\ TailIsLast /\ Links BY DEF TrieIInv
  <2>2. QED BY <1>2, <1>6, <1>10, <2>1, NewNodeGrows
<1>13. /\ Len(nodes') = F /\ nodes' \in Seq(TrieNode) /\ childs' \in [0 .. 3 -> Nat]
       /\ \A m \in 1 .. N :
            /\ nodes'[m].key = nodes[m].key /\ nodes'[m].value = nodes[m].value
            /\ nodes'[m].valid = nodes[m].valid
            /\ nodes'[m].next = IF head # 0 /\ m = tail THEN F ELSE nodes[m].next
       /\ nodes'[F].key = k /\ nodes'[F].value = v /\ nodes'[F].next = 0 /\ nodes'[F].valid
       /\ \A q \in 0 .. N : \A u \in 0 .. 3 :
            Child(q, u)' = IF q = p /\ u = t THEN F ELSE Child(q, u)
       /\ \A u \in 0 .. 3 : Child(F, u)' = 0
       /\ head' = (IF head = 0 THEN F ELSE head) /\ tail' = F /\ inserted' = inserted + 1
  BY <1>3, <1>12, Zenon DEF Grew
<1>14. PICK V \in SUBSET (1 .. N) : V = Valid BY <1>6
<1>15. Valid' = V \cup {F} /\ F \notin V /\ F # 0 /\ 1 .. F = (1 .. N) \cup {F} /\ V \subseteq Nat
  <2>1. 1 .. F = (1 .. N) \cup {F} /\ F \notin 1 .. N /\ F # 0 BY <1>3
  <2>2. Valid' = {n \in 1 .. F : nodes'[n].valid} BY <1>13 DEF Valid
  <2>3. Valid = {n \in 1 .. N : nodes[n].valid} BY <1>2 DEF Valid
  <2>4. \A n \in 1 .. N : n \in Valid' <=> n \in Valid BY <1>13, <2>1, <2>2, <2>3, Zenon
  <2>5. F \in Valid' BY <1>13, <2>1, <2>2
  <2>6. \A n \in Valid' : n \in 1 .. N \/ n = F BY <2>1, <2>2
  <2>7. Valid' = V \cup {F} BY <1>14, <2>4, <2>5, <2>6
  <2>8. QED BY <1>14, <2>1, <2>7
<1>16. TrieTypeOK'
  <2>1. ASSUME NEW q \in 0 .. F, NEW u \in 0 .. 3
        PROVE  Child(q, u)' = 0 \/ Child(q, u)' \in q + 1 .. F
    <3>1. CASE q = F BY <1>13, <3>1
    <3>2. CASE q # F
      <4>1. q \in 0 .. N BY <1>3, <3>2
      <4>2. CASE q = p /\ u = t
        <5>1. Child(q, u)' = F BY <1>13, <4>1, <4>2
        <5>2. F \in q + 1 .. F BY <1>3, <4>1
        <5>3. QED BY <5>1, <5>2
      <4>3. CASE ~(q = p /\ u = t)
        <5>1. PICK x : x = Child(q, u) OBVIOUS
        <5>2. Child(q, u)' = x BY <1>13, <4>1, <4>3, <5>1
        <5>3. x = 0 \/ x \in q + 1 .. N BY <1>2, <4>1, <5>1, Zenon DEF TrieIInv, TrieTypeOK
        <5>4. x = 0 \/ x \in q + 1 .. F BY <1>3, <4>1, <5>3
        <5>5. QED BY <5>2, <5>4
      <4>4. QED BY <4>2, <4>3
    <3>3. QED BY <3>1, <3>2
  <2>2. ASSUME NEW n \in 1 .. F PROVE nodes'[n].next = 0 \/ nodes'[n].next \in n + 1 .. F
    <3>1. CASE n = F BY <1>13, <3>1
    <3>2. CASE n # F
      <4>1. n \in 1 .. N BY <1>3, <3>2
      <4>2. PICK x : x = nodes[n].next OBVIOUS
      <4>3. nodes'[n].next = F \/ nodes'[n].next = x BY <1>13, <4>1, <4>2
      <4>4. x = 0 \/ x \in n + 1 .. N BY <1>2, <4>1, <4>2 DEF TrieIInv, TrieTypeOK
      <4>5. (x = 0 \/ x \in n + 1 .. F) /\ F \in n + 1 .. F BY <1>3, <4>1, <4>4
      <4>6. QED BY <4>3, <4>5
    <3>3. QED BY <3>1, <3>2
  <2>3. hash' \in [Keys -> [Nat -> 0 .. 3]] BY DEF TrieIInv, TrieTypeOK
  <2>4. Len(nodes') = F /\ nodes' \in Seq(TrieNode) /\ childs' \in [0 .. 3 -> Nat] BY <1>13
  <2>5. QED BY <2>1, <2>2, <2>3, <2>4 DEF TrieTypeOK
<1>17. OnceEach'
  <2>1. ASSUME NEW m \in V \cup {F}, NEW n \in V \cup {F}, nodes'[m].key = nodes'[n].key PROVE m = n
    <3>1. \A x \in V : nodes'[x].key = nodes[x].key /\ nodes[x].key # k
      BY <1>13, <1>14 DEF KeyMissing
    <3>2. nodes'[F].key = k BY <1>13
    <3>3. CASE m \in V /\ n \in V BY <1>14, <2>1, <3>1, <3>3 DEF TrieIInv, OnceEach
    <3>4. CASE ~(m \in V /\ n \in V) BY <2>1, <3>1, <3>2, <3>4
    <3>5. QED BY <3>3, <3>4
  <2>2. QED BY <1>15, <2>1 DEF OnceEach
<1>18. TailIsLast'
  <2>1. tail' = F /\ \A m \in V \cup {F} : m <= F BY <1>3, <1>13
  <2>2. QED BY <1>15, <2>1 DEF TailIsLast
<1>19. head = 0 <=> V = {}
  <2>1. \A m \in V : m > 0 OBVIOUS
  <2>2. (head # 0 => head \in V) /\ \A m \in V : head # 0
    BY <1>14, <2>1 DEF TrieIInv, Links, FirstValid
  <2>3. QED BY <2>2
<1>20. Links'
  <2>1. FirstValid(0, head)'
    <3>1. CASE head = 0
      <4>1. head' = F /\ V = {} /\ F > 0 /\ F <= F BY <1>3, <1>13, <1>19, <3>1
      <4>2. QED BY <1>15, <4>1 DEF FirstValid
    <3>2. CASE head # 0
      <4>1. PICK h : h = head OBVIOUS
      <4>2. h \in V /\ h > 0 /\ \A m \in V : m > 0 => h <= m
        BY <1>14, <3>2, <4>1 DEF TrieIInv, Links, FirstValid
      <4>3. h <= F /\ h # 0 BY <1>3, <4>2
      <4>4. head' = h BY <1>13, <3>2, <4>1
      <4>5. QED BY <1>15, <4>2, <4>3, <4>4 DEF FirstValid
    <3>3. QED BY <3>1, <3>2
  <2>2. ASSUME NEW n \in V \cup {F} PROVE FirstValid(n, nodes[n].next)'
    <3>1. PICK j : j = nodes'[n].next OBVIOUS
    <3>2. SUFFICES (j # 0 => j \in V \cup {F} /\ j > n) /\ \A m \in V \cup {F} : m > n => j # 0 /\ j <= m
      BY <1>15, <3>1 DEF FirstValid
    <3>3. CASE n = F
      <4>1. j = 0 BY <1>13, <3>1, <3>3
      <4>2. \A m \in V \cup {F} : ~(m > n) BY <1>3, <3>3
      <4>3. QED BY <4>1, <4>2
    <3>4. CASE n # F
      <4>1. n \in V /\ n \in 1 .. N /\ n < F BY <1>3, <3>4
      <4>2. head # 0 /\ tail \in V /\ \A m \in V : m <= tail
        BY <1>14, <1>19, <4>1 DEF TrieIInv, TailIsLast
      <4>3. CASE n = tail
        <5>1. j = F BY <1>13, <3>1, <4>1, <4>2, <4>3
        <5>2. \A m \in V \cup {F} : m > n => m = F BY <1>3, <4>2, <4>3
        <5>3. F <= F /\ F > n BY <4>1
        <5>4. QED BY <1>15, <5>1, <5>2, <5>3
      <4>4. CASE n # tail
        <5>1. j = nodes[n].next BY <1>13, <3>1, <4>1, <4>4
        <5>2. (j # 0 => j \in V /\ j > n) /\ \A m \in V : m > n => j # 0 /\ j <= m
          BY <1>14, <4>1, <5>1 DEF TrieIInv, Links, FirstValid
        <5>3. PICK x \in V : x = tail /\ x > n
          <6>1. tail \in 1 .. N BY <4>2
          <6>2. n <= tail BY <4>1, <4>2
          <6>3. tail > n BY <4>1, <4>4, <6>1, <6>2
          <6>4. QED BY <4>2, <6>3
        <5>4. j # 0 /\ j \in V BY <5>2, <5>3
        <5>5. j <= F BY <1>3, <5>4
        <5>6. QED BY <5>2, <5>4, <5>5
      <4>5. QED BY <4>3, <4>4
    <3>5. QED BY <3>3, <3>4
  <2>3. QED BY <1>15, <2>1, <2>2 DEF Links
<1>21. (\E par2, dep2 : Tree(par2, dep2))'
  <2>1. PICK kid : kid = Kids OBVIOUS
  <2>2. PICK h : h = Bits OBVIOUS
  <2>3. PICK kid2 : kid2 = Kids' OBVIOUS
  <2>4. PICK h2 : h2 = Bits' OBVIOUS
  <2>5. TreeOf(V, kid, h, par, dep) BY <1>1, <1>14, <2>1, <2>2, TreeIs DEF TrieIInv
  <2>6. \A q \in 0 .. N : \A u \in 0 .. 3 : kid[q][u] = Child(q, u) /\ kid[q][u] \in 0 .. N
    BY <1>2, <2>1, NodesAre DEF Kids, TrieIInv
  <2>7. \A n \in 1 .. N : h[n] = hash[nodes[n].key] /\ h[n] \in [Nat -> 0 .. 3]
    <3>1. \A n \in 1 .. N : h[n] = hash[nodes[n].key] BY <1>2, <2>2 DEF Bits
    <3>2. \A n \in 1 .. N : hash[nodes[n].key] \in [Nat -> 0 .. 3]
      BY <1>2, NodesAre DEF TrieIInv, TrieTypeOK
    <3>3. QED BY <3>1, <3>2
  <2>8. \A q \in 0 .. F : \A u \in 0 .. 3 : kid2[q][u] = Child(q, u)' BY <1>13, <2>3 DEF Kids
  <2>9. \A n \in 1 .. F : h2[n] = hash[nodes'[n].key] BY <1>13, <2>4 DEF Bits
  <2>10. PICK b \in [Nat -> 0 .. 3] : b = hash[k] BY <1>8
  <2>11. (\A n \in 1 .. N : h2[n] = h[n]) /\ h2[N + 1] = b
    <3>1. ASSUME NEW n \in 1 .. N PROVE h2[n] = h[n]
      <4>1. nodes'[n].key = nodes[n].key /\ n \in 1 .. F BY <1>13, <1>15
      <4>2. QED BY <2>7, <2>9, <4>1
    <3>2. F \in 1 .. F BY <1>15
    <3>3. h2[F] = b BY <1>13, <2>9, <2>10, <3>2
    <3>4. QED BY <1>3, <3>1, <3>3
  <2>12. /\ \A u \in 0 .. 3 : kid2[N + 1][u] = 0
         /\ \A q \in 0 .. N : \A u \in 0 .. 3 :
              kid2[q][u] = IF q = p /\ u = t THEN N + 1 ELSE kid[q][u]
    <3>1. F \in 0 .. F /\ 0 .. N \subseteq 0 .. F BY <1>3
    <3>2. \A u \in 0 .. 3 : kid2[F][u] = 0 BY <1>13, <2>8, <3>1
    <3>3. ASSUME NEW q \in 0 .. N, NEW u \in 0 .. 3
          PROVE  kid2[q][u] = IF q = p /\ u = t THEN F ELSE kid[q][u]
      <4>1. kid2[q][u] = Child(q, u)' /\ kid[q][u] = Child(q, u) BY <2>6, <2>8, <3>1
      <4>2. QED BY <1>13, <4>1
    <3>4. QED BY <1>3, <3>2, <3>3
  <2>13. kid[p][t] \notin V BY <1>5, <1>6, <1>9, <1>11, <1>14, <2>6
  <2>14. p \in V \cup {0} /\ t = b[dep[p]] BY <1>5, <1>6, <1>9, <1>14, <2>10
  <2>15. \A j \in 0 .. dep[p] - 1 : b[j] = h[p][j]
    <3>1. CASE p = 0
      <4>1. (0 .. dep[p] - 1) = {} BY <1>1, <3>1 DEF Tree
      <4>2. QED BY <4>1
    <3>2. CASE p # 0
      <4>1. p \in 1 .. N BY <1>6, <3>2
      <4>2. QED BY <1>5, <2>7, <2>10, <4>1 DEF Leads
    <3>3. QED BY <3>1, <3>2
  <2>16. \A q \in 0 .. N : \A u \in 0 .. 3 : kid[q][u] \in 0 .. N BY <2>6
  <2>17. \A n \in 1 .. N : h[n] \in [Nat -> 0 .. 3] BY <2>7
  <2>18. PICK par2, dep2 : TreeOf(V \cup {N + 1}, kid2, h2, par2, dep2)
    <3>1. GrowsAt(N, V, kid, h, dep, p, b, t, kid2, h2)
      BY <2>11, <2>12, <2>13, <2>14, <2>15, <2>16, <2>17, Zenon DEF GrowsAt
    <3>2. QED BY <2>5, <3>1, TreeGrows, Zenon
  <2>19. Tree(par2, dep2)' BY <1>3, <1>15, <1>16, <2>3, <2>4, <2>18, TreeThen
  <2>20. QED BY <2>19
<1>22. PICK s \in Seq(Nat) :
         /\ s = Listed /\ Lists(s, 0) /\ Len(s) \in Nat
         /\ \A a \in 1 .. Len(s) : s[a] \in V
         /\ \A m \in V : \E a \in 1 .. Len(s) : s[a] = m
         /\ \A a, b \in 1 .. Len(s) : a < b => s[a] < s[b]
         /\ Pairs = [i \in 1 .. Len(s) |-> <<nodes[s[i]].key, nodes[s[i]].value>>]
         /\ Pairs \in Seq(Keys \X Stored) /\ Len(Pairs) = Len(s)
  BY <1>14, ListIs DEF TrieIInv
<1>23. PICK l \in Nat : l = Len(s) BY <1>22
<1>24. PICK r \in Seq(Nat) : r = Append(s, F)
  <2>1. Append(s, F) \in Seq(Nat) OBVIOUS
  <2>2. QED BY <2>1
<1>25. Len(r) = l + 1 /\ r[l + 1] = F /\ \A a \in 1 .. l : r[a] = s[a] BY <1>23, <1>24
<1>26. /\ \A a \in 1 .. l + 1 : a \in 1 .. l \/ a = l + 1
       /\ 1 .. l \subseteq 1 .. l + 1 /\ l + 1 \in 1 .. l + 1
  OBVIOUS
<1>27. Lists(r, 0)'
  <2>1. ASSUME NEW a \in 1 .. l + 1 PROVE r[a] \in V \cup {F} /\ r[a] > 0
    <3>1. CASE a = l + 1 BY <1>15, <1>25, <3>1
    <3>2. CASE a \in 1 .. l
      <4>1. r[a] \in V BY <1>22, <1>23, <1>25, <3>2
      <4>2. \A x \in V : x > 0 OBVIOUS
      <4>3. QED BY <4>1, <4>2
    <3>3. QED BY <1>26, <3>1, <3>2
  <2>2. ASSUME NEW m \in V \cup {F} PROVE \E a \in 1 .. l + 1 : r[a] = m
    <3>1. CASE m = F BY <1>25, <1>26, <3>1
    <3>2. CASE m # F
      <4>1. PICK a \in 1 .. l : s[a] = m BY <1>22, <1>23, <3>2
      <4>2. QED BY <1>25, <1>26, <4>1
    <3>3. QED BY <3>1, <3>2
  <2>3. ASSUME NEW a \in 1 .. l + 1, NEW b \in 1 .. l + 1, a < b PROVE r[a] < r[b]
    <3>1. a \in 1 .. l BY <2>3
    <3>2. CASE b = l + 1
      <4>1. r[a] \in 1 .. N /\ r[b] = F BY <1>22, <1>23, <1>25, <3>1, <3>2
      <4>2. QED BY <1>3, <4>1
    <3>3. CASE b \in 1 .. l BY <1>22, <1>23, <1>25, <2>3, <3>1, <3>3
    <3>4. QED BY <1>26, <3>2, <3>3
  <2>4. QED BY <1>15, <1>25, <2>1, <2>2, <2>3 DEF Lists, Increasing
<1>28. Listed' = r BY <1>16, <1>20, <1>27, ListedThen
<1>29. inserted' = Len(Listed') BY <1>13, <1>22, <1>23, <1>25, <1>28 DEF TrieIInv
<1>30. Pairs' = Append(Pairs, <<k, v>>)
  <2>1. Pairs' = [i \in 1 .. l + 1 |-> <<nodes'[r[i]].key, nodes'[r[i]].value>>]
    <3>1. DOMAIN r = 1 .. l + 1 BY <1>25
    <3>2. QED BY <1>28, <3>1, Zenon DEF Pairs
  <2>2. Append(Pairs, <<k, v>>) = [i \in 1 .. l + 1 |-> IF i = l + 1 THEN <<k, v>> ELSE Pairs[i]]
    BY <1>22, <1>23
  <2>3. ASSUME NEW i \in 1 .. l + 1
        PROVE  <<nodes'[r[i]].key, nodes'[r[i]].value>> = IF i = l + 1 THEN <<k, v>> ELSE Pairs[i]
    <3>1. CASE i = l + 1 BY <1>13, <1>25, <3>1
    <3>2. CASE i # l + 1
      <4>1. i \in 1 .. l BY <1>26, <3>2
      <4>2. r[i] = s[i] /\ s[i] \in 1 .. N /\ Pairs[i] = <<nodes[s[i]].key, nodes[s[i]].value>>
        BY <1>22, <1>23, <1>25, <4>1
      <4>3. QED BY <1>13, <3>2, <4>2
    <3>3. QED BY <3>1, <3>2
  <2>4. QED BY <2>1, <2>2, <2>3
<1>31. QED BY <1>16, <1>17, <1>18, <1>20, <1>21, <1>29, <1>30, Zenon DEF TrieIInv

\* Nodes that lose a value, a link or their validity, but no key and no child.
Stay(N) ==
  /\ N = Len(nodes) /\ Len(nodes') = N /\ nodes' \in Seq(TrieNode) /\ childs' = childs
  /\ \A m \in 1 .. N :
       /\ nodes'[m].key = nodes[m].key /\ nodes'[m].childs = nodes[m].childs
       /\ nodes'[m].valid => nodes[m].valid
       /\ nodes'[m].next = 0 \/ nodes'[m].next \in m + 1 .. N

LEMMA StayKeeps ==
  ASSUME TrieIInv, NEW N \in Nat, Stay(N), hash' = hash, NEW par, NEW dep, Tree(par, dep),
         \A n \in Valid' : par[n] \in Valid' \cup {0}
  PROVE  TrieTypeOK' /\ OnceEach' /\ Valid' \subseteq Valid /\ (\E par2, dep2 : Tree(par2, dep2))'
<1>1. /\ N = Len(nodes) /\ Len(nodes') = N /\ nodes' \in Seq(TrieNode) /\ childs' = childs
      /\ \A m \in 1 .. N :
           /\ nodes'[m].key = nodes[m].key /\ nodes'[m].childs = nodes[m].childs
           /\ nodes'[m].valid => nodes[m].valid
           /\ nodes'[m].next = 0 \/ nodes'[m].next \in m + 1 .. N
  BY DEF Stay
<1>2. Valid' \subseteq Valid /\ Valid \subseteq 1 .. N
  <2>1. Valid' = {n \in 1 .. N : nodes'[n].valid} /\ Valid = {n \in 1 .. N : nodes[n].valid}
    BY <1>1 DEF Valid
  <2>2. QED BY <1>1, <2>1
<1>3. ASSUME NEW q \in 0 .. N, NEW t \in 0 .. 3 PROVE Child(q, t)' = Child(q, t)
  <2>1. CASE q = 0 BY <1>1, <2>1 DEF Child
  <2>2. CASE q # 0
    <3>1. q \in 1 .. N BY <2>2
    <3>2. QED BY <1>1, <2>2, <3>1 DEF Child
  <2>3. QED BY <2>1, <2>2
<1>4. TrieTypeOK'
  <2>1. hash' \in [Keys -> [Nat -> 0 .. 3]] /\ childs' \in [0 .. 3 -> Nat]
    BY <1>1 DEF TrieIInv, TrieTypeOK
  <2>2. ASSUME NEW q \in 0 .. N, NEW t \in 0 .. 3 PROVE Child(q, t)' = 0 \/ Child(q, t)' \in q + 1 .. N
    <3>1. Child(q, t) = 0 \/ Child(q, t) \in q + 1 .. N BY <1>1, Zenon DEF TrieIInv, TrieTypeOK
    <3>2. QED BY <1>3, <3>1
  <2>3. QED BY <1>1, <2>1, <2>2 DEF TrieTypeOK
<1>5. OnceEach'
  <2>1. \A n \in Valid' : n \in Valid /\ nodes'[n].key = nodes[n].key BY <1>1, <1>2
  <2>2. QED BY <2>1 DEF TrieIInv, OnceEach
<1>6. Kids' = Kids /\ Bits' = Bits
  <2>1. Kids' = [q \in 0 .. N |-> [t \in 0 .. 3 |-> Child(q, t)']] BY <1>1 DEF Kids
  <2>2. Kids = [q \in 0 .. N |-> [t \in 0 .. 3 |-> Child(q, t)]] BY <1>1 DEF Kids
  <2>3. Kids' = Kids BY <1>3, <2>1, <2>2
  <2>4. Bits' = [n \in 1 .. N |-> hash[nodes'[n].key]] /\ Bits = [n \in 1 .. N |-> hash[nodes[n].key]]
    BY <1>1 DEF Bits
  <2>5. \A n \in 1 .. N : hash[nodes'[n].key] = hash[nodes[n].key] BY <1>1
  <2>6. QED BY <2>3, <2>4, <2>5
<1>7. Tree(par, dep)'
  <2>1. PICK V : V = Valid OBVIOUS
  <2>2. PICK W : W = Valid' OBVIOUS
  <2>3. PICK kid : kid = Kids /\ kid = Kids' BY <1>6
  <2>4. PICK h : h = Bits /\ h = Bits' BY <1>6
  <2>5. TreeOf(V, kid, h, par, dep) BY <2>1, <2>3, <2>4, TreeIs DEF TrieIInv
  <2>6. W \subseteq V /\ \A n \in W : par[n] \in W \cup {0} BY <1>2, <2>1, <2>2
  <2>7. TreeOf(W, kid, h, par, dep) BY <2>5, <2>6, TreeShrinks
  <2>8. QED BY <1>4, <2>2, <2>3, <2>4, <2>7, TreeThen
<1>8. QED BY <1>2, <1>4, <1>5, <1>7

LEMMA TrieStays ==
  ASSUME TrieIInv, Unchanged, hash' = hash PROVE TrieIInv' /\ Pairs' = Pairs
<1>1. UNCHANGED <<hash, childs, nodes, head, tail, inserted>> BY DEF Unchanged
<1>2. Valid' = Valid /\ Listed' = Listed /\ Pairs' = Pairs BY <1>1 DEF Valid, Listed, Pairs
<1>3. TrieTypeOK' /\ OnceEach' /\ TailIsLast' /\ inserted' = Len(Listed')
  BY <1>1, <1>2 DEF TrieIInv, TrieTypeOK, OnceEach, TailIsLast, Child
<1>4. Links' BY <1>1, <1>2 DEF TrieIInv, Links, FirstValid
<1>5. (\E par, dep : Tree(par, dep))'
  <2>1. PICK par, dep : Tree(par, dep) BY DEF TrieIInv
  <2>2. PICK N \in Nat : N = Len(nodes) BY NodesAre DEF TrieIInv
  <2>3. Stay(N)
    <3>1. \A m \in 1 .. N : nodes[m].next = 0 \/ nodes[m].next \in m + 1 .. N
      BY <2>2 DEF TrieIInv, TrieTypeOK
    <3>2. nodes \in Seq(TrieNode) BY DEF TrieIInv, TrieTypeOK
    <3>3. QED BY <1>1, <2>2, <3>1, <3>2 DEF Stay
  <2>4. \A n \in Valid' : par[n] \in Valid' \cup {0} BY <1>2, <2>1 DEF Tree, Parents
  <2>5. QED BY <2>1, <2>3, <2>4, StayKeeps
<1>6. QED BY <1>2, <1>3, <1>4, <1>5, Zenon DEF TrieIInv

LEMMA RewriteKeeps ==
  ASSUME TrieIInv, NEW k \in Keys, NEW v \in Stored, NEW l, NEW x, KeyFound(k, l, x),
         nodes' = [nodes EXCEPT ![l].value = v], UNCHANGED <<hash, childs, head, tail, inserted>>
  PROVE  TrieIInv' /\ Pairs' = [Pairs EXCEPT ![x] = <<k, v>>]
<1>1. PICK par, dep : Tree(par, dep) BY DEF TrieIInv
<1>2. PICK N \in Nat : N = Len(nodes) BY NodesAre DEF TrieIInv
<1>3. l \in Valid /\ nodes[l].key = k /\ x \in 1 .. Len(Listed) /\ Listed[x] = l BY DEF KeyFound
<1>4. Valid \subseteq 1 .. N /\ l \in 1 .. N BY <1>2, <1>3 DEF Valid
<1>5. nodes \in Seq(TrieNode) BY DEF TrieIInv, TrieTypeOK
<1>6. PICK r \in TrieNode : r = nodes[l] BY <1>2, <1>4, <1>5
<1>7. PICK u : u = [r EXCEPT !.value = v] OBVIOUS
<1>8. u \in TrieNode /\ SameButValue(r, u, v) BY <1>7, ValueSet
<1>9. nodes' = [nodes EXCEPT ![l] = u] BY <1>6, <1>7, Zenon
<1>10. nodes' \in Seq(TrieNode) /\ Replaced(nodes, l, u, nodes')
  BY <1>2, <1>4, <1>5, <1>8, <1>9, NodeSet
<1>11. /\ Len(nodes') = N /\ nodes'[l] = u /\ \A m \in 1 .. N : m # l => nodes'[m] = nodes[m]
  BY <1>2, <1>10 DEF Replaced
<1>12. ASSUME NEW m \in 1 .. N
       PROVE  /\ nodes'[m].key = nodes[m].key /\ nodes'[m].childs = nodes[m].childs
              /\ nodes'[m].valid = nodes[m].valid /\ nodes'[m].next = nodes[m].next
              /\ m = l => nodes'[m].value = v
              /\ m # l => nodes'[m].value = nodes[m].value
  <2>1. CASE m = l
    <3>1. nodes'[m] = u /\ nodes[m] = r BY <1>6, <1>11, <2>1
    <3>2. QED BY <1>8, <2>1, <3>1, Zenon DEF SameButValue
  <2>2. CASE m # l
    <3>1. nodes'[m] = nodes[m] BY <1>11, <2>2
    <3>2. QED BY <2>2, <3>1, Zenon
  <2>3. QED BY <2>1, <2>2
<1>13. Valid' = Valid BY <1>2, <1>11, <1>12 DEF Valid
<1>14. Stay(N)
  <2>1. \A m \in 1 .. N : nodes[m].next = 0 \/ nodes[m].next \in m + 1 .. N
    BY <1>2 DEF TrieIInv, TrieTypeOK
  <2>2. \A m \in 1 .. N : nodes'[m].next = 0 \/ nodes'[m].next \in m + 1 .. N BY <1>12, <2>1
  <2>3. QED BY <1>2, <1>10, <1>11, <1>12, <2>2 DEF Stay
<1>15. TrieTypeOK' /\ OnceEach' /\ (\E par2, dep2 : Tree(par2, dep2))'
  <2>1. \A n \in Valid' : par[n] \in Valid' \cup {0} BY <1>1, <1>13 DEF Tree, Parents
  <2>2. QED BY <1>1, <1>14, <2>1, StayKeeps
<1>16. TailIsLast' BY <1>13 DEF TrieIInv, TailIsLast
<1>17. Links'
  <2>1. FirstValid(0, head)' BY <1>13 DEF TrieIInv, Links, FirstValid
  <2>2. ASSUME NEW n \in Valid' PROVE FirstValid(n, nodes[n].next)'
    <3>1. FirstValid(n, nodes[n].next) /\ nodes'[n].next = nodes[n].next
      BY <1>4, <1>12, <1>13 DEF TrieIInv, Links
    <3>2. QED BY <1>13, <3>1 DEF FirstValid
  <2>3. QED BY <2>1, <2>2 DEF Links
<1>18. PICK s \in Seq(Nat) :
         /\ s = Listed /\ Lists(s, 0) /\ Len(s) \in Nat /\ DOMAIN s = 1 .. Len(s)
         /\ \A a \in 1 .. Len(s) : s[a] \in Valid
         /\ \A a, b \in 1 .. Len(s) : s[a] = s[b] => a = b
         /\ Pairs = [j \in 1 .. Len(s) |-> <<nodes[s[j]].key, nodes[s[j]].value>>]
  BY ListIs DEF TrieIInv
<1>19. Listed' = s
  <2>1. Lists(s, 0)' BY <1>13, <1>18 DEF Lists
  <2>2. QED BY <1>15, <1>17, <2>1, ListedThen
<1>20. inserted' = Len(Listed') BY <1>18, <1>19 DEF TrieIInv
<1>21. Pairs' = [Pairs EXCEPT ![x] = <<k, v>>]
  <2>1. PICK len \in Nat : len = Len(s) OBVIOUS
  <2>2. Pairs' = [j \in 1 .. len |-> <<nodes'[s[j]].key, nodes'[s[j]].value>>]
    <3>1. DOMAIN s = 1 .. len BY <1>18, <2>1, Zenon
    <3>2. PICK L, ns : L = Listed' /\ ns = nodes' OBVIOUS
    <3>3. Pairs' = [j \in DOMAIN L |-> <<ns[L[j]].key, ns[L[j]].value>>] BY <3>2 DEF Pairs
    <3>4. L = s BY <1>19, <3>2
    <3>5. QED BY <3>1, <3>2, <3>3, <3>4
  <2>3. x \in 1 .. len /\ s[x] = l BY <1>3, <1>18, <2>1
  <2>4. ASSUME NEW j \in 1 .. len
        PROVE  <<nodes'[s[j]].key, nodes'[s[j]].value>> =
                 IF j = x THEN <<k, v>> ELSE <<nodes[s[j]].key, nodes[s[j]].value>>
    <3>1. s[j] \in 1 .. N /\ (s[j] = l => j = x) BY <1>4, <1>18, <2>1, <2>3
    <3>2. QED BY <1>3, <1>12, <2>3, <3>1
  <2>5. QED BY <1>18, <2>1, <2>2, <2>3, <2>4
<1>22. QED BY <1>15, <1>16, <1>17, <1>20, <1>21, Zenon DEF TrieIInv

LEMMA TrieClears ==
  ASSUME TrieIInv, Clear, hash' = hash PROVE TrieIInv' /\ Pairs' = <<>>
<1>1. PICK N \in Nat : N = Len(nodes) BY NodesAre DEF TrieIInv
<1>2. nodes \in Seq(TrieNode) /\ DOMAIN nodes = 1 .. N /\ \A m \in 1 .. N : nodes[m] \in TrieNode
  BY <1>1 DEF TrieIInv, TrieTypeOK
<1>3. PICK R : R = Range(Listed) OBVIOUS
<1>4. /\ nodes' = [n \in 1 .. N |-> [nodes[n] EXCEPT !.valid = nodes[n].valid /\ n \notin R]]
      /\ head' = 0 /\ tail' = 0 /\ inserted' = 0 /\ childs' = childs
  BY <1>2, <1>3 DEF Clear
<1>5. ASSUME NEW n \in 1 .. N
      PROVE  /\ nodes'[n] \in TrieNode /\ nodes'[n].key = nodes[n].key
             /\ nodes'[n].childs = nodes[n].childs /\ nodes'[n].next = nodes[n].next
             /\ nodes'[n].valid = (nodes[n].valid /\ n \notin R)
  <2>1. PICK r \in TrieNode : r = nodes[n] BY <1>2
  <2>2. PICK b \in BOOLEAN : b = (nodes[n].valid /\ n \notin R) OBVIOUS
  <2>3. PICK u : u = [r EXCEPT !.valid = b] OBVIOUS
  <2>4. nodes'[n] = u BY <1>4, <2>1, <2>2, <2>3, Zenon
  <2>5. u \in TrieNode /\ u.key = r.key /\ u.childs = r.childs /\ u.next = r.next /\ u.valid = b
    BY <2>3 DEF TrieNode
  <2>6. QED BY <2>1, <2>2, <2>4, <2>5, Zenon
<1>6. nodes' \in Seq(TrieNode) /\ Len(nodes') = N
  <2>1. DOMAIN nodes' = 1 .. N /\ nodes' = [n \in 1 .. N |-> nodes'[n]] BY <1>4
  <2>2. nodes' \in [1 .. N -> TrieNode] BY <1>5, <2>1
  <2>3. QED BY <2>2
<1>7. \A n \in Valid : n \in R
  <2>1. PICK s \in Seq(Nat) : s = Listed /\ DOMAIN s = 1 .. Len(s)
                                /\ \A m \in Valid : \E a \in 1 .. Len(s) : s[a] = m
    BY ListIs DEF TrieIInv
  <2>2. QED BY <1>3, <2>1 DEF Range
<1>8. Valid' = {}
  <2>1. ASSUME NEW n \in 1 .. N PROVE ~nodes'[n].valid
    <3>1. nodes[n].valid => n \in R BY <1>1, <1>7 DEF Valid
    <3>2. QED BY <1>5, <3>1
  <2>2. QED BY <1>6, <2>1 DEF Valid
<1>9. Stay(N)
  <2>1. \A m \in 1 .. N : nodes[m].next = 0 \/ nodes[m].next \in m + 1 .. N
    BY <1>1 DEF TrieIInv, TrieTypeOK
  <2>2. \A m \in 1 .. N : nodes'[m].next = 0 \/ nodes'[m].next \in m + 1 .. N BY <1>5, <2>1
  <2>3. QED BY <1>1, <1>4, <1>5, <1>6, <2>2 DEF Stay
<1>10. TrieTypeOK' /\ OnceEach' /\ (\E par2, dep2 : Tree(par2, dep2))'
  <2>1. PICK par, dep : Tree(par, dep) BY DEF TrieIInv
  <2>2. \A n \in Valid' : par[n] \in Valid' \cup {0} BY <1>8
  <2>3. QED BY <1>9, <2>1, <2>2, StayKeeps
<1>11. TailIsLast' /\ Links' BY <1>4, <1>8 DEF TailIsLast, Links, FirstValid
<1>12. Listed' = <<>>
  <2>1. PICK s \in Seq(Nat) : s = <<>> /\ Len(s) = 0 /\ (1 .. 0) = {}
    <3>1. <<>> \in Seq(Nat) /\ Len(<<>>) = 0 /\ (1 .. 0) = {} OBVIOUS
    <3>2. QED BY <3>1
  <2>2. Lists(s, 0)' BY <1>8, <2>1 DEF Lists, Increasing
  <2>3. QED BY <1>10, <1>11, <2>1, <2>2, ListedThen
<1>13. inserted' = Len(Listed') /\ Pairs' = <<>>
  <2>1. Len(<<>>) = 0 /\ DOMAIN <<>> = {} OBVIOUS
  <2>2. Pairs' = [i \in {} |-> <<nodes'[Listed'[i]].key, nodes'[Listed'[i]].value>>]
    BY <1>12, <2>1, Zenon DEF Pairs
  <2>3. Pairs' = <<>> BY <2>2
  <2>4. QED BY <1>4, <1>12, <2>1, <2>3
<1>14. QED BY <1>10, <1>11, <1>13, Zenon DEF TrieIInv

\* A valid node is taken out of the list behind b (0 when it is the first), and loses its link.
Taken(N, l, b) ==
  /\ N = Len(nodes) /\ Len(nodes') = N /\ nodes' \in Seq(TrieNode) /\ childs' = childs
  /\ \A m \in 1 .. N :
       /\ nodes'[m].key = nodes[m].key /\ nodes'[m].childs = nodes[m].childs
       /\ nodes'[m].value = nodes[m].value
       /\ m = l => nodes'[m].next = 0 /\ ~nodes'[m].valid
       /\ m # l => nodes'[m].valid = nodes[m].valid
       /\ m # l /\ m = b => nodes'[m].next = nodes[l].next
       /\ m # l /\ m # b => nodes'[m].next = nodes[m].next

Unlisted(l) == [nodes EXCEPT ![l].valid = FALSE, ![l].next = 0]

LEMMA UnlistedIs ==
  ASSUME TrieTypeOK, NEW N \in Nat, N = Len(nodes), NEW l \in 1 .. N, NEW b \in 0 .. N, b # l,
         nodes' = IF b = 0 THEN Unlisted(l) ELSE [Unlisted(l) EXCEPT ![b].next = nodes[l].next],
         childs' = childs
  PROVE  Taken(N, l, b)
<1>1. nodes \in Seq(TrieNode) /\ \A m \in 1 .. N : nodes[m] \in TrieNode BY DEF TrieTypeOK
<1>2. PICK r \in TrieNode : r = nodes[l] BY <1>1
<1>3. PICK u : u = [r EXCEPT !.valid = FALSE, !.next = 0] OBVIOUS
<1>4. /\ u \in TrieNode /\ u.key = r.key /\ u.value = r.value /\ u.childs = r.childs
      /\ u.next = 0 /\ u.valid = FALSE
  BY <1>3 DEF TrieNode
<1>5. PICK ns : ns = Unlisted(l) OBVIOUS
<1>6. ns = [nodes EXCEPT ![l] = u] BY <1>1, <1>2, <1>3, <1>5 DEF Unlisted
<1>7. ns \in Seq(TrieNode) /\ Replaced(nodes, l, u, ns) BY <1>1, <1>4, <1>6, NodeSet
<1>8. Len(ns) = N /\ ns[l] = u /\ \A m \in 1 .. N : m # l => ns[m] = nodes[m] BY <1>7 DEF Replaced
<1>9. CASE b = 0
  <2>1. nodes' = ns BY <1>5, <1>9, Zenon
  <2>2. ASSUME NEW m \in 1 .. N
        PROVE  /\ nodes'[m].key = nodes[m].key /\ nodes'[m].childs = nodes[m].childs
               /\ nodes'[m].value = nodes[m].value
               /\ m = l => nodes'[m].next = 0 /\ ~nodes'[m].valid
               /\ m # l => nodes'[m].valid = nodes[m].valid
               /\ m # l /\ m = b => nodes'[m].next = nodes[l].next
               /\ m # l /\ m # b => nodes'[m].next = nodes[m].next
    <3>1. m # b BY <1>9
    <3>2. CASE m = l
      <4>1. nodes'[m] = u /\ nodes[m] = r BY <1>2, <1>8, <2>1, <3>2, Zenon
      <4>2. QED BY <1>4, <3>2, <4>1, Zenon
    <3>3. CASE m # l
      <4>1. nodes'[m] = nodes[m] BY <1>8, <2>1, <3>3, Zenon
      <4>2. QED BY <3>1, <3>3, <4>1, Zenon
    <3>4. QED BY <3>2, <3>3, Zenon
  <2>3. Len(nodes') = N /\ nodes' \in Seq(TrieNode) BY <1>7, <1>8, <2>1, Zenon
  <2>4. QED BY <2>2, <2>3, Zenon DEF Taken
<1>10. CASE b # 0
  <2>1. b \in 1 .. N /\ b \in 1 .. Len(ns) BY <1>8, <1>10
  <2>2. PICK x \in Nat : x = nodes[l].next BY <1>2 DEF TrieNode
  <2>3. PICK p \in TrieNode : p = nodes[b] /\ p = ns[b] BY <1>1, <1>8, <2>1
  <2>4. PICK q : q = [p EXCEPT !.next = x] OBVIOUS
  <2>5. q \in TrieNode /\ SameButNext(p, q, x) BY <2>4, NextSet
  <2>6. nodes' = [ns EXCEPT ![b].next = x] BY <1>5, <1>10, <2>2, Zenon
  <2>7. nodes' = [ns EXCEPT ![b] = q] BY <2>3, <2>4, <2>6, Zenon
  <2>8. nodes' \in Seq(TrieNode) /\ Replaced(ns, b, q, nodes') BY <1>7, <2>1, <2>5, <2>7, NodeSet
  <2>9. Len(nodes') = N /\ nodes'[b] = q /\ \A m \in 1 .. N : m # b => nodes'[m] = ns[m]
    BY <1>8, <2>8 DEF Replaced
  <2>10. ASSUME NEW m \in 1 .. N
         PROVE  /\ nodes'[m].key = nodes[m].key /\ nodes'[m].childs = nodes[m].childs
                /\ nodes'[m].value = nodes[m].value
                /\ m = l => nodes'[m].next = 0 /\ ~nodes'[m].valid
                /\ m # l => nodes'[m].valid = nodes[m].valid
                /\ m # l /\ m = b => nodes'[m].next = nodes[l].next
                /\ m # l /\ m # b => nodes'[m].next = nodes[m].next
    <3>1. CASE m = l
      <4>1. nodes'[m] = u /\ nodes[m] = r BY <1>2, <1>8, <2>9, <3>1
      <4>2. QED BY <1>4, <3>1, <4>1, Zenon
    <3>2. CASE m = b
      <4>1. nodes'[m] = q /\ nodes[m] = p /\ m # l BY <2>3, <2>9, <3>2
      <4>2. QED BY <2>2, <2>5, <3>2, <4>1, Zenon DEF SameButNext
    <3>3. CASE m # l /\ m # b
      <4>1. nodes'[m] = nodes[m] BY <1>8, <2>9, <3>3, Zenon
      <4>2. QED BY <3>3, <4>1, Zenon
    <3>4. QED BY <3>1, <3>2, <3>3, Zenon
  <2>11. QED BY <2>8, <2>9, <2>10, Zenon DEF Taken
<1>11. QED BY <1>9, <1>10

\* What is left of a sequence without its element x.
Without(q, x) == SubSeq(q, 1, x - 1) \o SubSeq(q, x + 1, Len(q))
LeavesOut(q, x, r) ==
  Len(r) = Len(q) - 1 /\ \A a \in 1 .. Len(q) - 1 : r[a] = q[IF a < x THEN a ELSE a + 1]

LEMMA WithoutIs ==
  ASSUME NEW S, NEW q \in Seq(S), NEW x \in 1 .. Len(q), NEW r, r = Without(q, x)
  PROVE  r \in Seq(S) /\ LeavesOut(q, x, r)
<1>1. PICK n \in Nat : n = Len(q) OBVIOUS
<1>2. PICK f \in Seq(S) : /\ f = SubSeq(q, 1, x - 1) /\ Len(f) = x - 1
                          /\ \A a \in 1 .. x - 1 : f[a] = q[a]
  <2>1. /\ SubSeq(q, 1, x - 1) \in Seq(S) /\ Len(SubSeq(q, 1, x - 1)) = x - 1
        /\ \A a \in 1 .. x - 1 : SubSeq(q, 1, x - 1)[a] = q[a]
    BY <1>1
  <2>2. QED BY <2>1
<1>3. PICK g \in Seq(S) : /\ g = SubSeq(q, x + 1, n) /\ Len(g) = n - x
                          /\ \A a \in 1 .. n - x : g[a] = q[x + a]
  <2>1. /\ SubSeq(q, x + 1, n) \in Seq(S) /\ Len(SubSeq(q, x + 1, n)) = n - x
        /\ \A a \in 1 .. n - x : SubSeq(q, x + 1, n)[a] = q[x + a]
    BY <1>1
  <2>2. QED BY <2>1
<1>4. r = f \o g BY <1>1, <1>2, <1>3, Zenon DEF Without
<1>5. r \in Seq(S) /\ Len(r) = n - 1
      /\ \A a \in 1 .. n - 1 : r[a] = IF a <= x - 1 THEN f[a] ELSE g[a - (x - 1)]
  <2>1. PICK m \in Nat : m = x - 1
    <3>1. x - 1 \in Nat BY <1>1
    <3>2. QED BY <3>1, Zenon
  <2>2. PICK k \in Nat : k = n - x
    <3>1. n - x \in Nat BY <1>1
    <3>2. QED BY <3>1, Zenon
  <2>3. m = Len(f) /\ k = Len(g) /\ m + k = n - 1
    <3>1. m + k = n - 1 BY <1>1, <2>1, <2>2
    <3>2. QED BY <1>2, <1>3, <2>1, <2>2, <3>1, Zenon
  <2>4. IsJoin(S, r, f, m, g, k) BY <1>4, <2>3, Joined, Zenon
  <2>5. r \in Seq(S) /\ Len(r) = n - 1 BY <2>3, <2>4 DEF IsJoin
  <2>6. \A a \in 1 .. n - 1 : r[a] = IF a <= m THEN f[a] ELSE g[a - m] BY <2>3, <2>4, Zenon DEF IsJoin
  <2>7. QED BY <2>1, <2>5, <2>6, Zenon
<1>6. ASSUME NEW a \in 1 .. n - 1 PROVE r[a] = q[IF a < x THEN a ELSE a + 1]
  <2>1. CASE a < x
    <3>1. a \in 1 .. x - 1 /\ a <= x - 1 BY <1>1, <2>1
    <3>2. r[a] = f[a] BY <1>5, <3>1, Zenon
    <3>3. QED BY <1>2, <2>1, <3>1, <3>2, Zenon
  <2>2. CASE ~(a < x)
    <3>1. a - (x - 1) \in 1 .. n - x /\ r[a] = g[a - (x - 1)]
      <4>1. a - (x - 1) \in 1 .. n - x /\ ~(a <= x - 1) BY <1>1, <2>2
      <4>2. QED BY <1>5, <4>1, Zenon
    <3>2. x + (a - (x - 1)) = a + 1 OBVIOUS
    <3>3. g[a - (x - 1)] = q[a + 1] BY <1>3, <3>1, <3>2
    <3>4. QED BY <2>2, <3>1, <3>3
  <2>3. QED BY <2>1, <2>2
<1>7. QED BY <1>1, <1>5, <1>6 DEF LeavesOut

LEMMA TakenKeeps ==
  ASSUME TrieIInv, NEW k \in Keys, NEW l, NEW x, KeyFound(k, l, x), Below(l) = {},
         NEW N \in Nat, NEW b, b = (IF x = 1 THEN 0 ELSE Listed[x - 1]), Taken(N, l, b),
         hash' = hash, inserted' = inserted - 1,
         head' = (IF x = 1 THEN IF head = tail THEN 0 ELSE nodes[l].next ELSE head),
         tail' = (IF x = 1 THEN IF head = tail THEN 0 ELSE tail ELSE IF l = tail THEN b ELSE tail)
  PROVE  TrieIInv' /\ Pairs' = Without(Pairs, x)
<1>1. PICK par, dep : Tree(par, dep) BY DEF TrieIInv
<1>2. PICK V : V = Valid OBVIOUS
<1>3. PICK s \in Seq(Nat) :
        /\ s = Listed /\ Lists(s, 0)
        /\ \A a \in 1 .. Len(s) : s[a] \in V
        /\ \A m \in V : \E a \in 1 .. Len(s) : s[a] = m
        /\ \A a, c \in 1 .. Len(s) : a < c => s[a] < s[c]
        /\ Pairs = [a \in 1 .. Len(s) |-> <<nodes[s[a]].key, nodes[s[a]].value>>]
        /\ Pairs \in Seq(Keys \X Stored) /\ Len(Pairs) = Len(s)
  BY <1>2, ListIs DEF TrieIInv
<1>4. PICK n \in Nat : n = Len(s) OBVIOUS
<1>5. l \in V /\ x \in 1 .. n /\ s[x] = l BY <1>2, <1>3, <1>4 DEF KeyFound
<1>6. /\ N = Len(nodes) /\ Len(nodes') = N /\ nodes' \in Seq(TrieNode) /\ childs' = childs
      /\ \A m \in 1 .. N :
           /\ nodes'[m].key = nodes[m].key /\ nodes'[m].childs = nodes[m].childs
           /\ nodes'[m].value = nodes[m].value
           /\ m = l => nodes'[m].next = 0 /\ ~nodes'[m].valid
           /\ m # l => nodes'[m].valid = nodes[m].valid
           /\ m # l /\ m = b => nodes'[m].next = nodes[l].next
           /\ m # l /\ m # b => nodes'[m].next = nodes[m].next
  BY DEF Taken
<1>7. V \subseteq 1 .. N /\ V \subseteq Nat BY <1>2, <1>6 DEF Valid
<1>8. Valid' = V \ {l}
  <2>1. Valid' = {m \in 1 .. N : nodes'[m].valid} /\ V = {m \in 1 .. N : nodes[m].valid}
    BY <1>2, <1>6 DEF Valid
  <2>2. ASSUME NEW m \in 1 .. N PROVE m \in Valid' <=> m \in V /\ m # l BY <1>6, <2>1
  <2>3. QED BY <1>7, <2>1, <2>2
<1>9. b \in Nat /\ b < l /\ (x = 1 => b = 0) /\ (x # 1 => b \in V)
  <2>1. CASE x = 1 BY <1>5, <1>7, <2>1
  <2>2. CASE x # 1
    <3>1. x - 1 \in 1 .. n /\ x - 1 < x BY <1>5, <2>2
    <3>2. b = s[x - 1] BY <1>3, <2>2
    <3>3. s[x - 1] \in V /\ s[x - 1] < s[x] BY <1>3, <1>4, <1>5, <3>1
    <3>4. QED BY <1>5, <1>7, <2>2, <3>2, <3>3
  <2>3. QED BY <2>1, <2>2
<1>10. ASSUME NEW m \in V PROVE m = l \/ m > l \/ (m <= b /\ x # 1)
  <2>1. PICK a \in 1 .. n : s[a] = m BY <1>3, <1>4
  <2>2. CASE a = x BY <1>5, <2>1, <2>2
  <2>3. CASE a > x
    <3>1. s[x] < s[a] BY <1>3, <1>4, <1>5, <2>3
    <3>2. QED BY <1>5, <1>7, <2>1, <3>1
  <2>4. CASE a < x
    <3>1. x # 1 /\ x - 1 \in 1 .. n /\ (a = x - 1 \/ a < x - 1) BY <1>5, <2>4
    <3>2. b = s[x - 1] BY <1>3, <3>1
    <3>3. s[a] = s[x - 1] \/ s[a] < s[x - 1] BY <1>3, <1>4, <3>1
    <3>4. QED BY <1>7, <1>9, <2>1, <3>1, <3>2, <3>3
  <2>5. QED BY <1>5, <2>2, <2>3, <2>4
<1>11. PICK j : j = nodes[l].next OBVIOUS
<1>12. (j # 0 => j \in V /\ j > l) /\ \A m \in V : m > l => j # 0 /\ j <= m
  BY <1>2, <1>5, <1>11 DEF TrieIInv, Links, FirstValid
<1>13. Stay(N)
  <2>1. \A m \in 1 .. N : nodes[m].next = 0 \/ nodes[m].next \in m + 1 .. N
    BY <1>6 DEF TrieIInv, TrieTypeOK
  <2>2. ASSUME NEW m \in 1 .. N PROVE nodes'[m].next = 0 \/ nodes'[m].next \in m + 1 .. N
    <3>1. CASE m = l BY <1>6, <3>1
    <3>2. CASE m # l /\ m = b
      <4>1. nodes'[m].next = j BY <1>6, <1>11, <3>2
      <4>2. j = 0 \/ j \in b + 1 .. N
        <5>1. j # 0 => j \in V /\ j > l BY <1>12
        <5>2. b \in Nat /\ l \in Nat /\ b < l BY <1>5, <1>7, <1>9
        <5>3. j # 0 => j \in 1 .. N /\ j > l BY <1>7, <5>1
        <5>4. QED BY <5>2, <5>3
      <4>3. QED BY <3>2, <4>1, <4>2
    <3>3. CASE m # l /\ m # b BY <1>6, <2>1, <3>3
    <3>4. QED BY <3>1, <3>2, <3>3
  <2>3. \A m \in 1 .. N : nodes'[m].valid => nodes[m].valid BY <1>6
  <2>4. QED BY <1>6, <2>2, <2>3, Zenon DEF Stay
<1>14. TrieTypeOK' /\ OnceEach' /\ (\E par2, dep2 : Tree(par2, dep2))'
  <2>1. ASSUME NEW m \in V \ {l} PROVE par[m] \in (V \ {l}) \cup {0}
    <3>1. PICK q : q = par[m] OBVIOUS
    <3>2. PICK u : u = hash[nodes[m].key][dep[q]] OBVIOUS
    <3>3. q \in V \cup {0} /\ Child(q, u) = m BY <1>1, <1>2, <3>1, <3>2 DEF Tree, Parents
    <3>4. u \in 0 .. 3
      <4>1. m \in 1 .. N /\ q \in Nat BY <1>7, <3>3
      <4>2. nodes[m].key \in Keys /\ dep[q] \in Nat BY <1>1, <1>6, <4>1, NodesAre DEF Tree, TrieIInv
      <4>3. hash[nodes[m].key] \in [Nat -> 0 .. 3] BY <4>2 DEF TrieIInv, TrieTypeOK
      <4>4. QED BY <3>2, <4>2, <4>3
    <3>5. q # l
      <4>1. SUFFICES ASSUME q = l PROVE FALSE OBVIOUS
      <4>2. l # 0 /\ m # 0 /\ nodes[m].valid BY <1>2, <1>5, <1>7 DEF Valid
      <4>3. nodes[l].childs[u] = m BY <3>3, <4>1, <4>2 DEF Child
      <4>4. m \in Below(l) BY <3>4, <4>2, <4>3 DEF Below
      <4>5. QED BY <4>4
    <3>6. QED BY <3>1, <3>3, <3>5
  <2>2. \A m \in Valid' : par[m] \in Valid' \cup {0} BY <1>8, <2>1
  <2>3. QED BY <1>1, <1>13, <2>2, StayKeeps
<1>15. PICK h : h = head OBVIOUS
<1>16. h \in V /\ h # 0 /\ \A m \in V : h <= m
  <2>1. ASSUME NEW m \in V PROVE m > 0
    <3>1. m \in 1 .. N BY <1>7
    <3>2. QED BY <3>1
  <2>2. (h # 0 => h \in V) /\ \A m \in V : h # 0 /\ h <= m
    BY <1>2, <1>15, <2>1 DEF TrieIInv, Links, FirstValid
  <2>3. QED BY <1>5, <2>2
<1>17. PICK t : t = tail OBVIOUS
<1>18. t \in V /\ \A m \in V : m <= t BY <1>2, <1>5, <1>17 DEF TrieIInv, TailIsLast
<1>19. x = 1 => l = h
  <2>1. SUFFICES ASSUME x = 1 PROVE l = h OBVIOUS
  <2>2. h = l \/ h > l BY <1>10, <1>16, <2>1
  <2>3. h <= l /\ h \in Nat /\ l \in Nat BY <1>5, <1>7, <1>16
  <2>4. QED BY <2>2, <2>3
<1>20. Links'
  <2>1. FirstValid(0, head)'
    <3>1. PICK g : g = head' OBVIOUS
    <3>2. SUFFICES (g # 0 => g \in V \ {l} /\ g > 0) /\ \A m \in V \ {l} : m > 0 => g # 0 /\ g <= m
      BY <1>8, <3>1 DEF FirstValid
    <3>3. CASE x = 1 /\ h = t
      <4>1. g = 0 BY <1>15, <1>17, <3>1, <3>3
      <4>2. ASSUME NEW m \in V \ {l} PROVE FALSE
        <5>1. l <= m /\ m <= l /\ m \in Nat /\ l \in Nat BY <1>5, <1>7, <1>16, <1>18, <1>19, <3>3
        <5>2. QED BY <4>2, <5>1
      <4>3. QED BY <4>1, <4>2
    <3>4. CASE x = 1 /\ h # t
      <4>1. g = j BY <1>11, <1>15, <1>17, <3>1, <3>4
      <4>2. \A m \in V \ {l} : m > l BY <1>10, <3>4
      <4>3. t \in V \ {l} BY <1>18, <1>19, <3>4
      <4>4. j # 0 /\ j \in V /\ j > l /\ \A m \in V \ {l} : j <= m BY <1>12, <4>2, <4>3
      <4>5. j \in Nat /\ l \in Nat BY <1>5, <1>7, <4>4
      <4>6. QED BY <4>1, <4>4, <4>5
    <3>5. CASE x # 1
      <4>1. g = h BY <1>15, <3>1, <3>5
      <4>2. h # l
        <5>1. h <= b /\ h \in Nat /\ l \in Nat BY <1>5, <1>7, <1>9, <1>16, <3>5
        <5>2. QED BY <1>9, <5>1
      <4>3. h > 0 BY <1>7, <1>16
      <4>4. QED BY <1>16, <4>1, <4>2, <4>3
    <3>6. QED BY <3>3, <3>4, <3>5
  <2>2. ASSUME NEW m \in V \ {l} PROVE FirstValid(m, nodes[m].next)'
    <3>1. PICK g : g = nodes'[m].next OBVIOUS
    <3>2. SUFFICES (g # 0 => g \in V \ {l} /\ g > m) /\ \A c \in V \ {l} : c > m => g # 0 /\ g <= c
      BY <1>8, <3>1 DEF FirstValid
    <3>3. m \in Nat /\ l \in Nat /\ m \in 1 .. N /\ m # l BY <1>5, <1>7
    <3>4. CASE m = b
      <4>1. g = j BY <1>6, <1>11, <3>1, <3>3, <3>4
      <4>2. j # 0 => j \in V \ {l} /\ j > m
        <5>1. SUFFICES ASSUME j # 0 PROVE j \in V \ {l} /\ j > m OBVIOUS
        <5>2. j \in V /\ j > l /\ j \in Nat BY <1>7, <1>12, <5>1
        <5>3. QED BY <1>9, <3>3, <3>4, <5>2
      <4>3. ASSUME NEW c \in V \ {l}, c > m PROVE j # 0 /\ j <= c
        <5>1. c \in Nat /\ (c > l \/ c <= b) BY <1>7, <1>10, <4>3
        <5>2. c > l BY <1>9, <3>4, <4>3, <5>1
        <5>3. QED BY <1>12, <5>2
      <4>4. QED BY <4>1, <4>2, <4>3
    <3>5. CASE m # b
      <4>1. g = nodes[m].next BY <1>6, <3>1, <3>3, <3>5
      <4>2. (g # 0 => g \in V /\ g > m) /\ \A c \in V : c > m => g # 0 /\ g <= c
        BY <1>2, <4>1 DEF TrieIInv, Links, FirstValid
      <4>3. g # l
        <5>1. SUFFICES ASSUME g = l PROVE FALSE OBVIOUS
        <5>2. l > m BY <1>5, <1>7, <4>2, <5>1
        <5>3. m <= b /\ x # 1 BY <1>10, <3>3, <5>2
        <5>4. b \in V /\ b > m BY <1>9, <3>3, <3>5, <5>3
        <5>5. l <= b BY <4>2, <5>1, <5>4
        <5>6. QED BY <1>9, <3>3, <5>5
      <4>4. QED BY <4>2, <4>3
    <3>6. QED BY <3>4, <3>5
  <2>3. QED BY <1>8, <2>1, <2>2 DEF Links
<1>21. TailIsLast'
  <2>1. PICK g : g = tail' OBVIOUS
  <2>2. SUFFICES (g # 0 => g \in V \ {l}) /\ \A m \in V \ {l} : g # 0 /\ m <= g
    BY <1>8, <2>1 DEF TailIsLast
  <2>3. t # 0 BY <1>7, <1>18
  <2>4. CASE x = 1 /\ h = t
    <3>1. g = 0 BY <1>15, <1>17, <2>1, <2>4
    <3>2. ASSUME NEW m \in V \ {l} PROVE FALSE
      <4>1. l <= m /\ m <= l /\ m \in Nat /\ l \in Nat BY <1>5, <1>7, <1>16, <1>18, <1>19, <2>4
      <4>2. QED BY <3>2, <4>1
    <3>3. QED BY <3>1, <3>2
  <2>5. CASE x = 1 /\ h # t
    <3>1. g = t /\ t # l BY <1>15, <1>17, <1>19, <2>1, <2>5
    <3>2. QED BY <1>18, <2>3, <3>1
  <2>6. CASE x # 1 /\ l = t
    <3>1. g = b /\ b \in V /\ b # l /\ b # 0
      <4>1. g = b BY <1>17, <2>1, <2>6
      <4>2. b \in V /\ l \in Nat BY <1>5, <1>7, <1>9, <2>6
      <4>3. QED BY <1>7, <1>9, <4>1, <4>2
    <3>2. ASSUME NEW m \in V \ {l} PROVE m <= b
      <4>1. m <= l /\ m \in Nat /\ l \in Nat BY <1>5, <1>7, <1>18, <2>6
      <4>2. QED BY <1>10, <3>2, <4>1
    <3>3. QED BY <3>1, <3>2
  <2>7. CASE x # 1 /\ l # t
    <3>1. g = t BY <1>17, <2>1, <2>7
    <3>2. QED BY <1>18, <2>3, <2>7, <3>1
  <2>8. QED BY <2>4, <2>5, <2>6, <2>7
<1>22. PICK r \in Seq(Nat) : /\ r = Without(s, x) /\ Len(r) = n - 1
                             /\ \A a \in 1 .. n - 1 : r[a] = s[IF a < x THEN a ELSE a + 1]
  <2>1. PICK w : w = Without(s, x) OBVIOUS
  <2>2. w \in Seq(Nat) /\ Len(w) = n - 1 /\ \A a \in 1 .. n - 1 : w[a] = s[IF a < x THEN a ELSE a + 1]
    <3>1. w \in Seq(Nat) /\ LeavesOut(s, x, w) BY <1>4, <1>5, <2>1, WithoutIs, Zenon
    <3>2. QED BY <1>4, <3>1 DEF LeavesOut
  <2>3. QED BY <2>1, <2>2
<1>23. PICK idx : idx = [a \in 1 .. n - 1 |-> IF a < x THEN a ELSE a + 1] OBVIOUS
<1>24. /\ \A a \in 1 .. n - 1 : idx[a] \in 1 .. n /\ idx[a] # x /\ r[a] = s[idx[a]]
       /\ \A a, c \in 1 .. n - 1 : a < c => idx[a] < idx[c]
       /\ \A m \in 1 .. n : m # x => \E a \in 1 .. n - 1 : idx[a] = m
  <2>1. ASSUME NEW a \in 1 .. n - 1 PROVE idx[a] \in 1 .. n /\ idx[a] # x /\ r[a] = s[idx[a]]
    <3>1. idx[a] = IF a < x THEN a ELSE a + 1 BY <1>23
    <3>2. idx[a] \in 1 .. n /\ idx[a] # x BY <1>5, <3>1
    <3>3. QED BY <1>22, <3>1, <3>2
  <2>2. ASSUME NEW a \in 1 .. n - 1, NEW c \in 1 .. n - 1, a < c PROVE idx[a] < idx[c]
    BY <1>5, <1>23, <2>2
  <2>3. ASSUME NEW m \in 1 .. n, m # x PROVE \E a \in 1 .. n - 1 : idx[a] = m
    <3>1. CASE m < x
      <4>1. m \in 1 .. n - 1 /\ idx[m] = m BY <1>5, <1>23, <3>1
      <4>2. QED BY <4>1
    <3>2. CASE m > x
      <4>1. m - 1 \in 1 .. n - 1 /\ idx[m - 1] = m BY <1>5, <1>23, <3>2
      <4>2. QED BY <4>1
    <3>3. QED BY <1>5, <2>3, <3>1, <3>2
  <2>4. QED BY <2>1, <2>2, <2>3
<1>25. \A a \in 1 .. n : a # x => s[a] # l
  <2>1. ASSUME NEW a \in 1 .. n, a # x PROVE s[a] # l
    <3>1. a < x \/ x < a BY <1>5, <2>1
    <3>2. s[a] < s[x] \/ s[x] < s[a] BY <1>3, <1>4, <1>5, <3>1
    <3>3. s[a] \in Nat /\ s[x] \in Nat BY <1>4, <1>5
    <3>4. QED BY <1>5, <3>2, <3>3
  <2>2. QED BY <2>1
<1>26. Lists(r, 0)'
  <2>1. ASSUME NEW a \in 1 .. n - 1 PROVE r[a] \in V \ {l} /\ r[a] > 0
    <3>1. r[a] = s[idx[a]] /\ s[idx[a]] \in V /\ s[idx[a]] # l BY <1>3, <1>4, <1>24, <1>25
    <3>2. r[a] \in V /\ r[a] # l BY <3>1
    <3>3. r[a] \in 1 .. N BY <1>7, <3>2
    <3>4. r[a] > 0 BY <3>3
    <3>5. QED BY <3>2, <3>4
  <2>2. ASSUME NEW m \in V \ {l} PROVE \E a \in 1 .. n - 1 : r[a] = m
    <3>1. PICK c \in 1 .. n : s[c] = m BY <1>3, <1>4
    <3>2. c # x BY <1>5, <3>1
    <3>3. PICK a \in 1 .. n - 1 : idx[a] = c BY <1>24, <3>2
    <3>4. QED BY <1>24, <3>1, <3>3
  <2>3. ASSUME NEW a \in 1 .. n - 1, NEW c \in 1 .. n - 1, a < c PROVE r[a] < r[c]
    <3>1. idx[a] \in 1 .. n /\ idx[c] \in 1 .. n /\ idx[a] < idx[c] BY <1>24, <2>3
    <3>2. s[idx[a]] < s[idx[c]] BY <1>3, <1>4, <3>1
    <3>3. QED BY <1>24, <3>2
  <2>4. QED BY <1>8, <1>22, <2>1, <2>2, <2>3 DEF Lists, Increasing
<1>27. Listed' = r BY <1>14, <1>20, <1>26, ListedThen
<1>28. inserted' = Len(Listed') BY <1>3, <1>4, <1>22, <1>27 DEF TrieIInv
<1>29. Pairs' = Without(Pairs, x)
  <2>1. PICK w : w = Without(Pairs, x) OBVIOUS
  <2>2. PICK p \in Seq(Keys \X Stored) : p = Pairs /\ Len(p) = n BY <1>3, <1>4
  <2>3. /\ w \in Seq(Keys \X Stored) /\ Len(w) = n - 1
        /\ \A a \in 1 .. n - 1 : w[a] = p[IF a < x THEN a ELSE a + 1]
    <3>1. x \in 1 .. Len(p) /\ w = Without(p, x) BY <1>5, <2>1, <2>2
    <3>2. w \in Seq(Keys \X Stored) /\ LeavesOut(p, x, w) BY <2>2, <3>1, WithoutIs, Zenon
    <3>3. QED BY <2>2, <3>2 DEF LeavesOut
  <2>4. w = [a \in 1 .. n - 1 |-> w[a]] BY <2>3
  <2>5. ASSUME NEW a \in 1 .. n - 1 PROVE w[a] = p[idx[a]] BY <1>23, <2>3
  <2>6. ASSUME NEW a \in 1 .. n - 1 PROVE w[a] = <<nodes'[r[a]].key, nodes'[r[a]].value>>
    <3>1. PICK c \in 1 .. n : c = idx[a] /\ r[a] = s[c] BY <1>24
    <3>2. w[a] = <<nodes[s[c]].key, nodes[s[c]].value>> BY <1>3, <1>4, <2>2, <2>5, <3>1
    <3>3. s[c] \in 1 .. N BY <1>3, <1>4, <1>7
    <3>4. QED BY <1>6, <3>1, <3>2, <3>3
  <2>7. PICK L, ns : L = Listed' /\ ns = nodes' OBVIOUS
  <2>8. Pairs' = [a \in DOMAIN L |-> <<ns[L[a]].key, ns[L[a]].value>>] BY <2>7 DEF Pairs
  <2>9. L = r /\ DOMAIN r = 1 .. n - 1 BY <1>22, <1>27, <2>7
  <2>10. QED BY <2>1, <2>4, <2>6, <2>7, <2>8, <2>9
<1>30. QED BY <1>14, <1>20, <1>21, <1>28, <1>29, Zenon DEF TrieIInv

\* What Store does to the pairs.
LEMMA TrieStores ==
  ASSUME TrieIInv, NEW k \in Keys, NEW v \in Stored, Store(k, v), hash' = hash
  PROVE  /\ TrieIInv'
         /\ Dictionary!Has(k) => Pairs' = [Pairs EXCEPT ![Dictionary!At(k)] = <<k, v>>]
         /\ ~Dictionary!Has(k) => Pairs' = Append(Pairs, <<k, v>>)
<1>1. CASE KeyMissing(k)
  <2>1. ~IsThere(Place(k)) /\ ~Dictionary!Has(k) BY <1>1 DEF KeyMissing
  <2>2. NewNode(Place(k), k, v) BY <2>1, Zenon DEF Store
  <2>3. QED BY <1>1, <2>1, <2>2, NewNodeKeeps
<1>2. CASE \E l, x : KeyFound(k, l, x)
  <2>1. PICK l, x : KeyFound(k, l, x) BY <1>2
  <2>2. IsThere(Place(k)) /\ Place(k).node = l /\ Dictionary!Has(k) /\ Dictionary!At(k) = x
    BY <2>1 DEF KeyFound
  <2>3. nodes' = [nodes EXCEPT ![l].value = v] /\ UNCHANGED <<childs, head, tail, inserted>>
    BY <2>2, Zenon DEF Store
  <2>4. TrieIInv' /\ Pairs' = [Pairs EXCEPT ![x] = <<k, v>>] BY <2>1, <2>3, RewriteKeeps
  <2>5. QED BY <2>2, <2>4
<1>3. QED BY <1>1, <1>2, KeyIs

\* What reading tells.
LEMMA TrieContent ==
  ASSUME TrieIInv, NEW k \in Keys
  PROVE  /\ (Exists(k) <=> Dictionary!Has(k)) /\ Content(k) = Dictionary!Found(k)
         /\ (IsThere(Place(k)) <=> Dictionary!Has(k))
         /\ IsThere(Place(k)) => <<nodes[Place(k).node].value>> = Dictionary!Found(k)
<1>1. CASE KeyMissing(k)
  <2>1. Lookup(k) = 0 /\ ~Dictionary!Has(k) /\ ~IsThere(Place(k)) BY <1>1 DEF KeyMissing
  <2>2. QED BY <2>1, Zenon DEF Exists, Content, Dictionary!Found
<1>2. CASE \E l, x : KeyFound(k, l, x)
  <2>1. PICK l, x : KeyFound(k, l, x) BY <1>2
  <2>2. /\ l = Lookup(k) /\ l # 0 /\ Dictionary!Has(k) /\ IsThere(Place(k)) /\ Place(k).node = l
        /\ Dictionary!Found(k) = <<nodes[l].value>> /\ Content(k) = <<nodes[l].value>>
    BY <2>1 DEF KeyFound
  <2>3. Exists(k) BY <2>2, Zenon DEF Exists
  <2>4. QED BY <2>2, <2>3, Zenon
<1>3. QED BY <1>1, <1>2, KeyIs

-----------------------------------------------------------------------------
(* Each operation is the dictionary's.                                      *)

LEMMA TrieStarts ==
  hash \in [Keys -> [Nat -> 0 .. 3]] /\ PushTrieMap => TrieIInv /\ Dictionary!DictInit
<1> SUFFICES ASSUME hash \in [Keys -> [Nat -> 0 .. 3]], PushTrieMap
             PROVE  TrieIInv /\ Dictionary!DictInit
  OBVIOUS
<1>1. /\ childs = [t \in 0 .. 3 |-> 0] /\ nodes = <<>> /\ head = 0 /\ tail = 0 /\ inserted = 0
      /\ told = Array(<<>>)
  BY DEF PushTrieMap, NoChilds
<1>2. nodes \in Seq(TrieNode) /\ Len(nodes) = 0 /\ (1 .. 0) = {} /\ 0 .. 0 = {0} BY <1>1
<1>3. Valid = {} /\ Parents = {0} BY <1>2 DEF Valid, Parents
<1>4. \A t \in 0 .. 3 : Child(0, t) = 0 BY <1>1 DEF Child
<1>5. TrieTypeOK
  <2>1. childs \in [0 .. 3 -> Nat] BY <1>1
  <2>2. \A q \in 0 .. Len(nodes) : \A t \in 0 .. 3 : Child(q, t) = 0 BY <1>2, <1>4
  <2>3. QED BY <1>2, <2>1, <2>2 DEF TrieTypeOK
<1>6. OnceEach /\ Links /\ TailIsLast BY <1>1, <1>3 DEF OnceEach, Links, FirstValid, TailIsLast
<1>7. \E par, dep : Tree(par, dep)
  <2>1. PICK z : z = [n \in Nat |-> 0] OBVIOUS
  <2>2. z \in [Nat -> Nat] /\ z[0] = 0 BY <2>1
  <2>3. Tree(z, z) BY <1>3, <2>2 DEF Tree
  <2>4. QED BY <2>3
<1>8. Listed = <<>> /\ Pairs = <<>> /\ Len(Listed) = 0
  <2>1. PICK s \in Seq(Nat) : /\ s = Listed /\ \A a \in 1 .. Len(s) : s[a] \in Valid
                              /\ Pairs \in Seq(Keys \X Stored) /\ Len(Pairs) = Len(s)
    BY <1>5, <1>6, ListIs
  <2>2. Len(s) = 0
    <3>1. SUFFICES ASSUME Len(s) # 0 PROVE FALSE OBVIOUS
    <3>2. 1 \in 1 .. Len(s) BY <3>1
    <3>3. QED BY <1>3, <2>1, <3>2
  <2>3. s = <<>> /\ Pairs = <<>> BY <2>1, <2>2
  <2>4. QED BY <2>1, <2>2, <2>3
<1>9. QED BY <1>1, <1>5, <1>6, <1>7, <1>8 DEF TrieIInv, Dictionary!DictInit, Array, Dictionary!Array

LEMMA TrieInserts ==
  ASSUME TrieIInv, NEW k \in Keys, NEW v \in Stored, Insert(k, v), hash' = hash
  PROVE  TrieIInv' /\ Dictionary!Insert(k, v)
<1>1. Store(k, v) /\ told' = Data(k, <<v>>) BY DEF Insert
<1>2. /\ TrieIInv'
      /\ Dictionary!Has(k) => Pairs' = [Pairs EXCEPT ![Dictionary!At(k)] = <<k, v>>]
      /\ ~Dictionary!Has(k) => Pairs' = Append(Pairs, <<k, v>>)
  BY <1>1, TrieStores
<1>3. told' = Dictionary!Data(k, <<v>>) BY <1>1 DEF Data, Dictionary!Data
<1>4. QED BY <1>2, <1>3 DEF Dictionary!Insert, Dictionary!Add

LEMMA TrieGets ==
  ASSUME TrieIInv, NEW k \in Keys, Get(k), hash' = hash
  PROVE  TrieIInv' /\ Pairs' = Pairs /\ told' = Dictionary!Data(k, Dictionary!Found(k))
<1>1. Unchanged /\ told' = Data(k, Content(k)) BY DEF Get
<1>2. QED BY <1>1, TrieStays, TrieContent DEF Data, Dictionary!Data

LEMMA TrieInsertsIfNotExist ==
  ASSUME TrieIInv, NEW k \in Keys, NEW v \in Stored, InsertIfNotExist(k, v), hash' = hash
  PROVE  TrieIInv' /\ Dictionary!InsertIfNotExist(k, v)
<1>1. CASE IsThere(Place(k))
  <2>1. Unchanged /\ told' = Data(k, <<nodes[Place(k).node].value>>) /\ Dictionary!Has(k)
    BY <1>1, TrieContent, Zenon DEF InsertIfNotExist
  <2>2. told' = Dictionary!Data(k, Dictionary!Found(k))
    BY <1>1, <2>1, TrieContent, Zenon DEF Data, Dictionary!Data
  <2>3. TrieIInv' /\ Pairs' = Pairs BY <2>1, TrieStays
  <2>4. QED BY <2>1, <2>2, <2>3 DEF Dictionary!InsertIfNotExist
<1>2. CASE ~IsThere(Place(k))
  <2>1. Insert(k, v) /\ ~Dictionary!Has(k) BY <1>2, TrieContent, Zenon DEF InsertIfNotExist
  <2>2. TrieIInv' /\ Dictionary!Insert(k, v) BY <2>1, TrieInserts
  <2>3. QED BY <2>1, <2>2 DEF Dictionary!InsertIfNotExist, Dictionary!Insert
<1>3. QED BY <1>1, <1>2

LEMMA TrieExistsOrInserts ==
  ASSUME TrieIInv, NEW k \in Keys, NEW v \in Stored, ExistsOrInsert(k, v), hash' = hash
  PROVE  TrieIInv' /\ Dictionary!CheckOrInsert(k, v)
<1>1. told' = Dictionary!Existed(k, Dictionary!Has(k))
  <2>1. told' = <<"existed", k, Exists(k)>> BY DEF ExistsOrInsert, Existed
  <2>2. Exists(k) = Dictionary!Has(k) BY TrieContent, Zenon DEF Exists, Dictionary!Has
  <2>3. QED BY <2>1, <2>2, Zenon DEF Dictionary!Existed
<1>2. CASE Exists(k)
  <2>1. Unchanged /\ Dictionary!Has(k) BY <1>2, TrieContent DEF ExistsOrInsert
  <2>2. QED BY <1>1, <2>1, TrieStays DEF Dictionary!CheckOrInsert
<1>3. CASE ~Exists(k)
  <2>1. Store(k, v) /\ ~Dictionary!Has(k) BY <1>3, TrieContent DEF ExistsOrInsert
  <2>2. TrieIInv' /\ Pairs' = Append(Pairs, <<k, v>>) BY <2>1, TrieStores
  <2>3. QED BY <1>1, <2>1, <2>2 DEF Dictionary!CheckOrInsert, Dictionary!Add
<1>4. QED BY <1>2, <1>3

LEMMA TrieGetsOrInserts ==
  ASSUME TrieIInv, NEW k \in Keys, NEW v \in Stored, GetOrInsert(k, v), hash' = hash
  PROVE  TrieIInv' /\ Dictionary!GetOrInsert(k, v)
<1>1. CASE Exists(k)
  <2>1. Get(k) /\ Dictionary!Has(k) BY <1>1, TrieContent DEF GetOrInsert
  <2>2. QED BY <2>1, TrieGets DEF Dictionary!GetOrInsert
<1>2. CASE ~Exists(k)
  <2>1. Insert(k, v) /\ ~Dictionary!Has(k) BY <1>2, TrieContent DEF GetOrInsert
  <2>2. TrieIInv' /\ Dictionary!Insert(k, v) BY <2>1, TrieInserts
  <2>3. QED BY <2>1, <2>2 DEF Dictionary!GetOrInsert, Dictionary!Insert
<1>3. QED BY <1>1, <1>2

LEMMA TrieGetsOrAllocates ==
  ASSUME TrieIInv, NEW k \in Keys, GetOrAllocate(k), hash' = hash
  PROVE  TrieIInv' /\ Dictionary!GetOrAllocate(k)
<1>1. CASE Exists(k)
  <2>1. Unchanged /\ told' = Data(k, Content(k) \o <<TRUE>>) /\ Dictionary!Has(k)
    BY <1>1, TrieContent DEF GetOrAllocate
  <2>2. told' = Dictionary!Data(k, Dictionary!Found(k) \o <<TRUE>>)
    BY <2>1, TrieContent, Zenon DEF Data, Dictionary!Data
  <2>3. TrieIInv' /\ Pairs' = Pairs BY <2>1, TrieStays
  <2>4. QED BY <2>1, <2>2, <2>3, Zenon DEF Dictionary!GetOrAllocate
<1>2. CASE ~Exists(k)
  <2>1. Store(k, Zero) /\ told' = Data(k, <<Zero, FALSE>>) /\ ~Dictionary!Has(k)
    BY <1>2, TrieContent DEF GetOrAllocate
  <2>2. Zero \in Stored BY DEF Stored
  <2>3. TrieIInv' /\ Pairs' = Append(Pairs, <<k, Zero>>) BY <2>1, <2>2, TrieStores
  <2>4. told' = Dictionary!Data(k, <<Zero, FALSE>>) BY <2>1, Zenon DEF Data, Dictionary!Data
  <2>5. QED BY <2>1, <2>3, <2>4, Zenon DEF Dictionary!GetOrAllocate, Dictionary!Add
<1>3. QED BY <1>1, <1>2

\* The array has room for all pairs.
LEMMA TrieGivesAll ==
  ASSUME TrieIInv, AsArray, hash' = hash PROVE TrieIInv' /\ Dictionary!AsArray
<1>1. PICK s \in Seq(Nat) : /\ s = Listed /\ Len(s) \in Nat
                            /\ Pairs \in Seq(Keys \X Stored) /\ Len(Pairs) = Len(s)
  BY ListIs DEF TrieIInv
<1>2. PICK p \in Seq(Keys \X Stored) : p = Pairs /\ Len(p) = inserted BY <1>1 DEF TrieIInv
<1>3. SubSeq(p, 1, Len(p)) = p OBVIOUS
<1>4. Unchanged /\ told' = Array(Pairs) BY <1>2, <1>3, Zenon DEF AsArray
<1>5. QED BY <1>4, TrieStays DEF Array, Dictionary!Array, Dictionary!AsArray

\* With keys removed that have none below them.
LEMMA TrieRemoves ==
  ASSUME TrieIInv, ~RemovesInner, NEW k \in Keys, RemoveKey(k), hash' = hash
  PROVE  TrieIInv' /\ Dictionary!Remove(k)
<1>1. PICK s \in Seq(Nat) : /\ s = Listed /\ Len(s) \in Nat /\ DOMAIN s = 1 .. Len(s)
                            /\ \A a \in 1 .. Len(s) : s[a] \in Valid
                            /\ \A a, b \in 1 .. Len(s) : s[a] = s[b] => a = b
                            /\ Pairs \in Seq(Keys \X Stored) /\ Len(Pairs) = Len(s)
  BY ListIs DEF TrieIInv
<1>2. CASE KeyMissing(k)
  <2>1. ~Dictionary!Has(k) /\ \A m \in Valid : nodes[m].key # k BY <1>2 DEF KeyMissing
  <2>2. \A j \in DOMAIN Listed : ~Holds(Listed[j], k) BY <1>1, <2>1 DEF Holds
  <2>3. Unchanged /\ told' = Existed(k, FALSE) BY <2>2 DEF RemoveKey
  <2>4. TrieIInv' /\ Pairs' = Pairs BY <2>3, TrieStays
  <2>5. Dictionary!Has(k) = FALSE BY <2>1 DEF Dictionary!Has
  <2>6. told' = Dictionary!Existed(k, Dictionary!Has(k))
    BY <2>3, <2>5, Zenon DEF Existed, Dictionary!Existed
  <2>7. QED BY <2>1, <2>4, <2>6 DEF Dictionary!Remove
<1>3. CASE \E l, x : KeyFound(k, l, x)
  <2>1. PICK l, x : KeyFound(k, l, x) BY <1>3
  <2>2. /\ l \in Valid /\ nodes[l].key = k /\ x \in DOMAIN Listed /\ Listed[x] = l
        /\ Dictionary!Has(k) /\ Dictionary!At(k) = x
    BY <1>1, <2>1 DEF KeyFound
  <2>3. Holds(Listed[x], k) BY <2>2 DEF Holds
  <2>4. ASSUME NEW j \in DOMAIN Listed, Holds(Listed[j], k) PROVE j = x
    <3>1. s[j] \in Valid /\ nodes[s[j]].key = k /\ s[x] = l BY <1>1, <2>2, <2>4 DEF Holds
    <3>2. s[j] = s[x] BY <2>2, <3>1 DEF TrieIInv, OnceEach
    <3>3. QED BY <1>1, <2>2, <3>2
  <2>5. (CHOOSE j \in DOMAIN Listed : Holds(Listed[j], k)) = x BY <2>2, <2>3, <2>4
  <2>6. ~(\A j \in DOMAIN Listed : ~Holds(Listed[j], k)) BY <2>2, <2>3
  <2>7. /\ Below(l) = {} /\ told' = Existed(k, TRUE) /\ inserted' = inserted - 1 /\ childs' = childs
        /\ IF x = 1
           THEN /\ head' = IF head = tail THEN 0 ELSE nodes[l].next
                /\ tail' = IF head = tail THEN 0 ELSE tail
                /\ nodes' = Unlisted(l)
           ELSE /\ nodes' = [Unlisted(l) EXCEPT ![Listed[x - 1]].next = nodes[l].next]
                /\ tail' = IF l = tail THEN Listed[x - 1] ELSE tail
                /\ head' = head
    BY <2>2, <2>5, <2>6, Zenon DEF RemoveKey, Unlisted
  <2>8. PICK N \in Nat : N = Len(nodes) BY NodesAre DEF TrieIInv
  <2>9. \A m \in Valid : m \in 1 .. N BY <2>8 DEF Valid
  <2>10. PICK b : b = IF x = 1 THEN 0 ELSE Listed[x - 1] OBVIOUS
  <2>11. b \in 0 .. N /\ b # l /\ l \in 1 .. N /\ (b = 0 <=> x = 1)
    <3>1. CASE x = 1 BY <2>2, <2>8, <2>9, <2>10, <3>1
    <3>2. CASE x # 1
      <4>1. x - 1 \in 1 .. Len(s) /\ x - 1 # x BY <1>1, <2>2, <3>2
      <4>2. b = s[x - 1] BY <1>1, <2>10, <3>2
      <4>3. b \in Valid /\ b # l BY <1>1, <2>2, <4>1, <4>2
      <4>4. b \in 1 .. N /\ l \in 1 .. N BY <2>2, <2>9, <4>3
      <4>5. QED BY <3>2, <4>3, <4>4
    <3>3. QED BY <3>1, <3>2
  <2>12. nodes' = IF b = 0 THEN Unlisted(l) ELSE [Unlisted(l) EXCEPT ![b].next = nodes[l].next]
    BY <2>7, <2>10, <2>11, Zenon
  <2>13. Taken(N, l, b) BY <2>7, <2>8, <2>11, <2>12, UnlistedIs DEF TrieIInv
  <2>14. head' = (IF x = 1 THEN IF head = tail THEN 0 ELSE nodes[l].next ELSE head) BY <2>7, Zenon
  <2>15. tail' = (IF x = 1 THEN IF head = tail THEN 0 ELSE tail ELSE IF l = tail THEN b ELSE tail)
    BY <2>7, <2>10, Zenon
  <2>16. TrieIInv' /\ Pairs' = Without(Pairs, x)
    BY <2>1, <2>7, <2>10, <2>13, <2>14, <2>15, TakenKeeps
  <2>17. Dictionary!Has(k) = TRUE BY <2>2 DEF Dictionary!Has
  <2>18. told' = Dictionary!Existed(k, Dictionary!Has(k))
    BY <2>7, <2>17, Zenon DEF Existed, Dictionary!Existed
  <2>19. QED BY <2>2, <2>16, <2>18, Zenon DEF Without, Dictionary!Remove
<1>4. QED BY <1>2, <1>3, KeyIs

LEMMA TrieStep ==
  ASSUME ~RemovesInner
  PROVE  TrieIInv /\ [TrieNext /\ UNCHANGED hash]_<<hash, trieVars>>
           => TrieIInv' /\ [Dictionary!DictNext]_(Dictionary!dictVars)
<1> SUFFICES ASSUME TrieIInv, [TrieNext /\ UNCHANGED hash]_<<hash, trieVars>>
             PROVE  TrieIInv' /\ [Dictionary!DictNext]_(Dictionary!dictVars)
  OBVIOUS
<1>1. \A v \in Values : v \in Stored BY DEF Stored
<1>2. ASSUME NEW k \in Keys, NEW v \in Values, hash' = hash, Insert(k, v)
      PROVE  TrieIInv' /\ Dictionary!DictNext
  BY <1>1, <1>2, TrieInserts DEF Dictionary!DictNext
<1>3. ASSUME NEW k \in Keys, NEW v \in Values, hash' = hash, InsertIfNotExist(k, v)
      PROVE  TrieIInv' /\ Dictionary!DictNext
  BY <1>1, <1>3, TrieInsertsIfNotExist DEF Dictionary!DictNext
<1>4. ASSUME NEW k \in Keys, NEW v \in Values, hash' = hash, ExistsOrInsert(k, v)
      PROVE  TrieIInv' /\ Dictionary!DictNext
  BY <1>1, <1>4, TrieExistsOrInserts DEF Dictionary!DictNext
<1>5. ASSUME NEW k \in Keys, NEW v \in Values, hash' = hash, GetOrInsert(k, v)
      PROVE  TrieIInv' /\ Dictionary!DictNext
  BY <1>1, <1>5, TrieGetsOrInserts DEF Dictionary!DictNext
<1>6. ASSUME NEW k \in Keys, hash' = hash, GetOrAllocate(k)
      PROVE  TrieIInv' /\ Dictionary!DictNext
  BY <1>6, TrieGetsOrAllocates DEF Dictionary!DictNext
<1>7. ASSUME NEW k \in Keys, hash' = hash, Get(k) PROVE TrieIInv' /\ Dictionary!DictNext
  BY <1>7, TrieGets DEF Dictionary!DictNext, Dictionary!Get
<1>8. ASSUME NEW k \in Keys, hash' = hash, RemoveKey(k) PROVE TrieIInv' /\ Dictionary!DictNext
  BY <1>8, TrieRemoves DEF Dictionary!DictNext
<1>9. CASE AsArray /\ hash' = hash BY <1>9, TrieGivesAll DEF Dictionary!DictNext
<1>10. CASE Clear /\ hash' = hash
  <2>1. TrieIInv' /\ Pairs' = <<>> BY <1>10, TrieClears
  <2>2. told' = Dictionary!Array(<<>>) BY <1>10 DEF Clear, Array, Dictionary!Array
  <2>3. Dictionary!Clear BY <2>1, <2>2 DEF Dictionary!Clear
  <2>4. QED BY <2>1, <2>3 DEF Dictionary!DictNext
<1>11. CASE UNCHANGED <<hash, trieVars>>
  <2>1. Unchanged /\ hash' = hash /\ told' = told BY <1>11 DEF trieVars, Unchanged
  <2>2. QED BY <2>1, TrieStays DEF Dictionary!dictVars
<1>12. QED BY <1>2, <1>3, <1>4, <1>5, <1>6, <1>7, <1>8, <1>9, <1>10, <1>11 DEF TrieNext

\* The trie map is the dictionary (memory.hpp:1034-1299), whatever the hash of the keys
\* and however many nodes the arena has room for, when no key is removed that has
\* others below it: a lookup finds the node of a key past those that were removed,
\* and the list has the nodes in the order of insertion.
THEOREM TrieIsDictionary == ASSUME ~RemovesInner PROVE TrieSpec => IsDictionary
<1>1. hash \in [Keys -> [Nat -> 0 .. 3]] /\ PushTrieMap => TrieIInv /\ Dictionary!DictInit
  BY TrieStarts
<1>2. TrieIInv /\ [TrieNext /\ UNCHANGED hash]_<<hash, trieVars>>
        => TrieIInv' /\ [Dictionary!DictNext]_(Dictionary!dictVars)
  BY TrieStep
<1>3. QED BY <1>1, <1>2, PTL DEF TrieSpec, IsDictionary, Dictionary!DictSpec

-----------------------------------------------------------------------------
(* The instance info.                                                       *)

IsSeq(s) == s \in Seq(Range(s))

LEMMA SeqFrom ==
  ASSUME NEW n \in Nat, NEW S, NEW s \in [1 .. n -> S]
  PROVE  IsSeq(s) /\ Len(s) = n
<1>1. s \in [1 .. n -> Range(s)]
  <2>1. \A i \in 1 .. n : s[i] \in Range(s) BY DEF Range
  <2>2. QED BY <2>1
<1>2. s \in Seq(Range(s)) BY <1>1, SeqDef
<1>3. Len(s) = n BY <1>1, <1>2, LenProperties
<1>4. QED BY <1>2, <1>3 DEF IsSeq

LEMMA ListIsSeq ==
  ASSUME NEW s, IsSeq(s)
  PROVE  Len(s) \in Nat /\ DOMAIN s = 1 .. Len(s) /\ s = [i \in 1 .. Len(s) |-> s[i]]
<1>1. Len(s) \in Nat /\ DOMAIN s = 1 .. Len(s) /\ s \in [1 .. Len(s) -> Range(s)]
  BY LenProperties DEF IsSeq
<1>2. QED BY <1>1

\* u is s and t behind it.
Behind(s, t, u) ==
  /\ IsSeq(u) /\ Len(u) = Len(s) + Len(t)
  /\ \A i \in 1 .. Len(s) : u[i] = s[i]
  /\ \A i \in 1 .. Len(t) : u[Len(s) + i] = t[i]

LEMMA Concatenated ==
  ASSUME NEW s, IsSeq(s), NEW t, IsSeq(t)
  PROVE  Behind(s, t, s \o t)
<1>1. PICK S : S = Range(s) \cup Range(t) OBVIOUS
<1>2. s \in Seq(S) /\ t \in Seq(S) BY <1>1, SeqMonotonic DEF IsSeq
<1>3. /\ s \o t \in Seq(S)
      /\ Len(s \o t) = Len(s) + Len(t)
      /\ \A i \in 1 .. Len(s) + Len(t) : (s \o t)[i] = IF i <= Len(s) THEN s[i] ELSE t[i - Len(s)]
  BY <1>2, ConcatProperties, Zenon
<1>4. Len(s) \in Nat /\ Len(t) \in Nat BY <1>2, LenProperties
<1>5. \A i \in 1 .. Len(s) : (s \o t)[i] = s[i] BY <1>3, <1>4
<1>6. ASSUME NEW i \in 1 .. Len(t) PROVE (s \o t)[Len(s) + i] = t[i]
  <2>1. Len(s) + i \in 1 .. Len(s) + Len(t) /\ ~(Len(s) + i <= Len(s)) /\ Len(s) + i - Len(s) = i
    BY <1>4
  <2>2. QED BY <1>3, <2>1
<1>7. IsSeq(s \o t)
  <2>1. PICK n \in Nat : n = Len(s \o t) BY <1>3, <1>4
  <2>2. s \o t \in [1 .. n -> S] BY <1>3, <2>1, LenProperties, Zenon
  <2>3. QED BY <2>2, SeqFrom, Zenon
<1>8. QED BY <1>3, <1>5, <1>6, <1>7 DEF Behind

\* What holds of a number when it holds of all before it, holds of all.
LEMMA UpFrom ==
  ASSUME NEW N \in Nat, NEW G,
         \A q \in 0 .. N : (\A r \in 0 .. N : r < q => r \in G) => q \in G
  PROVE  \A q \in 0 .. N : q \in G
<1>1. SUFFICES ASSUME NEW m \in 0 .. N, m \notin G PROVE FALSE OBVIOUS
<1>2. PICK Bad : Bad = {q \in 0 .. N : q \notin G} OBVIOUS
<1>3. Bad \in SUBSET Nat /\ Bad # {} BY <1>1, <1>2
<1>4. PICK x \in Bad : \A y \in Bad : x <= y BY <1>3, LeastOf
<1>5. \A r \in 0 .. N : r < x => r \in G BY <1>2, <1>4
<1>6. QED BY <1>2, <1>4, <1>5

\* What some units have, added up.
SumRule(sum, n, units, amount) ==
  /\ sum \in [0 .. n -> Nat] /\ sum[0] = 0
  /\ \A p \in 1 .. n : sum[p] = sum[p - 1] + (IF p \in units THEN amount[p] ELSE 0)

LEMMA SumIs ==
  ASSUME NEW n \in Nat, NEW amount \in [1 .. n -> Nat], NEW units
  PROVE  SumRule(SumUpTo(units, amount), n, units, amount)
<1>1. PICK d : d = [p \in 1 .. n |-> IF p \in units THEN amount[p] ELSE 0] OBVIOUS
<1>2. d \in [1 .. n -> Nat] BY <1>1
<1> DEFINE Upto(m) == \E f \in [0 .. n -> Nat] : f[0] = 0 /\ \A p \in 1 .. m : f[p] = f[p - 1] + d[p]
<1>3. Len(amount) = n BY SeqFrom, Zenon
<1>4. Upto(0)
  <2>1. PICK f : f = [p \in 0 .. n |-> 0] OBVIOUS
  <2>2. f \in [0 .. n -> Nat] /\ f[0] = 0 BY <2>1
  <2>3. QED BY <2>2
<1>5. ASSUME NEW m \in 1 .. n, Upto(m - 1) PROVE Upto(m)
  <2>1. PICK f \in [0 .. n -> Nat] : f[0] = 0 /\ \A p \in 1 .. m - 1 : f[p] = f[p - 1] + d[p]
    BY <1>5
  <2>2. PICK x \in Nat : x = f[m - 1] + d[m]
    <3>1. f[m - 1] \in Nat /\ d[m] \in Nat BY <1>2
    <3>2. QED BY <3>1
  <2>3. PICK g : g = [f EXCEPT ![m] = x] OBVIOUS
  <2>4. g \in [0 .. n -> Nat] /\ g[0] = 0 BY <2>1, <2>3
  <2>5. ASSUME NEW p \in 1 .. m PROVE g[p] = g[p - 1] + d[p]
    <3>1. g[p - 1] = f[p - 1] BY <2>3
    <3>2. p # m => g[p] = f[p] BY <2>3
    <3>3. p = m => g[p] = x BY <2>3
    <3>4. CASE p = m BY <2>2, <3>1, <3>3, <3>4
    <3>5. CASE p # m BY <2>1, <3>1, <3>2, <3>5
    <3>6. QED BY <3>4, <3>5
  <2>6. QED BY <2>4, <2>5
<1>6. Upto(n)
  <2> HIDE DEF Upto
  <2>1. PICK G : G = {m \in 0 .. n : Upto(m)} OBVIOUS
  <2>2. ASSUME NEW q \in 0 .. n, \A r \in 0 .. n : r < q => r \in G PROVE q \in G
    <3>1. CASE q = 0 BY <1>4, <2>1, <3>1
    <3>2. CASE q # 0
      <4>1. q \in 1 .. n /\ q - 1 \in 0 .. n /\ q - 1 < q BY <3>2
      <4>2. Upto(q - 1) BY <2>1, <2>2, <4>1
      <4>3. QED BY <1>5, <2>1, <4>1, <4>2
    <3>3. QED BY <3>1, <3>2
  <2>3. \A q \in 0 .. n : q \in G BY <2>2, UpFrom
  <2>4. QED BY <2>1, <2>3
<1>7. PICK f \in [0 .. n -> Nat] : f[0] = 0 /\ \A p \in 1 .. n : f[p] = f[p - 1] + d[p] BY <1>6
<1>8. f = [p \in 0 .. n |-> IF p = 0 THEN 0 ELSE f[p - 1] + (IF p \in units THEN amount[p] ELSE 0)]
  <2>1. \A p \in 1 .. n : d[p] = IF p \in units THEN amount[p] ELSE 0 BY <1>1
  <2>2. \A p \in 0 .. n : p = 0 \/ p \in 1 .. n OBVIOUS
  <2>3. \A p \in 0 .. n : f[p] = IF p = 0 THEN 0 ELSE f[p - 1] + (IF p \in units THEN amount[p] ELSE 0)
    BY <1>7, <2>1, <2>2, Zenon
  <2>4. f = [p \in 0 .. n |-> f[p]] OBVIOUS
  <2>5. QED BY <2>3, <2>4, Zenon
<1>9. PICK h : h = SumUpTo(units, amount) OBVIOUS
<1>10. h = CHOOSE g : g = [p \in 0 .. Len(amount) |->
                            IF p = 0 THEN 0 ELSE g[p - 1] + (IF p \in units THEN amount[p] ELSE 0)]
  BY <1>9, Zenon DEF SumUpTo
<1>11. h = [p \in 0 .. n |-> IF p = 0 THEN 0 ELSE h[p - 1] + (IF p \in units THEN amount[p] ELSE 0)]
  BY <1>3, <1>8, <1>10, Zenon
<1>12. DOMAIN h = 0 .. n /\ h[0] = 0 BY <1>11
<1>13. \A p \in 1 .. n : h[p] = h[p - 1] + (IF p \in units THEN amount[p] ELSE 0)
  <2>1. \A p \in 1 .. n : p \in 0 .. n /\ p # 0 OBVIOUS
  <2>2. QED BY <1>11, <2>1, Zenon
<1>14. \A p \in 1 .. n : h[p] = h[p - 1] + d[p] BY <1>1, <1>13
<1>15. \A p \in 0 .. n : h[p] \in Nat
  <2>1. PICK G : G = {p \in 0 .. n : h[p] \in Nat} OBVIOUS
  <2>2. ASSUME NEW q \in 0 .. n, \A r \in 0 .. n : r < q => r \in G PROVE q \in G
    <3>1. CASE q = 0 BY <1>12, <2>1, <3>1
    <3>2. CASE q # 0
      <4>1. q \in 1 .. n /\ q - 1 \in 0 .. n /\ q - 1 < q BY <3>2
      <4>2. h[q - 1] \in Nat /\ d[q] \in Nat BY <1>2, <2>1, <2>2, <4>1
      <4>3. h[q] \in Nat BY <1>14, <4>1, <4>2
      <4>4. QED BY <2>1, <4>3
    <3>3. QED BY <3>1, <3>2
  <2>3. \A q \in 0 .. n : q \in G BY <2>2, UpFrom
  <2>4. QED BY <2>1, <2>3
<1>16. h \in [0 .. n -> Nat]
  <2>1. h = [p \in 0 .. n |-> h[p]] BY <1>11
  <2>2. QED BY <1>15, <2>1
<1>17. SumRule(h, n, units, amount) BY <1>12, <1>13, <1>16, Zenon DEF SumRule
<1>18. QED BY <1>9, <1>17, Zenon

-----------------------------------------------------------------------------
EntryFields ==
  {"name", "path", "outer", "parent", "unit", "level", "globallyStatic", "localPos", "wires",
   "globalPos", "globalWires", "statePos", "memIndex", "memSize", "base", "port"}

Inside(list, p) == list[p].unit.decl.info

\* Every unit is behind the composite it is in, and what is inside a composite is all that its
\* declaration says, in order.
EntryOk(list, p) ==
  /\ DOMAIN list[p] = EntryFields
  /\ list[p].level \in Nat
  /\ list[p].outer \in 0 .. p - 1
  /\ list[p].level = 0 <=> list[p].outer = 0
  /\ list[p].outer > 0 => p <= list[p].outer + Len(Inside(list, list[p].outer))
CopyOk(list, p, k) ==
  /\ list[p + k].outer = p + Inside(list, p)[k].outer
  /\ list[p + k].level = list[p].level + 1 + Inside(list, p)[k].level
  /\ list[p + k].unit = Inside(list, p)[k].unit
  /\ list[p + k].name = Inside(list, p)[k].name
InsideOk(list, p) ==
  /\ IsSeq(Inside(list, p))
  /\ p + Len(Inside(list, p)) <= Len(list)
  /\ \A k \in 1 .. Len(Inside(list, p)) : CopyOk(list, p, k)
Nested(list) ==
  IsSeq(list) /\ \A p \in 1 .. Len(list) : EntryOk(list, p) /\ InsideOk(list, p)

\* Static units are marked.
Marked(list) == \A p \in 1 .. Len(list) : list[p].unit.static => list[p].globallyStatic

\* The units of the first level have names of their own, and those of a group are of one type.
Apart(list) ==
  \A p, q \in Children(list, 0) :
    /\ list[p].name = list[q].name => p = q
    /\ list[p].name[1] # "share"
    /\ list[p].unit.share = list[q].unit.share /\ list[p].unit.share # None =>
         list[p].unit.decl = list[q].unit.decl

StatesOf(list) == [p \in DOMAIN list |-> list[p].unit.decl.states]
\* The places of the first level are those in the declaration.
Placed(list, p) ==
  /\ list[p].statePos = IF list[p].unit.decl.states = 0 THEN None
                        ELSE SumUpTo(Children(list, 0), StatesOf(list))[p - 1]
  /\ list[p].globalWires = TopWires(list, p)

Numbers(decl) == decl.configs \in Nat /\ decl.states \in Nat
DeclOk(decl) ==
  /\ Numbers(decl)
  /\ Nested(decl.info) /\ Marked(decl.info) /\ Apart(decl.info)
  /\ \A p \in Children(decl.info, 0) : Placed(decl.info, p)
  /\ ~decl.composite => decl.info = <<>>
  /\ decl.composite => decl.states = TopSum(decl.info, StatesOf(decl.info))
                       /\ decl.configs = ConfigsOf(decl.info)
Whole(decl) == DeclOk(decl) /\ \A p \in 1 .. Len(decl.info) : DeclOk(decl.info[p].unit.decl)

\* What is known of the units of a circuit.
UnitOk(unit) ==
  /\ Whole(unit.decl)
  /\ unit.decl.name = "CircuitInput" => unit.special \in Nat
CircuitOk(a) ==
  /\ IsSeq(a.allocated) /\ IsInjective(a.allocated)
  /\ \A n \in Range(a.allocated) : n[1] # "share" /\ UnitOk(a.unit[n])
  /\ \A m, n \in Range(a.allocated) :
       a.unit[m].share = a.unit[n].share /\ a.unit[m].share # None => a.unit[m].decl = a.unit[n].decl

-----------------------------------------------------------------------------
(* The units of a circuit with what is inside them.                         *)

InnerOf(a, n, at) == [k \in DOMAIN a.unit[n].decl.info |-> Inner(a.unit[n].decl.info[k], at)]
Entering(a, e) ==
  \A i \in 1 .. Len(a.allocated) :
    e[i] = e[i - 1] \o <<SetBaseInfo(a, a.allocated[i])>> \o InnerOf(a, a.allocated[i], Len(e[i - 1]) + 1)

LEMMA EnteredSolved ==
  ASSUME NEW a, Len(a.allocated) \in Nat
  PROVE  \E e : e[0] = <<>> /\ Entering(a, e) /\ GenerateInitialInstanceInfo(a) = e[Len(a.allocated)]
<1>1. PICK n \in Nat : n = Len(a.allocated) OBVIOUS
<1> DEFINE Next1(x, i) == x \o <<SetBaseInfo(a, a.allocated[i])>> \o InnerOf(a, a.allocated[i], Len(x) + 1)
           Upto(m) == \E f : f = [i \in 0 .. n |-> f[i]] /\ f[0] = <<>> /\ \A i \in 1 .. m : f[i] = Next1(f[i - 1], i)
<1>2. Upto(0)
  <2>1. PICK f : f = [i \in 0 .. n |-> <<>>] OBVIOUS
  <2>2. f = [i \in 0 .. n |-> f[i]] /\ f[0] = <<>> BY <2>1
  <2>3. QED BY <2>2
<1>3. ASSUME NEW m \in 1 .. n, Upto(m - 1) PROVE Upto(m)
  <2> HIDE DEF Next1
  <2>1. PICK f : f = [i \in 0 .. n |-> f[i]] /\ f[0] = <<>> /\ \A i \in 1 .. m - 1 : f[i] = Next1(f[i - 1], i)
    BY <1>3
  <2>2. PICK x : x = Next1(f[m - 1], m) OBVIOUS
  <2>3. PICK g : g = [i \in 0 .. n |-> IF i = m THEN x ELSE f[i]] OBVIOUS
  <2>4. \A i \in 0 .. n : g[i] = IF i = m THEN x ELSE f[i] BY <2>3
  <2>5. g = [i \in 0 .. n |-> g[i]] /\ g[0] = <<>> BY <2>1, <2>3
  <2>6. ASSUME NEW i \in 1 .. m PROVE g[i] = Next1(g[i - 1], i)
    <3>1. i - 1 \in 0 .. n /\ i \in 0 .. n /\ i - 1 # m OBVIOUS
    <3>2. g[i - 1] = f[i - 1] BY <2>4, <3>1, Zenon
    <3>3. CASE i = m BY <2>2, <2>4, <3>1, <3>2, <3>3
    <3>4. CASE i # m
      <4>1. i \in 1 .. m - 1 BY <3>4
      <4>2. g[i] = f[i] BY <2>4, <3>1, <3>4
      <4>3. QED BY <2>1, <3>2, <4>1, <4>2
    <3>5. QED BY <3>3, <3>4
  <2>7. QED BY <2>5, <2>6
<1>4. Upto(n)
  <2> HIDE DEF Upto
  <2>1. PICK G : G = {m \in 0 .. n : Upto(m)} OBVIOUS
  <2>2. ASSUME NEW q \in 0 .. n, \A r \in 0 .. n : r < q => r \in G PROVE q \in G
    <3>1. CASE q = 0 BY <1>2, <2>1, <3>1
    <3>2. CASE q # 0
      <4>1. q \in 1 .. n /\ q - 1 \in 0 .. n /\ q - 1 < q BY <3>2
      <4>2. Upto(q - 1) BY <2>1, <2>2, <4>1
      <4>3. QED BY <1>3, <2>1, <4>1, <4>2
    <3>3. QED BY <3>1, <3>2
  <2>3. \A q \in 0 .. n : q \in G BY <2>2, UpFrom
  <2>4. QED BY <2>1, <2>3
<1> DEFINE Rule(f, i) ==
      LET before == f[i - 1]
          m == a.allocated[i]
          inside == a.unit[m].decl.info
      IN  IF i = 0 THEN <<>>
          ELSE before \o <<SetBaseInfo(a, m)>> \o [k \in DOMAIN inside |-> Inner(inside[k], Len(before) + 1)]
<1>5. \A f, i : Rule(f, i) = IF i = 0 THEN <<>> ELSE Next1(f[i - 1], i) BY DEF InnerOf
<1>6. PICK f : f = [i \in 0 .. n |-> Rule(f, i)]
  <2>1. PICK f : f = [i \in 0 .. n |-> f[i]] /\ f[0] = <<>> /\ \A i \in 1 .. n : f[i] = Next1(f[i - 1], i)
    BY <1>4
  <2>2. \A i \in 0 .. n : i = 0 \/ i \in 1 .. n OBVIOUS
  <2> HIDE DEF Next1, Rule
  <2>3. \A i \in 0 .. n : f[i] = Rule(f, i) BY <1>5, <2>1, <2>2, Zenon
  <2>4. [i \in 0 .. n |-> f[i]] = [i \in 0 .. n |-> Rule(f, i)] BY <2>3
  <2>5. f = [i \in 0 .. n |-> Rule(f, i)] BY <2>1, <2>4, Zenon
  <2>6. QED BY <2>5
<1>7. PICK e : e = CHOOSE h : h = [i \in 0 .. n |-> Rule(h, i)] OBVIOUS
<1>8. GenerateInitialInstanceInfo(a) = e[n] BY <1>1, <1>7, Zenon DEF GenerateInitialInstanceInfo
<1> HIDE DEF Rule
<1>9. e = [i \in 0 .. n |-> Rule(e, i)] BY <1>6, <1>7, Zenon
<1>10. \A i \in 0 .. n : e[i] = Rule(e, i) BY <1>9
<1>11. e[0] = <<>> /\ \A i \in 1 .. n : e[i] = Next1(e[i - 1], i)
  <2>1. 0 \in 0 .. n /\ \A i \in 1 .. n : i \in 0 .. n /\ i # 0 OBVIOUS
  <2> HIDE DEF Next1
  <2>2. QED BY <1>5, <1>10, <2>1, Zenon
<1>12. QED BY <1>1, <1>8, <1>11 DEF Entering

LEMMA InnerIs ==
  ASSUME NEW x, DOMAIN x = EntryFields, NEW at
  PROVE  /\ DOMAIN Inner(x, at) = EntryFields
         /\ Inner(x, at).outer = x.outer + at /\ Inner(x, at).level = x.level + 1
         /\ Inner(x, at).unit = x.unit /\ Inner(x, at).name = x.name
         /\ Inner(x, at).globallyStatic = x.globallyStatic
BY DEF Inner, EntryFields

LEMMA BaseIs ==
  ASSUME NEW a, NEW n
  PROVE  /\ DOMAIN SetBaseInfo(a, n) = EntryFields
         /\ SetBaseInfo(a, n).outer = 0 /\ SetBaseInfo(a, n).level = 0
         /\ SetBaseInfo(a, n).unit = a.unit[n] /\ SetBaseInfo(a, n).name = n
         /\ SetBaseInfo(a, n).globallyStatic = a.unit[n].static
BY DEF SetBaseInfo, EntryFields

\* What a unit and the copies of what is inside it are behind the units before them.
Appended(a, n, list, new) ==
  LET inside == a.unit[n].decl.info
      at     == Len(list) + 1
  IN  /\ IsSeq(new) /\ Len(new) = at + Len(inside)
      /\ \A p \in 1 .. Len(list) : new[p] = list[p]
      /\ new[at] = SetBaseInfo(a, n)
      /\ \A k \in 1 .. Len(inside) : new[at + k] = Inner(inside[k], at)

LEMMA AppendedIs ==
  ASSUME NEW a, NEW n, IsSeq(a.unit[n].decl.info), NEW list, IsSeq(list)
  PROVE  Appended(a, n, list, list \o <<SetBaseInfo(a, n)>> \o InnerOf(a, n, Len(list) + 1))
<1> DEFINE inside == a.unit[n].decl.info
           at == Len(list) + 1
           one == <<SetBaseInfo(a, n)>>
           inner == InnerOf(a, n, at)
<1>1. Len(list) \in Nat /\ Len(inside) \in Nat /\ DOMAIN inside = 1 .. Len(inside) BY ListIsSeq
<1>2. IsSeq(one) /\ Len(one) = 1 /\ one[1] = SetBaseInfo(a, n)
  <2>1. one \in [1 .. 1 -> {SetBaseInfo(a, n)}] OBVIOUS
  <2>2. QED BY <2>1, SeqFrom
<1>3. inner = [k \in 1 .. Len(inside) |-> Inner(inside[k], at)] BY <1>1 DEF InnerOf
<1>4. IsSeq(inner) /\ Len(inner) = Len(inside)
  <2>1. PICK S : S = {Inner(inside[k], at) : k \in 1 .. Len(inside)} OBVIOUS
  <2>2. inner \in [1 .. Len(inside) -> S] BY <1>3, <2>1
  <2>3. QED BY <1>1, <2>2, SeqFrom, Zenon
<1> HIDE DEF inside, one, inner
<1>5. /\ IsSeq(list \o one) /\ Len(list \o one) = at
      /\ \A p \in 1 .. Len(list) : (list \o one)[p] = list[p]
      /\ (list \o one)[at] = SetBaseInfo(a, n)
  <2>1. /\ IsSeq(list \o one) /\ Len(list \o one) = Len(list) + Len(one)
        /\ \A p \in 1 .. Len(list) : (list \o one)[p] = list[p]
        /\ \A p \in 1 .. Len(one) : (list \o one)[Len(list) + p] = one[p]
    <3>1. IsSeq(list) /\ IsSeq(one) BY <1>2
    <3>2. PICK u : u = list \o one OBVIOUS
    <3>3. Behind(list, one, u) BY <3>1, <3>2, Concatenated, Zenon
    <3>4. QED BY <3>2, <3>3, Zenon DEF Behind
  <2>2. 1 \in 1 .. Len(one) BY <1>2
  <2>3. (list \o one)[Len(list) + 1] = one[1] BY <2>1, <2>2, Zenon
  <2>4. QED BY <1>2, <2>1, <2>3
<1>6. PICK both : both = list \o one OBVIOUS
<1>7. /\ IsSeq(both \o inner) /\ Len(both \o inner) = at + Len(inside)
      /\ \A p \in 1 .. at : (both \o inner)[p] = both[p]
      /\ \A k \in 1 .. Len(inside) : (both \o inner)[at + k] = inner[k]
  <2>1. IsSeq(both) /\ Len(both) = at BY <1>5, <1>6
  <2>2. /\ IsSeq(both \o inner) /\ Len(both \o inner) = Len(both) + Len(inner)
        /\ \A p \in 1 .. Len(both) : (both \o inner)[p] = both[p]
        /\ \A k \in 1 .. Len(inner) : (both \o inner)[Len(both) + k] = inner[k]
    <3>1. IsSeq(both) /\ IsSeq(inner) BY <1>4, <2>1
    <3>2. PICK u : u = both \o inner OBVIOUS
    <3>3. Behind(both, inner, u) BY <3>1, <3>2, Concatenated, Zenon
    <3>4. QED BY <3>2, <3>3, Zenon DEF Behind
  <2>3. QED BY <1>4, <2>1, <2>2, Zenon
<1>8. PICK new : new = both \o inner OBVIOUS
<1>9. \A p \in 1 .. Len(list) : new[p] = list[p]
  <2>1. \A p \in 1 .. Len(list) : p \in 1 .. at BY <1>1
  <2>2. QED BY <1>5, <1>6, <1>7, <1>8, <2>1
<1>10. new[at] = SetBaseInfo(a, n)
  <2>1. at \in 1 .. at BY <1>1
  <2>2. QED BY <1>5, <1>6, <1>7, <1>8, <2>1
<1>11. \A k \in 1 .. Len(inside) : new[at + k] = Inner(inside[k], at) BY <1>3, <1>7, <1>8
<1>12. new = list \o <<SetBaseInfo(a, n)>> \o InnerOf(a, n, Len(list) + 1)
  BY <1>6, <1>8 DEF one, inner
<1>13. Appended(a, n, list, new) BY <1>7, <1>8, <1>9, <1>10, <1>11 DEF Appended, inside
<1>14. QED BY <1>12, <1>13

\* What is known of the units once the first of the circuit are entered.
EnteredOk(a, list, i) ==
  /\ Nested(list) /\ Marked(list)
  /\ \A p \in 1 .. Len(list) : DeclOk(list[p].unit.decl)
  /\ \A p \in 1 .. Len(list) : list[p].outer = 0 =>
       list[p].unit = a.unit[list[p].name] /\ \E j \in 1 .. i : list[p].name = a.allocated[j]
  /\ \A p, q \in 1 .. Len(list) :
       list[p].outer = 0 /\ list[q].outer = 0 /\ list[p].name = list[q].name => p = q

LEMMA EnterNests ==
  ASSUME NEW a, NEW n, Whole(a.unit[n].decl), NEW list, Nested(list), NEW new, Appended(a, n, list, new)
  PROVE  Nested(new)
<1>1. PICK inside : inside = a.unit[n].decl.info OBVIOUS
<1>2. Nested(inside) /\ IsSeq(inside) /\ IsSeq(list) BY <1>1 DEF Whole, DeclOk, Nested
<1>3. PICK L \in Nat : L = Len(list) BY <1>2, ListIsSeq
<1>4. PICK m \in Nat : m = Len(inside) BY <1>2, ListIsSeq
<1>5. /\ IsSeq(new) /\ Len(new) = L + 1 + m
      /\ \A p \in 1 .. L : new[p] = list[p]
      /\ new[L + 1] = SetBaseInfo(a, n)
      /\ \A k \in 1 .. m : new[L + 1 + k] = Inner(inside[k], L + 1)
  BY <1>1, <1>3, <1>4, Zenon DEF Appended
<1>6. \A p \in 1 .. L : EntryOk(list, p) /\ InsideOk(list, p) BY <1>3 DEF Nested
<1>7. \A k \in 1 .. m : EntryOk(inside, k) /\ InsideOk(inside, k) BY <1>2, <1>4 DEF Nested
<1>8. /\ DOMAIN new[L + 1] = EntryFields
      /\ new[L + 1].outer = 0 /\ new[L + 1].level = 0 /\ new[L + 1].unit = a.unit[n]
  BY <1>5, BaseIs
<1>9. ASSUME NEW k \in 1 .. m
      PROVE  /\ DOMAIN new[L + 1 + k] = EntryFields
             /\ new[L + 1 + k].outer = inside[k].outer + (L + 1) /\ new[L + 1 + k].level = inside[k].level + 1
             /\ new[L + 1 + k].unit = inside[k].unit /\ new[L + 1 + k].name = inside[k].name
  <2>1. DOMAIN inside[k] = EntryFields BY <1>7 DEF EntryOk
  <2>2. QED BY <1>5, <2>1, InnerIs
<1>10. ASSUME NEW p \in 1 .. L PROVE EntryOk(new, p) /\ InsideOk(new, p)
  <2>1. EntryOk(list, p) /\ InsideOk(list, p) /\ new[p] = list[p] BY <1>5, <1>6
  <2>2. EntryOk(new, p)
    <3>1. list[p].outer \in 0 .. p - 1 BY <2>1 DEF EntryOk
    <3>2. list[p].outer > 0 => new[list[p].outer] = list[list[p].outer]
      <4>1. list[p].outer > 0 => list[p].outer \in 1 .. L BY <3>1
      <4>2. QED BY <1>5, <4>1
    <3>3. QED BY <2>1, <3>2, Zenon DEF EntryOk, Inside
  <2>3. InsideOk(new, p)
    <3>1. PICK r \in Nat : r = Len(Inside(list, p))
      <4>1. IsSeq(Inside(list, p)) BY <2>1 DEF InsideOk
      <4>2. QED BY <4>1, ListIsSeq
    <3>2. p + r <= L BY <1>3, <2>1, <3>1 DEF InsideOk
    <3>3. Inside(new, p) = Inside(list, p) BY <2>1 DEF Inside
    <3>4. ASSUME NEW k \in 1 .. r PROVE CopyOk(new, p, k)
      <4>1. p + k \in 1 .. L BY <3>2
      <4>2. new[p + k] = list[p + k] BY <1>5, <4>1
      <4>3. CopyOk(list, p, k) BY <2>1, <3>1 DEF InsideOk
      <4>4. QED BY <2>1, <3>3, <4>2, <4>3, Zenon DEF CopyOk
    <3>5. p + r <= Len(new) BY <1>5, <3>2
    <3>6. IsSeq(Inside(list, p)) BY <2>1 DEF InsideOk
    <3>7. QED BY <3>1, <3>3, <3>4, <3>5, <3>6, Zenon DEF InsideOk
  <2>4. QED BY <2>2, <2>3
<1>11. EntryOk(new, L + 1) /\ InsideOk(new, L + 1)
  <2>1. EntryOk(new, L + 1) BY <1>8 DEF EntryOk
  <2>2. Inside(new, L + 1) = inside BY <1>1, <1>8 DEF Inside
  <2>3. ASSUME NEW k \in 1 .. m PROVE CopyOk(new, L + 1, k)
    <3>1. inside[k].outer \in Nat /\ inside[k].level \in Nat BY <1>7 DEF EntryOk
    <3>2. new[L + 1 + k].outer = (L + 1) + inside[k].outer /\ new[L + 1 + k].level = new[L + 1].level + 1 + inside[k].level
      BY <1>8, <1>9, <3>1
    <3>3. QED BY <1>9, <2>2, <3>2, Zenon DEF CopyOk
  <2>4. (L + 1) + m <= Len(new) BY <1>5
  <2>5. QED BY <1>2, <1>4, <2>1, <2>2, <2>3, <2>4, Zenon DEF InsideOk
<1>12. ASSUME NEW j \in 1 .. m PROVE EntryOk(new, L + 1 + j) /\ InsideOk(new, L + 1 + j)
  <2>1. EntryOk(inside, j) /\ InsideOk(inside, j) BY <1>7
  <2>2. PICK o \in 0 .. j - 1 : o = inside[j].outer BY <2>1 DEF EntryOk
  <2>3. PICK v \in Nat : v = inside[j].level BY <2>1 DEF EntryOk
  <2>4. new[L + 1 + j].outer = o + (L + 1) /\ new[L + 1 + j].level = v + 1 BY <1>9, <2>2, <2>3
  <2>5. L + 1 + j <= o + (L + 1) + Len(Inside(new, o + (L + 1)))
    <3>1. CASE o = 0
      <4>1. Inside(new, L + 1) = inside BY <1>1, <1>8 DEF Inside
      <4>2. o + (L + 1) = L + 1 BY <3>1
      <4>3. Len(Inside(new, o + (L + 1))) = m BY <1>4, <4>1, <4>2
      <4>4. QED BY <3>1, <4>3
    <3>2. CASE o # 0
      <4>1. o \in 1 .. m BY <3>2
      <4>2. j <= o + Len(Inside(inside, o)) BY <2>1, <2>2, <3>2 DEF EntryOk
      <4>3. new[L + 1 + o].unit = inside[o].unit BY <1>9, <4>1
      <4>4. o + (L + 1) = L + 1 + o OBVIOUS
      <4>5. Inside(new, o + (L + 1)) = Inside(inside, o) BY <4>3, <4>4 DEF Inside
      <4>6. Len(Inside(inside, o)) \in Nat
        <5>1. IsSeq(Inside(inside, o)) BY <1>7, <4>1 DEF InsideOk
        <5>2. QED BY <5>1, ListIsSeq
      <4>7. QED BY <4>2, <4>5, <4>6
    <3>3. QED BY <3>1, <3>2
  <2>6. EntryOk(new, L + 1 + j)
    <3>1. new[L + 1 + j].level \in Nat /\ new[L + 1 + j].outer \in 0 .. (L + 1 + j) - 1 BY <2>4
    <3>2. new[L + 1 + j].level # 0 /\ new[L + 1 + j].outer # 0 BY <2>4
    <3>3. DOMAIN new[L + 1 + j] = EntryFields BY <1>9
    <3>4. L + 1 + j <= new[L + 1 + j].outer + Len(Inside(new, new[L + 1 + j].outer)) BY <2>4, <2>5
    <3>5. QED BY <3>1, <3>2, <3>3, <3>4 DEF EntryOk
  <2>7. InsideOk(new, L + 1 + j)
    <3>1. Inside(new, L + 1 + j) = Inside(inside, j) BY <1>9 DEF Inside
    <3>2. IsSeq(Inside(inside, j)) BY <2>1 DEF InsideOk
    <3>3. PICK r \in Nat : r = Len(Inside(inside, j)) BY <3>2, ListIsSeq
    <3>4. j + r <= m BY <1>4, <2>1, <3>3 DEF InsideOk
    <3>5. ASSUME NEW k \in 1 .. r PROVE CopyOk(new, L + 1 + j, k)
      <4>1. j + k \in 1 .. m BY <3>4
      <4>2. CopyOk(inside, j, k) BY <2>1, <3>3 DEF InsideOk
      <4>3. (L + 1 + j) + k = L + 1 + (j + k) OBVIOUS
      <4>4. PICK x : x = Inside(inside, j)[k] OBVIOUS
      <4>5. /\ inside[j + k].outer = j + x.outer /\ inside[j + k].level = v + 1 + x.level
            /\ inside[j + k].unit = x.unit /\ inside[j + k].name = x.name
        BY <2>3, <4>2, <4>4 DEF CopyOk
      <4>6. x.outer \in Int /\ x.level \in Int
        <5>1. Nested(Inside(inside, j)) BY <1>1, <1>4 DEF Whole, DeclOk, Inside
        <5>2. EntryOk(Inside(inside, j), k) BY <3>3, <5>1 DEF Nested
        <5>3. QED BY <4>4, <5>2 DEF EntryOk
      <4>7. /\ new[(L + 1 + j) + k].outer = (L + 1 + j) + x.outer
            /\ new[(L + 1 + j) + k].level = new[L + 1 + j].level + 1 + x.level
        BY <1>9, <2>4, <4>1, <4>3, <4>5, <4>6
      <4>8. new[(L + 1 + j) + k].unit = x.unit /\ new[(L + 1 + j) + k].name = x.name
        BY <1>9, <4>1, <4>3, <4>5
      <4>9. QED BY <3>1, <4>4, <4>7, <4>8, Zenon DEF CopyOk
    <3>6. (L + 1 + j) + r <= Len(new) BY <1>5, <3>4
    <3>7. QED BY <3>1, <3>2, <3>3, <3>5, <3>6, Zenon DEF InsideOk
  <2>8. QED BY <2>6, <2>7
<1>13. \A p \in 1 .. Len(new) : EntryOk(new, p) /\ InsideOk(new, p)
  <2>1. TAKE p \in 1 .. Len(new)
  <2>2. p \in 1 .. L \/ p = L + 1 \/ \E j \in 1 .. m : p = L + 1 + j
    <3>1. p > L + 1 => p - (L + 1) \in 1 .. m /\ p = L + 1 + (p - (L + 1)) BY <1>5
    <3>2. p \in 1 .. L \/ p = L + 1 \/ p > L + 1 BY <1>5
    <3>3. QED BY <3>1, <3>2
  <2>3. QED BY <1>10, <1>11, <1>12, <2>2
<1>14. QED BY <1>5, <1>13 DEF Nested

LEMMA EnterKeeps ==
  ASSUME NEW a, CircuitOk(a), NEW i \in 1 .. Len(a.allocated), NEW list, EnteredOk(a, list, i - 1),
         NEW new, Appended(a, a.allocated[i], list, new)
  PROVE  EnteredOk(a, new, i)
<1>1. PICK n : n = a.allocated[i] OBVIOUS
<1>2. Len(a.allocated) \in Nat /\ DOMAIN a.allocated = 1 .. Len(a.allocated)
  BY ListIsSeq DEF CircuitOk
<1>3. n \in Range(a.allocated) BY <1>1, <1>2 DEF Range
<1>4. Whole(a.unit[n].decl) BY <1>3 DEF CircuitOk, UnitOk
<1>5. PICK inside : inside = a.unit[n].decl.info OBVIOUS
<1>6. Nested(inside) /\ Marked(inside) /\ IsSeq(inside) /\ Nested(list) /\ IsSeq(list)
  BY <1>4, <1>5 DEF Whole, DeclOk, Nested, EnteredOk
<1>7. PICK L \in Nat : L = Len(list) BY <1>6, ListIsSeq
<1>8. PICK m \in Nat : m = Len(inside) BY <1>6, ListIsSeq
<1>9. /\ IsSeq(new) /\ Len(new) = L + 1 + m
      /\ \A p \in 1 .. L : new[p] = list[p]
      /\ new[L + 1] = SetBaseInfo(a, n)
      /\ \A k \in 1 .. m : new[L + 1 + k] = Inner(inside[k], L + 1)
  BY <1>1, <1>5, <1>7, <1>8, Zenon DEF Appended
<1>10. Nested(new) BY <1>1, <1>4, <1>6, EnterNests
<1>11. \A p \in 1 .. L : EntryOk(list, p) BY <1>6, <1>7 DEF Nested
<1>12. \A k \in 1 .. m : EntryOk(inside, k) BY <1>6, <1>8 DEF Nested
<1>13. /\ new[L + 1].outer = 0 /\ new[L + 1].unit = a.unit[n] /\ new[L + 1].name = n
       /\ new[L + 1].globallyStatic = a.unit[n].static
  BY <1>9, BaseIs
<1>14. ASSUME NEW k \in 1 .. m
       PROVE  /\ new[L + 1 + k].outer = inside[k].outer + (L + 1) /\ new[L + 1 + k].unit = inside[k].unit
              /\ new[L + 1 + k].name = inside[k].name /\ new[L + 1 + k].globallyStatic = inside[k].globallyStatic
              /\ new[L + 1 + k].outer \in Int /\ new[L + 1 + k].outer > 0
  <2>1. DOMAIN inside[k] = EntryFields /\ inside[k].outer \in 0 .. k - 1 BY <1>12 DEF EntryOk
  <2>2. QED BY <1>9, <2>1, InnerIs
<1>15. \A p \in 1 .. Len(new) : p \in 1 .. L \/ p = L + 1 \/ \E j \in 1 .. m : p = L + 1 + j
  <2>1. TAKE p \in 1 .. Len(new)
  <2>2. p > L + 1 => p - (L + 1) \in 1 .. m /\ p = L + 1 + (p - (L + 1)) BY <1>9
  <2>3. p \in 1 .. L \/ p = L + 1 \/ p > L + 1 BY <1>9
  <2>4. QED BY <2>2, <2>3
<1>16. Marked(new)
  <2>1. SUFFICES ASSUME NEW p \in 1 .. Len(new) PROVE new[p].unit.static => new[p].globallyStatic
    BY DEF Marked
  <2>2. CASE p \in 1 .. L
    <3>1. Marked(list) BY DEF EnteredOk
    <3>2. QED BY <1>7, <1>9, <2>2, <3>1, Zenon DEF Marked
  <2>3. CASE p = L + 1 BY <1>13, <2>3
  <2>4. CASE \E j \in 1 .. m : p = L + 1 + j
    <3>1. PICK j \in 1 .. m : p = L + 1 + j BY <2>4
    <3>2. inside[j].unit.static => inside[j].globallyStatic BY <1>6, <1>8, Zenon DEF Marked
    <3>3. QED BY <1>14, <3>1, <3>2, Zenon
  <2>5. QED BY <1>15, <2>2, <2>3, <2>4
<1>17. \A p \in 1 .. Len(new) : DeclOk(new[p].unit.decl)
  <2>1. TAKE p \in 1 .. Len(new)
  <2>2. CASE p \in 1 .. L BY <1>7, <1>9, <2>2 DEF EnteredOk
  <2>3. CASE p = L + 1 BY <1>4, <1>13, <2>3 DEF Whole
  <2>4. CASE \E j \in 1 .. m : p = L + 1 + j BY <1>4, <1>5, <1>8, <1>14, <2>4, Zenon DEF Whole
  <2>5. QED BY <1>15, <2>2, <2>3, <2>4
<1>18. \A p \in 1 .. Len(new) : new[p].outer = 0 => (p \in 1 .. L /\ list[p].outer = 0) \/ p = L + 1
  <2>1. TAKE p \in 1 .. Len(new)
  <2>2. CASE p \in 1 .. L BY <1>9, <2>2
  <2>3. CASE \E j \in 1 .. m : p = L + 1 + j
    <3>1. new[p].outer \in Int /\ new[p].outer > 0 BY <1>14, <2>3
    <3>2. QED BY <3>1
  <2>4. QED BY <1>15, <2>2, <2>3
<1>19. \A p \in 1 .. L : list[p].outer = 0 =>
         list[p].unit = a.unit[list[p].name] /\ \E j \in 1 .. i - 1 : list[p].name = a.allocated[j]
  BY <1>7 DEF EnteredOk
<1>20. \A p \in 1 .. Len(new) : new[p].outer = 0 =>
         new[p].unit = a.unit[new[p].name] /\ \E j \in 1 .. i : new[p].name = a.allocated[j]
  <2>1. TAKE p \in 1 .. Len(new)
  <2>2. HAVE new[p].outer = 0
  <2>3. CASE p \in 1 .. L /\ list[p].outer = 0 BY <1>9, <1>19, <2>3
  <2>4. CASE p = L + 1 BY <1>1, <1>13, <2>4
  <2>5. QED BY <1>18, <2>2, <2>3, <2>4
<1>21. \A p \in 1 .. L : list[p].outer = 0 => list[p].name # n
  <2>1. TAKE p \in 1 .. L
  <2>2. HAVE list[p].outer = 0
  <2>3. PICK j \in 1 .. i - 1 : list[p].name = a.allocated[j] BY <1>19, <2>2
  <2>4. j \in DOMAIN a.allocated /\ i \in DOMAIN a.allocated /\ j # i BY <1>2
  <2>5. QED BY <1>1, <2>3, <2>4, Zenon DEF CircuitOk, IsInjective
<1>22. ASSUME NEW p \in 1 .. Len(new), NEW q \in 1 .. Len(new), new[p].outer = 0, new[q].outer = 0, new[p].name = new[q].name
       PROVE  p = q
  <2>1. \A x, y \in 1 .. L : list[x].outer = 0 /\ list[y].outer = 0 /\ list[x].name = list[y].name => x = y
    BY <1>7 DEF EnteredOk
  <2>2. (p \in 1 .. L /\ list[p].outer = 0) \/ p = L + 1 BY <1>18, <1>22
  <2>3. (q \in 1 .. L /\ list[q].outer = 0) \/ q = L + 1 BY <1>18, <1>22
  <2>4. CASE p \in 1 .. L /\ list[p].outer = 0 /\ q \in 1 .. L /\ list[q].outer = 0
    BY <1>9, <1>22, <2>1, <2>4
  <2>5. CASE p \in 1 .. L /\ list[p].outer = 0 /\ q = L + 1 BY <1>9, <1>13, <1>21, <1>22, <2>5
  <2>6. CASE q \in 1 .. L /\ list[q].outer = 0 /\ p = L + 1 BY <1>9, <1>13, <1>21, <1>22, <2>6
  <2>7. QED BY <2>2, <2>3, <2>4, <2>5, <2>6
<1>23. QED BY <1>10, <1>16, <1>17, <1>20, <1>22 DEF EnteredOk

LEMMA InitialInfo ==
  ASSUME NEW a, CircuitOk(a)
  PROVE  EnteredOk(a, GenerateInitialInstanceInfo(a), Len(a.allocated))
<1>1. PICK n \in Nat : n = Len(a.allocated) BY ListIsSeq DEF CircuitOk
<1>2. PICK e : e[0] = <<>> /\ Entering(a, e) /\ GenerateInitialInstanceInfo(a) = e[n]
  BY <1>1, EnteredSolved
<1>3. EnteredOk(a, e[0], 0)
  <2>1. PICK x : x = e[0] OBVIOUS
  <2>2. x \in [1 .. 0 -> {}] BY <1>2, <2>1
  <2>3. IsSeq(x) /\ Len(x) = 0 BY <2>2, SeqFrom
  <2>4. \A p \in 1 .. Len(x) : FALSE BY <2>3
  <2>5. QED BY <2>1, <2>3, <2>4 DEF EnteredOk, Nested, Marked
<1>4. ASSUME NEW i \in 1 .. n, EnteredOk(a, e[i - 1], i - 1) PROVE EnteredOk(a, e[i], i)
  <2>1. a.allocated[i] \in Range(a.allocated)
    <3>1. i \in DOMAIN a.allocated BY <1>1, ListIsSeq DEF CircuitOk
    <3>2. QED BY <3>1 DEF Range
  <2>2. IsSeq(a.unit[a.allocated[i]].decl.info) BY <2>1 DEF CircuitOk, UnitOk, Whole, DeclOk, Nested
  <2>3. IsSeq(e[i - 1]) BY <1>4 DEF EnteredOk, Nested
  <2>4. Appended(a, a.allocated[i], e[i - 1], e[i])
    BY <1>1, <1>2, <2>2, <2>3, AppendedIs, Zenon DEF Entering
  <2>5. QED BY <1>1, <1>4, <2>4, EnterKeeps
<1>5. PICK G : G = {m \in 0 .. n : EnteredOk(a, e[m], m)} OBVIOUS
<1>6. ASSUME NEW q \in 0 .. n, \A r \in 0 .. n : r < q => r \in G PROVE q \in G
  <2>1. CASE q = 0 BY <1>3, <1>5, <2>1
  <2>2. CASE q # 0
    <3>1. q \in 1 .. n /\ q - 1 \in 0 .. n /\ q - 1 < q BY <2>2
    <3>2. EnteredOk(a, e[q - 1], q - 1) BY <1>5, <1>6, <3>1
    <3>3. QED BY <1>4, <1>5, <3>1, <3>2
  <2>3. QED BY <2>1, <2>2
<1>7. n \in G BY <1>6, UpFrom
<1>8. QED BY <1>1, <1>2, <1>5, <1>7

-----------------------------------------------------------------------------
(* What is calculated from them.                                            *)

\* Each pass leaves the units as they are.
Same(list, new) ==
  /\ IsSeq(new) /\ Len(new) = Len(list)
  /\ \A p \in 1 .. Len(list) :
       /\ DOMAIN new[p] = EntryFields
       /\ new[p].name = list[p].name /\ new[p].unit = list[p].unit
       /\ new[p].outer = list[p].outer /\ new[p].level = list[p].level

\* The composite around a unit is before it.
LEMMA ParentsBefore ==
  ASSUME NEW list, Nested(list), NEW p \in 1 .. Len(list)
  PROVE  /\ DOMAIN list[p] = EntryFields /\ list[p].level \in Nat
         /\ list[p].level > 0 => Parent(list, p) \in 1 .. p - 1 /\ Parent(list, p) \in 1 .. Len(list)
         /\ list[p].level = 0 => Parent(list, p) = 0
<1>1. Len(list) \in Nat BY ListIsSeq DEF Nested
<1>2. EntryOk(list, p) BY DEF Nested
<1>3. QED BY <1>1, <1>2 DEF EntryOk, Parent

\* A sequence of as many values.
LEMMA MappedIsSeq ==
  ASSUME NEW n \in Nat, NEW f
  PROVE  IsSeq([p \in 1 .. n |-> f[p]]) /\ Len([p \in 1 .. n |-> f[p]]) = n
<1>1. PICK S : S = {f[p] : p \in 1 .. n} OBVIOUS
<1>2. PICK g : g = [p \in 1 .. n |-> f[p]] OBVIOUS
<1>3. g \in [1 .. n -> S] BY <1>1, <1>2
<1>4. QED BY <1>2, <1>3, SeqFrom, Zenon

\* NameUnits marks a unit exactly if it was marked or is in a marked one.
Covering(list, new) ==
  \A p \in 1 .. Len(list) :
    new[p].globallyStatic = (list[p].globallyStatic \/ (list[p].level > 0 /\ new[Parent(list, p)].globallyStatic))

LEMMA NamesKeep ==
  ASSUME NEW list, Nested(list), NEW t
  PROVE  Same(list, NameUnits(list, t)) /\ Covering(list, NameUnits(list, t))
<1>1. PICK n \in Nat : n = Len(list) /\ DOMAIN list = 1 .. n BY ListIsSeq DEF Nested
<1>2. \A i \in 1 .. n : /\ DOMAIN list[i] = EntryFields
                        /\ list[i].level > 0 => Parent(list, i) \in 1 .. n /\ Parent(list, i) \in 1 .. i - 1
  BY <1>1, ParentsBefore
<1> DEFINE Rule(f, i) == list[i].globallyStatic \/ (list[i].level > 0 /\ f[Parent(list, i)])
           Upto(m) == \E f : f = [i \in 1 .. n |-> f[i]] /\ \A i \in 1 .. m : f[i] = Rule(f, i)
<1>3. ASSUME NEW f, NEW g, NEW i \in 1 .. n, list[i].level > 0 => f[Parent(list, i)] = g[Parent(list, i)]
      PROVE  Rule(f, i) = Rule(g, i)
  BY <1>3, Zenon
<1> HIDE DEF Rule
<1>4. Upto(0)
  <2>1. PICK f : f = [i \in 1 .. n |-> 0] OBVIOUS
  <2>2. f = [i \in 1 .. n |-> f[i]] BY <2>1
  <2>3. QED BY <2>2
<1>5. ASSUME NEW m \in 1 .. n, Upto(m - 1) PROVE Upto(m)
  <2>1. PICK f : f = [i \in 1 .. n |-> f[i]] /\ \A i \in 1 .. m - 1 : f[i] = Rule(f, i) BY <1>5
  <2>2. PICK x : x = Rule(f, m) OBVIOUS
  <2>3. PICK g : g = [i \in 1 .. n |-> IF i = m THEN x ELSE f[i]] OBVIOUS
  <2>4. \A i \in 1 .. n : g[i] = IF i = m THEN x ELSE f[i] BY <2>3
  <2>5. g = [i \in 1 .. n |-> g[i]] BY <2>3
  <2>6. ASSUME NEW i \in 1 .. m PROVE g[i] = Rule(g, i)
    <3>1. i \in 1 .. n /\ (list[i].level > 0 => Parent(list, i) \in 1 .. n /\ Parent(list, i) # m)
      BY <1>2
    <3>2. list[i].level > 0 => f[Parent(list, i)] = g[Parent(list, i)] BY <2>4, <3>1, Zenon
    <3>3. Rule(f, i) = Rule(g, i) BY <1>3, <3>1, <3>2, Zenon
    <3>4. CASE i = m BY <2>2, <2>4, <3>1, <3>3, <3>4, Zenon
    <3>5. CASE i # m
      <4>1. i \in 1 .. m - 1 BY <3>5
      <4>2. QED BY <2>1, <2>4, <3>1, <3>3, <3>5, <4>1, Zenon
    <3>6. QED BY <3>4, <3>5
  <2>7. QED BY <2>5, <2>6
<1>6. Upto(n)
  <2> HIDE DEF Upto
  <2>1. PICK G : G = {m \in 0 .. n : Upto(m)} OBVIOUS
  <2>2. ASSUME NEW q \in 0 .. n, \A r \in 0 .. n : r < q => r \in G PROVE q \in G
    <3>1. CASE q = 0 BY <1>4, <2>1, <3>1
    <3>2. CASE q # 0
      <4>1. q \in 1 .. n /\ q - 1 \in 0 .. n /\ q - 1 < q BY <3>2
      <4>2. Upto(q - 1) BY <2>1, <2>2, <4>1
      <4>3. QED BY <1>5, <2>1, <4>1, <4>2
    <3>3. QED BY <3>1, <3>2
  <2>3. \A q \in 0 .. n : q \in G BY <2>2, UpFrom
  <2>4. QED BY <2>1, <2>3
<1>7. PICK f : f = [i \in 1 .. n |-> Rule(f, i)]
  <2>1. PICK f : f = [i \in 1 .. n |-> f[i]] /\ \A i \in 1 .. n : f[i] = Rule(f, i) BY <1>6
  <2>2. [i \in 1 .. n |-> f[i]] = [i \in 1 .. n |-> Rule(f, i)] BY <2>1
  <2>3. f = [i \in 1 .. n |-> Rule(f, i)] BY <2>1, <2>2, Zenon
  <2>4. QED BY <2>3
<1>8. PICK s : s = CHOOSE h : h = [i \in DOMAIN list |-> Rule(h, i)] OBVIOUS
<1>9. s = [i \in DOMAIN list |-> Rule(s, i)]
  <2>1. f = [i \in DOMAIN list |-> Rule(f, i)] BY <1>1, <1>7
  <2>2. QED BY <1>8, <2>1, Zenon
<1>10. \A i \in 1 .. n : s[i] = Rule(s, i) BY <1>1, <1>9
<1> DEFINE Made(pa, st) == [p \in DOMAIN list |->
              [list[p] EXCEPT !.path = pa[p], !.globallyStatic = st[p],
                              !.parent = IF list[p].level = 0 THEN t ELSE list[Parent(list, p)].unit.decl.name]]
<1>11. \E path : NameUnits(list, t) = Made(path, s)
  <2>1. PICK path : path = CHOOSE h : h = [p \in DOMAIN list |->
          IF list[p].level = 0 THEN list[p].path ELSE Append(h[Parent(list, p)], list[p].name)]
    OBVIOUS
  <2>2. NameUnits(list, t) = Made(CHOOSE h : h = [p \in DOMAIN list |->
          IF list[p].level = 0 THEN list[p].path ELSE Append(h[Parent(list, p)], list[p].name)],
          CHOOSE h : h = [i \in DOMAIN list |-> Rule(h, i)])
    BY DEF NameUnits, Rule
  <2> HIDE DEF Made
  <2>3. NameUnits(list, t) = Made(path, s) BY <1>8, <2>1, <2>2, Zenon
  <2>4. QED BY <2>3
<1>12. PICK path : NameUnits(list, t) = Made(path, s) BY <1>11, Zenon
<1>13. PICK r : r = Made(path, s) BY Zenon
<1>14. ASSUME NEW p \in 1 .. n
       PROVE  /\ DOMAIN r[p] = EntryFields
              /\ r[p].name = list[p].name /\ r[p].unit = list[p].unit
              /\ r[p].outer = list[p].outer /\ r[p].level = list[p].level
              /\ r[p].globallyStatic = s[p]
  <2>1. PICK x : x = IF list[p].level = 0 THEN t ELSE list[Parent(list, p)].unit.decl.name BY Zenon
  <2>2. r[p] = [list[p] EXCEPT !.path = path[p], !.globallyStatic = s[p], !.parent = x]
    BY <1>1, <1>13, <2>1, Zenon
  <2>3. DOMAIN list[p] = EntryFields BY <1>2
  <2>4. QED BY <2>2, <2>3 DEF EntryFields
<1>15. IsSeq(r) /\ Len(r) = n
  <2>1. r = [p \in 1 .. n |-> r[p]] BY <1>1, <1>13, Zenon
  <2>2. QED BY <2>1, MappedIsSeq, Zenon
<1>16. Same(list, r) BY <1>1, <1>14, <1>15 DEF Same
<1>17. Covering(list, r)
  <2>1. SUFFICES ASSUME NEW p \in 1 .. n
                 PROVE  r[p].globallyStatic = (list[p].globallyStatic \/ (list[p].level > 0 /\ r[Parent(list, p)].globallyStatic))
    BY <1>1 DEF Covering
  <2>2. s[p] = (list[p].globallyStatic \/ (list[p].level > 0 /\ s[Parent(list, p)]))
    BY <1>10, Zenon DEF Rule
  <2>3. r[p].globallyStatic = s[p] /\ (list[p].level > 0 => r[Parent(list, p)].globallyStatic = s[Parent(list, p)])
    BY <1>2, <1>14
  <2>4. QED BY <2>2, <2>3, Zenon
<1>18. NameUnits(list, t) = r BY <1>12, <1>13, Zenon
<1>19. QED BY <1>16, <1>17, <1>18, Zenon

\* PlaceConfigs gives the units of the first level the places of their wires.
WiresPlaced(list, new) ==
  \A p \in 1 .. Len(list) :
    /\ new[p].globallyStatic = list[p].globallyStatic
    /\ list[p].level = 0 => new[p].globalWires = TopWires(list, p) /\ new[p].wires = TopWires(list, p)

LEMMA ConfigsKeep ==
  ASSUME NEW list, Nested(list)
  PROVE  Same(list, PlaceConfigs(list)) /\ WiresPlaced(list, PlaceConfigs(list))
<1>1. PICK n \in Nat : n = Len(list) /\ DOMAIN list = 1 .. n BY ListIsSeq DEF Nested
<1>2. \A i \in 1 .. n : DOMAIN list[i] = EntryFields BY <1>1, ParentsBefore
<1> DEFINE Wires(pos, p) ==
             LET above == pos[Parent(list, p)]
                 decl  == InDeclaration(list, p).wires
             IN  IF list[p].level = 0 THEN TopWires(list, p)
                 ELSE IF above = None THEN list[p].globalWires
                 ELSE [w \in DOMAIN list[p].globalWires |-> IF decl[w] = None THEN None ELSE above + decl[w]]
           Made(pos) == [p \in DOMAIN list |->
             [list[p] EXCEPT !.globalPos = pos[p], !.globalWires = Wires(pos, p),
                             !.localPos = IF list[p].level = 0 THEN pos[p] ELSE @,
                             !.wires = IF list[p].level = 0 THEN Wires(pos, p) ELSE @]]
<1>3. \E pos : PlaceConfigs(list) = Made(pos) BY ZenonT(60) DEF PlaceConfigs
<1>4. PICK pos : PlaceConfigs(list) = Made(pos) BY <1>3, Zenon
<1>5. PICK r : r = Made(pos) BY Zenon
<1>6. ASSUME NEW p \in 1 .. n
      PROVE  /\ DOMAIN r[p] = EntryFields
             /\ r[p].name = list[p].name /\ r[p].unit = list[p].unit
             /\ r[p].outer = list[p].outer /\ r[p].level = list[p].level
             /\ r[p].globallyStatic = list[p].globallyStatic
             /\ list[p].level = 0 => r[p].globalWires = TopWires(list, p) /\ r[p].wires = TopWires(list, p)
  <2>1. PICK x : x = Wires(pos, p) BY Zenon
  <2>2. list[p].level = 0 => x = TopWires(list, p) BY <2>1, Zenon
  <2> HIDE DEF Wires
  <2>3. r[p] = [list[p] EXCEPT !.globalPos = pos[p], !.globalWires = x,
                               !.localPos = IF list[p].level = 0 THEN pos[p] ELSE @,
                               !.wires = IF list[p].level = 0 THEN x ELSE @]
    BY <1>1, <1>5, <2>1, Zenon
  <2>4. DOMAIN list[p] = EntryFields BY <1>2
  <2>5. QED BY <2>2, <2>3, <2>4 DEF EntryFields
<1> HIDE DEF Wires
<1>7. IsSeq(r) /\ Len(r) = n
  <2>1. r = [p \in 1 .. n |-> r[p]] BY <1>1, <1>5, Zenon
  <2>2. QED BY <2>1, MappedIsSeq, Zenon
<1>8. Same(list, r) /\ WiresPlaced(list, r) BY <1>1, <1>6, <1>7 DEF Same, WiresPlaced
<1> HIDE DEF Made
<1>9. PlaceConfigs(list) = r BY <1>4, <1>5, Zenon
<1>10. QED BY <1>8, <1>9, Zenon

\* PlaceStates gives a unit with a state the start of it: "start" is its recursive function.
StartOf(list, start, p) ==
  IF list[p].level = 0 THEN SumUpTo(Children(list, 0), StatesOf(list))[p - 1]
  ELSE IF InDeclaration(list, p).statePos = None THEN None
  ELSE start[Parent(list, p)] + InDeclaration(list, p).statePos
StatesPlaced(list, new) ==
  \E start : \A p \in 1 .. Len(list) :
    /\ start[p] = StartOf(list, start, p)
    /\ new[p].statePos = IF list[p].unit.decl.states = 0 THEN None ELSE start[p]
    /\ new[p].globallyStatic = list[p].globallyStatic
    /\ new[p].globalWires = list[p].globalWires /\ new[p].wires = list[p].wires

LEMMA StatesKeep ==
  ASSUME NEW list, Nested(list)
  PROVE  Same(list, PlaceStates(list)) /\ StatesPlaced(list, PlaceStates(list))
<1>1. PICK n \in Nat : n = Len(list) /\ DOMAIN list = 1 .. n BY ListIsSeq DEF Nested
<1>2. \A i \in 1 .. n : /\ DOMAIN list[i] = EntryFields
                        /\ list[i].level > 0 => Parent(list, i) \in 1 .. n /\ Parent(list, i) \in 1 .. i - 1
                        /\ list[i].level \in Nat
  BY <1>1, ParentsBefore
<1> DEFINE Rule(f, i) == StartOf(list, f, i)
           Upto(m) == \E f : f = [i \in 1 .. n |-> f[i]] /\ \A i \in 1 .. m : f[i] = Rule(f, i)
<1>3. ASSUME NEW f, NEW g, NEW i \in 1 .. n, list[i].level > 0 => f[Parent(list, i)] = g[Parent(list, i)]
      PROVE  Rule(f, i) = Rule(g, i)
  <2>1. list[i].level = 0 \/ list[i].level > 0 BY <1>2
  <2>2. QED BY <1>3, <2>1, Zenon DEF StartOf
<1> HIDE DEF Rule
<1>4. Upto(0)
  <2>1. PICK f : f = [i \in 1 .. n |-> 0] OBVIOUS
  <2>2. f = [i \in 1 .. n |-> f[i]] BY <2>1
  <2>3. QED BY <2>2
<1>5. ASSUME NEW m \in 1 .. n, Upto(m - 1) PROVE Upto(m)
  <2>1. PICK f : f = [i \in 1 .. n |-> f[i]] /\ \A i \in 1 .. m - 1 : f[i] = Rule(f, i) BY <1>5
  <2>2. PICK x : x = Rule(f, m) OBVIOUS
  <2>3. PICK g : g = [i \in 1 .. n |-> IF i = m THEN x ELSE f[i]] OBVIOUS
  <2>4. \A i \in 1 .. n : g[i] = IF i = m THEN x ELSE f[i] BY <2>3
  <2>5. g = [i \in 1 .. n |-> g[i]] BY <2>3
  <2>6. ASSUME NEW i \in 1 .. m PROVE g[i] = Rule(g, i)
    <3>1. i \in 1 .. n /\ (list[i].level > 0 => Parent(list, i) \in 1 .. n /\ Parent(list, i) # m)
      BY <1>2
    <3>2. list[i].level > 0 => f[Parent(list, i)] = g[Parent(list, i)] BY <2>4, <3>1, Zenon
    <3>3. Rule(f, i) = Rule(g, i) BY <1>3, <3>1, <3>2, Zenon
    <3>4. CASE i = m BY <2>2, <2>4, <3>1, <3>3, <3>4, Zenon
    <3>5. CASE i # m
      <4>1. i \in 1 .. m - 1 BY <3>5
      <4>2. QED BY <2>1, <2>4, <3>1, <3>3, <3>5, <4>1, Zenon
    <3>6. QED BY <3>4, <3>5
  <2>7. QED BY <2>5, <2>6
<1>6. Upto(n)
  <2> HIDE DEF Upto
  <2>1. PICK G : G = {m \in 0 .. n : Upto(m)} OBVIOUS
  <2>2. ASSUME NEW q \in 0 .. n, \A r \in 0 .. n : r < q => r \in G PROVE q \in G
    <3>1. CASE q = 0 BY <1>4, <2>1, <3>1
    <3>2. CASE q # 0
      <4>1. q \in 1 .. n /\ q - 1 \in 0 .. n /\ q - 1 < q BY <3>2
      <4>2. Upto(q - 1) BY <2>1, <2>2, <4>1
      <4>3. QED BY <1>5, <2>1, <4>1, <4>2
    <3>3. QED BY <3>1, <3>2
  <2>3. \A q \in 0 .. n : q \in G BY <2>2, UpFrom
  <2>4. QED BY <2>1, <2>3
<1>7. PICK f : f = [i \in 1 .. n |-> Rule(f, i)]
  <2>1. PICK f : f = [i \in 1 .. n |-> f[i]] /\ \A i \in 1 .. n : f[i] = Rule(f, i) BY <1>6
  <2>2. [i \in 1 .. n |-> f[i]] = [i \in 1 .. n |-> Rule(f, i)] BY <2>1
  <2>3. f = [i \in 1 .. n |-> Rule(f, i)] BY <2>1, <2>2, Zenon
  <2>4. QED BY <2>3
<1>8. PICK start : start = CHOOSE h : h = [i \in DOMAIN list |-> Rule(h, i)] OBVIOUS
<1>9. start = [i \in DOMAIN list |-> Rule(start, i)]
  <2>1. f = [i \in DOMAIN list |-> Rule(f, i)] BY <1>1, <1>7
  <2>2. QED BY <1>8, <2>1, Zenon
<1>10. \A i \in 1 .. n : start[i] = StartOf(list, start, i)
  <2>1. \A i \in 1 .. n : start[i] = Rule(start, i) BY <1>1, <1>9
  <2>2. QED BY <2>1, Zenon DEF Rule
<1> DEFINE Made(st) == [p \in DOMAIN list |->
              [list[p] EXCEPT !.statePos = IF StatesOf(list)[p] = 0 THEN None ELSE st[p]]]
<1>11. PlaceStates(list) = Made(start)
  <2>1. PlaceStates(list) = Made(CHOOSE h : h = [i \in DOMAIN list |-> Rule(h, i)])
    BY DEF PlaceStates, Rule, StartOf, StatesOf
  <2> HIDE DEF Made
  <2>2. QED BY <1>8, <2>1, Zenon
<1>12. PICK r : r = Made(start) BY Zenon
<1>13. ASSUME NEW p \in 1 .. n
       PROVE  /\ DOMAIN r[p] = EntryFields
              /\ r[p].name = list[p].name /\ r[p].unit = list[p].unit
              /\ r[p].outer = list[p].outer /\ r[p].level = list[p].level
              /\ r[p].globallyStatic = list[p].globallyStatic
              /\ r[p].globalWires = list[p].globalWires /\ r[p].wires = list[p].wires
              /\ r[p].statePos = IF list[p].unit.decl.states = 0 THEN None ELSE start[p]
  <2>1. PICK x : x = IF list[p].unit.decl.states = 0 THEN None ELSE start[p] BY Zenon
  <2>2. StatesOf(list)[p] = list[p].unit.decl.states BY <1>1 DEF StatesOf
  <2>3. r[p] = [list[p] EXCEPT !.statePos = x] BY <1>1, <1>12, <2>1, <2>2, Zenon
  <2>4. DOMAIN list[p] = EntryFields BY <1>2
  <2>5. QED BY <2>1, <2>3, <2>4 DEF EntryFields
<1>14. IsSeq(r) /\ Len(r) = n
  <2>1. r = [p \in 1 .. n |-> r[p]] BY <1>1, <1>12, Zenon
  <2>2. QED BY <2>1, MappedIsSeq, Zenon
<1>15. Same(list, r) BY <1>1, <1>13, <1>14 DEF Same
<1>16. StatesPlaced(list, r) BY <1>1, <1>10, <1>13, Zenon DEF StatesPlaced
<1> HIDE DEF Made
<1>17. PlaceStates(list) = r BY <1>11, <1>12, Zenon
<1>18. QED BY <1>15, <1>16, <1>17, Zenon

\* What the passes after it leave as it is.
Kept(list, new) ==
  \A p \in 1 .. Len(list) :
    /\ new[p].statePos = list[p].statePos /\ new[p].globallyStatic = list[p].globallyStatic
    /\ new[p].globalWires = list[p].globalWires /\ new[p].wires = list[p].wires

LEMMA MemoriesKeep ==
  ASSUME NEW list, Nested(list)
  PROVE  Same(list, PlaceMemories(list)) /\ Kept(list, PlaceMemories(list))
<1>1. PICK n \in Nat : n = Len(list) /\ DOMAIN list = 1 .. n BY ListIsSeq DEF Nested
<1>2. \A i \in 1 .. n : DOMAIN list[i] = EntryFields BY <1>1, ParentsBefore
<1> DEFINE mapped == [p \in DOMAIN list |-> IF list[p].unit.decl.memMap # None THEN 1 ELSE 0]
           Index(p, old) == IF list[p].unit.decl.composite \/ mapped[p] = 0 THEN old
                            ELSE SumUpTo(Range(Leaves(list)), mapped)[p - 1]
           Made(size) == [p \in DOMAIN list |->
             [list[p] EXCEPT !.memIndex = Index(p, @), !.memSize = size[p]]]
<1>3. \E size : PlaceMemories(list) = Made(size)
  <2>1. PlaceMemories(list) = Made(CHOOSE h : h = [p \in DOMAIN list |->
          IF ~list[p].unit.decl.composite THEN IF mapped[p] = 1 THEN 1 ELSE list[p].memSize
          ELSE SizesOf(h, Children(list, p))])
    BY DEF PlaceMemories
  <2> HIDE DEF Made
  <2>2. QED BY <2>1
<1>4. PICK size : PlaceMemories(list) = Made(size) BY <1>3, Zenon
<1>5. PICK r : r = Made(size) BY Zenon
<1> HIDE DEF Index
<1>6. ASSUME NEW p \in 1 .. n
      PROVE  /\ DOMAIN r[p] = EntryFields
             /\ r[p].name = list[p].name /\ r[p].unit = list[p].unit
             /\ r[p].outer = list[p].outer /\ r[p].level = list[p].level
             /\ r[p].statePos = list[p].statePos /\ r[p].globallyStatic = list[p].globallyStatic
             /\ r[p].globalWires = list[p].globalWires /\ r[p].wires = list[p].wires
  <2>1. PICK x : x = Index(p, list[p].memIndex) BY Zenon
  <2>2. r[p] = [list[p] EXCEPT !.memIndex = x, !.memSize = size[p]] BY <1>1, <1>5, <2>1, Zenon
  <2>3. DOMAIN list[p] = EntryFields BY <1>2
  <2>4. QED BY <2>2, <2>3 DEF EntryFields
<1>7. IsSeq(r) /\ Len(r) = n
  <2>1. r = [p \in 1 .. n |-> r[p]] BY <1>1, <1>5, Zenon
  <2>2. QED BY <2>1, MappedIsSeq, Zenon
<1>8. Same(list, r) /\ Kept(list, r) BY <1>1, <1>6, <1>7 DEF Same, Kept
<1> HIDE DEF Made
<1>9. PlaceMemories(list) = r BY <1>4, <1>5, Zenon
<1>10. QED BY <1>8, <1>9, Zenon

LEMMA DelaysKeep ==
  ASSUME NEW list, Nested(list), NEW delays
  PROVE  Same(list, SetDelays(list, delays)) /\ Kept(list, SetDelays(list, delays))
<1>1. PICK n \in Nat : n = Len(list) /\ DOMAIN list = 1 .. n BY ListIsSeq DEF Nested
<1>2. \A i \in 1 .. n : DOMAIN list[i] = EntryFields BY <1>1, ParentsBefore
<1> DEFINE PortsOf(p, old) ==
             IF list[p].level > 0 THEN old
             ELSE [i \in {port.port : port \in {q \in DOMAIN delays.port : q.inst = list[p].name}} |->
                     delays.port[Port(list[p].name, i)]]
           Made(base) == [p \in DOMAIN list |-> [list[p] EXCEPT !.base = base[p], !.port = PortsOf(p, @)]]
<1>3. \E base : SetDelays(list, delays) = Made(base)
  <2>1. SetDelays(list, delays) = Made(CHOOSE h : h = [p \in DOMAIN list |->
          IF list[p].level = 0 THEN delays.node[list[p].name] ELSE h[Parent(list, p)] + InDeclaration(list, p).base])
    BY DEF SetDelays
  <2> HIDE DEF Made
  <2>2. QED BY <2>1
<1>4. PICK base : SetDelays(list, delays) = Made(base) BY <1>3, Zenon
<1>5. PICK r : r = Made(base) BY Zenon
<1> HIDE DEF PortsOf
<1>6. ASSUME NEW p \in 1 .. n
      PROVE  /\ DOMAIN r[p] = EntryFields
             /\ r[p].name = list[p].name /\ r[p].unit = list[p].unit
             /\ r[p].outer = list[p].outer /\ r[p].level = list[p].level
             /\ r[p].statePos = list[p].statePos /\ r[p].globallyStatic = list[p].globallyStatic
             /\ r[p].globalWires = list[p].globalWires /\ r[p].wires = list[p].wires
  <2>1. PICK x : x = PortsOf(p, list[p].port) BY Zenon
  <2>2. r[p] = [list[p] EXCEPT !.base = base[p], !.port = x] BY <1>1, <1>5, <2>1, Zenon
  <2>3. DOMAIN list[p] = EntryFields BY <1>2
  <2>4. QED BY <2>2, <2>3 DEF EntryFields
<1>7. IsSeq(r) /\ Len(r) = n
  <2>1. r = [p \in 1 .. n |-> r[p]] BY <1>1, <1>5, Zenon
  <2>2. QED BY <2>1, MappedIsSeq, Zenon
<1>8. Same(list, r) /\ Kept(list, r) BY <1>1, <1>6, <1>7 DEF Same, Kept
<1> HIDE DEF Made
<1>9. SetDelays(list, delays) = r BY <1>4, <1>5, Zenon
<1>10. QED BY <1>8, <1>9, Zenon

\* What only depends on what no pass changes.
Alike(list, new) ==
  /\ DOMAIN new = DOMAIN list
  /\ \A q : Children(new, q) = Children(list, q)
  /\ StatesOf(new) = StatesOf(list)
  /\ \A p \in 1 .. Len(list) : Parent(new, p) = Parent(list, p) /\ TopWires(new, p) = TopWires(list, p)
  /\ \A p \in 1 .. Len(list) : list[p].level > 0 => InDeclaration(new, p) = InDeclaration(list, p)

LEMMA SameNests ==
  ASSUME NEW list, Nested(list), NEW new, Same(list, new)
  PROVE  Nested(new) /\ Alike(list, new)
<1>1. PICK n \in Nat : n = Len(list) /\ DOMAIN list = 1 .. n BY ListIsSeq DEF Nested
<1>2. IsSeq(new) /\ Len(new) = n /\ DOMAIN new = 1 .. n BY <1>1, ListIsSeq DEF Same
<1>3. \A p \in 1 .. n : /\ DOMAIN new[p] = EntryFields
                        /\ new[p].name = list[p].name /\ new[p].unit = list[p].unit
                        /\ new[p].outer = list[p].outer /\ new[p].level = list[p].level
  BY <1>1 DEF Same
<1>4. \A p \in 1 .. n : Inside(new, p) = Inside(list, p) BY <1>3 DEF Inside
<1>5. \A p \in 1 .. n : EntryOk(list, p) /\ InsideOk(list, p) BY <1>1 DEF Nested
<1>6. ASSUME NEW p \in 1 .. n PROVE EntryOk(new, p) /\ InsideOk(new, p)
  <2>1. EntryOk(list, p) /\ InsideOk(list, p) BY <1>5
  <2>2. list[p].outer > 0 => list[p].outer \in 1 .. n BY <2>1 DEF EntryOk
  <2>3. EntryOk(new, p) BY <1>3, <1>4, <2>1, <2>2, Zenon DEF EntryOk
  <2>4. PICK m \in Nat : m = Len(Inside(list, p)) BY <2>1, ListIsSeq DEF InsideOk
  <2>5. p + m <= n BY <1>1, <2>1, <2>4 DEF InsideOk
  <2>6. ASSUME NEW k \in 1 .. m PROVE CopyOk(new, p, k)
    <3>1. p + k \in 1 .. n BY <2>5
    <3>2. CopyOk(list, p, k) BY <2>1, <2>4 DEF InsideOk
    <3>3. QED BY <1>3, <1>4, <3>1, <3>2, Zenon DEF CopyOk
  <2>7. InsideOk(new, p)
    <3>1. IsSeq(Inside(list, p)) /\ p + Len(Inside(list, p)) <= Len(new)
      BY <1>2, <2>1, <2>4, <2>5 DEF InsideOk
    <3>2. QED BY <1>4, <2>4, <2>6, <3>1, Zenon DEF InsideOk
  <2>8. QED BY <2>3, <2>7
<1>7. \A p \in 1 .. n : Parent(new, p) = Parent(list, p) BY <1>3 DEF Parent
<1>8. \A q : Children(new, q) = Children(list, q) BY <1>1, <1>2, <1>7 DEF Children
<1>9. StatesOf(new) = StatesOf(list)
  <2>1. \A p \in 1 .. n : new[p].unit.decl.states = list[p].unit.decl.states BY <1>3
  <2>2. QED BY <1>1, <1>2, <2>1 DEF StatesOf
<1>10. MetWires(new) = MetWires(list)
  <2>1. \A q \in Children(list, 0) : q \in 1 .. n BY <1>1 DEF Children
  <2>2. {q \in Children(new, 0) : ~new[q].unit.static} = {q \in Children(list, 0) : ~list[q].unit.static}
    BY <1>3, <1>8, <2>1
  <2>3. \A p \in Children(list, 0) : {p} \X (1 .. new[p].unit.decl.configs) = {p} \X (1 .. list[p].unit.decl.configs)
    BY <1>3, <2>1
  <2>4. PICK S : S = {q \in Children(list, 0) : ~list[q].unit.static} OBVIOUS
  <2>5. \A p \in S : {p} \X (1 .. new[p].unit.decl.configs) = {p} \X (1 .. list[p].unit.decl.configs)
    BY <2>3, <2>4
  <2>6. {{p} \X (1 .. new[p].unit.decl.configs) : p \in S} = {{p} \X (1 .. list[p].unit.decl.configs) : p \in S}
    BY <2>5
  <2>7. MetWires(new) = UNION {{p} \X (1 .. new[p].unit.decl.configs) : p \in S}
    BY <2>2, <2>4, Zenon DEF MetWires
  <2>8. MetWires(list) = UNION {{p} \X (1 .. list[p].unit.decl.configs) : p \in S}
    BY <2>4, Zenon DEF MetWires
  <2>9. QED BY <2>6, <2>7, <2>8, Zenon
<1>11. \A p \in 1 .. n : WireKeys(new[p]) = WireKeys(list[p]) BY <1>3 DEF WireKeys
<1>12. \A x \in MetWires(list) : KeyOf(new, x) = KeyOf(list, x)
  <2>1. \A x \in MetWires(list) : x[1] \in 1 .. n BY <1>1 DEF MetWires, Children
  <2>2. QED BY <1>11, <2>1 DEF KeyOf
<1>13. \A key : PlaceOf(new, key) = PlaceOf(list, key)
  <2>1. TAKE key
  <2>2. PICK met : met = MetWires(list) OBVIOUS
  <2>3. PICK its : its = {x \in met : KeyOf(list, x) = key} OBVIOUS
  <2>4. {x \in met : KeyOf(new, x) = key} = its BY <1>12, <2>2, <2>3
  <2>5. {KeyOf(new, x) : x \in {y \in met : \A z \in its : MetBefore(y, z)}}
          = {KeyOf(list, x) : x \in {y \in met : \A z \in its : MetBefore(y, z)}}
    BY <1>12, <2>2
  <2>6. PlaceOf(list, key) = Cardinality({KeyOf(list, x) : x \in {y \in met : \A z \in its : MetBefore(y, z)}})
    BY <2>2, <2>3, Zenon DEF PlaceOf
  <2>7. PlaceOf(new, key) = Cardinality({KeyOf(new, x) : x \in {y \in met : \A z \in its : MetBefore(y, z)}})
    BY <1>10, <2>2, <2>4, Zenon DEF PlaceOf
  <2>8. QED BY <2>5, <2>6, <2>7, Zenon
<1>14. ASSUME NEW p \in 1 .. n PROVE TopWires(new, p) = TopWires(list, p)
  <2>1. PICK key : key = WireKeys(list[p]) OBVIOUS
  <2>2. [w \in DOMAIN key |-> PlaceOf(new, key[w])] = [w \in DOMAIN key |-> PlaceOf(list, key[w])]
    BY <1>13, Zenon
  <2>3. TopWires(list, p) = IF list[p].unit.static THEN Nones(Len(key)) ELSE [w \in DOMAIN key |-> PlaceOf(list, key[w])]
    BY <2>1, Zenon DEF TopWires
  <2>4. TopWires(new, p) = IF list[p].unit.static THEN Nones(Len(key)) ELSE [w \in DOMAIN key |-> PlaceOf(new, key[w])]
    BY <1>3, <1>11, <2>1, Zenon DEF TopWires
  <2>5. CASE list[p].unit.static BY <2>3, <2>4, <2>5, Zenon
  <2>6. CASE ~list[p].unit.static BY <2>2, <2>3, <2>4, <2>6, Zenon
  <2>7. QED BY <2>5, <2>6
<1>15. ASSUME NEW p \in 1 .. n, list[p].level > 0 PROVE InDeclaration(new, p) = InDeclaration(list, p)
  <2>1. Parent(list, p) \in 1 .. n BY <1>1, <1>15, ParentsBefore
  <2>2. new[Parent(list, p)].unit = list[Parent(list, p)].unit BY <1>3, <2>1
  <2>3. QED BY <1>7, <2>2, Zenon DEF InDeclaration
<1>16. Nested(new) BY <1>2, <1>6 DEF Nested
<1>17. QED BY <1>1, <1>2, <1>7, <1>8, <1>9, <1>14, <1>15, <1>16 DEF Alike

-----------------------------------------------------------------------------
(* Places.                                                                  *)

LEMMA ImageIsFinite ==
  ASSUME NEW S, IsFiniteSet(S), NEW f
  PROVE  IsFiniteSet({f[x] : x \in S})
<1>1. PICK T : T = {f[x] : x \in S} OBVIOUS
<1>2. PICK g : g = [x \in S |-> f[x]] OBVIOUS
<1>3. g \in Surjection(S, T) BY <1>1, <1>2 DEF Surjection
<1>4. QED BY <1>1, <1>3, FS_Surjection, Zenon

\* Of two wires one is met first; and of some, one is met before all others.
Spots == Nat \X Nat

LEMMA MetInOrder ==
  ASSUME NEW x \in Spots, NEW y \in Spots
  PROVE  /\ ~MetBefore(x, x)
         /\ x = y \/ MetBefore(x, y) \/ MetBefore(y, x)
         /\ \A z \in Spots : MetBefore(x, y) /\ MetBefore(y, z) => MetBefore(x, z)
BY DEF MetBefore, Spots

LEMMA FirstMet ==
  ASSUME NEW its \in SUBSET Spots, its # {}
  PROVE  \E x \in its : \A y \in its : y = x \/ MetBefore(x, y)
<1>1. PICK P : P = {x[1] : x \in its} OBVIOUS
<1>2. P \in SUBSET Nat /\ P # {} BY <1>1 DEF Spots
<1>3. PICK p \in P : \A q \in P : p <= q BY <1>2, LeastOf
<1>4. PICK W : W = {x[2] : x \in {y \in its : y[1] = p}} OBVIOUS
<1>5. W \in SUBSET Nat /\ W # {} BY <1>1, <1>4 DEF Spots
<1>6. PICK w \in W : \A v \in W : w <= v BY <1>5, LeastOf
<1>7. PICK x \in its : x[1] = p /\ x[2] = w BY <1>4
<1>8. ASSUME NEW y \in its PROVE y = x \/ MetBefore(x, y)
  <2>1. y \in Spots /\ x \in Spots OBVIOUS
  <2>2. p <= y[1] BY <1>1, <1>3
  <2>3. y[1] = p => w <= y[2] BY <1>4, <1>6
  <2>4. QED BY <1>7, <2>1, <2>2, <2>3 DEF MetBefore, Spots
<1>9. QED BY <1>8

KeysOf(list) == {KeyOf(list, x) : x \in MetWires(list)}
\* The keys met before a key.
KeysBefore(list, key) ==
  {KeyOf(list, x) : x \in {y \in MetWires(list) :
     \A z \in {u \in MetWires(list) : KeyOf(list, u) = key} : MetBefore(y, z)}}

\* The key that is met first, of two, is met before the other with all that is met before it.
LEMMA KeysGrow ==
  ASSUME NEW list, MetWires(list) \in SUBSET Spots, NEW key \in KeysOf(list), NEW other \in KeysOf(list), key # other
  PROVE  \/ KeysBefore(list, key) \subseteq KeysBefore(list, other) /\ key \in KeysBefore(list, other)
         \/ KeysBefore(list, other) \subseteq KeysBefore(list, key) /\ other \in KeysBefore(list, key)
<1>1. PICK met : met = MetWires(list) OBVIOUS
<1>2. PICK k : k = [x \in met |-> KeyOf(list, x)] OBVIOUS
<1>3. \A x \in met : k[x] = KeyOf(list, x) BY <1>2
<1> DEFINE its(j) == {u \in met : k[u] = j}
           before(j) == {k[x] : x \in {y \in met : \A z \in its(j) : MetBefore(y, z)}}
<1>4. \A j : KeysBefore(list, j) = before(j)
  <2>1. TAKE j
  <2>2. {u \in met : KeyOf(list, u) = j} = its(j) BY <1>3
  <2>3. PICK I : I = its(j) OBVIOUS
  <2>4. {KeyOf(list, x) : x \in {y \in met : \A z \in I : MetBefore(y, z)}} = {k[x] : x \in {y \in met : \A z \in I : MetBefore(y, z)}}
    BY <1>3
  <2> HIDE DEF its
  <2>5. QED BY <1>1, <2>2, <2>3, <2>4, Zenon DEF KeysBefore
<1>5. KeysOf(list) = {k[x] : x \in met} BY <1>1, <1>3 DEF KeysOf
<1>6. met \in SUBSET Spots BY <1>1
\* What is met before the first of a key's wires is met before all of them.
<1>7. ASSUME NEW i \in {k[x] : x \in met}, NEW j \in {k[x] : x \in met}, NEW x \in its(i), NEW y \in its(j),
             \A u \in its(i) : u = x \/ MetBefore(x, u), \A u \in its(j) : u = y \/ MetBefore(y, u), MetBefore(x, y)
      PROVE  before(i) \subseteq before(j) /\ i \in before(j)
  <2>1. x \in met /\ y \in met /\ k[x] = i OBVIOUS
  <2>2. \A u \in its(j) : MetBefore(x, u) BY <1>6, <1>7, <2>1, MetInOrder
  <2>3. i \in before(j) BY <2>1, <2>2
  <2>4. ASSUME NEW z \in met, \A u \in its(i) : MetBefore(z, u) PROVE \A u \in its(j) : MetBefore(z, u)
    <3>1. MetBefore(z, x) BY <2>4
    <3>2. QED BY <1>6, <2>1, <2>2, <3>1, MetInOrder
  <2>5. before(i) \subseteq before(j) BY <2>4
  <2>6. QED BY <2>3, <2>5
<1>8. its(key) # {} /\ its(other) # {} /\ its(key) \in SUBSET Spots /\ its(other) \in SUBSET Spots
  BY <1>5, <1>6
<1>9. PICK x \in its(key) : \A u \in its(key) : u = x \/ MetBefore(x, u) BY <1>8, FirstMet
<1>10. PICK y \in its(other) : \A u \in its(other) : u = y \/ MetBefore(y, u) BY <1>8, FirstMet
<1>11. x # y /\ x \in Spots /\ y \in Spots BY <1>6
<1>12. MetBefore(x, y) \/ MetBefore(y, x) BY <1>11, MetInOrder
<1>13. key \in {k[u] : u \in met} /\ other \in {k[u] : u \in met} BY <1>5
<1> HIDE DEF its, before
<1>14. CASE MetBefore(x, y)
  <2>1. before(key) \subseteq before(other) /\ key \in before(other)
    BY <1>7, <1>9, <1>10, <1>13, <1>14, Zenon
  <2>2. QED BY <1>4, <2>1, Zenon
<1>15. CASE MetBefore(y, x)
  <2>1. before(other) \subseteq before(key) /\ other \in before(key)
    BY <1>7, <1>9, <1>10, <1>13, <1>15, Zenon
  <2>2. QED BY <1>4, <2>1, Zenon
<1>16. QED BY <1>12, <1>14, <1>15

\* No two keys have one place, and the places are below the number of keys.
LEMMA PlacesApart ==
  ASSUME NEW list, MetWires(list) \in SUBSET Spots, IsFiniteSet(KeysOf(list))
  PROVE  /\ \A key \in KeysOf(list) : PlaceOf(list, key) \in Nat /\ PlaceOf(list, key) < Cardinality(KeysOf(list))
         /\ \A key, other \in KeysOf(list) : PlaceOf(list, key) = PlaceOf(list, other) => key = other
<1>1. \A key : PlaceOf(list, key) = Cardinality(KeysBefore(list, key))
  BY Zenon DEF PlaceOf, KeysBefore
<1>2. ASSUME NEW key \in KeysOf(list)
      PROVE  KeysBefore(list, key) \in SUBSET KeysOf(list) /\ key \notin KeysBefore(list, key)
  <2>1. KeysBefore(list, key) \in SUBSET KeysOf(list) BY DEF KeysBefore, KeysOf
  <2>2. ASSUME key \in KeysBefore(list, key) PROVE FALSE
    <3>1. PICK x \in MetWires(list) : key = KeyOf(list, x)
                 /\ \A z \in {u \in MetWires(list) : KeyOf(list, u) = key} : MetBefore(x, z)
      BY <2>2, Zenon DEF KeysBefore
    <3>2. MetBefore(x, x) BY <3>1
    <3>3. QED BY <3>1, <3>2, MetInOrder
  <2>3. QED BY <2>1, <2>2
<1>3. \A key \in KeysOf(list) : /\ IsFiniteSet(KeysBefore(list, key))
                                /\ Cardinality(KeysBefore(list, key)) \in Nat
  BY <1>2, FS_Subset, FS_CardinalityType
<1>4. Cardinality(KeysOf(list)) \in Nat BY FS_CardinalityType
<1>5. ASSUME NEW key \in KeysOf(list)
      PROVE  PlaceOf(list, key) \in Nat /\ PlaceOf(list, key) < Cardinality(KeysOf(list))
  <2>1. Cardinality(KeysBefore(list, key)) <= Cardinality(KeysOf(list)) BY <1>2, FS_Subset
  <2>2. Cardinality(KeysBefore(list, key)) # Cardinality(KeysOf(list)) BY <1>2, FS_Subset
  <2>3. QED BY <1>1, <1>3, <1>4, <2>1, <2>2
<1>6. ASSUME NEW key \in KeysOf(list), NEW other \in KeysOf(list), PlaceOf(list, key) = PlaceOf(list, other), key # other
      PROVE  FALSE
  <2>1. Cardinality(KeysBefore(list, key)) = Cardinality(KeysBefore(list, other)) BY <1>1, <1>6
  <2>2. CASE KeysBefore(list, key) \subseteq KeysBefore(list, other) /\ key \in KeysBefore(list, other)
    BY <1>2, <1>3, <2>1, <2>2, FS_Subset
  <2>3. CASE KeysBefore(list, other) \subseteq KeysBefore(list, key) /\ other \in KeysBefore(list, key)
    BY <1>2, <1>3, <2>1, <2>3, FS_Subset
  <2>4. QED BY <1>6, <2>2, <2>3, KeysGrow
<1>7. QED BY <1>5, <1>6

\* The wires of a unit of the first level.
LEMMA TopWiresAre ==
  ASSUME NEW list, NEW p, list[p].unit.decl.configs \in Nat
  PROVE  /\ DOMAIN WireKeys(list[p]) = 1 .. list[p].unit.decl.configs
         /\ DOMAIN TopWires(list, p) = 1 .. list[p].unit.decl.configs
         /\ \A w \in 1 .. list[p].unit.decl.configs :
              TopWires(list, p)[w] = IF list[p].unit.static THEN None ELSE PlaceOf(list, KeyOf(list, <<p, w>>))
<1>1. PICK c \in Nat : c = list[p].unit.decl.configs OBVIOUS
<1>2. PICK key : key = WireKeys(list[p]) OBVIOUS
<1>3. DOMAIN key = 1 .. c /\ key = [w \in 1 .. c |-> key[w]] BY <1>1, <1>2 DEF WireKeys
<1>4. Len(key) = c BY <1>3, MappedIsSeq
<1>5. \A w \in 1 .. c : KeyOf(list, <<p, w>>) = key[w] BY <1>2 DEF KeyOf
<1>6. CASE list[p].unit.static
  <2>1. TopWires(list, p) = Nones(c) BY <1>2, <1>4, <1>6, Zenon DEF TopWires
  <2>2. DOMAIN Nones(c) = 1 .. c /\ \A w \in 1 .. c : Nones(c)[w] = None BY DEF Nones
  <2>3. QED BY <1>1, <1>2, <1>3, <1>6, <2>1, <2>2
<1>7. CASE ~list[p].unit.static
  <2>1. TopWires(list, p) = [w \in DOMAIN key |-> PlaceOf(list, key[w])]
    BY <1>2, <1>7, Zenon DEF TopWires
  <2>2. PICK r : r = [w \in 1 .. c |-> PlaceOf(list, key[w])] BY Zenon
  <2>3. TopWires(list, p) = r BY <1>3, <2>1, <2>2
  <2>4. DOMAIN r = 1 .. c /\ \A w \in 1 .. c : r[w] = PlaceOf(list, KeyOf(list, <<p, w>>))
    BY <1>5, <2>2
  <2>5. QED BY <1>1, <1>2, <1>3, <1>7, <2>3, <2>4
<1>8. QED BY <1>6, <1>7

\* A list of units whose first level has its wires in place.
WiresOk(list) ==
  /\ IsSeq(list)
  /\ \A p \in 1 .. Len(list) : list[p].level = 0 <=> list[p].outer = 0
  /\ \A p \in Children(list, 0) : list[p].unit.decl.configs \in Nat /\ list[p].globalWires = TopWires(list, p)

LEMMA WiresFinite ==
  ASSUME NEW list, WiresOk(list)
  PROVE  MetWires(list) \in SUBSET Spots /\ IsFiniteSet(KeysOf(list))
<1>1. PICK n \in Nat : n = Len(list) /\ DOMAIN list = 1 .. n BY ListIsSeq DEF WiresOk
<1>2. PICK tops : tops = {q \in Children(list, 0) : ~list[q].unit.static} OBVIOUS
<1>3. tops \in SUBSET (1 .. n) /\ \A p \in tops : list[p].unit.decl.configs \in Nat
  BY <1>1, <1>2 DEF WiresOk, Children
<1>4. IsFiniteSet(tops)
  <2>1. IsFiniteSet(1 .. n) BY FS_Interval
  <2>2. QED BY <1>3, <2>1, FS_Subset
<1>5. PICK f : f = [p \in tops |-> {p} \X (1 .. list[p].unit.decl.configs)] OBVIOUS
<1>6. \A p \in tops : f[p] = {p} \X (1 .. list[p].unit.decl.configs) BY <1>5
<1>7. PICK S : S = {f[p] : p \in tops} OBVIOUS
<1>8. MetWires(list) = UNION S
  <2>1. {f[p] : p \in tops} = {{p} \X (1 .. list[p].unit.decl.configs) : p \in tops} BY <1>6
  <2>2. MetWires(list) = UNION {{p} \X (1 .. list[p].unit.decl.configs) : p \in tops}
    BY <1>2, Zenon DEF MetWires
  <2>3. QED BY <1>7, <2>1, <2>2, Zenon
<1>9. IsFiniteSet(S) BY <1>4, <1>7, ImageIsFinite, Zenon
<1>10. ASSUME NEW p \in tops PROVE IsFiniteSet(f[p]) /\ f[p] \in SUBSET Spots
  <2>1. PICK c \in Nat : c = list[p].unit.decl.configs BY <1>3
  <2>2. IsFiniteSet(1 .. c) /\ IsFiniteSet({p}) BY FS_Interval, FS_Singleton
  <2>3. IsFiniteSet({p} \X (1 .. c)) BY <2>2, FS_Product
  <2>4. p \in Nat BY <1>3
  <2>5. f[p] = {p} \X (1 .. c) BY <1>6, <2>1
  <2>6. {p} \X (1 .. c) \in SUBSET Spots BY <2>4 DEF Spots
  <2>7. QED BY <2>3, <2>5, <2>6
<1>11. \A T \in S : IsFiniteSet(T) /\ T \in SUBSET Spots BY <1>7, <1>10
<1>12. IsFiniteSet(MetWires(list)) /\ MetWires(list) \in SUBSET Spots BY <1>8, <1>9, <1>11, FS_UNION
<1>13. PICK k : k = [x \in MetWires(list) |-> KeyOf(list, x)] OBVIOUS
<1>14. KeysOf(list) = {k[x] : x \in MetWires(list)} BY <1>13 DEF KeysOf
<1>15. IsFiniteSet(KeysOf(list))
  <2>1. IsFiniteSet({k[x] : x \in MetWires(list)}) BY <1>12, ImageIsFinite, Zenon
  <2>2. QED BY <1>14, <2>1, Zenon
<1>16. QED BY <1>12, <1>15

\* A module has as many wires as keys.
LEMMA ConfigsAreKeys ==
  ASSUME NEW list, WiresOk(list)
  PROVE  ConfigsOf(list) = Cardinality(KeysOf(list)) /\ ConfigsOf(list) \in Nat
<1>1. PICK n \in Nat : n = Len(list) /\ DOMAIN list = 1 .. n BY ListIsSeq DEF WiresOk
<1>2. MetWires(list) \in SUBSET Spots /\ IsFiniteSet(KeysOf(list)) BY WiresFinite
<1>3. PICK keys : keys = KeysOf(list) OBVIOUS
<1>4. PICK place : place = [key \in keys |-> PlaceOf(list, key)] OBVIOUS
<1>5. \A key \in keys : place[key] \in Nat /\ place[key] = PlaceOf(list, key)
  BY <1>2, <1>3, <1>4, PlacesApart
<1>6. \A key, other \in keys : place[key] = place[other] => key = other
  BY <1>2, <1>3, <1>5, PlacesApart
<1>7. PICK tops : tops = {q \in DOMAIN list : list[q].level = 0} OBVIOUS
<1>8. tops = Children(list, 0) /\ tops \in SUBSET (1 .. n)
  BY <1>1, <1>7 DEF Children, Parent, WiresOk
<1>9. ASSUME NEW p \in tops
      PROVE  /\ list[p].unit.decl.configs \in Nat /\ list[p].globalWires = TopWires(list, p)
             /\ DOMAIN list[p].globalWires = 1 .. list[p].unit.decl.configs
             /\ \A w \in 1 .. list[p].unit.decl.configs :
                  list[p].globalWires[w] = IF list[p].unit.static THEN None ELSE PlaceOf(list, KeyOf(list, <<p, w>>))
  BY <1>8, TopWiresAre DEF WiresOk
<1>10. \A p \in tops : \A w : <<p, w>> \in MetWires(list) <=> ~list[p].unit.static /\ w \in 1 .. list[p].unit.decl.configs
  BY <1>8 DEF MetWires
<1>11. \A x \in MetWires(list) : x[1] \in tops /\ x = <<x[1], x[2]>> BY <1>8 DEF MetWires
<1>12. PICK P : P = (UNION {{list[p].globalWires[w] : w \in DOMAIN list[p].globalWires} : p \in tops}) \ {None}
  OBVIOUS
<1>13. ASSUME NEW x \in P PROVE \E key \in keys : x = place[key]
  <2>1. PICK p \in tops : \E w \in DOMAIN list[p].globalWires : x = list[p].globalWires[w]
    <3>1. PICK T \in {{list[p].globalWires[w] : w \in DOMAIN list[p].globalWires} : p \in tops} : x \in T
      <4>1. x \in UNION {{list[p].globalWires[w] : w \in DOMAIN list[p].globalWires} : p \in tops}
        BY <1>12, Zenon
      <4>2. QED BY <4>1, Zenon
    <3>2. PICK p \in tops : x \in {list[p].globalWires[w] : w \in DOMAIN list[p].globalWires}
      BY <3>1, Zenon
    <3>3. QED BY <3>2
  <2>2. PICK w \in 1 .. list[p].unit.decl.configs : x = list[p].globalWires[w] BY <1>9, <2>1
  <2>3. x # None BY <1>12
  <2>4. ~list[p].unit.static BY <1>9, <2>2, <2>3
  <2>5. x = PlaceOf(list, KeyOf(list, <<p, w>>)) BY <1>9, <2>2, <2>4
  <2>6. KeyOf(list, <<p, w>>) \in keys BY <1>3, <1>10, <2>4, Zenon DEF KeysOf
  <2>7. QED BY <1>5, <2>5, <2>6
<1>14. ASSUME NEW key \in keys PROVE place[key] \in P
  <2>1. PICK x \in MetWires(list) : key = KeyOf(list, x) BY <1>3 DEF KeysOf
  <2>2. PICK q \in tops : x = <<q, x[2]>> BY <1>11, <2>1
  <2>3. PICK v : v = x[2] /\ x = <<q, v>> BY <2>2
  <2>4. ~list[q].unit.static /\ v \in 1 .. list[q].unit.decl.configs BY <1>10, <2>1, <2>3
  <2>5. list[q].globalWires[v] = place[key] /\ v \in DOMAIN list[q].globalWires
    BY <1>5, <1>9, <2>1, <2>3, <2>4
  <2>6. place[key] # None BY <1>5 DEF None
  <2>7. place[key] \in {list[q].globalWires[w] : w \in DOMAIN list[q].globalWires} BY <2>5
  <2>8. place[key] \in UNION {{list[p].globalWires[w] : w \in DOMAIN list[p].globalWires} : p \in tops} /\ place[key] \notin {None}
    BY <2>6, <2>7, Zenon
  <2>9. QED BY <1>12, <2>8, Zenon
<1>15. place \in Bijection(keys, P)
  <2>1. place \in [keys -> P] BY <1>4, <1>14
  <2>2. place \in Injection(keys, P) BY <1>4, <1>6, <2>1 DEF Injection, IsInjective
  <2>3. place \in Surjection(keys, P) BY <1>13, <2>1, Zenon DEF Surjection
  <2>4. QED BY <2>2, <2>3 DEF Bijection
<1>16. ExistsBijection(keys, P) BY <1>15 DEF ExistsBijection
<1>17. Cardinality(P) = Cardinality(keys) /\ Cardinality(keys) \in Nat
  BY <1>2, <1>3, <1>16, FS_Bijection, FS_CardinalityType
<1>18. ConfigsOf(list) = Cardinality(P) BY <1>7, <1>12, Zenon DEF ConfigsOf
<1>19. QED BY <1>3, <1>17, <1>18

-----------------------------------------------------------------------------
(* CalculateAcceleratorInfo.                                                *)

\* Whatever is in a marked unit is marked.
Covered(list) ==
  \A p \in 1 .. Len(list) :
    list[p].level > 0 /\ list[Parent(list, p)].globallyStatic => list[p].globallyStatic
StatesStart(list) ==
  \E start : \A p \in 1 .. Len(list) :
    /\ start[p] = StartOf(list, start, p)
    /\ list[p].statePos = IF list[p].unit.decl.states = 0 THEN None ELSE start[p]
FirstLevel(a, list) ==
  /\ \A p \in Children(list, 0) : /\ list[p].name \in Range(a.allocated) /\ list[p].unit = a.unit[list[p].name]
                                  /\ list[p].globalWires = TopWires(list, p) /\ list[p].wires = TopWires(list, p)
  /\ \A p, q \in Children(list, 0) : list[p].name = list[q].name => p = q
InfoOk(a, list) ==
  /\ Nested(list) /\ Marked(list) /\ Covered(list) /\ StatesStart(list) /\ FirstLevel(a, list)
  /\ \A p \in 1 .. Len(list) : DeclOk(list[p].unit.decl)

LEMMA SameTwice ==
  ASSUME NEW list, NEW mid, NEW new, Same(list, mid), Same(mid, new)
  PROVE  Same(list, new)
<1>1. Len(mid) = Len(list) /\ Len(new) = Len(mid) /\ IsSeq(new) BY DEF Same
<1>2. \A p \in 1 .. Len(list) :
        /\ mid[p].name = list[p].name /\ mid[p].unit = list[p].unit
        /\ mid[p].outer = list[p].outer /\ mid[p].level = list[p].level
  BY DEF Same
<1>3. \A p \in 1 .. Len(list) :
        /\ DOMAIN new[p] = EntryFields
        /\ new[p].name = mid[p].name /\ new[p].unit = mid[p].unit
        /\ new[p].outer = mid[p].outer /\ new[p].level = mid[p].level
  BY <1>1, Zenon DEF Same
<1>4. QED BY <1>1, <1>2, <1>3, Zenon DEF Same

LEMMA AllPasses ==
  ASSUME NEW list, Nested(list), NEW t, NEW delays, NEW info1, NEW info2, NEW info3, NEW info4, NEW info5,
         info1 = NameUnits(list, t), info2 = PlaceConfigs(info1), info3 = PlaceStates(info2),
         info4 = PlaceMemories(info3), info5 = SetDelays(info4, delays)
  PROVE  /\ Same(list, info5) /\ Same(info1, info5) /\ Same(info2, info5)
         /\ Covering(list, info1) /\ WiresPlaced(info1, info2) /\ StatesPlaced(info2, info3)
         /\ Kept(info3, info4) /\ Kept(info4, info5)
         /\ Nested(info1) /\ Nested(info2)
<1>1. Same(list, info1) /\ Covering(list, info1) BY NamesKeep, Zenon
<1>2. Nested(info1) BY <1>1, SameNests, Zenon
<1>3. Same(info1, info2) /\ WiresPlaced(info1, info2) BY <1>2, ConfigsKeep, Zenon
<1>4. Nested(info2) BY <1>2, <1>3, SameNests, Zenon
<1>5. Same(info2, info3) /\ StatesPlaced(info2, info3) BY <1>4, StatesKeep, Zenon
<1>6. Nested(info3) BY <1>4, <1>5, SameNests, Zenon
<1>7. Same(info3, info4) /\ Kept(info3, info4) BY <1>6, MemoriesKeep, Zenon
<1>8. Nested(info4) BY <1>6, <1>7, SameNests, Zenon
<1>9. Same(info4, info5) /\ Kept(info4, info5) BY <1>8, DelaysKeep, Zenon
<1>10. Same(info2, info5) /\ Same(info1, info5) /\ Same(list, info5)
  <2>1. Same(info2, info4) BY <1>5, <1>7, SameTwice, Zenon
  <2>2. Same(info2, info5) BY <1>9, <2>1, SameTwice, Zenon
  <2>3. Same(info1, info5) BY <1>3, <2>2, SameTwice, Zenon
  <2>4. QED BY <1>1, <2>2, <2>3, SameTwice, Zenon
<1>11. QED BY <1>1, <1>2, <1>3, <1>4, <1>5, <1>7, <1>9, <1>10

LEMMA Calculated ==
  ASSUME NEW a, CircuitOk(a), NEW t
  PROVE  InfoOk(a, CalculateAcceleratorInfo(a, t))
<1>1. PICK list : list = GenerateInitialInstanceInfo(a) OBVIOUS
<1>2. PICK info1 : info1 = NameUnits(list, t) OBVIOUS
<1>3. PICK info2 : info2 = PlaceConfigs(info1) OBVIOUS
<1>4. PICK info3 : info3 = PlaceStates(info2) OBVIOUS
<1>5. PICK info4 : info4 = PlaceMemories(info3) OBVIOUS
<1>6. PICK new : new = SetDelays(info4, CalculateDelay(a)) OBVIOUS
<1>7. CalculateAcceleratorInfo(a, t) = new
  BY <1>1, <1>2, <1>3, <1>4, <1>5, <1>6, Zenon DEF CalculateAcceleratorInfo
<1>8. PICK m \in Nat : m = Len(a.allocated) /\ DOMAIN a.allocated = 1 .. m
  BY ListIsSeq DEF CircuitOk
<1>9. EnteredOk(a, list, m) /\ Nested(list) /\ Marked(list) BY <1>1, <1>8, InitialInfo DEF EnteredOk
<1>10. /\ Same(list, new) /\ Same(info1, new) /\ Same(info2, new)
       /\ Covering(list, info1) /\ WiresPlaced(info1, info2) /\ StatesPlaced(info2, info3)
       /\ Kept(info3, info4) /\ Kept(info4, new)
       /\ Nested(info1) /\ Nested(info2)
  BY <1>2, <1>3, <1>4, <1>5, <1>6, <1>9, AllPasses, Zenon
<1>11. Nested(new) /\ Alike(list, new) /\ Alike(info1, new) /\ Alike(info2, new)
  BY <1>9, <1>10, SameNests, Zenon
<1>12. PICK n \in Nat : n = Len(list) /\ DOMAIN list = 1 .. n BY <1>9, ListIsSeq DEF Nested
<1>13. /\ Len(new) = n /\ Len(info1) = n /\ Len(info2) = n /\ DOMAIN new = 1 .. n
       /\ Len(info3) = n /\ Len(info4) = n
  <2>1. Len(new) = n /\ Len(info1) = n /\ Len(info2) = n BY <1>10, <1>12 DEF Same
  <2>2. Same(info2, info3) BY <1>4, <1>10, StatesKeep, Zenon
  <2>3. Len(info3) = n BY <2>1, <2>2 DEF Same
  <2>4. Nested(info3) BY <1>10, <2>2, SameNests, Zenon
  <2>5. Len(info4) = n BY <1>5, <2>3, <2>4, MemoriesKeep DEF Same
  <2>6. DOMAIN new = 1 .. n BY <1>11, <1>12 DEF Alike
  <2>7. QED BY <2>1, <2>3, <2>5, <2>6
<1>14. \A p \in 1 .. n : /\ new[p].name = list[p].name /\ new[p].unit = list[p].unit
                         /\ new[p].outer = list[p].outer /\ new[p].level = list[p].level
  BY <1>10, <1>12 DEF Same
<1>15. \A p \in 1 .. n : /\ list[p].level > 0 => Parent(list, p) \in 1 .. n
                         /\ list[p].level = info1[p].level /\ list[p].level = info2[p].level
                         /\ list[p].unit = info2[p].unit
  <2>1. \A p \in 1 .. n : list[p].level > 0 => Parent(list, p) \in 1 .. n
    BY <1>9, <1>12, ParentsBefore
  <2>2. \A p \in 1 .. n : new[p].level = info1[p].level /\ new[p].level = info2[p].level /\ new[p].unit = info2[p].unit
    BY <1>10, <1>13 DEF Same
  <2>3. QED BY <1>14, <2>1, <2>2
<1>16. \A p \in 1 .. n : /\ new[p].globallyStatic = info1[p].globallyStatic
                         /\ list[p].level = 0 => new[p].globalWires = TopWires(new, p) /\ new[p].wires = TopWires(new, p)
                         /\ new[p].statePos = info3[p].statePos
  <2>1. TAKE p \in 1 .. n
  <2>2. /\ new[p].statePos = info4[p].statePos /\ new[p].globallyStatic = info4[p].globallyStatic
        /\ new[p].globalWires = info4[p].globalWires /\ new[p].wires = info4[p].wires
    BY <1>10, <1>13 DEF Kept
  <2>3. /\ info4[p].statePos = info3[p].statePos /\ info4[p].globallyStatic = info3[p].globallyStatic
        /\ info4[p].globalWires = info3[p].globalWires /\ info4[p].wires = info3[p].wires
    BY <1>10, <1>13 DEF Kept
  <2>4. /\ info3[p].globallyStatic = info2[p].globallyStatic
        /\ info3[p].globalWires = info2[p].globalWires /\ info3[p].wires = info2[p].wires
    BY <1>10, <1>13 DEF StatesPlaced
  <2>5. /\ info2[p].globallyStatic = info1[p].globallyStatic
        /\ list[p].level = 0 => info2[p].globalWires = TopWires(info1, p) /\ info2[p].wires = TopWires(info1, p)
    BY <1>10, <1>13, <1>15 DEF WiresPlaced
  <2>6. TopWires(new, p) = TopWires(info1, p) BY <1>11, <1>13 DEF Alike
  <2>7. QED BY <2>2, <2>3, <2>4, <2>5, <2>6, Zenon
<1>17. \A p \in 1 .. n :
         info1[p].globallyStatic = (list[p].globallyStatic \/ (list[p].level > 0 /\ info1[Parent(list, p)].globallyStatic))
  BY <1>10, <1>12, Zenon DEF Covering
<1>18. Marked(new)
  <2>1. SUFFICES ASSUME NEW p \in 1 .. n, new[p].unit.static PROVE new[p].globallyStatic
    BY <1>13 DEF Marked
  <2>2. list[p].globallyStatic BY <1>9, <1>12, <1>14, <2>1, Zenon DEF Marked
  <2>3. QED BY <1>16, <1>17, <2>2, Zenon
<1>19. Covered(new)
  <2>1. SUFFICES ASSUME NEW p \in 1 .. n, new[p].level > 0, new[Parent(new, p)].globallyStatic PROVE new[p].globallyStatic
    BY <1>13 DEF Covered
  <2>2. Parent(new, p) = Parent(list, p) /\ Parent(list, p) \in 1 .. n /\ list[p].level > 0
    BY <1>11, <1>12, <1>14, <1>15, <2>1 DEF Alike
  <2>3. info1[Parent(list, p)].globallyStatic BY <1>16, <2>1, <2>2, Zenon
  <2>4. QED BY <1>16, <1>17, <2>2, <2>3, Zenon
<1>20. StatesStart(new)
  <2>1. PICK start : \A p \in 1 .. n :
          /\ start[p] = StartOf(info2, start, p)
          /\ info3[p].statePos = IF info2[p].unit.decl.states = 0 THEN None ELSE start[p]
    <3>1. PICK start : \A p \in 1 .. Len(info2) :
            /\ start[p] = StartOf(info2, start, p)
            /\ info3[p].statePos = IF info2[p].unit.decl.states = 0 THEN None ELSE start[p]
            /\ info3[p].globallyStatic = info2[p].globallyStatic
            /\ info3[p].globalWires = info2[p].globalWires /\ info3[p].wires = info2[p].wires
      BY <1>10, Zenon DEF StatesPlaced
    <3>2. Len(info2) = n BY <1>13
    <3>3. QED BY <3>1, <3>2
  <2>2. ASSUME NEW p \in 1 .. n PROVE StartOf(new, start, p) = StartOf(info2, start, p)
    <3>1. /\ Children(new, 0) = Children(info2, 0) /\ StatesOf(new) = StatesOf(info2)
          /\ Parent(new, p) = Parent(info2, p) /\ new[p].level = info2[p].level
      BY <1>11, <1>13, <1>14, <1>15 DEF Alike
    <3>2. info2[p].level > 0 => InDeclaration(new, p) = InDeclaration(info2, p)
      BY <1>11, <1>13 DEF Alike
    <3>3. info2[p].level = 0 \/ info2[p].level > 0 BY <1>10, <1>13, ParentsBefore
    <3>4. CASE info2[p].level = 0 BY <3>1, <3>4, Zenon DEF StartOf
    <3>5. CASE info2[p].level > 0 BY <3>1, <3>2, <3>5, Zenon DEF StartOf
    <3>6. QED BY <3>3, <3>4, <3>5
  <2>3. \A p \in 1 .. n : new[p].unit = info2[p].unit BY <1>14, <1>15
  <2>4. \A p \in 1 .. n :
          /\ start[p] = StartOf(new, start, p)
          /\ new[p].statePos = IF new[p].unit.decl.states = 0 THEN None ELSE start[p]
    BY <1>16, <2>1, <2>2, <2>3, Zenon
  <2>5. QED BY <1>13, <2>4, Zenon DEF StatesStart
<1>21. \A p \in Children(new, 0) : p \in 1 .. n /\ list[p].outer = 0 /\ list[p].level = 0
  <2>1. \A p \in Children(new, 0) : p \in 1 .. n /\ new[p].outer = 0 BY <1>13 DEF Children, Parent
  <2>2. \A p \in 1 .. n : EntryOk(list, p) BY <1>9, <1>12 DEF Nested
  <2>3. QED BY <1>14, <2>1, <2>2 DEF EntryOk
<1>22. FirstLevel(a, new)
  <2>1. \A p \in Children(new, 0) : list[p].unit = a.unit[list[p].name] /\ list[p].name \in Range(a.allocated)
    BY <1>8, <1>9, <1>12, <1>21 DEF EnteredOk, Range
  <2>2. \A p, q \in Children(new, 0) : list[p].name = list[q].name => p = q
    BY <1>9, <1>12, <1>21 DEF EnteredOk
  <2>3. QED BY <1>14, <1>16, <1>21, <2>1, <2>2 DEF FirstLevel
<1>23. \A p \in 1 .. Len(new) : DeclOk(new[p].unit.decl)
  BY <1>9, <1>12, <1>13, <1>14, Zenon DEF EnteredOk
<1>24. InfoOk(a, new) BY <1>11, <1>18, <1>19, <1>20, <1>22, <1>23 DEF InfoOk
<1>25. QED BY <1>7, <1>24, Zenon

LEMMA InfoWires ==
  ASSUME NEW a, NEW list, InfoOk(a, list)
  PROVE  WiresOk(list)
<1>1. PICK n \in Nat : n = Len(list) /\ DOMAIN list = 1 .. n BY ListIsSeq DEF InfoOk, Nested
<1>2. \A p \in 1 .. n : list[p].level = 0 <=> list[p].outer = 0
  BY <1>1, Zenon DEF InfoOk, Nested, EntryOk
<1>3. \A p \in Children(list, 0) : p \in 1 .. n BY <1>1 DEF Children
<1>4. \A p \in Children(list, 0) : list[p].unit.decl.configs \in Nat
  BY <1>1, <1>3, Zenon DEF InfoOk, DeclOk, Numbers
<1>5. \A p \in Children(list, 0) : list[p].globalWires = TopWires(list, p)
  BY Zenon DEF InfoOk, FirstLevel
<1>6. IsSeq(list) BY DEF InfoOk, Nested
<1>7. QED BY <1>1, <1>2, <1>4, <1>5, <1>6, Zenon DEF WiresOk

\* Of a good circuit Register makes a good declaration.
LEMMA DeclarationIsWhole ==
  ASSUME NEW a, CircuitOk(a), NEW name
  PROVE  Whole(DeclarationOf(name, a))
<1>1. PICK list : list = CalculateAcceleratorInfo(a, name) OBVIOUS
<1>2. InfoOk(a, list) BY <1>1, Calculated, Zenon
<1>3. PICK n \in Nat : n = Len(list) /\ DOMAIN list = 1 .. n BY <1>2, ListIsSeq DEF InfoOk, Nested
<1>4. PICK decl : decl = DeclarationOf(name, a) OBVIOUS
<1>5. /\ decl.info = list /\ decl.composite /\ decl.configs = ConfigsOf(list)
      /\ decl.states = TopSum(list, StatesOf(list))
  <2>1. [p \in DOMAIN list |-> [q \in DOMAIN list |-> list[q].unit.decl][p].states] = StatesOf(list)
    BY DEF StatesOf
  <2>2. decl.states = TopSum(list, [p \in DOMAIN list |-> [q \in DOMAIN list |-> list[q].unit.decl][p].states])
    BY <1>1, <1>4, Zenon DEF DeclarationOf
  <2>3. decl.info = list /\ decl.composite /\ decl.configs = ConfigsOf(list)
    BY <1>1, <1>4, Zenon DEF DeclarationOf
  <2>4. QED BY <2>1, <2>2, <2>3, Zenon
<1>6. \A p \in 1 .. n : DeclOk(list[p].unit.decl) BY <1>2, <1>3 DEF InfoOk
<1>7. StatesOf(list) \in [1 .. n -> Nat]
  <2>1. \A p \in 1 .. n : list[p].unit.decl.states \in Nat BY <1>6 DEF DeclOk, Numbers
  <2>2. QED BY <1>3, <2>1 DEF StatesOf
<1>8. decl.states \in Nat
  <2>1. SumUpTo(Children(list, 0), StatesOf(list)) \in [0 .. n -> Nat] BY <1>7, SumIs DEF SumRule
  <2>2. decl.states = SumUpTo(Children(list, 0), StatesOf(list))[n] BY <1>3, <1>5 DEF TopSum
  <2>3. QED BY <2>1, <2>2
<1>9. decl.configs \in Nat BY <1>2, <1>5, InfoWires, ConfigsAreKeys
<1>10. Apart(list)
  <2>1. SUFFICES ASSUME NEW p \in Children(list, 0), NEW q \in Children(list, 0)
                 PROVE  /\ list[p].name = list[q].name => p = q
                        /\ list[p].name[1] # "share"
                        /\ list[p].unit.share = list[q].unit.share /\ list[p].unit.share # None =>
                             list[p].unit.decl = list[q].unit.decl
    BY DEF Apart
  <2>2. /\ list[p].name \in Range(a.allocated) /\ list[p].unit = a.unit[list[p].name]
        /\ list[q].name \in Range(a.allocated) /\ list[q].unit = a.unit[list[q].name]
        /\ list[p].name = list[q].name => p = q
    BY <1>2, Zenon DEF InfoOk, FirstLevel
  <2>3. /\ list[p].name[1] # "share"
        /\ list[p].unit.share = list[q].unit.share /\ list[p].unit.share # None =>
             list[p].unit.decl = list[q].unit.decl
    BY <2>2, Zenon DEF CircuitOk
  <2>4. QED BY <2>2, <2>3, Zenon
<1>11. ASSUME NEW p \in Children(list, 0) PROVE Placed(list, p)
  <2>1. p \in 1 .. n /\ list[p].outer = 0 BY <1>3 DEF Children, Parent
  <2>2. list[p].level = 0 BY <1>2, <1>3, <2>1, Zenon DEF InfoOk, Nested, EntryOk
  <2>3. PICK start : \A q \in 1 .. Len(list) :
          /\ start[q] = StartOf(list, start, q)
          /\ list[q].statePos = IF list[q].unit.decl.states = 0 THEN None ELSE start[q]
    BY <1>2, Zenon DEF InfoOk, StatesStart
  <2>4. start[p] = SumUpTo(Children(list, 0), StatesOf(list))[p - 1]
    BY <1>3, <2>1, <2>2, <2>3, Zenon DEF StartOf
  <2>5. list[p].globalWires = TopWires(list, p) BY <1>2, Zenon DEF InfoOk, FirstLevel
  <2>6. QED BY <1>3, <2>1, <2>3, <2>4, <2>5, Zenon DEF Placed
<1>12. Nested(list) /\ Marked(list) BY <1>2 DEF InfoOk
<1>13. DeclOk(decl) BY <1>5, <1>8, <1>9, <1>10, <1>11, <1>12, Zenon DEF DeclOk, Numbers
<1>14. Whole(decl) BY <1>3, <1>5, <1>6, <1>13, Zenon DEF Whole
<1>15. QED BY <1>4, <1>14, Zenon

-----------------------------------------------------------------------------
(* Where states are read and where they are driven.                         *)

\* The first port of a unit: the recursive function of PortsFrom.
FirstOf(list, first, amount, p) ==
  SumUpTo(Children(list, Parent(list, p)), amount)[p - 1] + (IF list[p].level = 0 THEN 0 ELSE first[Parent(list, p)])

LEMMA PortsSolved ==
  ASSUME NEW list, Nested(list), NEW amount
  PROVE  \A p \in 1 .. Len(list) :
           PortsFrom(list, amount)[p] = FirstOf(list, PortsFrom(list, amount), amount, p)
<1>1. PICK n \in Nat : n = Len(list) /\ DOMAIN list = 1 .. n BY ListIsSeq DEF Nested
<1>2. \A i \in 1 .. n : /\ list[i].level > 0 => Parent(list, i) \in 1 .. n /\ Parent(list, i) \in 1 .. i - 1
                        /\ list[i].level \in Nat
  BY <1>1, ParentsBefore
<1> DEFINE Rule(f, i) == FirstOf(list, f, amount, i)
           Upto(m) == \E f : f = [i \in 1 .. n |-> f[i]] /\ \A i \in 1 .. m : f[i] = Rule(f, i)
<1>3. ASSUME NEW f, NEW g, NEW i \in 1 .. n, list[i].level > 0 => f[Parent(list, i)] = g[Parent(list, i)]
      PROVE  Rule(f, i) = Rule(g, i)
  <2>1. list[i].level = 0 \/ list[i].level > 0 BY <1>2
  <2>2. QED BY <1>3, <2>1, Zenon DEF FirstOf
<1> HIDE DEF Rule
<1>4. Upto(0)
  <2>1. PICK f : f = [i \in 1 .. n |-> 0] OBVIOUS
  <2>2. f = [i \in 1 .. n |-> f[i]] BY <2>1
  <2>3. QED BY <2>2
<1>5. ASSUME NEW m \in 1 .. n, Upto(m - 1) PROVE Upto(m)
  <2>1. PICK f : f = [i \in 1 .. n |-> f[i]] /\ \A i \in 1 .. m - 1 : f[i] = Rule(f, i) BY <1>5
  <2>2. PICK x : x = Rule(f, m) OBVIOUS
  <2>3. PICK g : g = [i \in 1 .. n |-> IF i = m THEN x ELSE f[i]] OBVIOUS
  <2>4. \A i \in 1 .. n : g[i] = IF i = m THEN x ELSE f[i] BY <2>3
  <2>5. g = [i \in 1 .. n |-> g[i]] BY <2>3
  <2>6. ASSUME NEW i \in 1 .. m PROVE g[i] = Rule(g, i)
    <3>1. i \in 1 .. n /\ (list[i].level > 0 => Parent(list, i) \in 1 .. n /\ Parent(list, i) # m)
      BY <1>2
    <3>2. list[i].level > 0 => f[Parent(list, i)] = g[Parent(list, i)] BY <2>4, <3>1, Zenon
    <3>3. Rule(f, i) = Rule(g, i) BY <1>3, <3>1, <3>2, Zenon
    <3>4. CASE i = m BY <2>2, <2>4, <3>1, <3>3, <3>4, Zenon
    <3>5. CASE i # m
      <4>1. i \in 1 .. m - 1 BY <3>5
      <4>2. QED BY <2>1, <2>4, <3>1, <3>3, <3>5, <4>1, Zenon
    <3>6. QED BY <3>4, <3>5
  <2>7. QED BY <2>5, <2>6
<1>6. Upto(n)
  <2> HIDE DEF Upto
  <2>1. PICK G : G = {m \in 0 .. n : Upto(m)} OBVIOUS
  <2>2. ASSUME NEW q \in 0 .. n, \A r \in 0 .. n : r < q => r \in G PROVE q \in G
    <3>1. CASE q = 0 BY <1>4, <2>1, <3>1
    <3>2. CASE q # 0
      <4>1. q \in 1 .. n /\ q - 1 \in 0 .. n /\ q - 1 < q BY <3>2
      <4>2. Upto(q - 1) BY <2>1, <2>2, <4>1
      <4>3. QED BY <1>5, <2>1, <4>1, <4>2
    <3>3. QED BY <3>1, <3>2
  <2>3. \A q \in 0 .. n : q \in G BY <2>2, UpFrom
  <2>4. QED BY <2>1, <2>3
<1>7. PICK f : f = [i \in 1 .. n |-> Rule(f, i)]
  <2>1. PICK f : f = [i \in 1 .. n |-> f[i]] /\ \A i \in 1 .. n : f[i] = Rule(f, i) BY <1>6
  <2>2. [i \in 1 .. n |-> f[i]] = [i \in 1 .. n |-> Rule(f, i)] BY <2>1
  <2>3. f = [i \in 1 .. n |-> Rule(f, i)] BY <2>1, <2>2, Zenon
  <2>4. QED BY <2>3
<1>8. PICK first : first = CHOOSE h : h = [i \in DOMAIN list |-> Rule(h, i)] OBVIOUS
<1>9. first = [i \in DOMAIN list |-> Rule(first, i)]
  <2>1. f = [i \in DOMAIN list |-> Rule(f, i)] BY <1>1, <1>7
  <2>2. QED BY <1>8, <2>1, Zenon
<1>10. \A i \in 1 .. n : first[i] = FirstOf(list, first, amount, i)
  <2>1. \A i \in 1 .. n : first[i] = Rule(first, i) BY <1>1, <1>9
  <2>2. QED BY <2>1, Zenon DEF Rule
<1>11. PortsFrom(list, amount) = first BY <1>8, Zenon DEF PortsFrom, Rule, FirstOf
<1>12. QED BY <1>1, <1>10, <1>11, Zenon

\* A sum is not less than what is in it.
LEMMA SumGrows ==
  ASSUME NEW n \in Nat, NEW amount \in [1 .. n -> Nat], NEW units, NEW k \in 1 .. n, k \in units
  PROVE  SumUpTo(units, amount)[n] >= amount[k]
<1>1. PICK sum : sum = SumUpTo(units, amount) OBVIOUS
<1>2. SumRule(sum, n, units, amount) BY <1>1, SumIs, Zenon
<1>3. /\ sum \in [0 .. n -> Nat]
      /\ \A p \in 1 .. n : sum[p] = sum[p - 1] + (IF p \in units THEN amount[p] ELSE 0)
  BY <1>2, Zenon DEF SumRule
<1>4. PICK G : G = {q \in 0 .. n : q >= k => sum[q] >= amount[k]} OBVIOUS
<1>5. ASSUME NEW q \in 0 .. n, \A r \in 0 .. n : r < q => r \in G PROVE q \in G
  <2>1. CASE q < k BY <1>4, <2>1
  <2>2. CASE q = k
    <3>1. sum[k] = sum[k - 1] + amount[k] BY <1>3
    <3>2. sum[k - 1] \in Nat /\ amount[k] \in Nat BY <1>3
    <3>3. QED BY <1>4, <2>2, <3>1, <3>2
  <2>3. CASE q > k
    <3>1. q - 1 \in 0 .. n /\ q - 1 < q /\ q - 1 >= k /\ q \in 1 .. n BY <2>3
    <3>2. sum[q - 1] >= amount[k] BY <1>4, <1>5, <3>1
    <3>3. sum[q] >= sum[q - 1]
      <4>1. sum[q - 1] \in Nat /\ amount[q] \in Nat BY <1>3, <3>1
      <4>2. sum[q] = sum[q - 1] + (IF q \in units THEN amount[q] ELSE 0) BY <1>3, <3>1
      <4>3. QED BY <4>1, <4>2
    <3>4. sum[q] \in Nat /\ sum[q - 1] \in Nat /\ amount[k] \in Nat BY <1>3, <3>1
    <3>5. QED BY <1>4, <3>2, <3>3, <3>4
  <2>4. QED BY <2>1, <2>2, <2>3
<1>6. \A q \in 0 .. n : q \in G BY <1>5, UpFrom, Zenon
<1>7. n \in 0 .. n OBVIOUS
<1>8. QED BY <1>1, <1>4, <1>6, <1>7

\* Inside a composite the sums are those of its declaration.
Encloses(list, P, inside) ==
  /\ Nested(list) /\ StatesOf(list) \in [1 .. Len(list) -> Nat]
  /\ P \in 1 .. Len(list) /\ inside = Inside(list, P)
  /\ Nested(inside) /\ StatesOf(inside) \in [1 .. Len(inside) -> Nat]

LEMMA SumInside ==
  ASSUME NEW list, NEW P, NEW inside, Encloses(list, P, inside), NEW k \in 0 .. Len(inside)
  PROVE  SumUpTo(Children(list, P), StatesOf(list))[P + k] = SumUpTo(Children(inside, 0), StatesOf(inside))[k]
<1>0. /\ Nested(list) /\ StatesOf(list) \in [1 .. Len(list) -> Nat]
      /\ P \in 1 .. Len(list) /\ inside = Inside(list, P)
      /\ Nested(inside) /\ StatesOf(inside) \in [1 .. Len(inside) -> Nat]
  BY DEF Encloses
<1>1. PICK n \in Nat : n = Len(list) /\ DOMAIN list = 1 .. n BY <1>0, ListIsSeq DEF Nested
<1>2. PICK m \in Nat : m = Len(inside) /\ DOMAIN inside = 1 .. m BY <1>0, ListIsSeq DEF Nested
<1>3. P + m <= n /\ \A j \in 1 .. m : CopyOk(list, P, j) BY <1>0, <1>1, <1>2 DEF Nested, InsideOk
<1>4. PICK out : out = SumUpTo(Children(list, P), StatesOf(list)) OBVIOUS
<1>5. PICK in : in = SumUpTo(Children(inside, 0), StatesOf(inside)) OBVIOUS
<1>6. /\ out[0] = 0
      /\ \A p \in 1 .. n : out[p] = out[p - 1] + (IF p \in Children(list, P) THEN StatesOf(list)[p] ELSE 0)
  <2>1. SumRule(out, n, Children(list, P), StatesOf(list)) BY <1>0, <1>1, <1>4, SumIs, Zenon
  <2>2. QED BY <2>1, Zenon DEF SumRule
<1>7. /\ in \in [0 .. m -> Nat] /\ in[0] = 0
      /\ \A p \in 1 .. m : in[p] = in[p - 1] + (IF p \in Children(inside, 0) THEN StatesOf(inside)[p] ELSE 0)
  <2>1. SumRule(in, m, Children(inside, 0), StatesOf(inside)) BY <1>0, <1>2, <1>5, SumIs, Zenon
  <2>2. QED BY <2>1, Zenon DEF SumRule
\* The units up to the composite are not in it.
<1>8. \A p \in 1 .. P : p \notin Children(list, P)
  <2>1. TAKE p \in 1 .. P
  <2>2. p \in 1 .. n BY <1>0, <1>1
  <2>3. list[p].outer \in 0 .. p - 1 BY <1>0, <1>1, <2>2 DEF Nested, EntryOk
  <2>4. QED BY <2>3 DEF Children, Parent
<1>9. out[P] = 0
  <2>1. PICK G : G = {q \in 0 .. P : out[q] = 0} OBVIOUS
  <2>2. ASSUME NEW q \in 0 .. P, \A r \in 0 .. P : r < q => r \in G PROVE q \in G
    <3>1. CASE q = 0 BY <1>6, <2>1, <3>1
    <3>2. CASE q # 0
      <4>1. q \in 1 .. P /\ q \in 1 .. n /\ q - 1 \in 0 .. P /\ q - 1 < q BY <1>0, <1>1, <3>2
      <4>2. out[q - 1] = 0 BY <2>1, <2>2, <4>1
      <4>3. out[q] = out[q - 1] + 0 BY <1>6, <1>8, <4>1
      <4>4. QED BY <2>1, <4>2, <4>3
    <3>3. QED BY <3>1, <3>2
  <2>3. P \in Nat /\ P \in 0 .. P BY <1>0, <1>1
  <2>4. P \in G BY <2>2, <2>3, UpFrom
  <2>5. QED BY <2>1, <2>4
<1>10. ASSUME NEW j \in 1 .. m
       PROVE  /\ P + j \in Children(list, P) <=> j \in Children(inside, 0)
              /\ StatesOf(list)[P + j] = StatesOf(inside)[j]
  <2>1. P + j \in 1 .. n BY <1>0, <1>1, <1>3
  <2>2. CopyOk(list, P, j) BY <1>3
  <2>3. list[P + j].outer = P + inside[j].outer /\ list[P + j].unit = inside[j].unit
    BY <1>0, <2>2 DEF CopyOk
  <2>4. inside[j].outer \in 0 .. j - 1 BY <1>0, <1>2 DEF Nested, EntryOk
  <2>5. P + j \in Children(list, P) <=> j \in Children(inside, 0)
    BY <1>0, <1>1, <1>2, <2>1, <2>3, <2>4 DEF Children, Parent
  <2>6. StatesOf(list)[P + j] = StatesOf(inside)[j] BY <1>0, <1>1, <1>2, <2>1, <2>3 DEF StatesOf
  <2>7. QED BY <2>5, <2>6
<1>11. PICK G : G = {q \in 0 .. m : out[P + q] = in[q]} OBVIOUS
<1>12. ASSUME NEW q \in 0 .. m, \A r \in 0 .. m : r < q => r \in G PROVE q \in G
  <2>1. CASE q = 0 BY <1>0, <1>1, <1>7, <1>9, <1>11, <2>1
  <2>2. CASE q # 0
    <3>1. q \in 1 .. m /\ q - 1 \in 0 .. m /\ q - 1 < q BY <2>2
    <3>2. out[P + (q - 1)] = in[q - 1] BY <1>11, <1>12, <3>1
    <3>3. P + q \in 1 .. n /\ (P + q) - 1 = P + (q - 1) BY <1>0, <1>1, <1>3, <3>1
    <3>4. out[P + q] = out[P + (q - 1)] + (IF P + q \in Children(list, P) THEN StatesOf(list)[P + q] ELSE 0)
      BY <1>6, <3>3
    <3>5. in[q] = in[q - 1] + (IF q \in Children(inside, 0) THEN StatesOf(inside)[q] ELSE 0)
      BY <1>7, <3>1
    <3>6. P + q \in Children(list, P) <=> q \in Children(inside, 0) BY <1>10, <3>1
    <3>7. StatesOf(list)[P + q] = StatesOf(inside)[q] BY <1>10, <3>1
    <3>8. out[P + q] = in[q] BY <3>2, <3>4, <3>5, <3>6, <3>7, Zenon
    <3>9. QED BY <1>11, <3>1, <3>8
  <2>3. QED BY <2>1, <2>2
<1>13. k \in 0 .. m BY <1>0, <1>2
<1>14. k \in G BY <1>12, <1>13, UpFrom
<1>15. QED BY <1>4, <1>5, <1>11, <1>14

\* A state is read where it is driven, however deep the composites are.
LEMMA StatesMeetIn ==
  ASSUME NEW list, Nested(list), StatesStart(list), \A p \in 1 .. Len(list) : DeclOk(list[p].unit.decl)
  PROVE  \A p \in 1 .. Len(list) : list[p].unit.decl.states > 0 => list[p].statePos = StatePort(list)[p]
<1>1. PICK n \in Nat : n = Len(list) /\ DOMAIN list = 1 .. n BY ListIsSeq DEF Nested
<1>2. PICK first : first = StatePort(list) OBVIOUS
<1>3. \A p \in 1 .. n : first[p] = FirstOf(list, first, StatesOf(list), p)
  <2>1. first = PortsFrom(list, StatesOf(list)) BY <1>2, Zenon DEF StatePort, StatesOf
  <2>2. QED BY <1>1, <2>1, PortsSolved, Zenon
<1>4. PICK start : \A p \in 1 .. n :
        /\ start[p] = StartOf(list, start, p)
        /\ list[p].statePos = IF list[p].unit.decl.states = 0 THEN None ELSE start[p]
  BY <1>1, Zenon DEF StatesStart
<1>5. StatesOf(list) \in [1 .. n -> Nat]
  <2>1. \A p \in 1 .. n : list[p].unit.decl.states \in Nat BY <1>1 DEF DeclOk, Numbers
  <2>2. QED BY <1>1, <2>1 DEF StatesOf
<1>6. \A q : SumUpTo(Children(list, q), StatesOf(list)) \in [0 .. n -> Nat]
  BY <1>5, SumIs DEF SumRule
<1>7. PICK G : G = {p \in 0 .. n : p > 0 => first[p] \in Nat /\ (list[p].unit.decl.states > 0 => start[p] = first[p])}
  OBVIOUS
<1>8. ASSUME NEW p \in 0 .. n, \A r \in 0 .. n : r < p => r \in G PROVE p \in G
  <2>1. CASE p = 0 BY <1>7, <2>1
  <2>2. CASE p # 0 /\ list[p].level = 0
    <3>1. p \in 1 .. n /\ p - 1 \in 0 .. n BY <2>2
    <3>2. Parent(list, p) = 0 BY <1>1, <2>2, <3>1, ParentsBefore
    <3>3. PICK s \in Nat : s = SumUpTo(Children(list, 0), StatesOf(list))[p - 1] BY <1>6, <3>1
    <3>4. start[p] = s BY <1>4, <2>2, <3>1, <3>3, Zenon DEF StartOf
    <3>5. first[p] = s + 0 BY <1>3, <2>2, <3>1, <3>2, <3>3, Zenon DEF FirstOf
    <3>6. QED BY <1>7, <3>1, <3>4, <3>5
  <2>3. CASE p # 0 /\ list[p].level # 0
    <3>1. p \in 1 .. n BY <2>3
    <3>2. PICK P \in 1 .. p - 1 : P = Parent(list, p) /\ P \in 1 .. n
      BY <1>1, <2>3, <3>1, ParentsBefore
    <3>3. PICK inside : inside = Inside(list, P) OBVIOUS
    <3>4. DeclOk(list[P].unit.decl) /\ inside = list[P].unit.decl.info
      BY <1>1, <3>2, <3>3 DEF Inside
    <3>5. Nested(inside) /\ IsSeq(inside) BY <3>4 DEF DeclOk, Nested
    <3>6. PICK m \in Nat : m = Len(inside) /\ DOMAIN inside = 1 .. m BY <3>5, ListIsSeq
    <3>7. EntryOk(list, p) /\ InsideOk(list, P) BY <1>1, <3>1, <3>2 DEF Nested
    <3>8. PICK k \in 1 .. m : p = P + k
      <4>1. p <= P + m BY <3>2, <3>3, <3>6, <3>7, <2>3 DEF EntryOk, Parent
      <4>2. p - P \in 1 .. m /\ p = P + (p - P) BY <3>1, <3>2, <4>1
      <4>3. QED BY <4>2
    <3>9. CopyOk(list, P, k) BY <3>3, <3>6, <3>7, <3>8 DEF InsideOk
    <3>10. inside[k].outer \in 0 .. k - 1 BY <3>5, <3>6 DEF Nested, EntryOk
    <3>11. list[p].outer = P + inside[k].outer /\ list[p].unit = inside[k].unit
      BY <3>3, <3>8, <3>9 DEF CopyOk
    <3>12. inside[k].outer = 0 BY <3>2, <3>10, <3>11 DEF Parent
    <3>13. k \in Children(inside, 0) BY <3>6, <3>12 DEF Children, Parent
    <3>14. Placed(inside, k) BY <3>4, <3>13 DEF DeclOk
    <3>15. StatesOf(inside) \in [1 .. m -> Nat]
      <4>1. \A j \in 1 .. m : inside[j].unit = list[P + j].unit /\ P + j \in 1 .. n
        BY <1>1, <3>2, <3>3, <3>6, <3>7 DEF InsideOk, CopyOk
      <4>2. \A j \in 1 .. m : inside[j].unit.decl.states \in Nat BY <1>1, <4>1 DEF DeclOk, Numbers
      <4>3. QED BY <3>6, <4>2 DEF StatesOf
    <3>16. PICK in \in [0 .. m -> Nat] : in = SumUpTo(Children(inside, 0), StatesOf(inside))
      BY <3>15, SumIs DEF SumRule
    <3>17. k - 1 \in 0 .. m /\ p - 1 = P + (k - 1) BY <3>8
    <3>18. SumUpTo(Children(list, P), StatesOf(list))[p - 1] = in[k - 1]
      <4>1. SumUpTo(Children(list, P), StatesOf(list))[P + (k - 1)] = SumUpTo(Children(inside, 0), StatesOf(inside))[k - 1]
      <5>1. StatesOf(list) \in [1 .. Len(list) -> Nat] /\ P \in 1 .. Len(list) BY <1>1, <1>5, <3>2
      <5>2. StatesOf(inside) \in [1 .. Len(inside) -> Nat] /\ k - 1 \in 0 .. Len(inside)
        BY <3>6, <3>15, <3>17
      <5>3. PICK j : j = k - 1 OBVIOUS
        <5>4. Encloses(list, P, inside) /\ j \in 0 .. Len(inside)
          BY <3>3, <3>5, <5>1, <5>2, <5>3 DEF Encloses
        <5>5. SumUpTo(Children(list, P), StatesOf(list))[P + j] = SumUpTo(Children(inside, 0), StatesOf(inside))[j]
          BY ONLY <5>4, SumInside
        <5>6. QED BY <5>3, <5>5, Zenon
    <4>2. QED BY <3>16, <3>17, <4>1, Zenon
    <3>19. first[p] = in[k - 1] + first[P] BY <1>3, <2>3, <3>1, <3>2, <3>18, Zenon DEF FirstOf
    <3>20. P \in 0 .. n /\ P < p /\ P > 0 BY <3>2
    <3>21. first[P] \in Nat /\ (list[P].unit.decl.states > 0 => start[P] = first[P])
      BY <1>7, <1>8, <3>20
    <3>22. in[k - 1] \in Nat BY <3>17
    <3>23. first[p] \in Nat BY <3>19, <3>21, <3>22
    <3>24. ASSUME list[p].unit.decl.states > 0 PROVE start[p] = first[p]
      <4>1. inside[k].unit.decl.states > 0 /\ inside[k].unit.decl.states # 0 BY <3>11, <3>24
      <4>2. inside[k].statePos = in[k - 1] BY <3>14, <3>16, <4>1, Zenon DEF Placed
      <4>3. InDeclaration(list, p) = inside[k]
        <5>1. p - P = k BY <3>2, <3>8
        <5>2. QED BY <3>2, <3>4, <5>1, Zenon DEF InDeclaration
      <4>4. in[k - 1] # None BY <3>22 DEF None
      <4>5. start[p] = start[P] + in[k - 1]
        BY <1>4, <2>3, <3>1, <3>2, <4>2, <4>3, <4>4, Zenon DEF StartOf
      <4>6. list[P].unit.decl.composite
        <5>1. inside # <<>> BY <3>6
        <5>2. QED BY <3>4, <5>1 DEF DeclOk
      <4>7. list[P].unit.decl.states = in[m]
        <5>1. list[P].unit.decl.states = TopSum(inside, StatesOf(inside))
          BY <3>4, <4>6, Zenon DEF DeclOk
        <5>2. QED BY <3>6, <3>16, <5>1, Zenon DEF TopSum
      <4>8. in[m] >= StatesOf(inside)[k] BY <3>13, <3>15, <3>16, SumGrows
      <4>9. StatesOf(inside)[k] = inside[k].unit.decl.states BY <3>6 DEF StatesOf
      <4>10. list[P].unit.decl.states > 0
        <5>1. in[m] \in Nat /\ StatesOf(inside)[k] \in Nat BY <3>15
        <5>2. PICK x \in Nat, y \in Nat : x = in[m] /\ y = StatesOf(inside)[k] BY <5>1
        <5>3. y > 0 /\ x >= y BY <4>1, <4>8, <4>9, <5>2
        <5>4. x > 0 BY <5>3
        <5>5. QED BY <4>7, <5>2, <5>4
      <4>11. start[P] = first[P] BY <3>21, <4>10
      <4>12. QED BY <3>19, <3>21, <3>22, <4>5, <4>11
    <3>25. QED BY <1>7, <3>1, <3>23, <3>24
  <2>4. QED BY <2>1, <2>2, <2>3
<1>9. ASSUME NEW p \in 1 .. n, list[p].unit.decl.states > 0 PROVE list[p].statePos = first[p]
  <2>1. p \in G
    <3>1. \A q \in 0 .. n : q \in G BY <1>8, UpFrom, Zenon
    <3>2. p \in 0 .. n OBVIOUS
    <3>3. QED BY <3>1, <3>2
  <2>2. start[p] = first[p] BY <1>7, <1>9, <2>1
  <2>3. list[p].unit.decl.states # 0 BY <1>9
  <2>4. QED BY <1>4, <2>2, <2>3, Zenon
<1>10. QED BY <1>1, <1>2, <1>9

-----------------------------------------------------------------------------
(* The circuits the compiler makes are good.                                *)

\* A finite set of numbers has a greatest.
LEMMA LargestExists ==
  ASSUME NEW S \in SUBSET Int, IsFiniteSet(S), S # {}
  PROVE  MaxOf(S) \in S /\ \A y \in S : y <= MaxOf(S)
<1>1. PICK minus : minus = [x \in S |-> 0 - x] OBVIOUS
<1>2. PICK T : T = {minus[x] : x \in S} OBVIOUS
<1>3. IsFiniteSet(T) BY <1>2, ImageIsFinite, Zenon
<1>4. T \in SUBSET Int /\ T # {}
  <2>1. \A x \in S : minus[x] \in Int BY <1>1
  <2>2. QED BY <1>2, <2>1
<1>5. MinOf(T) \in T /\ \A y \in T : MinOf(T) <= y BY <1>3, <1>4, LeastExists, Zenon
<1>6. PICK m \in T : \A y \in T : m <= y BY <1>5
<1>7. PICK x \in S : m = 0 - x BY <1>1, <1>2
<1>8. \A y \in S : y <= x
  <2>1. SUFFICES ASSUME NEW y \in S PROVE y <= x OBVIOUS
  <2>2. 0 - y \in T BY <1>1, <1>2
  <2>3. m <= 0 - y BY <1>6, <2>2
  <2>4. QED BY <1>7, <2>3
<1>9. \E z \in S : \A y \in S : y <= z BY <1>8
<1>10. QED BY <1>9, Zenon DEF MaxOf

\* The inputs of a module are counted.
LEMMA InputsCounted ==
  ASSUME NEW a, CircuitOk(a), NEW list, InfoOk(a, list)
  PROVE  Len(ExtractInputDelays(list)) \in Nat
<1>1. PICK n \in Nat : n = Len(list) /\ DOMAIN list = 1 .. n BY ListIsSeq DEF InfoOk, Nested
<1>2. PICK inputs : inputs = {p \in DOMAIN list : list[p].level = 0 /\ list[p].unit.decl.name = "CircuitInput"}
  OBVIOUS
<1>3. PICK special : special = [p \in inputs |-> list[p].unit.special] OBVIOUS
<1>4. PICK ports : ports = {special[p] : p \in inputs} OBVIOUS
<1>5. ports = {list[p].unit.special : p \in inputs} BY <1>3, <1>4
<1>6. IsFiniteSet(ports)
  <2>1. inputs \in SUBSET (1 .. n) BY <1>1, <1>2
  <2>2. IsFiniteSet(1 .. n) BY FS_Interval
  <2>3. IsFiniteSet(inputs) BY <2>1, <2>2, FS_Subset
  <2>4. QED BY <1>4, <2>3, ImageIsFinite, Zenon
<1>7. ports \in SUBSET Nat
  <2>1. ASSUME NEW p \in inputs PROVE list[p].unit.special \in Nat
    <3>1. p \in 1 .. n /\ list[p].level = 0 /\ list[p].unit.decl.name = "CircuitInput" BY <1>1, <1>2
    <3>2. list[p].outer = 0 BY <1>1, <3>1, Zenon DEF InfoOk, Nested, EntryOk
    <3>3. p \in Children(list, 0) BY <1>1, <3>1, <3>2 DEF Children, Parent
    <3>4. list[p].name \in Range(a.allocated) /\ list[p].unit = a.unit[list[p].name]
      BY <3>3, Zenon DEF InfoOk, FirstLevel
    <3>5. UnitOk(list[p].unit) BY <3>4, Zenon DEF CircuitOk
    <3>6. QED BY <3>1, <3>5 DEF UnitOk
  <2>2. QED BY <1>5, <2>1
<1>8. PICK count : count = IF ports = {} THEN 0 ELSE MaxOf(ports) OBVIOUS
<1>9. count \in Nat
  <2>1. CASE ports = {} BY <1>8, <2>1
  <2>2. CASE ports # {}
    <3>1. MaxOf(ports) \in ports BY <1>6, <1>7, <2>2, LargestExists
    <3>2. QED BY <1>7, <1>8, <2>2, <3>1
  <2>3. QED BY <2>1, <2>2
<1>10. PICK f : f = [i \in 1 .. count |->
                       IF i \in ports THEN list[CHOOSE p \in inputs : list[p].unit.special = i].base ELSE 0]
  OBVIOUS
<1>11. ExtractInputDelays(list) = f
  <2>1. ExtractInputDelays(list) =
          [i \in 1 .. (IF {list[p].unit.special : p \in inputs} = {} THEN 0 ELSE MaxOf({list[p].unit.special : p \in inputs})) |->
             IF i \in {list[p].unit.special : p \in inputs}
             THEN list[CHOOSE p \in inputs : list[p].unit.special = i].base ELSE 0]
    BY <1>2 DEF ExtractInputDelays
  <2>2. QED BY <1>5, <1>8, <1>10, <2>1, Zenon
<1>12. f = [i \in 1 .. count |-> f[i]] BY <1>10
<1>13. Len(f) = count
  <2>1. Len([i \in 1 .. count |-> f[i]]) = count BY <1>9, MappedIsSeq
  <2>2. QED BY <1>12, <2>1, Zenon
<1>14. QED BY <1>9, <1>11, <1>13

-----------------------------------------------------------------------------
\* The definition of a module whose types are known.
Modular(def, types) ==
  /\ def.inputs \in Nat /\ IsSeq(def.instances)
  /\ IsInjective(NamesOf(def))
  /\ \A n \in Range(NamesOf(def)) : n[1] # "share"
  /\ \A i, j \in Range(def.instances) : i.share = j.share /\ i.share # None => i.type = j.type
  /\ \A i \in Range(def.instances) : Whole(types[i.type])

InputNames(def) == {InputName(k) : k \in 1 .. def.inputs}
InstanceNames(def) == {def.instances[i].name : i \in DOMAIN def.instances}

\* The names of a module's circuit: the output first, the inputs, the instances.
NamesMade(def, out, ins, own, both) ==
  /\ Len(out) \in 0 .. 1 /\ \A i \in 1 .. Len(out) : out[i] = OutName
  /\ Len(ins) = def.inputs /\ \A i \in 1 .. def.inputs : ins[i] = InputName(i)
  /\ Len(own) = Len(def.instances) /\ \A i \in 1 .. Len(own) : own[i] = def.instances[i].name
  /\ IsSeq(out) /\ IsSeq(ins) /\ IsSeq(own)
  /\ Behind(out, ins, both) /\ Behind(both, own, NamesOf(def))

LEMMA NamesParts ==
  ASSUME NEW def, def.inputs \in Nat, IsSeq(def.instances)
  PROVE  \E out, ins, own, both : NamesMade(def, out, ins, own, both)
<1>1. PICK out : out = IF \E c \in def.connections : c.in.inst = OutName THEN <<OutName>> ELSE <<>>
  OBVIOUS
<1>2. PICK k \in Nat : k = def.inputs OBVIOUS
<1>3. PICK ins : ins = [i \in 1 .. k |-> InputName(i)] OBVIOUS
<1>4. PICK m \in Nat : m = Len(def.instances) /\ DOMAIN def.instances = 1 .. m BY ListIsSeq
<1>5. PICK own : own = [i \in 1 .. m |-> def.instances[i].name] OBVIOUS
<1>6. NamesOf(def) = out \o ins \o own
  <2>1. [i \in 1 .. def.inputs |-> InputName(i)] = ins BY <1>2, <1>3
  <2>2. [i \in DOMAIN def.instances |-> def.instances[i].name] = own BY <1>4, <1>5
  <2>3. QED BY <1>1, <2>1, <2>2, Zenon DEF NamesOf
<1>7. IsSeq(out) /\ Len(out) \in 0 .. 1 /\ \A i \in 1 .. Len(out) : out[i] = OutName
  <2>1. CASE \E c \in def.connections : c.in.inst = OutName
    <3>1. PICK o : o = <<OutName>> OBVIOUS
    <3>2. o \in [1 .. 1 -> {OutName}] BY <3>1
    <3>3. IsSeq(o) /\ Len(o) = 1 BY <3>2, SeqFrom, Zenon
    <3>4. out = o BY <1>1, <2>1, <3>1
    <3>5. \A i \in 1 .. Len(out) : i = 1 BY <3>3, <3>4
    <3>6. QED BY <3>1, <3>3, <3>4, <3>5
  <2>2. CASE ~(\E c \in def.connections : c.in.inst = OutName)
    <3>1. out = <<>> BY <1>1, <2>2
    <3>2. IsSeq(<<>>) /\ Len(<<>>) = 0 BY EmptySeq DEF IsSeq
    <3>3. QED BY <3>1, <3>2
  <2>3. QED BY <2>1, <2>2
<1>8. IsSeq(ins) /\ Len(ins) = k
  <2>1. ins \in [1 .. k -> {InputName(i) : i \in 1 .. k}] BY <1>3
  <2>2. QED BY <2>1, SeqFrom, Zenon
<1>9. IsSeq(own) /\ Len(own) = m
  <2>1. own \in [1 .. m -> {def.instances[i].name : i \in 1 .. m}] BY <1>5
  <2>2. QED BY <2>1, SeqFrom, Zenon
<1>10. PICK both : both = out \o ins OBVIOUS
<1>11. PICK all : all = both \o own OBVIOUS
<1>12. Behind(out, ins, both) BY <1>7, <1>8, <1>10, Concatenated, Zenon
<1>13. IsSeq(both) BY <1>12 DEF Behind
<1>14. Behind(both, own, all) BY <1>9, <1>11, <1>13, Concatenated, Zenon
<1>15. NamesOf(def) = all BY <1>6, <1>10, <1>11
<1>16. \A i \in 1 .. k : ins[i] = InputName(i) BY <1>3
<1>17. \A i \in 1 .. m : own[i] = def.instances[i].name BY <1>5
<1>18. /\ Len(out) \in 0 .. 1 /\ \A i \in 1 .. Len(out) : out[i] = OutName
       /\ Len(ins) = def.inputs /\ \A i \in 1 .. def.inputs : ins[i] = InputName(i)
       /\ Len(own) = Len(def.instances) /\ \A i \in 1 .. Len(own) : own[i] = def.instances[i].name
       /\ IsSeq(out) /\ IsSeq(ins) /\ IsSeq(own)
  BY <1>2, <1>4, <1>7, <1>8, <1>9, <1>16, <1>17
<1>19. NamesMade(def, out, ins, own, both) BY <1>12, <1>14, <1>15, <1>18, Zenon DEF NamesMade
<1>20. QED BY <1>19

LEMMA NamesAre ==
  ASSUME NEW def, def.inputs \in Nat, IsSeq(def.instances)
  PROVE  /\ IsSeq(NamesOf(def))
         /\ \A n \in Range(NamesOf(def)) : n = OutName \/ n \in InputNames(def) \/ n \in InstanceNames(def)
<1>1. PICK k \in Nat : k = def.inputs OBVIOUS
<1>2. PICK m \in Nat : m = Len(def.instances) /\ DOMAIN def.instances = 1 .. m BY ListIsSeq
<1>3. PICK all : all = NamesOf(def) OBVIOUS
<1>4. PICK out, ins, own, both : NamesMade(def, out, ins, own, both) BY NamesParts, Zenon
<1>5. /\ Len(out) \in 0 .. 1 /\ \A i \in 1 .. Len(out) : out[i] = OutName
      /\ Len(ins) = k /\ \A i \in 1 .. k : ins[i] = InputName(i)
      /\ Len(own) = m /\ \A i \in 1 .. m : own[i] = def.instances[i].name
      /\ Behind(out, ins, both) /\ Behind(both, own, all)
  BY <1>1, <1>2, <1>3, <1>4, Zenon DEF NamesMade
<1>6. Len(both) = Len(out) + k /\ Len(all) = Len(out) + k + m /\ IsSeq(all) BY <1>5 DEF Behind
<1>7. \A i \in 1 .. Len(out) + k : both[i] = OutName \/ both[i] \in InputNames(def)
  <2>1. SUFFICES ASSUME NEW i \in 1 .. Len(out) + k PROVE both[i] = OutName \/ both[i] \in InputNames(def)
    OBVIOUS
  <2>2. CASE i <= Len(out)
    <3>1. i \in 1 .. Len(out) BY <1>5, <2>2
    <3>2. QED BY <1>5, <3>1 DEF Behind
  <2>3. CASE ~(i <= Len(out))
    <3>1. PICK j \in 1 .. k : i = Len(out) + j
      <4>1. i - Len(out) \in 1 .. k /\ i = Len(out) + (i - Len(out)) BY <1>5, <2>3
      <4>2. QED BY <4>1
    <3>2. both[i] = ins[j] BY <1>5, <3>1 DEF Behind
    <3>3. QED BY <1>1, <1>5, <3>2 DEF InputNames
  <2>4. QED BY <2>2, <2>3
<1>8. \A i \in 1 .. Len(all) : all[i] = OutName \/ all[i] \in InputNames(def) \/ all[i] \in InstanceNames(def)
  <2>1. SUFFICES ASSUME NEW i \in 1 .. Len(all)
                 PROVE all[i] = OutName \/ all[i] \in InputNames(def) \/ all[i] \in InstanceNames(def)
    OBVIOUS
  <2>2. CASE i <= Len(both)
    <3>1. i \in 1 .. Len(both) BY <1>5, <1>6, <2>2
    <3>2. all[i] = both[i] BY <1>5, <3>1 DEF Behind
    <3>3. QED BY <1>6, <1>7, <3>1, <3>2
  <2>3. CASE ~(i <= Len(both))
    <3>1. PICK j \in 1 .. m : i = Len(both) + j
      <4>1. i - Len(both) \in 1 .. m /\ i = Len(both) + (i - Len(both)) BY <1>5, <1>6, <2>3
      <4>2. QED BY <4>1
    <3>2. all[i] = own[j] BY <1>5, <3>1 DEF Behind
    <3>3. QED BY <1>2, <1>5, <3>2 DEF InstanceNames
  <2>4. QED BY <2>2, <2>3
<1>9. DOMAIN all = 1 .. Len(all) BY <1>6, ListIsSeq
<1>10. QED BY <1>3, <1>6, <1>8, <1>9 DEF Range


\* What the library starts with, and what the compiler puts in.
LEMMA UnitsWhole ==
  /\ Whole(CircuitInput) /\ Whole(CircuitOutput) /\ Whole(FixedBuffer)
  /\ \A t \in DOMAIN BasicUnits : Whole(BasicUnits[t])
<1>1. ASSUME NEW d, Numbers(d), ~d.composite, d.info = <<>> PROVE Whole(d)
  <2>1. IsSeq(<<>>) /\ Len(<<>>) = 0 BY EmptySeq DEF IsSeq
  <2>2. PICK none : none = <<>> /\ IsSeq(none) /\ Len(none) = 0 /\ d.info = none BY <1>1, <2>1
  <2>3. DOMAIN none = 1 .. 0 BY <2>2, ListIsSeq
  <2>4. Children(none, 0) = {} BY <2>3 DEF Children
  <2>5. \A p \in 1 .. Len(none) : FALSE BY <2>2
  <2>6. Nested(none) BY <2>2, <2>5, Zenon DEF Nested
  <2>7. Marked(none) BY <2>5, Zenon DEF Marked
  <2>8. Apart(none) BY <2>4, Zenon DEF Apart
  <2>9. DeclOk(d) BY <1>1, <2>2, <2>4, <2>6, <2>7, <2>8 DEF DeclOk
  <2>10. QED BY <2>2, <2>5, <2>9, Zenon DEF Whole
<1>2. \A t \in DOMAIN BasicUnits :
        /\ BasicUnits[t].configs \in Nat /\ BasicUnits[t].states \in Nat
        /\ ~BasicUnits[t].composite /\ BasicUnits[t].info = <<>>
  BY UnitsAssumption
<1>3. ASSUME NEW d \in {CircuitInput, CircuitOutput, FixedBuffer}
      PROVE  d.configs \in Nat /\ d.states \in Nat /\ ~d.composite /\ d.info = <<>>
  BY DEF CircuitInput, CircuitOutput, FixedBuffer, Declaration
<1>4. QED BY <1>1, <1>2, <1>3 DEF Numbers

LEMMA InputIs ==
  ASSUME NEW k \in Nat, NEW unit, unit = [Unit(CircuitInput) EXCEPT !.special = k]
  PROVE  UnitOk(unit) /\ unit.share = None /\ unit.decl.configs = 0
<1>1. unit.decl = CircuitInput /\ unit.special = k /\ unit.share = None BY DEF Unit
<1>2. CircuitInput.configs = 0 BY DEF CircuitInput, Declaration
<1>3. QED BY <1>1, <1>2, UnitsWhole DEF UnitOk

LEMMA OutputIs ==
  ASSUME NEW unit, unit = Unit(CircuitOutput)
  PROVE  UnitOk(unit) /\ unit.share = None /\ unit.decl.configs = 0
<1>1. unit.decl = CircuitOutput /\ unit.share = None BY DEF Unit
<1>2. CircuitOutput.configs = 0 /\ CircuitOutput.name = "CircuitOutput"
  BY DEF CircuitOutput, Declaration
<1>3. QED BY <1>1, <1>2, UnitsWhole DEF UnitOk

LEMMA BufferIs ==
  ASSUME NEW delay, NEW unit, unit = BufferOf(delay)
  PROVE  UnitOk(unit) /\ unit.share = None
<1>1. unit.decl = FixedBuffer /\ unit.share = None BY DEF BufferOf, Unit
<1>2. FixedBuffer.name = "FixedBuffer" BY DEF FixedBuffer, Declaration
<1>3. QED BY <1>1, <1>2, UnitsWhole DEF UnitOk

\* What a name of the circuit stands for: the output or an input, or an instance.
Stands(def, types, n, u) ==
  \/ (n = OutName \/ n \in InputNames(def)) /\ UnitOk(u) /\ u.share = None /\ u.decl.configs = 0
  \/ \E i \in Range(def.instances) : n = i.name /\ u.decl = types[i.type] /\ u.share = i.share /\ UnitOk(u)

LEMMA CircuitUnits ==
  ASSUME NEW def, NEW types, Modular(def, types), NEW a, a = InstantiateModule(def, types)
  PROVE  /\ a.allocated = NamesOf(def) /\ DOMAIN a.unit = Range(NamesOf(def))
         /\ \A n \in Range(NamesOf(def)) : Stands(def, types, n, a.unit[n])
<1>1. PICK raw : raw = [allocated |-> NamesOf(def), unit |-> [n \in Range(NamesOf(def)) |-> UnitNamed(def, n, types)],
                        edges |-> def.connections, type |-> <<>>]
  OBVIOUS
<1>2. a = CopyAccelerator(raw) BY <1>1, Zenon DEF InstantiateModule, MakeCircuit
<1>3. DOMAIN raw = Fields BY <1>1 DEF Fields
<1>4. a.allocated = raw.allocated /\ a.unit = raw.unit BY <1>2, <1>3 DEF CopyAccelerator, Fields
<1>5. /\ raw.allocated = NamesOf(def) /\ DOMAIN raw.unit = Range(NamesOf(def))
      /\ \A n \in Range(NamesOf(def)) : raw.unit[n] = UnitNamed(def, n, types)
  BY <1>1
<1>6. ASSUME NEW n \in Range(NamesOf(def)), NEW u, u = UnitNamed(def, n, types)
      PROVE  Stands(def, types, n, u)
  <2>1. CASE n = OutName
    <3>1. u = Unit(CircuitOutput) BY <1>6, <2>1, Zenon DEF UnitNamed
    <3>2. QED BY <2>1, <3>1, OutputIs DEF Stands
  <2>2. CASE n # OutName /\ n \in InputNames(def)
    <3>1. u = [Unit(CircuitInput) EXCEPT !.special = n[2]]
      BY <1>6, <2>2, Zenon DEF UnitNamed, InputNames
    <3>2. PICK k \in 1 .. def.inputs : n = InputName(k) BY <2>2 DEF InputNames
    <3>3. n[2] = k /\ k \in Nat BY <3>2 DEF InputName, Modular
    <3>4. QED BY <2>2, <3>1, <3>3, InputIs DEF Stands
  <2>3. CASE n # OutName /\ n \notin InputNames(def)
    <3>1. n \in InstanceNames(def) BY <2>3, NamesAre, Zenon DEF Modular
    <3>2. PICK c : c = CHOOSE i \in DOMAIN def.instances : def.instances[i].name = n OBVIOUS
    <3>3. c \in DOMAIN def.instances /\ def.instances[c].name = n
      <4>1. \E i \in DOMAIN def.instances : def.instances[i].name = n BY <3>1 DEF InstanceNames
      <4>2. QED BY <3>2, <4>1, Zenon
    <3>4. PICK i \in Range(def.instances) : i = def.instances[c] BY <3>3 DEF Range
    <3>5. u = [decl |-> types[i.type], special |-> 0, static |-> i.static, share |-> i.share, unshared |-> i.unshared]
      BY <1>6, <2>3, <3>2, <3>4, Zenon DEF UnitNamed, InputNames
    <3>6. u.decl = types[i.type] /\ u.share = i.share /\ u.special = 0 BY <3>5
    <3>7. Whole(types[i.type]) BY DEF Modular
    <3>8. UnitOk(u)
      <4>1. u.special \in Nat BY <3>6
      <4>2. Whole(u.decl) BY <3>6, <3>7, Zenon
      <4>3. QED BY <4>1, <4>2, Zenon DEF UnitOk
    <3>9. QED BY <3>3, <3>4, <3>6, <3>8, Zenon DEF Stands
  <2>4. QED BY <2>1, <2>2, <2>3
<1>7. QED BY <1>4, <1>5, <1>6

LEMMA CircuitIs ==
  ASSUME NEW def, NEW types, Modular(def, types)
  PROVE  CircuitOk(InstantiateModule(def, types))
<1>1. PICK a : a = InstantiateModule(def, types) OBVIOUS
<1>2. /\ a.allocated = NamesOf(def)
      /\ \A n \in Range(NamesOf(def)) : Stands(def, types, n, a.unit[n])
  BY <1>1, CircuitUnits
<1>3. IsSeq(a.allocated) /\ IsInjective(a.allocated)
  <2>1. IsSeq(NamesOf(def)) /\ IsInjective(NamesOf(def)) BY NamesAre DEF Modular
  <2>2. QED BY <1>2, <2>1, Zenon
<1>4. \A n \in Range(a.allocated) : n[1] # "share" /\ UnitOk(a.unit[n])
  <2>1. \A n \in Range(NamesOf(def)) : n[1] # "share" BY DEF Modular
  <2>2. \A n \in Range(NamesOf(def)) : UnitOk(a.unit[n]) BY <1>2, Zenon DEF Stands
  <2>3. QED BY <1>2, <2>1, <2>2, Zenon
<1>5. ASSUME NEW m \in Range(a.allocated), NEW n \in Range(a.allocated),
             a.unit[m].share = a.unit[n].share, a.unit[m].share # None
      PROVE  a.unit[m].decl = a.unit[n].decl
  <2>1. Stands(def, types, m, a.unit[m]) /\ Stands(def, types, n, a.unit[n]) BY <1>2, Zenon
  <2>2. PICK i \in Range(def.instances) : a.unit[m].decl = types[i.type] /\ a.unit[m].share = i.share
    BY <1>5, <2>1, Zenon DEF Stands
  <2>3. PICK j \in Range(def.instances) : a.unit[n].decl = types[j.type] /\ a.unit[n].share = j.share
    BY <1>5, <2>1, Zenon DEF Stands
  <2>4. i.type = j.type BY <1>5, <2>2, <2>3, Zenon DEF Modular
  <2>5. QED BY <2>2, <2>3, <2>4
<1>6. CircuitOk(a) BY <1>3, <1>4, <1>5, Zenon DEF CircuitOk
<1>7. QED BY <1>1, <1>6

\* What FixDelays does to a circuit: a buffer comes last, whatever it is connected to.
Grows(a, name, unit, new) ==
  /\ DOMAIN new = Fields /\ new.allocated = Append(a.allocated, name)
  /\ DOMAIN new.unit = DOMAIN a.unit \cup {name} /\ new.unit[name] = unit
  /\ \A n \in DOMAIN a.unit : n # name => new.unit[n] = a.unit[n]

LEMMA InsertedIs ==
  ASSUME NEW a, DOMAIN a = Fields, NEW name, NEW unit, NEW before, NEW after, NEW out, NEW in, NEW delay
  PROVE  Grows(a, name, unit, InsertUnit(CreateFUInstance(a, name, unit), before, after, out, in, delay))
<1>1. PICK made : made = CreateFUInstance(a, name, unit) OBVIOUS
<1>2. /\ DOMAIN made = Fields /\ made.allocated = Append(a.allocated, name)
      /\ made.unit = [n \in DOMAIN a.unit \cup {name} |-> IF n = name THEN unit ELSE a.unit[n]]
  BY <1>1 DEF CreateFUInstance, Fields
<1>3. PICK removed : removed = RemoveConnection(made, before, after) OBVIOUS
<1>4. DOMAIN removed = Fields /\ removed.allocated = made.allocated /\ removed.unit = made.unit
  BY <1>2, <1>3 DEF RemoveConnection, Fields
<1>5. PICK joined : joined = ConnectUnits(removed, out, after, 0) OBVIOUS
<1>6. DOMAIN joined = Fields /\ joined.allocated = made.allocated /\ joined.unit = made.unit
  BY <1>4, <1>5 DEF ConnectUnits, Fields
<1>7. PICK new : new = ConnectUnits(joined, before, in, delay) OBVIOUS
<1>8. DOMAIN new = Fields /\ new.allocated = made.allocated /\ new.unit = made.unit
  BY <1>6, <1>7 DEF ConnectUnits, Fields
<1>9. new = InsertUnit(made, before, after, out, in, delay)
  BY <1>3, <1>5, <1>7, Zenon DEF InsertUnit
<1>10. Grows(a, name, unit, new) BY <1>2, <1>8 DEF Grows
<1>11. QED BY <1>1, <1>9, <1>10

LEMMA GrownIsGood ==
  ASSUME NEW a, CircuitOk(a), Range(a.allocated) \subseteq DOMAIN a.unit,
         NEW name, name \notin Range(a.allocated), name[1] # "share",
         NEW unit, UnitOk(unit), unit.share = None, NEW new, Grows(a, name, unit, new)
  PROVE  CircuitOk(new) /\ Range(new.allocated) = Range(a.allocated) \cup {name}
<1>1. PICK s : s = a.allocated OBVIOUS
<1>2. PICK u : u = new.allocated /\ u = Append(s, name) BY <1>1 DEF Grows
<1>3. IsSeq(s) /\ IsInjective(s) BY <1>1 DEF CircuitOk
<1>4. PICK m \in Nat : m = Len(s) /\ DOMAIN s = 1 .. m BY <1>3, ListIsSeq
<1>5. PICK S : S = Range(s) \cup {name} OBVIOUS
<1>6. s \in Seq(S) /\ name \in S BY <1>3, <1>5, SeqMonotonic DEF IsSeq
<1>7. /\ u \in Seq(S) /\ Len(u) = m + 1 /\ u[m + 1] = name
      /\ \A i \in 1 .. m : u[i] = s[i]
  BY <1>2, <1>4, <1>6, AppendProperties
<1>8. DOMAIN u = 1 .. m + 1 /\ u \in [1 .. m + 1 -> S] BY <1>7, LenProperties
<1>9. IsSeq(u) BY <1>8, SeqFrom
<1>10. \A i \in 1 .. m + 1 : i \in 1 .. m \/ i = m + 1 OBVIOUS
<1>11. \A i \in 1 .. m : s[i] \in Range(s) BY <1>4 DEF Range
<1>12. IsInjective(u)
  <2>1. SUFFICES ASSUME NEW i \in 1 .. m + 1, NEW j \in 1 .. m + 1, u[i] = u[j] PROVE i = j
    BY <1>8 DEF IsInjective
  <2>2. CASE i \in 1 .. m /\ j \in 1 .. m
    <3>1. s[i] = s[j] BY <1>7, <2>1, <2>2
    <3>2. QED BY <1>3, <1>4, <2>2, <3>1 DEF IsInjective
  <2>3. CASE i \in 1 .. m /\ j = m + 1 BY <1>1, <1>7, <1>11, <2>1, <2>3
  <2>4. CASE i = m + 1 /\ j \in 1 .. m BY <1>1, <1>7, <1>11, <2>1, <2>4
  <2>5. QED BY <1>10, <2>2, <2>3, <2>4
<1>13. Range(u) = Range(s) \cup {name}
  <2>1. \A x \in Range(u) : x \in Range(s) \cup {name} BY <1>7, <1>8, <1>10, <1>11 DEF Range
  <2>2. name \in Range(u) BY <1>7, <1>8 DEF Range
  <2>3. ASSUME NEW x \in Range(s) PROVE x \in Range(u)
    <3>1. PICK i \in 1 .. m : x = s[i] BY <1>4 DEF Range
    <3>2. u[i] = x /\ i \in 1 .. m + 1 BY <1>7, <3>1
    <3>3. QED BY <1>8, <3>2 DEF Range
  <2>4. QED BY <2>1, <2>2, <2>3
<1>14. new.unit[name] = unit /\ \A n \in Range(s) : new.unit[n] = a.unit[n] BY <1>1 DEF Grows
<1>15. \A n \in Range(u) : n[1] # "share" /\ UnitOk(new.unit[n])
  <2>1. \A n \in Range(s) : n[1] # "share" /\ UnitOk(a.unit[n]) BY <1>1 DEF CircuitOk
  <2>2. QED BY <1>13, <1>14, <2>1
<1>16. \A n \in Range(u) : new.unit[n].share # None => n \in Range(s) BY <1>13, <1>14
<1>17. ASSUME NEW x \in Range(u), NEW y \in Range(u), new.unit[x].share = new.unit[y].share, new.unit[x].share # None
       PROVE  new.unit[x].decl = new.unit[y].decl
  <2>1. x \in Range(s) /\ y \in Range(s) BY <1>16, <1>17
  <2>2. new.unit[x] = a.unit[x] /\ new.unit[y] = a.unit[y] BY <1>14, <2>1
  <2>3. x \in Range(a.allocated) /\ y \in Range(a.allocated) BY <1>1, <2>1
  <2>4. QED BY <1>17, <2>2, <2>3, Zenon DEF CircuitOk
<1>18. CircuitOk(new)
  <2>1. IsSeq(new.allocated) /\ IsInjective(new.allocated) BY <1>2, <1>9, <1>12, Zenon
  <2>2. QED BY <1>2, <1>15, <1>17, <2>1, Zenon DEF CircuitOk
<1>19. QED BY <1>1, <1>2, <1>13, <1>18

-----------------------------------------------------------------------------
LEMMA BehindApart ==
  ASSUME NEW s, IsSeq(s), IsInjective(s), NEW t, IsSeq(t), IsInjective(t), NEW u, Behind(s, t, u),
         \A i \in 1 .. Len(s) : \A j \in 1 .. Len(t) : s[i] # t[j]
  PROVE  IsInjective(u)
<1>1. PICK m \in Nat : m = Len(s) /\ DOMAIN s = 1 .. m BY ListIsSeq
<1>2. PICK n \in Nat : n = Len(t) /\ DOMAIN t = 1 .. n BY ListIsSeq
<1>3. /\ IsSeq(u) /\ Len(u) = m + n
      /\ \A i \in 1 .. m : u[i] = s[i]
      /\ \A i \in 1 .. n : u[m + i] = t[i]
  BY <1>1, <1>2 DEF Behind
<1>4. DOMAIN u = 1 .. m + n BY <1>3, ListIsSeq
<1>5. \A i \in 1 .. m + n : i \in 1 .. m \/ \E k \in 1 .. n : i = m + k
  <2>1. TAKE i \in 1 .. m + n
  <2>2. i > m => i - m \in 1 .. n /\ i = m + (i - m) OBVIOUS
  <2>3. QED BY <2>2
<1>6. SUFFICES ASSUME NEW i \in 1 .. m + n, NEW j \in 1 .. m + n, u[i] = u[j] PROVE i = j
  BY <1>4 DEF IsInjective
<1>7. CASE i \in 1 .. m /\ j \in 1 .. m
  <2>1. s[i] = s[j] BY <1>3, <1>6, <1>7
  <2>2. QED BY <1>1, <1>7, <2>1 DEF IsInjective
<1>8. CASE i \in 1 .. m /\ \E k \in 1 .. n : j = m + k BY <1>1, <1>2, <1>3, <1>6, <1>8
<1>9. CASE j \in 1 .. m /\ \E k \in 1 .. n : i = m + k BY <1>1, <1>2, <1>3, <1>6, <1>9
<1>10. CASE (\E k \in 1 .. n : i = m + k) /\ (\E k \in 1 .. n : j = m + k)
  <2>1. PICK k \in 1 .. n, l \in 1 .. n : i = m + k /\ j = m + l BY <1>10
  <2>2. t[k] = t[l] BY <1>3, <1>6, <2>1
  <2>3. k = l BY <1>2, <2>2 DEF IsInjective
  <2>4. QED BY <2>1, <2>3
<1>11. QED BY <1>5, <1>7, <1>8, <1>9, <1>10

\* The top of an accelerator is a module like others, and all its wires are those of one unit.
TopName == Name("TOP")
OneWired(a) ==
  \A n \in Range(a.allocated) : a.unit[n].share = None /\ (n # TopName => a.unit[n].decl.configs = 0)

LEMMA TopIs ==
  ASSUME NEW type, Len(type.inputDelays) \in Nat, NEW types, Whole(types[type.name]),
         NEW a, a = InstantiateModule(TopModule(type), types)
  PROVE  CircuitOk(a) /\ OneWired(a)
<1>1. PICK def : def = TopModule(type) OBVIOUS
<1>2. PICK k \in Nat : k = Len(type.inputDelays) OBVIOUS
<1>3. PICK top : top = Instance(TopName, type.name) OBVIOUS
<1>4. PICK one : one = <<top>> OBVIOUS
<1>5. def.inputs = k /\ def.instances = one BY <1>1, <1>2, <1>3, <1>4 DEF TopModule, Module, TopName
<1>6. top.name = TopName /\ top.type = type.name /\ top.share = None BY <1>3 DEF Instance
<1>7. IsSeq(one) /\ Len(one) = 1 /\ one[1] = top /\ Range(one) = {top} /\ DOMAIN one = 1 .. 1
  <2>1. one \in [1 .. 1 -> {top}] BY <1>4
  <2>2. IsSeq(one) /\ Len(one) = 1 BY <2>1, SeqFrom, Zenon
  <2>3. QED BY <1>4, <2>2 DEF Range
<1>8. PICK out, ins, own, both : NamesMade(def, out, ins, own, both)
  BY <1>5, <1>7, NamesParts, Zenon
<1>9. PICK all : all = NamesOf(def) OBVIOUS
<1>10. /\ Len(out) \in 0 .. 1 /\ \A i \in 1 .. Len(out) : out[i] = OutName
       /\ Len(ins) = k /\ \A i \in 1 .. k : ins[i] = InputName(i)
       /\ Len(own) = 1 /\ \A i \in 1 .. 1 : own[i] = one[i].name
       /\ IsSeq(out) /\ IsSeq(ins) /\ IsSeq(own)
       /\ Behind(out, ins, both) /\ Behind(both, own, all)
  BY <1>5, <1>7, <1>8, <1>9, Zenon DEF NamesMade
<1>11. DOMAIN out = 1 .. Len(out) /\ DOMAIN ins = 1 .. k /\ DOMAIN own = 1 .. 1 /\ own[1] = TopName
  BY <1>6, <1>7, <1>10, ListIsSeq
<1>12. IsInjective(out) /\ IsInjective(ins) /\ IsInjective(own)
  <2>1. IsInjective(out) BY <1>10, <1>11 DEF IsInjective
  <2>2. IsInjective(ins)
    <3>1. \A i, j \in 1 .. k : InputName(i) = InputName(j) => i = j BY DEF InputName
    <3>2. QED BY <1>10, <1>11, <3>1 DEF IsInjective
  <2>3. IsInjective(own) BY <1>11 DEF IsInjective
  <2>4. QED BY <2>1, <2>2, <2>3
<1>13. IsInjective(both)
  <2>1. \A i \in 1 .. Len(out) : \A j \in 1 .. Len(ins) : out[i] # ins[j]
    BY <1>10 DEF OutName, InputName, Name
  <2>2. QED BY <1>10, <1>12, <2>1, BehindApart
<1>14. IsSeq(both) /\ \A i \in 1 .. Len(both) : both[i] = OutName \/ \E j \in 1 .. k : both[i] = InputName(j)
  <2>1. IsSeq(both) /\ Len(both) = Len(out) + k BY <1>10 DEF Behind
  <2>2. \A i \in 1 .. Len(out) : both[i] = OutName BY <1>10 DEF Behind
  <2>3. \A i \in 1 .. k : both[Len(out) + i] = InputName(i) BY <1>10 DEF Behind
  <2>4. ASSUME NEW i \in 1 .. Len(both) PROVE both[i] = OutName \/ \E j \in 1 .. k : both[i] = InputName(j)
    <3>1. i > Len(out) => i - Len(out) \in 1 .. k /\ i = Len(out) + (i - Len(out)) BY <1>10, <2>1
    <3>2. i <= Len(out) => i \in 1 .. Len(out) BY <1>10, <2>1
    <3>3. i > Len(out) \/ i <= Len(out) BY <1>10, <2>1
    <3>4. QED BY <2>2, <2>3, <3>1, <3>2, <3>3
  <2>5. QED BY <2>1, <2>4
<1>15. IsInjective(all)
  <2>1. \A i \in 1 .. Len(both) : both[i] # TopName BY <1>14 DEF OutName, InputName, Name, TopName
  <2>2. \A i \in 1 .. Len(both) : \A j \in 1 .. Len(own) : both[i] # own[j] BY <1>10, <1>11, <2>1
  <2>3. QED BY <1>10, <1>12, <1>13, <1>14, <2>2, BehindApart
<1>16. \A n \in Range(all) : n = OutName \/ n \in InputNames(def) \/ n = TopName
  <2>1. \A n \in Range(all) : n = OutName \/ n \in InputNames(def) \/ n \in InstanceNames(def)
    BY <1>5, <1>7, <1>9, NamesAre, Zenon
  <2>2. \A n \in InstanceNames(def) : n = TopName BY <1>5, <1>6, <1>7 DEF InstanceNames
  <2>3. QED BY <2>1, <2>2
<1>17. \A n \in Range(all) : n[1] # "share"
  BY <1>16 DEF OutName, InputNames, InputName, Name, TopName
<1>18. Modular(def, types)
  <2>1. \A i \in Range(def.instances) : i = top BY <1>5, <1>7
  <2>2. QED BY <1>5, <1>6, <1>7, <1>9, <1>15, <1>17, <2>1 DEF Modular
<1>19. CircuitOk(a) BY <1>1, <1>18, CircuitIs, Zenon
<1>20. a.allocated = all /\ \A n \in Range(all) : Stands(def, types, n, a.unit[n])
  BY <1>1, <1>9, <1>18, CircuitUnits, Zenon
<1>21. ASSUME NEW n \in Range(all)
       PROVE  a.unit[n].share = None /\ (n # TopName => a.unit[n].decl.configs = 0)
  <2>1. \A i \in Range(def.instances) : i = top BY <1>5, <1>7
  <2>2. Stands(def, types, n, a.unit[n]) BY <1>20
  <2>3. CASE (n = OutName \/ n \in InputNames(def)) /\ a.unit[n].share = None /\ a.unit[n].decl.configs = 0
    BY <2>3
  <2>4. CASE \E i \in Range(def.instances) : n = i.name /\ a.unit[n].share = i.share
    BY <1>6, <2>1, <2>4
  <2>5. QED BY <2>2, <2>3, <2>4, Zenon DEF Stands
<1>22. OneWired(a) BY <1>20, <1>21, Zenon DEF OneWired
<1>23. QED BY <1>19, <1>22

-----------------------------------------------------------------------------
\* Everything in the library is whole, no module uses what is not there when its turn comes, and
\* the circuit in work has no buffer but those that were put in.
LibraryInv == \A t \in DOMAIN library : Whole(library[t])
TypesInv ==
  \A k \in 1 .. Len(todo) : TypesOf(todo[k]) \subseteq DOMAIN library \cup {todo[j].name : j \in 1 .. k - 1}
FixInv ==
  /\ CircuitOk(circuit) /\ Range(circuit.allocated) \subseteq DOMAIN circuit.unit
  /\ \A n \in Range(circuit.allocated) :
       n[1] = "fixedBuffer" => \E k \in 0 .. buffersInserted - 1 : n = BufferName(k)
DoneInv ==
  CircuitOk(circuit) /\ OneWired(circuit) /\ info = CalculateAcceleratorInfo(circuit, "TOP")
UnitsInv ==
  /\ LibraryInv /\ TypesInv
  /\ stage = "fix" => FixInv
  /\ stage = "done" => DoneInv

LEMMA UnitsStart == Init => UnitsInv
<1> SUFFICES ASSUME Init PROVE UnitsInv OBVIOUS
<1>1. library = BasicUnits /\ todo \in Programs /\ stage = "module" BY DEF Init
<1>2. LibraryInv BY <1>1, UnitsWhole DEF LibraryInv
<1>3. DOMAIN todo = 1 .. Len(todo)
  <2>1. todo \in Seq(Modules) BY <1>1, ProgramsAssumption
  <2>2. QED BY <2>1, LenProperties
<1>4. \A k \in DOMAIN todo : TypesOf(todo[k]) \subseteq DOMAIN BasicUnits \cup {todo[j].name : j \in 1 .. k - 1}
  BY <1>1, ProgramsAssumption, Zenon
<1>5. TypesInv BY <1>1, <1>3, <1>4, Zenon DEF TypesInv
<1>6. QED BY <1>1, <1>2, <1>5 DEF UnitsInv

LEMMA InstantiateUnits ==
  ASSUME IInv, UnitsInv, Instantiate
  PROVE  UnitsInv'
<1>1. PICK def : def = Head(todo) OBVIOUS
<1>2. /\ stage = "module" /\ todo \in Seq(Modules) /\ todo # <<>>
      /\ circuit' = InstantiateModule(def, library) /\ buffersInserted' = 0 /\ stage' = "fix"
      /\ library' = library /\ todo' = todo
  BY <1>1 DEF Instantiate, IInv, TodoInv
<1>3. Len(todo) \in Nat /\ Len(todo) >= 1 /\ def = todo[1] /\ def \in Modules
  <2>1. Len(todo) \in Nat \ {0} BY <1>2, EmptySeq
  <2>2. QED BY <1>1, <1>2, <2>1
<1>4. WellFormed(def) BY <1>3, ProgramsAssumption
<1>5. TypesOf(def) \subseteq DOMAIN library
  <2>1. TypesOf(todo[1]) \subseteq DOMAIN library \cup {todo[j].name : j \in 1 .. 1 - 1}
    BY <1>3 DEF UnitsInv, TypesInv
  <2>2. {todo[j].name : j \in 1 .. 1 - 1} = {} OBVIOUS
  <2>3. QED BY <1>3, <2>1, <2>2
<1>6. Modular(def, library)
  <2>1. \A i \in Range(def.instances) : i.type \in TypesOf(def) BY DEF TypesOf
  <2>2. \A i \in Range(def.instances) : Whole(library[i.type])
    BY <1>5, <2>1 DEF UnitsInv, LibraryInv
  <2>3. \A n \in Range(NamesOf(def)) : n[1] # "share" BY <1>4 DEF WellFormed
  <2>4. def.inputs \in Nat /\ IsSeq(def.instances) /\ IsInjective(NamesOf(def))
    BY <1>4 DEF WellFormed, IsSeq
  <2>5. \A i, j \in Range(def.instances) : i.share = j.share /\ i.share # None => i.type = j.type
    BY <1>4 DEF WellFormed
  <2>6. QED BY <2>2, <2>3, <2>4, <2>5, Zenon DEF Modular
<1>7. PICK a : a = InstantiateModule(def, library) OBVIOUS
<1>8. CircuitOk(a) BY <1>6, <1>7, CircuitIs, Zenon
<1>9. a.allocated = NamesOf(def) /\ DOMAIN a.unit = Range(NamesOf(def))
  BY <1>6, <1>7, CircuitUnits, Zenon
<1>10. \A n \in Range(a.allocated) : n[1] # "fixedBuffer" BY <1>4, <1>9 DEF WellFormed
<1>11. circuit' = a BY <1>2, <1>7
<1>12. FixInv' BY <1>8, <1>9, <1>10, <1>11 DEF FixInv
<1>13. LibraryInv' /\ TypesInv' BY <1>2 DEF UnitsInv, LibraryInv, TypesInv
<1>14. QED BY <1>2, <1>12, <1>13 DEF UnitsInv

LEMMA FixDelaysUnits ==
  ASSUME IInv, UnitsInv, FixDelays
  PROVE  UnitsInv'
<1>1. PICK edge \in DOMAIN edgesDelay : SkipEdge(edge) \/ BufferEdge(edge) BY DEF FixDelays
<1>2. /\ stage = "fix" /\ stage' = "fix" /\ library' = library /\ todo' = todo
      /\ buffersInserted \in Nat /\ DOMAIN circuit = Fields /\ FixInv
  BY DEF FixDelays, IInv, EdgesInv, UnitsInv
<1>3. LibraryInv' /\ TypesInv' BY <1>2 DEF UnitsInv, LibraryInv, TypesInv
<1>4. CASE SkipEdge(edge) BY <1>2, <1>3, <1>4 DEF SkipEdge, UnitsInv, FixInv
<1>5. CASE BufferEdge(edge)
  <2>1. PICK name : name = BufferName(buffersInserted) OBVIOUS
  <2>2. PICK unit : unit = BufferOf(edgesDelay[edge]) OBVIOUS
  <2>3. PICK a : a = circuit OBVIOUS
  <2>4. PICK new : new = InsertUnit(CreateFUInstance(a, name, unit), edge.out, edge.in, Port(name, 1), Port(name, 1), 0)
    OBVIOUS
  <2>5. circuit' = new /\ buffersInserted' = buffersInserted + 1
    BY <1>5, <2>1, <2>2, <2>3, <2>4 DEF BufferEdge
  <2>6. Grows(a, name, unit, new) BY <1>2, <2>3, <2>4, InsertedIs
  <2>7. UnitOk(unit) /\ unit.share = None BY <2>2, BufferIs
  <2>8. name \notin Range(a.allocated) BY <1>2, <2>1, <2>3 DEF FixInv, BufferName
  <2>9. name[1] = "fixedBuffer" /\ "fixedBuffer" # "share" BY <2>1 DEF BufferName
  <2>10. CircuitOk(a) /\ Range(a.allocated) \subseteq DOMAIN a.unit BY <1>2, <2>3 DEF FixInv
  <2>11. CircuitOk(new) /\ Range(new.allocated) = Range(a.allocated) \cup {name}
    BY <2>6, <2>7, <2>8, <2>9, <2>10, GrownIsGood
  <2>12. Range(new.allocated) \subseteq DOMAIN new.unit BY <2>6, <2>10, <2>11 DEF Grows
  <2>13. ASSUME NEW n \in Range(new.allocated), n[1] = "fixedBuffer"
         PROVE  \E k \in 0 .. (buffersInserted + 1) - 1 : n = BufferName(k)
    <3>1. CASE n = name BY <1>2, <2>1, <3>1
    <3>2. CASE n \in Range(a.allocated)
      <4>1. PICK k \in 0 .. buffersInserted - 1 : n = BufferName(k)
        BY <1>2, <2>3, <2>13, <3>2 DEF FixInv
      <4>2. k \in 0 .. (buffersInserted + 1) - 1 BY <1>2
      <4>3. QED BY <4>1, <4>2
    <3>3. QED BY <2>11, <3>1, <3>2
  <2>14. FixInv' BY <2>5, <2>11, <2>12, <2>13 DEF FixInv
  <2>15. QED BY <1>2, <1>3, <2>14 DEF UnitsInv
<1>6. QED BY <1>1, <1>4, <1>5

LEMMA RegisterUnits ==
  ASSUME IInv, UnitsInv, Register
  PROVE  UnitsInv'
<1>1. PICK name : name = Head(todo).name OBVIOUS
<1>2. PICK decl : decl = DeclarationOf(name, circuit) OBVIOUS
<1>3. /\ stage = "fix" /\ todo \in Seq(Modules) /\ todo # <<>> /\ CircuitOk(circuit) /\ LibraryInv /\ TypesInv
  BY DEF Register, IInv, TodoInv, UnitsInv, FixInv
<1>4. library' = [t \in DOMAIN library \cup {name} |-> IF t = name THEN decl ELSE library[t]]
  BY <1>1, <1>2 DEF Register
<1>5. Whole(decl) BY <1>2, <1>3, DeclarationIsWhole, Zenon
<1>6. DOMAIN library' = DOMAIN library \cup {name} /\ library'[name] = decl BY <1>4
<1>7. LibraryInv' BY <1>3, <1>4, <1>5 DEF LibraryInv
<1>8. PICK n \in Nat : n = Len(todo) /\ n >= 1 /\ DOMAIN todo = 1 .. n
  <2>1. Len(todo) \in Nat \ {0} BY <1>3, EmptySeq
  <2>2. QED BY <1>3, <2>1, LenProperties
<1>9. Head(todo) = todo[1] BY <1>3
<1>10. CASE Len(todo) > 1
  <2>1. stage' = "module" /\ todo' = Tail(todo) BY <1>10 DEF Register
  <2>2. Len(todo') = n - 1 /\ \A i \in 1 .. n - 1 : todo'[i] = todo[i + 1]
    BY <1>3, <1>8, <2>1, HeadTailProperties
  <2>3. ASSUME NEW k \in 1 .. n - 1
        PROVE  TypesOf(todo'[k]) \subseteq DOMAIN library' \cup {todo'[j].name : j \in 1 .. k - 1}
    <3>1. k + 1 \in 1 .. n /\ todo'[k] = todo[k + 1] BY <1>8, <2>2
    <3>2. TypesOf(todo[k + 1]) \subseteq DOMAIN library \cup {todo[j].name : j \in 1 .. (k + 1) - 1}
      BY <1>3, <1>8, <3>1 DEF TypesInv
    <3>3. ASSUME NEW j \in 1 .. (k + 1) - 1
          PROVE  todo[j].name \in DOMAIN library' \cup {todo'[i].name : i \in 1 .. k - 1}
      <4>1. CASE j = 1 BY <1>1, <1>6, <1>9, <4>1
      <4>2. CASE j # 1
        <5>1. j - 1 \in 1 .. k - 1 /\ j - 1 \in 1 .. n - 1 /\ (j - 1) + 1 = j BY <4>2
        <5>2. todo'[j - 1] = todo[j] BY <2>2, <5>1
        <5>3. QED BY <5>1, <5>2
      <4>3. QED BY <4>1, <4>2
    <3>4. \A t \in TypesOf(todo[k + 1]) : t \in DOMAIN library' \cup {todo'[j].name : j \in 1 .. k - 1}
      BY <1>6, <3>2, <3>3
    <3>5. QED BY <3>1, <3>4
  <2>4. TypesInv' BY <2>2, <2>3 DEF TypesInv
  <2>5. QED BY <1>7, <2>1, <2>4 DEF UnitsInv
<1>11. CASE ~(Len(todo) > 1)
  <2>1. PICK a : a = InstantiateModule(TopModule(decl), library') OBVIOUS
  <2>2. /\ stage' = "done" /\ todo' = todo /\ circuit' = a
        /\ info' = CalculateAcceleratorInfo(a, "TOP")
    <3>1. circuit' = InstantiateModule(TopModule(library'[Head(todo).name]), library')
      BY <1>11 DEF Register
    <3>2. circuit' = a BY <1>1, <1>6, <2>1, <3>1
    <3>3. QED BY <1>11, <3>2 DEF Register
  <2>3. PICK list : list = CalculateAcceleratorInfo(circuit, name) OBVIOUS
  <2>4. Len(ExtractInputDelays(list)) \in Nat
    <3>1. InfoOk(circuit, list) BY <1>3, <2>3, Calculated, Zenon
    <3>2. QED BY <1>3, <3>1, InputsCounted, Zenon
  <2>5. decl.name = name /\ decl.inputDelays = ExtractInputDelays(list)
    BY <1>2, <2>3, Zenon DEF DeclarationOf
  <2>6. PICK types : types = library' OBVIOUS
  <2>7. Whole(types[decl.name]) /\ Len(decl.inputDelays) \in Nat BY <1>5, <1>6, <2>4, <2>5, <2>6
  <2>8. CircuitOk(a) /\ OneWired(a) BY <2>1, <2>6, <2>7, TopIs, Zenon
  <2>9. DoneInv' BY <2>2, <2>8 DEF DoneInv
  <2>10. TypesInv' BY <1>3, <1>6, <2>2 DEF TypesInv
  <2>11. QED BY <1>7, <2>2, <2>9, <2>10 DEF UnitsInv
<1>12. QED BY <1>10, <1>11

LEMMA NextUnits == IInv /\ UnitsInv /\ [Next]_vars => UnitsInv'
<1> SUFFICES ASSUME IInv, UnitsInv, [Next]_vars PROVE UnitsInv' OBVIOUS
<1>1. CASE Instantiate BY <1>1, InstantiateUnits
<1>2. CASE FixDelays BY <1>2, FixDelaysUnits
<1>3. CASE Register BY <1>3, RegisterUnits
<1>4. CASE UNCHANGED vars BY <1>4 DEF vars, UnitsInv, LibraryInv, TypesInv, FixInv, DoneInv
<1>5. QED BY <1>1, <1>2, <1>3, <1>4 DEF Next

\* Whatever the library and the program, a unit with a state is read at the port its wires are
\* connected to: the place statePos, moved once for every composite around the unit
\* (configurations.cpp:871-918), is the one the modules emitted give it by handing their ports
\* to one unit after the other (codeGeneration.cpp:589-592).
THEOREM StatesMeet == Spec => []StatesReadWhereDriven
<1>1. UnitsInv => StatesReadWhereDriven
  <2>1. SUFFICES ASSUME UnitsInv, stage = "done", NEW p \in DOMAIN info, info[p].unit.decl.states > 0
                 PROVE  info[p].statePos = StatePort(info)[p]
    BY DEF StatesReadWhereDriven, Finished
  <2>2. InfoOk(circuit, info)
    <3>1. CircuitOk(circuit) /\ info = CalculateAcceleratorInfo(circuit, "TOP")
      BY <2>1 DEF UnitsInv, DoneInv
    <3>2. InfoOk(circuit, CalculateAcceleratorInfo(circuit, "TOP")) BY <3>1, Calculated, Zenon
    <3>3. QED BY <3>1, <3>2, Zenon
  <2>3. p \in 1 .. Len(info) BY <2>1, <2>2, ListIsSeq DEF InfoOk, Nested
  <2>4. \A q \in 1 .. Len(info) : info[q].unit.decl.states > 0 => info[q].statePos = StatePort(info)[q]
    BY <2>2, StatesMeetIn, Zenon DEF InfoOk
  <2>5. QED BY <2>1, <2>3, <2>4
<1>2. QED BY InitInv, NextInv, UnitsStart, NextUnits, <1>1, PTL DEF Spec

-----------------------------------------------------------------------------
(* Registers and what they are shared under.                                *)

\* The registers of a unit: the recursive function of RegisterOf; and what its wires are shared
\* under: that of SharedAs.
RegistersAt(list, reg, p) ==
  IF list[p].level = 0 THEN [w \in DOMAIN list[p].wires |-> w - 1]
  ELSE LET place == InDeclaration(list, p).globalWires
       IN  [w \in DOMAIN place |-> IF place[w] = None THEN None ELSE reg[Parent(list, p)][place[w] + 1]]

SharesAt(list, shared, p) ==
  LET unit == list[p].unit
      key(w) == IF unit.share = None \/ w \in unit.unshared THEN list[p].name ELSE GroupName(unit.share)
      outside(w) == InDeclaration(list, p).globalWires[w] + 1
  IN  [w \in 1 .. unit.decl.configs |->
         IF list[p].level = 0 THEN <<key(w)>> ELSE Append(shared[Parent(list, p)][outside(w)], key(w))]

LEMMA RegistersSolved ==
  ASSUME NEW list, Nested(list)
  PROVE  \A p \in 1 .. Len(list) : RegisterOf(list)[p] = RegistersAt(list, RegisterOf(list), p)
<1>1. PICK n \in Nat : n = Len(list) /\ DOMAIN list = 1 .. n BY ListIsSeq DEF Nested
<1>2. \A i \in 1 .. n : /\ list[i].level > 0 => Parent(list, i) \in 1 .. n /\ Parent(list, i) \in 1 .. i - 1
                        /\ list[i].level \in Nat
  BY <1>1, ParentsBefore
<1> DEFINE Rule(f, i) == RegistersAt(list, f, i)
           Upto(m) == \E f : f = [i \in 1 .. n |-> f[i]] /\ \A i \in 1 .. m : f[i] = Rule(f, i)
<1>3. ASSUME NEW f, NEW g, NEW i \in 1 .. n, list[i].level > 0 => f[Parent(list, i)] = g[Parent(list, i)]
      PROVE  Rule(f, i) = Rule(g, i)
  <2>1. list[i].level = 0 \/ list[i].level > 0 BY <1>2
  <2>2. CASE list[i].level = 0 BY <2>2 DEF RegistersAt
  <2>3. CASE list[i].level > 0
    <3>1. f[Parent(list, i)] = g[Parent(list, i)] BY <1>3, <2>3
    <3>2. QED BY <3>1, Zenon DEF RegistersAt
  <2>4. QED BY <2>1, <2>2, <2>3
<1> HIDE DEF Rule
<1>4. Upto(0)
  <2>1. PICK f : f = [i \in 1 .. n |-> 0] OBVIOUS
  <2>2. f = [i \in 1 .. n |-> f[i]] BY <2>1
  <2>3. QED BY <2>2
<1>5. ASSUME NEW m \in 1 .. n, Upto(m - 1) PROVE Upto(m)
  <2>1. PICK f : f = [i \in 1 .. n |-> f[i]] /\ \A i \in 1 .. m - 1 : f[i] = Rule(f, i) BY <1>5
  <2>2. PICK x : x = Rule(f, m) OBVIOUS
  <2>3. PICK g : g = [i \in 1 .. n |-> IF i = m THEN x ELSE f[i]] OBVIOUS
  <2>4. \A i \in 1 .. n : g[i] = IF i = m THEN x ELSE f[i] BY <2>3
  <2>5. g = [i \in 1 .. n |-> g[i]] BY <2>3
  <2>6. ASSUME NEW i \in 1 .. m PROVE g[i] = Rule(g, i)
    <3>1. i \in 1 .. n /\ (list[i].level > 0 => Parent(list, i) \in 1 .. n /\ Parent(list, i) # m)
      BY <1>2
    <3>2. list[i].level > 0 => f[Parent(list, i)] = g[Parent(list, i)] BY <2>4, <3>1, Zenon
    <3>3. Rule(f, i) = Rule(g, i) BY <1>3, <3>1, <3>2, Zenon
    <3>4. CASE i = m BY <2>2, <2>4, <3>1, <3>3, <3>4, Zenon
    <3>5. CASE i # m
      <4>1. i \in 1 .. m - 1 BY <3>5
      <4>2. QED BY <2>1, <2>4, <3>1, <3>3, <3>5, <4>1, Zenon
    <3>6. QED BY <3>4, <3>5
  <2>7. QED BY <2>5, <2>6
<1>6. Upto(n)
  <2> HIDE DEF Upto
  <2>1. PICK G : G = {m \in 0 .. n : Upto(m)} OBVIOUS
  <2>2. ASSUME NEW q \in 0 .. n, \A r \in 0 .. n : r < q => r \in G PROVE q \in G
    <3>1. CASE q = 0 BY <1>4, <2>1, <3>1
    <3>2. CASE q # 0
      <4>1. q \in 1 .. n /\ q - 1 \in 0 .. n /\ q - 1 < q BY <3>2
      <4>2. Upto(q - 1) BY <2>1, <2>2, <4>1
      <4>3. QED BY <1>5, <2>1, <4>1, <4>2
    <3>3. QED BY <3>1, <3>2
  <2>3. \A q \in 0 .. n : q \in G BY <2>2, UpFrom
  <2>4. QED BY <2>1, <2>3
<1>7. PICK f : f = [i \in 1 .. n |-> Rule(f, i)]
  <2>1. PICK f : f = [i \in 1 .. n |-> f[i]] /\ \A i \in 1 .. n : f[i] = Rule(f, i) BY <1>6
  <2>2. [i \in 1 .. n |-> f[i]] = [i \in 1 .. n |-> Rule(f, i)] BY <2>1
  <2>3. f = [i \in 1 .. n |-> Rule(f, i)] BY <2>1, <2>2, Zenon
  <2>4. QED BY <2>3
<1>8. PICK found : found = CHOOSE h : h = [i \in DOMAIN list |-> Rule(h, i)] OBVIOUS
<1>9. found = [i \in DOMAIN list |-> Rule(found, i)]
  <2>1. f = [i \in DOMAIN list |-> Rule(f, i)] BY <1>1, <1>7
  <2>2. QED BY <1>8, <2>1, Zenon
<1>10. \A i \in 1 .. n : found[i] = RegistersAt(list, found, i)
  <2>1. \A i \in 1 .. n : found[i] = Rule(found, i) BY <1>1, <1>9
  <2>2. QED BY <2>1, Zenon DEF Rule
<1>11. RegisterOf(list) = found BY <1>8, Zenon DEF RegisterOf, Rule, RegistersAt
<1>12. QED BY <1>1, <1>10, <1>11, Zenon

LEMMA SharesSolved ==
  ASSUME Nested(info)
  PROVE  \A p \in 1 .. Len(info) : SharedAs[p] = SharesAt(info, SharedAs, p)
<1>1. PICK n \in Nat : n = Len(info) /\ DOMAIN info = 1 .. n BY ListIsSeq DEF Nested
<1>2. \A i \in 1 .. n : /\ info[i].level > 0 => Parent(info, i) \in 1 .. n /\ Parent(info, i) \in 1 .. i - 1
                        /\ info[i].level \in Nat
  BY <1>1, ParentsBefore
<1> DEFINE Rule(f, i) == SharesAt(info, f, i)
           Upto(m) == \E f : f = [i \in 1 .. n |-> f[i]] /\ \A i \in 1 .. m : f[i] = Rule(f, i)
<1>3. ASSUME NEW f, NEW g, NEW i \in 1 .. n, info[i].level > 0 => f[Parent(info, i)] = g[Parent(info, i)]
      PROVE  Rule(f, i) = Rule(g, i)
  <2>1. info[i].level = 0 \/ info[i].level > 0 BY <1>2
  <2>2. CASE info[i].level = 0 BY <2>2 DEF SharesAt
  <2>3. CASE info[i].level > 0
    <3>1. f[Parent(info, i)] = g[Parent(info, i)] BY <1>3, <2>3
    <3>2. QED BY <3>1, Zenon DEF SharesAt
  <2>4. QED BY <2>1, <2>2, <2>3
<1> HIDE DEF Rule
<1>4. Upto(0)
  <2>1. PICK f : f = [i \in 1 .. n |-> 0] OBVIOUS
  <2>2. f = [i \in 1 .. n |-> f[i]] BY <2>1
  <2>3. QED BY <2>2
<1>5. ASSUME NEW m \in 1 .. n, Upto(m - 1) PROVE Upto(m)
  <2>1. PICK f : f = [i \in 1 .. n |-> f[i]] /\ \A i \in 1 .. m - 1 : f[i] = Rule(f, i) BY <1>5
  <2>2. PICK x : x = Rule(f, m) OBVIOUS
  <2>3. PICK g : g = [i \in 1 .. n |-> IF i = m THEN x ELSE f[i]] OBVIOUS
  <2>4. \A i \in 1 .. n : g[i] = IF i = m THEN x ELSE f[i] BY <2>3
  <2>5. g = [i \in 1 .. n |-> g[i]] BY <2>3
  <2>6. ASSUME NEW i \in 1 .. m PROVE g[i] = Rule(g, i)
    <3>1. i \in 1 .. n /\ (info[i].level > 0 => Parent(info, i) \in 1 .. n /\ Parent(info, i) # m)
      BY <1>2
    <3>2. info[i].level > 0 => f[Parent(info, i)] = g[Parent(info, i)] BY <2>4, <3>1, Zenon
    <3>3. Rule(f, i) = Rule(g, i) BY <1>3, <3>1, <3>2, Zenon
    <3>4. CASE i = m BY <2>2, <2>4, <3>1, <3>3, <3>4, Zenon
    <3>5. CASE i # m
      <4>1. i \in 1 .. m - 1 BY <3>5
      <4>2. QED BY <2>1, <2>4, <3>1, <3>3, <3>5, <4>1, Zenon
    <3>6. QED BY <3>4, <3>5
  <2>7. QED BY <2>5, <2>6
<1>6. Upto(n)
  <2> HIDE DEF Upto
  <2>1. PICK G : G = {m \in 0 .. n : Upto(m)} OBVIOUS
  <2>2. ASSUME NEW q \in 0 .. n, \A r \in 0 .. n : r < q => r \in G PROVE q \in G
    <3>1. CASE q = 0 BY <1>4, <2>1, <3>1
    <3>2. CASE q # 0
      <4>1. q \in 1 .. n /\ q - 1 \in 0 .. n /\ q - 1 < q BY <3>2
      <4>2. Upto(q - 1) BY <2>1, <2>2, <4>1
      <4>3. QED BY <1>5, <2>1, <4>1, <4>2
    <3>3. QED BY <3>1, <3>2
  <2>3. \A q \in 0 .. n : q \in G BY <2>2, UpFrom
  <2>4. QED BY <2>1, <2>3
<1>7. PICK f : f = [i \in 1 .. n |-> Rule(f, i)]
  <2>1. PICK f : f = [i \in 1 .. n |-> f[i]] /\ \A i \in 1 .. n : f[i] = Rule(f, i) BY <1>6
  <2>2. [i \in 1 .. n |-> f[i]] = [i \in 1 .. n |-> Rule(f, i)] BY <2>1
  <2>3. f = [i \in 1 .. n |-> Rule(f, i)] BY <2>1, <2>2, Zenon
  <2>4. QED BY <2>3
<1>8. PICK found : found = CHOOSE h : h = [i \in DOMAIN info |-> Rule(h, i)] OBVIOUS
<1>9. found = [i \in DOMAIN info |-> Rule(found, i)]
  <2>1. f = [i \in DOMAIN info |-> Rule(f, i)] BY <1>1, <1>7
  <2>2. QED BY <1>8, <2>1, Zenon
<1>10. \A i \in 1 .. n : found[i] = SharesAt(info, found, i)
  <2>1. \A i \in 1 .. n : found[i] = Rule(found, i) BY <1>1, <1>9
  <2>2. QED BY <2>1, Zenon DEF Rule
<1>11. SharedAs = found BY <1>8, Zenon DEF SharedAs, Rule, SharesAt
<1>12. QED BY <1>1, <1>10, <1>11, Zenon

\* What a wire of a unit is shared under at its own level.
UnitKey(list, p, w) ==
  IF list[p].unit.share = None \/ w \in list[p].unit.unshared THEN list[p].name ELSE GroupName(list[p].unit.share)
WiresOf(list, p) == 1 .. list[p].unit.decl.configs

\* A unit below the first level in the declaration of the composite it is in.
Within(list, p, P, inside, k) ==
  /\ P = Parent(list, p) /\ P \in 1 .. p - 1 /\ inside = list[P].unit.decl.info
  /\ k \in Children(inside, 0) /\ InDeclaration(list, p) = inside[k]
  /\ inside[k].unit = list[p].unit /\ inside[k].name = list[p].name
  /\ WiresOk(inside) /\ Apart(inside)
  /\ list[P].unit.decl.composite /\ list[P].unit.decl.configs = ConfigsOf(inside)
  /\ list[p].level = list[P].level + 1

Tidy(list) ==
  /\ Nested(list) /\ Marked(list) /\ Covered(list)
  /\ \A p \in 1 .. Len(list) : DeclOk(list[p].unit.decl)

LEMMA BelowIs ==
  ASSUME NEW list, Tidy(list), NEW p \in 1 .. Len(list), list[p].level # 0
  PROVE  \E P, inside, k : Within(list, p, P, inside, k)
<1>1. PICK n \in Nat : n = Len(list) /\ DOMAIN list = 1 .. n BY ListIsSeq DEF Nested, Tidy
<1>2. Nested(list) /\ \A q \in 1 .. n : DeclOk(list[q].unit.decl) BY <1>1 DEF Tidy
<1>3. PICK P \in 1 .. p - 1 : P = Parent(list, p) /\ P \in 1 .. n BY <1>1, <1>2, ParentsBefore
<1>4. PICK inside : inside = Inside(list, P) OBVIOUS
<1>5. DeclOk(list[P].unit.decl) /\ inside = list[P].unit.decl.info BY <1>2, <1>3, <1>4 DEF Inside
<1>6. Nested(inside) /\ IsSeq(inside) BY <1>5 DEF DeclOk, Nested
<1>7. PICK m \in Nat : m = Len(inside) /\ DOMAIN inside = 1 .. m BY <1>6, ListIsSeq
<1>8. EntryOk(list, p) /\ InsideOk(list, P) BY <1>1, <1>2, <1>3 DEF Nested
<1>9. PICK k \in 1 .. m : p = P + k
  <2>1. p <= P + m BY <1>3, <1>4, <1>7, <1>8 DEF EntryOk, Parent
  <2>2. p - P \in 1 .. m /\ p = P + (p - P) BY <1>3, <2>1
  <2>3. QED BY <2>2
<1>10. CopyOk(list, P, k) BY <1>4, <1>7, <1>8, <1>9 DEF InsideOk
<1>11. EntryOk(inside, k) BY <1>6, <1>7 DEF Nested
<1>12. list[p].outer = P + inside[k].outer /\ inside[k].outer \in 0 .. k - 1
  BY <1>4, <1>9, <1>10, <1>11 DEF CopyOk, EntryOk
<1>13. inside[k].outer = 0 BY <1>3, <1>12 DEF Parent
<1>14. inside[k].level = 0 /\ k \in Children(inside, 0)
  BY <1>7, <1>11, <1>13 DEF Children, Parent, EntryOk
<1>15. list[p].unit = inside[k].unit /\ list[p].name = inside[k].name
  BY <1>4, <1>9, <1>10 DEF CopyOk
<1>16. list[p].level = list[P].level + 1
  <2>1. list[p].level = list[P].level + 1 + inside[k].level BY <1>4, <1>9, <1>10 DEF CopyOk
  <2>2. list[P].level \in Nat BY <1>1, <1>2, <1>3 DEF Nested, EntryOk
  <2>3. QED BY <1>14, <2>1, <2>2
<1>17. InDeclaration(list, p) = inside[k]
  <2>1. p - P = k BY <1>3, <1>9
  <2>2. QED BY <1>3, <1>5, <2>1, Zenon DEF InDeclaration
<1>18. WiresOk(inside)
  <2>1. \A q \in 1 .. m : inside[q].level = 0 <=> inside[q].outer = 0
    BY <1>6, <1>7, Zenon DEF Nested, EntryOk
  <2>2. \A q \in Children(inside, 0) : inside[q].globalWires = TopWires(inside, q)
    BY <1>5, Zenon DEF DeclOk, Placed
  <2>3. \A q \in Children(inside, 0) : inside[q].unit.decl.configs \in Nat
    <3>1. \A j \in 1 .. m : inside[j].unit = list[P + j].unit /\ P + j \in 1 .. n
      BY <1>1, <1>3, <1>4, <1>7, <1>8 DEF InsideOk, CopyOk
    <3>2. \A j \in 1 .. m : inside[j].unit.decl.configs \in Nat BY <1>2, <3>1 DEF DeclOk, Numbers
    <3>3. QED BY <1>7, <3>2 DEF Children
  <2>4. QED BY <1>6, <1>7, <2>1, <2>2, <2>3, Zenon DEF WiresOk
<1>19. Apart(inside) BY <1>5 DEF DeclOk
<1>20. list[P].unit.decl.composite
  <2>1. inside # <<>> BY <1>7
  <2>2. QED BY <1>5, <2>1 DEF DeclOk
<1>21. list[P].unit.decl.configs = ConfigsOf(inside) BY <1>5, <1>20 DEF DeclOk
<1>22. Within(list, p, P, inside, k)
  BY <1>3, <1>5, <1>14, <1>15, <1>16, <1>17, <1>18, <1>19, <1>20, <1>21 DEF Within
<1>23. QED BY <1>22

\* The place of a wire in the module around its unit, and what it is shared under there.
LEMMA WireGoes ==
  ASSUME NEW inside, WiresOk(inside), NEW k \in Children(inside, 0), ~inside[k].unit.static,
         NEW w \in WiresOf(inside, k)
  PROVE  /\ KeyOf(inside, <<k, w>>) = <<UnitKey(inside, k, w), w>> /\ KeyOf(inside, <<k, w>>) \in KeysOf(inside)
         /\ DOMAIN inside[k].globalWires = WiresOf(inside, k)
         /\ inside[k].globalWires[w] = PlaceOf(inside, KeyOf(inside, <<k, w>>))
         /\ inside[k].globalWires[w] \in Nat /\ inside[k].globalWires[w] < ConfigsOf(inside)
<1>1. PICK c \in Nat : c = inside[k].unit.decl.configs BY DEF WiresOk
<1>2. w \in 1 .. c BY <1>1 DEF WiresOf
<1>3. KeyOf(inside, <<k, w>>) = <<UnitKey(inside, k, w), w>>
  <2>1. KeyOf(inside, <<k, w>>) = WireKeys(inside[k])[w] BY DEF KeyOf
  <2>2. QED BY <1>1, <1>2, <2>1 DEF WireKeys, UnitKey
<1>4. <<k, w>> \in MetWires(inside) BY <1>1, <1>2 DEF MetWires
<1>5. KeyOf(inside, <<k, w>>) \in KeysOf(inside) BY <1>4 DEF KeysOf
<1>6. /\ DOMAIN inside[k].globalWires = 1 .. c
      /\ inside[k].globalWires[w] = PlaceOf(inside, KeyOf(inside, <<k, w>>))
  <2>1. inside[k].globalWires = TopWires(inside, k) BY DEF WiresOk
  <2>2. QED BY <1>1, <1>2, <2>1, TopWiresAre
<1>7. /\ PlaceOf(inside, KeyOf(inside, <<k, w>>)) \in Nat
      /\ PlaceOf(inside, KeyOf(inside, <<k, w>>)) < Cardinality(KeysOf(inside))
  BY <1>5, WiresFinite, PlacesApart
<1>8. ConfigsOf(inside) = Cardinality(KeysOf(inside)) BY ConfigsAreKeys
<1>9. QED BY <1>1, <1>3, <1>5, <1>6, <1>7, <1>8 DEF WiresOf

LEMMA WiresApart ==
  ASSUME NEW inside, WiresOk(inside), NEW k \in Children(inside, 0), ~inside[k].unit.static,
         NEW v \in WiresOf(inside, k), NEW l \in Children(inside, 0), ~inside[l].unit.static,
         NEW w \in WiresOf(inside, l)
  PROVE  inside[k].globalWires[v] = inside[l].globalWires[w]
           <=> UnitKey(inside, k, v) = UnitKey(inside, l, w) /\ v = w
<1>1. /\ KeyOf(inside, <<k, v>>) = <<UnitKey(inside, k, v), v>> /\ KeyOf(inside, <<k, v>>) \in KeysOf(inside)
      /\ inside[k].globalWires[v] = PlaceOf(inside, KeyOf(inside, <<k, v>>))
  BY WireGoes
<1>2. /\ KeyOf(inside, <<l, w>>) = <<UnitKey(inside, l, w), w>> /\ KeyOf(inside, <<l, w>>) \in KeysOf(inside)
      /\ inside[l].globalWires[w] = PlaceOf(inside, KeyOf(inside, <<l, w>>))
  BY WireGoes
<1>3. PICK x, y : x = KeyOf(inside, <<k, v>>) /\ y = KeyOf(inside, <<l, w>>) OBVIOUS
<1>4. PlaceOf(inside, x) = PlaceOf(inside, y) <=> x = y
  <2>1. MetWires(inside) \in SUBSET Spots /\ IsFiniteSet(KeysOf(inside)) BY WiresFinite
  <2>2. \A key, other \in KeysOf(inside) : PlaceOf(inside, key) = PlaceOf(inside, other) => key = other
    BY <2>1, PlacesApart
  <2>3. QED BY <1>1, <1>2, <1>3, <2>2
<1>5. x = y <=> UnitKey(inside, k, v) = UnitKey(inside, l, w) /\ v = w BY <1>1, <1>2, <1>3
<1>6. QED BY <1>1, <1>2, <1>3, <1>4, <1>5

\* What is shared under one key is of one type.
LEMMA KeysAlike ==
  ASSUME NEW inside, Apart(inside), NEW k \in Children(inside, 0), NEW v, NEW l \in Children(inside, 0), NEW w,
         UnitKey(inside, k, v) = UnitKey(inside, l, w)
  PROVE  inside[k].unit.decl = inside[l].unit.decl
<1>1. /\ inside[k].name = inside[l].name => k = l
      /\ inside[k].name[1] # "share" /\ inside[l].name[1] # "share"
      /\ inside[k].unit.share = inside[l].unit.share /\ inside[k].unit.share # None =>
           inside[k].unit.decl = inside[l].unit.decl
  BY Zenon DEF Apart
<1>2. \A s : GroupName(s)[1] = "share" /\ GroupName(s)[2] = s BY DEF GroupName
<1>3. PICK a, b : a = UnitKey(inside, k, v) /\ b = UnitKey(inside, l, w) OBVIOUS
<1>4. \/ a = inside[k].name
      \/ a = GroupName(inside[k].unit.share) /\ inside[k].unit.share # None
  BY <1>3, Zenon DEF UnitKey
<1>5. \/ b = inside[l].name
      \/ b = GroupName(inside[l].unit.share) /\ inside[l].unit.share # None
  BY <1>3, Zenon DEF UnitKey
<1>6. a = b BY <1>3
<1>7. QED BY <1>1, <1>2, <1>4, <1>5, <1>6

\* An accelerator with its registers, and what their wires are shared under.
Wired(list, reg, shared) ==
  /\ Tidy(list)
  /\ \A p \in 1 .. Len(list) : reg[p] = RegistersAt(list, reg, p) /\ shared[p] = SharesAt(list, shared, p)
  /\ \A p \in Children(list, 0) : DOMAIN list[p].wires = WiresOf(list, p) /\ list[p].unit.share = None
  /\ \A p, q \in Children(list, 0) : WiresOf(list, p) # {} /\ WiresOf(list, q) # {} => p = q

LEMMA RegisterIs ==
  ASSUME NEW list, NEW reg, NEW shared, Wired(list, reg, shared),
         NEW p \in Children(list, 0), NEW w \in WiresOf(list, p)
  PROVE  reg[p][w] = w - 1 /\ shared[p][w] = <<list[p].name>>
<1>1. PICK n \in Nat : n = Len(list) /\ DOMAIN list = 1 .. n BY ListIsSeq DEF Wired, Tidy, Nested
<1>2. p \in 1 .. n /\ list[p].outer = 0 BY <1>1 DEF Children, Parent
<1>3. list[p].level = 0 BY <1>1, <1>2, Zenon DEF Wired, Tidy, Nested, EntryOk
<1>4. DOMAIN list[p].wires = WiresOf(list, p) /\ list[p].unit.share = None BY Zenon DEF Wired
<1>5. reg[p] = RegistersAt(list, reg, p) /\ shared[p] = SharesAt(list, shared, p)
  BY <1>1, <1>2, Zenon DEF Wired
<1>6. reg[p] = [x \in WiresOf(list, p) |-> x - 1] BY <1>3, <1>4, <1>5 DEF RegistersAt
<1>7. reg[p][w] = w - 1 BY <1>6
<1>8. shared[p][w] = <<list[p].name>> BY <1>3, <1>4, <1>5 DEF SharesAt, WiresOf
<1>9. QED BY <1>7, <1>8

\* A wire has the register of the wire of the composite it is connected to.
Led(list, reg, shared, p, w, P, inside, k, x) ==
  /\ Within(list, p, P, inside, k) /\ ~list[P].globallyStatic /\ ~inside[k].unit.static
  /\ w \in WiresOf(inside, k) /\ UnitKey(inside, k, w) = UnitKey(list, p, w)
  /\ x = inside[k].globalWires[w] + 1 /\ inside[k].globalWires[w] \in Nat /\ x \in WiresOf(list, P)
  /\ reg[p][w] = reg[P][x] /\ shared[p][w] = Append(shared[P][x], UnitKey(list, p, w))

LEMMA RegisterWithin ==
  ASSUME NEW list, NEW reg, NEW shared, Wired(list, reg, shared), NEW p \in 1 .. Len(list),
         list[p].level # 0, ~list[p].globallyStatic, NEW w \in WiresOf(list, p)
  PROVE  \E P, inside, k, x : Led(list, reg, shared, p, w, P, inside, k, x)
<1>1. PICK n \in Nat : n = Len(list) /\ DOMAIN list = 1 .. n BY ListIsSeq DEF Wired, Tidy, Nested
<1>2. Tidy(list) BY DEF Wired
<1>3. PICK P, inside, k : Within(list, p, P, inside, k) BY <1>2, BelowIs, Zenon
<1>4. /\ P = Parent(list, p) /\ P \in 1 .. p - 1
      /\ k \in Children(inside, 0) /\ InDeclaration(list, p) = inside[k]
      /\ inside[k].unit = list[p].unit /\ inside[k].name = list[p].name
      /\ WiresOk(inside) /\ list[P].unit.decl.configs = ConfigsOf(inside)
  BY <1>3 DEF Within
<1>5. list[p].level \in Nat BY <1>1, <1>2 DEF Tidy, Nested, EntryOk
<1>6. ~list[P].globallyStatic
  <2>1. list[p].level > 0 BY <1>5
  <2>2. QED BY <1>2, <1>4, <2>1, Zenon DEF Tidy, Covered
<1>7. ~inside[k].unit.static BY <1>2, <1>4, Zenon DEF Tidy, Marked
<1>8. w \in WiresOf(inside, k) /\ WiresOf(inside, k) = WiresOf(list, p) BY <1>4 DEF WiresOf
<1>9. PICK g : g = inside[k].globalWires[w] OBVIOUS
<1>10. DOMAIN inside[k].globalWires = WiresOf(inside, k) /\ g \in Nat /\ g < ConfigsOf(inside)
  BY <1>4, <1>7, <1>8, <1>9, WireGoes
<1>11. ConfigsOf(inside) \in Nat BY <1>4, ConfigsAreKeys
<1>12. g + 1 \in WiresOf(list, P) /\ g # None BY <1>4, <1>10, <1>11 DEF WiresOf, None
<1>13. reg[p] = RegistersAt(list, reg, p) /\ shared[p] = SharesAt(list, shared, p)
  BY <1>1, Zenon DEF Wired
<1>14. reg[p][w] = reg[P][g + 1]
  <2>1. RegistersAt(list, reg, p) =
          [y \in DOMAIN inside[k].globalWires |->
             IF inside[k].globalWires[y] = None THEN None ELSE reg[P][inside[k].globalWires[y] + 1]]
    BY <1>4, Zenon DEF RegistersAt
  <2>2. w \in DOMAIN inside[k].globalWires BY <1>8, <1>10
  <2>3. QED BY <1>9, <1>12, <1>13, <2>1, <2>2
<1>15. shared[p][w] = Append(shared[P][g + 1], UnitKey(list, p, w))
  <2>1. SharesAt(list, shared, p) =
          [y \in WiresOf(list, p) |-> Append(shared[P][inside[k].globalWires[y] + 1], UnitKey(list, p, y))]
    BY <1>4, Zenon DEF SharesAt, UnitKey, WiresOf
  <2>2. QED BY <1>9, <1>13, <2>1
<1>16. UnitKey(inside, k, w) = UnitKey(list, p, w) BY <1>4, Zenon DEF UnitKey
<1>17. PICK x : x = g + 1 OBVIOUS
<1>18. Led(list, reg, shared, p, w, P, inside, k, x)
  BY <1>3, <1>6, <1>7, <1>8, <1>9, <1>10, <1>12, <1>14, <1>15, <1>16, <1>17 DEF Led
<1>19. QED BY <1>18

AnyKey(list) == {UnitKey(list, y[1], y[2]) : y \in Spots} \cup {list[p].name : p \in 1 .. Len(list)}

\* One key for every level.
LEMMA SharedLength ==
  ASSUME NEW list, NEW reg, NEW shared, Wired(list, reg, shared)
  PROVE  \A p \in 1 .. Len(list) : ~list[p].globallyStatic =>
           \A w \in WiresOf(list, p) :
             shared[p][w] \in Seq(AnyKey(list)) /\ Len(shared[p][w]) = list[p].level + 1
<1>1. PICK n \in Nat : n = Len(list) /\ DOMAIN list = 1 .. n BY ListIsSeq DEF Wired, Tidy, Nested
<1>2. PICK S : S = AnyKey(list) OBVIOUS
<1> DEFINE Good(p) == ~list[p].globallyStatic =>
                        \A w \in WiresOf(list, p) : shared[p][w] \in Seq(S) /\ Len(shared[p][w]) = list[p].level + 1
<1>3. PICK G : G = {p \in 0 .. n : p > 0 => Good(p)} OBVIOUS
<1>4. ASSUME NEW p \in 0 .. n, \A r \in 0 .. n : r < p => r \in G PROVE p \in G
  <2>1. CASE p = 0 BY <1>3, <2>1
  <2>2. CASE p # 0
    <3>1. p \in 1 .. n BY <2>2
    <3>2. SUFFICES ASSUME ~list[p].globallyStatic, NEW w \in WiresOf(list, p)
                   PROVE  shared[p][w] \in Seq(S) /\ Len(shared[p][w]) = list[p].level + 1
      BY <1>3
    <3>3. CASE list[p].level = 0
      <4>1. p \in Children(list, 0)
        <5>1. list[p].outer = 0 BY <1>1, <3>1, <3>3, Zenon DEF Wired, Tidy, Nested, EntryOk
        <5>2. QED BY <1>1, <3>1, <5>1 DEF Children, Parent
      <4>2. shared[p][w] = <<list[p].name>> BY <3>2, <4>1, RegisterIs
      <4>3. list[p].name \in S BY <1>1, <1>2, <3>1 DEF AnyKey
      <4>4. PICK x \in S : x = list[p].name BY <4>3
      <4>5. <<x>> \in Seq(S) /\ Len(<<x>>) = 1 OBVIOUS
      <4>6. shared[p][w] = <<x>> BY <4>2, <4>4
      <4>7. QED BY <3>3, <4>5, <4>6
    <3>4. CASE list[p].level # 0
      <4>1. PICK P, inside, k, x : Led(list, reg, shared, p, w, P, inside, k, x)
        BY <1>1, <3>1, <3>2, <3>4, RegisterWithin, Zenon
      <4>2. /\ P \in 1 .. p - 1 /\ list[p].level = list[P].level + 1 /\ ~list[P].globallyStatic
            /\ x \in WiresOf(list, P) /\ shared[p][w] = Append(shared[P][x], UnitKey(list, p, w))
        BY <4>1, Zenon DEF Led, Within
      <4>3. P \in 0 .. n /\ P < p /\ P > 0 BY <3>1, <4>2
      <4>4. shared[P][x] \in Seq(S) /\ Len(shared[P][x]) = list[P].level + 1
        <5>1. P \in G BY <1>4, <4>3
        <5>2. Good(P) BY <1>3, <4>3, <5>1
        <5>3. QED BY <4>2, <5>2
      <4>5. UnitKey(list, p, w) \in S
        <5>1. w \in Nat
          <6>1. list[p].unit.decl.configs \in Nat BY <1>1, <3>1 DEF Wired, Tidy, DeclOk, Numbers
          <6>2. QED BY <3>2, <6>1 DEF WiresOf
        <5>2. <<p, w>> \in Spots BY <3>1, <5>1 DEF Spots
        <5>3. PICK y \in Spots : y = <<p, w>> BY <5>2
        <5>4. y[1] = p /\ y[2] = w BY <5>3
        <5>5. UnitKey(list, y[1], y[2]) \in {UnitKey(list, z[1], z[2]) : z \in Spots} BY Zenon
        <5>6. QED BY <1>2, <5>4, <5>5, Zenon DEF AnyKey
      <4>6. PICK s, e : s = shared[P][x] /\ e = UnitKey(list, p, w) OBVIOUS
      <4>7. s \in Seq(S) /\ e \in S BY <4>4, <4>5, <4>6
      <4>8. Append(s, e) \in Seq(S) /\ Len(Append(s, e)) = Len(s) + 1 BY <4>7, AppendProperties
      <4>9. QED BY <4>2, <4>4, <4>6, <4>8
    <3>5. QED BY <3>3, <3>4
  <2>3. QED BY <2>1, <2>2
<1>5. \A p \in 0 .. n : p \in G BY <1>4, UpFrom, Zenon
<1>6. \A p \in 1 .. n : Good(p)
  <2>1. \A p \in 1 .. n : p \in 0 .. n /\ p > 0 OBVIOUS
  <2>2. QED BY <1>3, <1>5, <2>1
<1>7. QED BY <1>1, <1>2, <1>6

\* Two wires at one level have one register exactly if they are shared, and what is shared is of
\* one type.
MeetAt(list, reg, shared, p, v, q, w) ==
  /\ shared[p][v] = shared[q][w] => list[p].unit.decl = list[q].unit.decl
  /\ reg[p][v] = reg[q][w] <=> shared[p][v] = shared[q][w] /\ v = w
Peers(list, p, q) ==
  list[p].level = list[q].level /\ ~list[p].globallyStatic /\ ~list[q].globallyStatic
Meets(list, reg, shared, p) ==
  \A q \in 1 .. Len(list) : Peers(list, p, q) =>
    \A v \in WiresOf(list, p), w \in WiresOf(list, q) : MeetAt(list, reg, shared, p, v, q, w)

LEMMA MeetWithin ==
  ASSUME NEW list, NEW reg, NEW shared, Wired(list, reg, shared),
         NEW p \in 1 .. Len(list), NEW q \in 1 .. Len(list), Peers(list, p, q), list[p].level # 0,
         NEW v \in WiresOf(list, p), NEW w \in WiresOf(list, q),
         \A r \in 1 .. p - 1 : Meets(list, reg, shared, r)
  PROVE  MeetAt(list, reg, shared, p, v, q, w)
<1>1. PICK n \in Nat : n = Len(list) /\ DOMAIN list = 1 .. n BY ListIsSeq DEF Wired, Tidy, Nested
<1>2. list[p].level = list[q].level /\ ~list[p].globallyStatic /\ ~list[q].globallyStatic /\ list[q].level # 0
  BY DEF Peers
<1>3. PICK P, mine, k, x : Led(list, reg, shared, p, v, P, mine, k, x)
  BY <1>2, RegisterWithin, Zenon
<1>4. PICK Q, theirs, l, y : Led(list, reg, shared, q, w, Q, theirs, l, y)
  BY <1>2, RegisterWithin, Zenon
<1>5. /\ P \in 1 .. p - 1 /\ mine = list[P].unit.decl.info /\ k \in Children(mine, 0) /\ WiresOk(mine) /\ Apart(mine)
      /\ list[p].level = list[P].level + 1 /\ ~list[P].globallyStatic
      /\ ~mine[k].unit.static /\ v \in WiresOf(mine, k) /\ UnitKey(mine, k, v) = UnitKey(list, p, v)
      /\ x = mine[k].globalWires[v] + 1 /\ mine[k].globalWires[v] \in Nat /\ x \in WiresOf(list, P)
      /\ reg[p][v] = reg[P][x] /\ shared[p][v] = Append(shared[P][x], UnitKey(list, p, v))
      /\ mine[k].unit = list[p].unit
  BY <1>3, Zenon DEF Led, Within
<1>6. /\ Q \in 1 .. q - 1 /\ theirs = list[Q].unit.decl.info /\ l \in Children(theirs, 0) /\ WiresOk(theirs) /\ Apart(theirs)
      /\ list[q].level = list[Q].level + 1 /\ ~list[Q].globallyStatic
      /\ ~theirs[l].unit.static /\ w \in WiresOf(theirs, l) /\ UnitKey(theirs, l, w) = UnitKey(list, q, w)
      /\ y = theirs[l].globalWires[w] + 1 /\ theirs[l].globalWires[w] \in Nat /\ y \in WiresOf(list, Q)
      /\ reg[q][w] = reg[Q][y] /\ shared[q][w] = Append(shared[Q][y], UnitKey(list, q, w))
      /\ theirs[l].unit = list[q].unit
  BY <1>4, Zenon DEF Led, Within
<1>7. P \in 1 .. n /\ Q \in 1 .. n
  <2>1. p \in 1 .. n /\ q \in 1 .. n /\ n \in Nat BY <1>1
  <2>2. P \in 1 .. p - 1 /\ Q \in 1 .. q - 1 BY <1>5, <1>6, Zenon
  <2>3. QED BY ONLY <2>1, <2>2
<1>8. list[P].level = list[Q].level
  <2>1. list[P].level \in Nat /\ list[Q].level \in Nat
    BY <1>1, <1>7 DEF Wired, Tidy, Nested, EntryOk
  <2>2. list[P].level + 1 = list[Q].level + 1 BY <1>2, <1>5, <1>6, Zenon
  <2>3. QED BY ONLY <2>1, <2>2
<1>9. MeetAt(list, reg, shared, P, x, Q, y)
  <2>1. Meets(list, reg, shared, P) BY <1>5
  <2>2. Peers(list, P, Q) BY <1>5, <1>6, <1>8 DEF Peers
  <2>3. QED BY <1>1, <1>5, <1>6, <1>7, <2>1, <2>2, Zenon DEF Meets
<1>10. /\ shared[P][x] = shared[Q][y] => list[P].unit.decl = list[Q].unit.decl
       /\ reg[P][x] = reg[Q][y] <=> shared[P][x] = shared[Q][y] /\ x = y
  BY <1>9 DEF MeetAt
<1>11. shared[p][v] = shared[q][w] <=> shared[P][x] = shared[Q][y] /\ UnitKey(list, p, v) = UnitKey(list, q, w)
  <2>1. PICK S : S = AnyKey(list) \cup {UnitKey(list, p, v), UnitKey(list, q, w)} OBVIOUS
  <2>2. PICK s, t, e, f : /\ s = shared[P][x] /\ t = shared[Q][y]
                          /\ e = UnitKey(list, p, v) /\ f = UnitKey(list, q, w)
    OBVIOUS
  <2>3. s \in Seq(AnyKey(list)) /\ t \in Seq(AnyKey(list))
    BY <1>1, <1>5, <1>6, <1>7, <2>2, SharedLength
  <2>4. s \in Seq(S) /\ t \in Seq(S) /\ e \in S /\ f \in S BY <2>1, <2>2, <2>3, SeqMonotonic
  <2>5. Append(s, e) = Append(t, f) <=> s = t /\ e = f BY <2>4, AppendInjective
  <2>6. QED BY <1>5, <1>6, <2>2, <2>5, Zenon
<1>12. ASSUME list[P].unit.decl = list[Q].unit.decl
       PROVE  /\ mine = theirs
              /\ UnitKey(list, p, v) = UnitKey(list, q, w) => list[p].unit.decl = list[q].unit.decl
              /\ x = y <=> UnitKey(list, p, v) = UnitKey(list, q, w) /\ v = w
  <2>1. mine = theirs BY <1>5, <1>6, <1>12, Zenon
  <2>2. /\ k \in Children(mine, 0) /\ ~mine[k].unit.static /\ v \in WiresOf(mine, k)
        /\ l \in Children(mine, 0) /\ ~mine[l].unit.static /\ w \in WiresOf(mine, l)
    BY <1>5, <1>6, <2>1, Zenon
  <2>3. WiresOk(mine) /\ Apart(mine) BY <1>5, Zenon
  <2>4. UnitKey(mine, k, v) = UnitKey(mine, l, w) => mine[k].unit.decl = mine[l].unit.decl
    BY <2>2, <2>3, KeysAlike, Zenon
  <2>5. mine[k].globalWires[v] = mine[l].globalWires[w] <=> UnitKey(mine, k, v) = UnitKey(mine, l, w) /\ v = w
    BY ONLY <2>2, <2>3, WiresApart
  <2>6. x = y <=> mine[k].globalWires[v] = mine[l].globalWires[w]
    <3>1. PICK g, h : g = mine[k].globalWires[v] /\ h = mine[l].globalWires[w] OBVIOUS
    <3>2. g \in Nat /\ h \in Nat /\ x = g + 1 /\ y = h + 1 BY <1>5, <1>6, <2>1, <3>1, Zenon
    <3>3. x = y <=> g = h BY ONLY <3>2
    <3>4. QED BY <3>1, <3>3, Zenon
  <2>7. /\ UnitKey(mine, k, v) = UnitKey(list, p, v) /\ mine[k].unit = list[p].unit
        /\ UnitKey(mine, l, w) = UnitKey(list, q, w) /\ mine[l].unit = list[q].unit
    BY <1>5, <1>6, <2>1, Zenon
  <2>8. QED BY <2>1, <2>4, <2>5, <2>6, <2>7, Zenon
<1>13. shared[p][v] = shared[q][w] => list[p].unit.decl = list[q].unit.decl
  BY <1>10, <1>11, <1>12, Zenon
<1>14. reg[p][v] = reg[q][w] <=> shared[p][v] = shared[q][w] /\ v = w
  <2>1. reg[p][v] = reg[q][w] <=> shared[P][x] = shared[Q][y] /\ x = y BY <1>5, <1>6, <1>10, Zenon
  <2>2. QED BY <1>10, <1>11, <1>12, <2>1, Zenon
<1>15. QED BY <1>13, <1>14, Zenon DEF MeetAt

LEMMA AllMeet ==
  ASSUME NEW list, NEW reg, NEW shared, Wired(list, reg, shared)
  PROVE  \A p \in 1 .. Len(list) : Meets(list, reg, shared, p)
<1>1. PICK n \in Nat : n = Len(list) /\ DOMAIN list = 1 .. n BY ListIsSeq DEF Wired, Tidy, Nested
<1>2. PICK G : G = {p \in 0 .. n : p > 0 => Meets(list, reg, shared, p)} OBVIOUS
<1>3. ASSUME NEW p \in 0 .. n, \A r \in 0 .. n : r < p => r \in G PROVE p \in G
  <2>1. CASE p = 0 BY <1>2, <2>1
  <2>2. CASE p # 0
    <3>1. p \in 1 .. n BY <2>2
    <3>2. \A r \in 1 .. p - 1 : Meets(list, reg, shared, r)
      <4>1. TAKE r \in 1 .. p - 1
      <4>2. r \in 0 .. n /\ r < p /\ r > 0 BY <3>1
      <4>3. QED BY <1>2, <1>3, <4>2
    <3>3. ASSUME NEW q \in 1 .. n, Peers(list, p, q), NEW v \in WiresOf(list, p), NEW w \in WiresOf(list, q)
          PROVE  MeetAt(list, reg, shared, p, v, q, w)
      <4>1. CASE list[p].level # 0 BY <1>1, <3>1, <3>2, <3>3, <4>1, MeetWithin, Zenon
      <4>2. CASE list[p].level = 0
        <5>1. list[q].level = 0 BY <3>3, <4>2 DEF Peers
        <5>2. list[p].outer = 0 /\ list[q].outer = 0
          BY <1>1, <3>1, <4>2, <5>1, Zenon DEF Wired, Tidy, Nested, EntryOk
        <5>3. p \in Children(list, 0) /\ q \in Children(list, 0)
          BY <1>1, <3>1, <5>2 DEF Children, Parent
        <5>4. p = q BY <3>3, <5>3, Zenon DEF Wired
        <5>5. reg[p][v] = v - 1 /\ reg[q][w] = w - 1 /\ shared[p][v] = shared[q][w]
          BY <3>3, <5>3, <5>4, RegisterIs
        <5>6. v \in Int /\ w \in Int BY <3>3 DEF WiresOf
        <5>7. QED BY <5>4, <5>5, <5>6 DEF MeetAt
      <4>3. QED BY <4>1, <4>2
    <3>4. Meets(list, reg, shared, p) BY <1>1, <3>3, Zenon DEF Meets
    <3>5. QED BY <1>2, <3>4
  <2>3. QED BY <2>1, <2>2
<1>4. \A p \in 0 .. n : p \in G BY <1>3, UpFrom, Zenon
<1>5. \A p \in 1 .. n : p \in 0 .. n /\ p > 0 OBVIOUS
<1>6. QED BY <1>1, <1>2, <1>4, <1>5

\* A unit of the library has no register of a unit deeper than it.
Deeper(list, reg, p, q) ==
  ~list[q].globallyStatic /\ list[p].level < list[q].level =>
    \A v \in WiresOf(list, p), w \in WiresOf(list, q) : reg[p][v] # reg[q][w]

LEMMA DeeperApart ==
  ASSUME NEW list, NEW reg, NEW shared, Wired(list, reg, shared),
         NEW p \in 1 .. Len(list), ~list[p].globallyStatic, ~list[p].unit.decl.composite
  PROVE  \A q \in 1 .. Len(list) : Deeper(list, reg, p, q)
<1>1. PICK n \in Nat : n = Len(list) /\ DOMAIN list = 1 .. n BY ListIsSeq DEF Wired, Tidy, Nested
<1>2. PICK G : G = {q \in 0 .. n : q > 0 => Deeper(list, reg, p, q)} OBVIOUS
<1>3. \A q \in 1 .. n : list[q].level \in Nat BY <1>1 DEF Wired, Tidy, Nested, EntryOk
<1>4. ASSUME NEW q \in 0 .. n, \A r \in 0 .. n : r < q => r \in G PROVE q \in G
  <2>1. CASE q = 0 BY <1>2, <2>1
  <2>2. CASE q # 0
    <3>1. q \in 1 .. n BY <2>2
    <3>2. ASSUME ~list[q].globallyStatic, list[p].level < list[q].level,
                 NEW v \in WiresOf(list, p), NEW w \in WiresOf(list, q)
          PROVE  reg[p][v] # reg[q][w]
      <4>1. list[q].level # 0 BY <1>1, <1>3, <3>2
      <4>2. PICK Q, inside, k, x : Led(list, reg, shared, q, w, Q, inside, k, x)
        BY <1>1, <3>1, <3>2, <4>1, RegisterWithin, Zenon
      <4>3. /\ Q \in 1 .. q - 1 /\ list[q].level = list[Q].level + 1 /\ ~list[Q].globallyStatic
            /\ x \in WiresOf(list, Q) /\ reg[q][w] = reg[Q][x] /\ list[Q].unit.decl.composite
        BY <4>2, Zenon DEF Led, Within
      <4>4. Q \in 0 .. n /\ Q < q /\ Q > 0 /\ Q \in 1 .. n BY <3>1, <4>3
      <4>5. CASE list[p].level = list[Q].level
        <5>1. MeetAt(list, reg, shared, p, v, Q, x)
          <6>1. Peers(list, p, Q) BY <4>3, <4>5 DEF Peers
          <6>2. Meets(list, reg, shared, p) BY AllMeet, Zenon
          <6>3. QED BY <1>1, <3>2, <4>3, <4>4, <6>1, <6>2, Zenon DEF Meets
        <5>2. reg[p][v] = reg[Q][x] => list[p].unit.decl = list[Q].unit.decl
          BY <5>1, Zenon DEF MeetAt
        <5>3. QED BY <4>3, <5>2
      <4>6. CASE list[p].level # list[Q].level
        <5>1. list[p].level < list[Q].level BY <1>1, <1>3, <3>2, <4>3, <4>4, <4>6
        <5>2. Deeper(list, reg, p, Q) BY <1>2, <1>4, <4>4
        <5>3. reg[p][v] # reg[Q][x] BY <3>2, <4>3, <5>1, <5>2, Zenon DEF Deeper
        <5>4. QED BY <4>3, <5>3
      <4>7. QED BY <4>5, <4>6
    <3>3. Deeper(list, reg, p, q) BY <3>2, Zenon DEF Deeper
    <3>4. QED BY <1>2, <3>3
  <2>3. QED BY <2>1, <2>2
<1>5. \A q \in 0 .. n : q \in G BY <1>4, UpFrom, Zenon
<1>6. \A q \in 1 .. n : q \in 0 .. n /\ q > 0 OBVIOUS
<1>7. QED BY <1>1, <1>2, <1>5, <1>6

LEMMA RegistersMeet ==
  ASSUME NEW list, NEW reg, NEW shared, Wired(list, reg, shared),
         NEW p \in 1 .. Len(list), ~list[p].globallyStatic, ~list[p].unit.decl.composite,
         NEW q \in 1 .. Len(list), ~list[q].globallyStatic, ~list[q].unit.decl.composite,
         NEW v \in WiresOf(list, p), NEW w \in WiresOf(list, q)
  PROVE  reg[p][v] = reg[q][w] <=> shared[p][v] = shared[q][w] /\ v = w
<1>1. PICK n \in Nat : n = Len(list) /\ DOMAIN list = 1 .. n BY ListIsSeq DEF Wired, Tidy, Nested
<1>2. list[p].level \in Nat /\ list[q].level \in Nat BY <1>1 DEF Wired, Tidy, Nested, EntryOk
<1>3. Len(shared[p][v]) = list[p].level + 1 /\ Len(shared[q][w]) = list[q].level + 1 BY SharedLength
<1>4. CASE list[p].level = list[q].level
  <2>1. Peers(list, p, q) /\ Meets(list, reg, shared, p) BY <1>4, AllMeet, Zenon DEF Peers
  <2>2. MeetAt(list, reg, shared, p, v, q, w) BY <2>1, Zenon DEF Meets
  <2>3. QED BY <2>2, Zenon DEF MeetAt
<1>5. CASE list[p].level # list[q].level
  <2>1. shared[p][v] # shared[q][w] BY <1>2, <1>3, <1>5
  <2>2. Deeper(list, reg, p, q) /\ Deeper(list, reg, q, p) BY DeeperApart, Zenon
  <2>3. list[p].level < list[q].level \/ list[q].level < list[p].level BY <1>2, <1>5
  <2>4. reg[p][v] # reg[q][w] BY <2>2, <2>3, Zenon DEF Deeper
  <2>5. QED BY <2>1, <2>4
<1>6. QED BY <1>4, <1>5

\* Whatever the library and the program, and however modules are nested and their units shared,
\* wholly or but for some wires, two wires have one configuration register exactly if the
\* specification shares them: the places of the first level are handed out key by key
\* (configurations.cpp:775-832) and the modules emitted lead the ports to them
\* (codeGeneration.cpp:571-575).
THEOREM RegistersAreShared == Spec => []OneRegisterPerSharedWire
<1>1. UnitsInv => OneRegisterPerSharedWire
  <2>1. SUFFICES ASSUME UnitsInv, stage = "done", NEW p \in Configured, NEW q \in Configured,
                        NEW v \in 1 .. info[p].unit.decl.configs, NEW w \in 1 .. info[q].unit.decl.configs
                 PROVE  RegisterOf(info)[p][v] = RegisterOf(info)[q][w] <=> SharedAs[p][v] = SharedAs[q][w] /\ v = w
    BY Zenon DEF OneRegisterPerSharedWire, Finished
  <2>2. PICK list : list = info OBVIOUS
  <2>3. PICK reg, shared : reg = RegisterOf(info) /\ shared = SharedAs OBVIOUS
  <2>4. CircuitOk(circuit) /\ OneWired(circuit) /\ info = CalculateAcceleratorInfo(circuit, "TOP")
    BY <2>1 DEF UnitsInv, DoneInv
  <2>5. InfoOk(circuit, list)
    <3>1. InfoOk(circuit, CalculateAcceleratorInfo(circuit, "TOP")) BY <2>4, Calculated, Zenon
    <3>2. QED BY <2>2, <2>4, <3>1, Zenon
  <2>6. PICK n \in Nat : n = Len(list) /\ DOMAIN list = 1 .. n BY <2>5, ListIsSeq DEF InfoOk, Nested
  <2>7. Tidy(list) BY <2>5, Zenon DEF Tidy, InfoOk
  <2>8. \A r \in 1 .. Len(list) : reg[r] = RegistersAt(list, reg, r) /\ shared[r] = SharesAt(list, shared, r)
    <3>1. Nested(list) /\ Nested(info) BY <2>2, <2>7 DEF Tidy
    <3>2. \A r \in 1 .. Len(list) : reg[r] = RegistersAt(list, reg, r)
      BY <2>2, <2>3, <3>1, RegistersSolved, Zenon
    <3>3. \A r \in 1 .. Len(info) : SharedAs[r] = SharesAt(info, SharedAs, r)
      BY <3>1, SharesSolved, Zenon
    <3>4. QED BY <2>2, <2>3, <3>2, <3>3, Zenon
  <2>9. ASSUME NEW r \in Children(list, 0)
        PROVE  /\ DOMAIN list[r].wires = WiresOf(list, r) /\ list[r].unit.share = None
               /\ WiresOf(list, r) # {} => list[r].name = TopName
    <3>1. list[r].name \in Range(circuit.allocated) /\ list[r].unit = circuit.unit[list[r].name]
      BY <2>5, <2>9, Zenon DEF InfoOk, FirstLevel
    <3>2. list[r].wires = TopWires(list, r) BY <2>5, <2>9, Zenon DEF InfoOk, FirstLevel
    <3>3. r \in 1 .. n BY <2>6, <2>9 DEF Children
    <3>4. list[r].unit.decl.configs \in Nat BY <2>6, <2>7, <3>3 DEF Tidy, DeclOk, Numbers
    <3>5. DOMAIN list[r].wires = WiresOf(list, r) BY <3>2, <3>4, TopWiresAre DEF WiresOf
    <3>6. list[r].unit.share = None /\ (list[r].name # TopName => list[r].unit.decl.configs = 0)
      BY <2>4, <3>1, Zenon DEF OneWired
    <3>7. WiresOf(list, r) # {} => list[r].unit.decl.configs # 0 BY DEF WiresOf
    <3>8. QED BY <3>5, <3>6, <3>7
  <2>10. \A r, s \in Children(list, 0) : WiresOf(list, r) # {} /\ WiresOf(list, s) # {} => r = s
    <3>1. \A r, s \in Children(list, 0) : list[r].name = list[s].name => r = s
      BY <2>5, Zenon DEF InfoOk, FirstLevel
    <3>2. QED BY <2>9, <3>1
  <2>11. Wired(list, reg, shared) BY <2>7, <2>8, <2>9, <2>10, Zenon DEF Wired
  <2>12. \A r \in Configured : r \in 1 .. Len(list) /\ ~list[r].globallyStatic /\ ~list[r].unit.decl.composite
    BY <2>2, <2>6 DEF Configured
  <2>13. v \in WiresOf(list, p) /\ w \in WiresOf(list, q) BY <2>1, <2>2 DEF WiresOf
  <2>14. reg[p][v] = reg[q][w] <=> shared[p][v] = shared[q][w] /\ v = w
    <3>1. p \in Configured /\ q \in Configured BY <2>1, Zenon
    <3>2. /\ p \in 1 .. Len(list) /\ ~list[p].globallyStatic /\ ~list[p].unit.decl.composite
          /\ q \in 1 .. Len(list) /\ ~list[q].globallyStatic /\ ~list[q].unit.decl.composite
      BY <2>12, <3>1, Zenon
    <3>3. QED BY ONLY <2>11, <2>13, <3>2, RegistersMeet
  <2>15. QED BY <2>3, <2>14, Zenon
<1>2. QED BY InitInv, NextInv, UnitsStart, NextUnits, <1>1, PTL DEF Spec

-----------------------------------------------------------------------------
(* The order of a graph.                                                    *)

\* What is made step by step from a start, and what each step keeps.
Steps(f, n, S, c, step) ==
  f \in [0 .. n -> S] /\ f[0] = c /\ \A i \in 1 .. n : f[i] = step[<<f[i - 1], i>>]
StepOf(n, S, c, step) == n \in Nat /\ c \in S /\ step \in [S \X (1 .. n) -> S]

LEMMA Iterated ==
  ASSUME NEW n, NEW S, NEW c, NEW step, StepOf(n, S, c, step)
  PROVE  \E f : Steps(f, n, S, c, step)
<1> n \in Nat /\ c \in S /\ step \in [S \X (1 .. n) -> S] BY DEF StepOf
<1> DEFINE Upto(m) == \E f \in [0 .. n -> S] : f[0] = c /\ \A i \in 1 .. m : f[i] = step[<<f[i - 1], i>>]
<1>1. Upto(0)
  <2>1. PICK f : f = [i \in 0 .. n |-> c] OBVIOUS
  <2>2. f \in [0 .. n -> S] /\ f[0] = c BY <2>1
  <2>3. QED BY <2>2
<1>2. ASSUME NEW m \in 1 .. n, Upto(m - 1) PROVE Upto(m)
  <2>1. PICK f \in [0 .. n -> S] : f[0] = c /\ \A i \in 1 .. m - 1 : f[i] = step[<<f[i - 1], i>>]
    BY <1>2
  <2>2. PICK x \in S : x = step[<<f[m - 1], m>>]
    <3>1. f[m - 1] \in S OBVIOUS
    <3>2. QED BY <3>1
  <2>3. PICK g : g = [f EXCEPT ![m] = x] OBVIOUS
  <2>4. g \in [0 .. n -> S] /\ g[0] = c BY <2>1, <2>3
  <2>5. ASSUME NEW i \in 1 .. m PROVE g[i] = step[<<g[i - 1], i>>]
    <3>1. g[i - 1] = f[i - 1] BY <2>3
    <3>2. CASE i = m
      <4>1. m \in 0 .. n /\ g[m] = x BY <2>3
      <4>2. QED BY <2>2, <3>1, <3>2, <4>1, Zenon
    <3>3. CASE i # m BY <2>1, <2>3, <3>1, <3>3
    <3>4. QED BY <3>2, <3>3
  <2>6. QED BY <2>4, <2>5
<1>3. Upto(n)
  <2> HIDE DEF Upto
  <2>1. PICK G : G = {m \in 0 .. n : Upto(m)} OBVIOUS
  <2>2. ASSUME NEW q \in 0 .. n, \A r \in 0 .. n : r < q => r \in G PROVE q \in G
    <3>1. CASE q = 0 BY <1>1, <2>1, <3>1
    <3>2. CASE q # 0
      <4>1. q \in 1 .. n /\ q - 1 \in 0 .. n /\ q - 1 < q BY <3>2
      <4>2. Upto(q - 1) BY <2>1, <2>2, <4>1
      <4>3. QED BY <1>2, <2>1, <4>1, <4>2
    <3>3. QED BY <3>1, <3>2
  <2>3. \A q \in 0 .. n : q \in G BY <2>2, UpFrom
  <2>4. QED BY <2>1, <2>3
<1>4. QED BY <1>3 DEF Steps

LEMMA StaysIn ==
  ASSUME NEW n \in Nat, NEW S, NEW h, h[0] \in S, \A i \in 1 .. n : h[i - 1] \in S => h[i] \in S
  PROVE  \A i \in 0 .. n : h[i] \in S
<1>1. PICK G : G = {i \in 0 .. n : h[i] \in S} OBVIOUS
<1>2. ASSUME NEW q \in 0 .. n, \A r \in 0 .. n : r < q => r \in G PROVE q \in G
  <2>1. CASE q = 0 BY <1>1, <2>1
  <2>2. CASE q # 0
    <3>1. q \in 1 .. n /\ q - 1 \in 0 .. n /\ q - 1 < q BY <2>2
    <3>2. h[q - 1] \in S BY <1>1, <1>2, <3>1
    <3>3. QED BY <1>1, <3>1, <3>2
  <2>3. QED BY <2>1, <2>2
<1>3. \A q \in 0 .. n : q \in G BY <1>2, UpFrom
<1>4. QED BY <1>1, <1>3

\* A graph as the compiler makes it.
Drawn(a) ==
  /\ a.allocated \in Seq(DOMAIN a.unit) /\ IsInjective(a.allocated) /\ Range(a.allocated) = DOMAIN a.unit
  /\ IsFiniteSet(a.edges)
  /\ \A e \in a.edges : {e.out.inst, e.in.inst} \subseteq DOMAIN a.unit /\ EdgeLatency(a, e) \in Int
  /\ a.type = [n \in DOMAIN a.unit |-> CalculateNodeType(a, n)]

\* There is no loop of computing units: each has a rank above those of the units that feed it,
\* for instance the length of the longest way to it.
Ranked(a, rank) ==
  /\ rank \in [DOMAIN a.unit -> 0 .. Len(a.allocated)]
  /\ \A e \in a.edges : a.type[e.out.inst] = "COMPUTE" /\ a.type[e.in.inst] = "COMPUTE" =>
       rank[e.out.inst] < rank[e.in.inst]

\* Computing units in an order in which each follows those that feed it.
InputsFirst(a, s) ==
  /\ s \in Seq(DOMAIN a.unit)
  /\ \A i \in 1 .. Len(s) :
       /\ a.type[s[i]] \in {"COMPUTE", "UNCONNECTED"}
       /\ \A e \in Into(a, s[i]) : a.type[e.out.inst] = "COMPUTE" => \E j \in 1 .. i - 1 : s[j] = e.out.inst

\* One sequence behind the other, and one unit more.
LEMMA JoinedInOrder ==
  ASSUME NEW a, NEW s, InputsFirst(a, s), NEW t, InputsFirst(a, t)
  PROVE  InputsFirst(a, s \o t) /\ Range(s \o t) = Range(s) \cup Range(t)
<1>1. s \in Seq(DOMAIN a.unit) /\ t \in Seq(DOMAIN a.unit) BY DEF InputsFirst
<1>2. PICK m \in Nat : m = Len(s) /\ DOMAIN s = 1 .. m BY <1>1, LenProperties
<1>3. PICK k \in Nat : k = Len(t) /\ DOMAIN t = 1 .. k BY <1>1, LenProperties
<1>4. PICK u : u = s \o t OBVIOUS
<1>5. /\ u \in Seq(DOMAIN a.unit) /\ Len(u) = m + k
      /\ \A i \in 1 .. m + k : u[i] = IF i <= m THEN s[i] ELSE t[i - m]
  <2>1. m = Len(s) /\ k = Len(t) BY <1>2, <1>3
  <2>2. IsJoin(DOMAIN a.unit, u, s, m, t, k) BY <1>1, <1>4, <2>1, Joined, Zenon
  <2>3. QED BY <2>2, Zenon DEF IsJoin
<1>6. /\ \A i \in 1 .. m : u[i] = s[i]
      /\ \A i \in 1 .. k : u[m + i] = t[i]
  <2>1. \A i \in 1 .. m : i \in 1 .. m + k /\ i <= m OBVIOUS
  <2>2. \A i \in 1 .. k : m + i \in 1 .. m + k /\ ~(m + i <= m) /\ m + i - m = i OBVIOUS
  <2>3. QED BY <1>5, <2>1, <2>2
<1>7. \A i \in 1 .. m + k : i \in 1 .. m \/ \E j \in 1 .. k : i = m + j
  <2>1. \A i \in 1 .. m + k : i \notin 1 .. m => i - m \in 1 .. k /\ i = m + (i - m) OBVIOUS
  <2>2. QED BY <2>1
<1>8. ASSUME NEW i \in 1 .. m + k
      PROVE  /\ a.type[u[i]] \in {"COMPUTE", "UNCONNECTED"}
             /\ \A e \in Into(a, u[i]) : a.type[e.out.inst] = "COMPUTE" => \E j \in 1 .. i - 1 : u[j] = e.out.inst
  <2>1. CASE i \in 1 .. m
    <3>1. \A j \in 1 .. i - 1 : j \in 1 .. m BY <2>1
    <3>2. u[i] = s[i] /\ \A j \in 1 .. i - 1 : u[j] = s[j] BY <1>6, <2>1, <3>1
    <3>3. /\ a.type[s[i]] \in {"COMPUTE", "UNCONNECTED"}
          /\ \A e \in Into(a, s[i]) : a.type[e.out.inst] = "COMPUTE" => \E j \in 1 .. i - 1 : s[j] = e.out.inst
      BY <1>2, <2>1, Zenon DEF InputsFirst
    <3>4. QED BY <3>2, <3>3, Zenon
  <2>2. CASE \E j \in 1 .. k : i = m + j
    <3>1. PICK j \in 1 .. k : i = m + j BY <2>2
    <3>2. u[i] = t[j] BY <1>6, <3>1
    <3>3. /\ a.type[t[j]] \in {"COMPUTE", "UNCONNECTED"}
          /\ \A e \in Into(a, t[j]) : a.type[e.out.inst] = "COMPUTE" => \E l \in 1 .. j - 1 : t[l] = e.out.inst
      BY <1>3, Zenon DEF InputsFirst
    <3>4. \A l \in 1 .. j - 1 : m + l \in 1 .. i - 1 /\ u[m + l] = t[l]
      <4>1. \A l \in 1 .. j - 1 : l \in 1 .. k /\ m + l \in 1 .. i - 1 BY <3>1
      <4>2. QED BY <1>6, <4>1
    <3>5. QED BY <3>2, <3>3, <3>4, Zenon
  <2>3. QED BY <1>7, <2>1, <2>2, Zenon
<1>9. InputsFirst(a, u) BY <1>5, <1>8, Zenon DEF InputsFirst
<1>10. Range(u) = Range(s) \cup Range(t)
  <2>1. DOMAIN u = 1 .. m + k BY <1>5, LenProperties
  <2>2. \A i \in 1 .. m : i \in 1 .. m + k OBVIOUS
  <2>3. \A i \in 1 .. k : m + i \in 1 .. m + k OBVIOUS
  <2>4. Range(s) \cup Range(t) \subseteq Range(u) BY <1>2, <1>3, <1>6, <2>1, <2>2, <2>3 DEF Range
  <2>5. ASSUME NEW i \in 1 .. m + k PROVE u[i] \in Range(s) \cup Range(t)
    <3>1. CASE i \in 1 .. m BY <1>2, <1>6, <3>1 DEF Range
    <3>2. CASE \E j \in 1 .. k : i = m + j BY <1>3, <1>6, <3>2 DEF Range
    <3>3. QED BY <1>7, <3>1, <3>2, Zenon
  <2>6. Range(u) \subseteq Range(s) \cup Range(t) BY <2>1, <2>5, Zenon DEF Range
  <2>7. QED BY <2>4, <2>6
<1>11. QED BY <1>4, <1>9, <1>10

LEMMA OneMoreInOrder ==
  ASSUME NEW a, NEW s, InputsFirst(a, s), NEW n \in DOMAIN a.unit, a.type[n] \in {"COMPUTE", "UNCONNECTED"},
         \A e \in Into(a, n) : a.type[e.out.inst] = "COMPUTE" => e.out.inst \in Range(s)
  PROVE  InputsFirst(a, Append(s, n)) /\ Range(Append(s, n)) = Range(s) \cup {n}
<1>1. s \in Seq(DOMAIN a.unit) BY DEF InputsFirst
<1>2. PICK m \in Nat : m = Len(s) /\ DOMAIN s = 1 .. m BY <1>1, LenProperties
<1>3. PICK u : u = Append(s, n) OBVIOUS
<1>4. /\ u \in Seq(DOMAIN a.unit) /\ Len(u) = m + 1 /\ u[m + 1] = n
      /\ \A i \in 1 .. m : u[i] = s[i]
  BY <1>1, <1>2, <1>3, AppendProperties
<1>5. ASSUME NEW i \in 1 .. m + 1
      PROVE  /\ a.type[u[i]] \in {"COMPUTE", "UNCONNECTED"}
             /\ \A e \in Into(a, u[i]) : a.type[e.out.inst] = "COMPUTE" => \E j \in 1 .. i - 1 : u[j] = e.out.inst
  <2>1. CASE i = m + 1
    <3>1. u[i] = n /\ i - 1 = m BY <1>4, <2>1
    <3>2. \A x \in Range(s) : \E j \in 1 .. m : u[j] = x BY <1>2, <1>4 DEF Range
    <3>3. QED BY <3>1, <3>2
  <2>2. CASE i # m + 1
    <3>1. i \in 1 .. m /\ \A j \in 1 .. i - 1 : j \in 1 .. m BY <2>2
    <3>2. u[i] = s[i] /\ \A j \in 1 .. i - 1 : u[j] = s[j] BY <1>4, <3>1
    <3>3. /\ a.type[s[i]] \in {"COMPUTE", "UNCONNECTED"}
          /\ \A e \in Into(a, s[i]) : a.type[e.out.inst] = "COMPUTE" => \E j \in 1 .. i - 1 : s[j] = e.out.inst
      BY <1>2, <3>1, Zenon DEF InputsFirst
    <3>4. QED BY <3>2, <3>3, Zenon
  <2>3. QED BY <2>1, <2>2
<1>6. InputsFirst(a, u) BY <1>4, <1>5, Zenon DEF InputsFirst
<1>7. Range(u) = Range(s) \cup {n}
  <2>1. DOMAIN u = 1 .. m + 1 BY <1>4, LenProperties
  <2>2. \A i \in 1 .. m + 1 : i \in 1 .. m \/ i = m + 1 OBVIOUS
  <2>3. \A i \in 1 .. m : i \in 1 .. m + 1 OBVIOUS
  <2>4. m + 1 \in 1 .. m + 1 OBVIOUS
  <2>5. QED BY <1>2, <1>4, <2>1, <2>2, <2>3, <2>4 DEF Range
<1>8. QED BY <1>3, <1>6, <1>7

\* The members of a finite set, one after the other.
LEMMA ListsAll ==
  ASSUME NEW T, IsFiniteSet(T)
  PROVE  \E n \in Nat : SetToSeq(T) \in [1 .. n -> T] /\ \A x \in T : \E i \in 1 .. n : SetToSeq(T)[i] = x
<1>1. PICK n \in Nat : n = Cardinality(T) /\ ExistsBijection(1 .. n, T) BY FS_CardinalityType
<1>2. PICK f \in [1 .. n -> T] : IsInjective(f)
  BY <1>1 DEF ExistsBijection, Bijection, Injection, IsInjective
<1>3. PICK g : g = SetToSeq(T) OBVIOUS
<1>4. g \in [1 .. n -> T] /\ IsInjective(g) BY <1>1, <1>2, <1>3, Zenon DEF SetToSeq
<1>5. g \in Injection(1 .. n, T) BY <1>4 DEF Injection, IsInjective
<1>6. Cardinality(1 .. n) = n BY FS_Interval
<1>7. g \in Surjection(1 .. n, T) BY <1>1, <1>5, <1>6, FS_Injection
<1>8. \A x \in T : \E i \in 1 .. n : g[i] = x BY <1>7 DEF Surjection
<1>9. QED BY <1>3, <1>4, <1>8, Zenon

\* FlattenSeq puts one sequence behind the other.
Flattening(f, n, S, seqs) ==
  /\ f \in [0 .. n -> Seq(S)] /\ f[0] = <<>> /\ f[n] = FlattenSeq(seqs)
  /\ \A i \in 1 .. n : f[i] = f[i - 1] \o seqs[i]

LEMMA FlatIs ==
  ASSUME NEW S, NEW n \in Nat, NEW seqs \in [1 .. n -> Seq(S)]
  PROVE  \E f : Flattening(f, n, S, seqs)
<1>1. PICK step : step = [p \in Seq(S) \X (1 .. n) |-> p[1] \o seqs[p[2]]] OBVIOUS
<1>2. ASSUME NEW s \in Seq(S), NEW i \in 1 .. n PROVE step[<<s, i>>] = s \o seqs[i] /\ s \o seqs[i] \in Seq(S)
  <2>1. seqs[i] \in Seq(S) OBVIOUS
  <2>2. s \o seqs[i] \in Seq(S) BY <2>1, ConcatProperties
  <2>3. QED BY <1>1, <2>2
<1>3. step \in [Seq(S) \X (1 .. n) -> Seq(S)] BY <1>1, <1>2
<1>4. <<>> \in Seq(S) BY EmptySeq
<1>5. PICK f \in [0 .. n -> Seq(S)] : f[0] = <<>> /\ \A i \in 1 .. n : f[i] = step[<<f[i - 1], i>>]
  <2>1. PICK Q : Q = Seq(S) OBVIOUS
  <2>2. PICK c : c = <<>> OBVIOUS
  <2>3. step \in [Q \X (1 .. n) -> Q] /\ c \in Q BY <1>3, <1>4, <2>1, <2>2, Zenon
  <2>4. \E f : Steps(f, n, Q, c, step) BY <2>3, Iterated, Zenon DEF StepOf
  <2>5. QED BY <2>1, <2>2, <2>4, Zenon DEF Steps
<1>6. \A i \in 1 .. n : f[i - 1] \in Seq(S) OBVIOUS
<1>7. \A i \in 1 .. n : f[i] = f[i - 1] \o seqs[i] BY <1>2, <1>5, <1>6
<1>8. Len(seqs) = n BY SeqFrom, Zenon
<1>9. f[n] = FlattenSeq(seqs)
  <2>1. CASE n = 0
    <3>1. FlattenSeq(seqs) = seqs BY <1>8, <2>1, Zenon DEF FlattenSeq
    <3>2. seqs = <<>> BY <2>1
    <3>3. QED BY <1>5, <2>1, <3>1, <3>2, Zenon
  <2>2. CASE n # 0
    <3>1. PICK g : g = [i \in 1 .. n |-> f[i]] OBVIOUS
    <3>2. ASSUME NEW i \in 1 .. n PROVE f[i] = IF i = 1 THEN seqs[i] ELSE g[i - 1] \o seqs[i]
      <4>1. CASE i = 1
        <5>1. f[i] = <<>> \o seqs[i]
          <6>1. i - 1 = 0 BY <4>1
          <6>2. QED BY <1>5, <1>7, <6>1, Zenon
        <5>2. seqs[i] \in Seq(S) OBVIOUS
        <5>3. QED BY <4>1, <5>1, <5>2, ConcatEmptySeq
      <4>2. CASE i # 1
        <5>1. i - 1 \in 1 .. n BY <4>2
        <5>2. g[i - 1] = f[i - 1] BY <3>1, <5>1
        <5>3. QED BY <1>7, <4>2, <5>2, Zenon
      <4>3. QED BY <4>1, <4>2
    <3>3. g = [i \in 1 .. n |-> IF i = 1 THEN seqs[i] ELSE g[i - 1] \o seqs[i]] BY <3>1, <3>2, Zenon
    <3>4. PICK h : h = CHOOSE d : d = [i \in 1 .. n |-> IF i = 1 THEN seqs[i] ELSE d[i - 1] \o seqs[i]]
      OBVIOUS
    <3>5. h = [i \in 1 .. n |-> IF i = 1 THEN seqs[i] ELSE h[i - 1] \o seqs[i]] BY <3>3, <3>4, Zenon
    <3>6. FlattenSeq(seqs) = h[n] BY <1>8, <2>2, <3>4, Zenon DEF FlattenSeq
    <3>7. PICK G : G = {q \in 0 .. n : q = 0 \/ h[q] = f[q]} OBVIOUS
    <3>8. ASSUME NEW q \in 0 .. n, \A r \in 0 .. n : r < q => r \in G PROVE q \in G
      <4>1. CASE q = 0 BY <3>7, <4>1
      <4>2. CASE q # 0
        <5>1. q \in 1 .. n BY <4>2
        <5>2. h[q] = IF q = 1 THEN seqs[q] ELSE h[q - 1] \o seqs[q] BY <3>5, <5>1, Zenon
        <5>3. f[q] = IF q = 1 THEN seqs[q] ELSE g[q - 1] \o seqs[q] BY <3>2, <5>1, Zenon
        <5>4. q # 1 => h[q - 1] = g[q - 1]
          <6>1. SUFFICES ASSUME q # 1 PROVE h[q - 1] = g[q - 1] OBVIOUS
          <6>2. q - 1 \in 0 .. n /\ q - 1 < q /\ q - 1 # 0 /\ q - 1 \in 1 .. n BY <5>1, <6>1
          <6>3. h[q - 1] = f[q - 1] BY <3>7, <3>8, <6>2
          <6>4. QED BY <3>1, <6>2, <6>3
        <5>5. h[q] = f[q] BY <5>2, <5>3, <5>4, Zenon
        <5>6. QED BY <3>7, <5>5
      <4>3. QED BY <4>1, <4>2
    <3>9. \A q \in 0 .. n : q \in G BY <3>8, UpFrom
    <3>10. n \in 0 .. n OBVIOUS
    <3>11. QED BY <2>2, <3>6, <3>7, <3>9, <3>10
  <2>3. QED BY <2>1, <2>2
<1>10. QED BY <1>5, <1>7, <1>9, Zenon DEF Flattening

LEMMA FlatInOrder ==
  ASSUME NEW a, NEW n \in Nat, NEW seqs \in [1 .. n -> Seq(DOMAIN a.unit)], \A i \in 1 .. n : InputsFirst(a, seqs[i])
  PROVE  InputsFirst(a, FlattenSeq(seqs)) /\ \A i \in 1 .. n : Range(seqs[i]) \subseteq Range(FlattenSeq(seqs))
<1>1. PICK f \in [0 .. n -> Seq(DOMAIN a.unit)] :
        f[0] = <<>> /\ f[n] = FlattenSeq(seqs) /\ \A i \in 1 .. n : f[i] = f[i - 1] \o seqs[i]
  <2>1. PICK S : S = DOMAIN a.unit OBVIOUS
  <2>2. seqs \in [1 .. n -> Seq(S)] BY <2>1
  <2>3. \E f : Flattening(f, n, S, seqs) BY <2>2, FlatIs, Zenon
  <2>4. QED BY <2>1, <2>3, Zenon DEF Flattening
<1>2. PICK G : G = {q \in 0 .. n : InputsFirst(a, f[q]) /\ \A i \in 1 .. q : Range(seqs[i]) \subseteq Range(f[q])}
  OBVIOUS
<1>3. ASSUME NEW q \in 0 .. n, \A r \in 0 .. n : r < q => r \in G PROVE q \in G
  <2>1. CASE q = 0
    <3>1. InputsFirst(a, f[q])
      <4>1. <<>> \in Seq(DOMAIN a.unit) /\ Len(<<>>) = 0 BY EmptySeq
      <4>2. f[q] = <<>> BY <1>1, <2>1
      <4>3. ~\E i \in 1 .. 0 : TRUE OBVIOUS
      <4>4. QED BY <4>1, <4>2, <4>3, Zenon DEF InputsFirst
    <3>2. ~\E i \in 1 .. q : TRUE BY <2>1
    <3>3. QED BY <1>2, <3>1, <3>2, Zenon
  <2>2. CASE q # 0
    <3>1. q \in 1 .. n /\ q - 1 \in 0 .. n /\ q - 1 < q BY <2>2
    <3>2. InputsFirst(a, f[q - 1]) /\ \A i \in 1 .. q - 1 : Range(seqs[i]) \subseteq Range(f[q - 1])
      BY <1>2, <1>3, <3>1
    <3>3. InputsFirst(a, seqs[q]) /\ f[q] = f[q - 1] \o seqs[q] BY <1>1, <3>1
    <3>4. InputsFirst(a, f[q]) /\ Range(f[q]) = Range(f[q - 1]) \cup Range(seqs[q])
      BY ONLY <3>2, <3>3, JoinedInOrder
    <3>5. \A i \in 1 .. q : i \in 1 .. q - 1 \/ i = q BY <3>1
    <3>6. \A i \in 1 .. q : Range(seqs[i]) \subseteq Range(f[q]) BY <3>2, <3>4, <3>5, Zenon
    <3>7. QED BY <1>2, <3>4, <3>6
  <2>3. QED BY <2>1, <2>2
<1>4. \A q \in 0 .. n : q \in G BY <1>3, UpFrom
<1>5. n \in G BY <1>4
<1>6. QED BY <1>1, <1>2, <1>5, Zenon

-----------------------------------------------------------------------------
\* What Visit has for a unit when the units that feed it have theirs.
VisitOf(a, f, n) ==
  IF a.type[n] # "COMPUTE" THEN <<>>
  ELSE FlattenSeq(SetToSeq({f[e.out.inst] : e \in Into(a, n)})) \o <<n>>

LEMMA FedFinite ==
  ASSUME NEW a, Drawn(a), NEW f, NEW n
  PROVE  IsFiniteSet({f[e.out.inst] : e \in Into(a, n)})
<1>1. IsFiniteSet(Into(a, n)) BY FS_Subset DEF Into, Drawn
<1>2. PICK g : g = [e \in Into(a, n) |-> f[e.out.inst]] OBVIOUS
<1>3. IsFiniteSet({g[e] : e \in Into(a, n)}) BY <1>1, ImageIsFinite
<1>4. {g[e] : e \in Into(a, n)} = {f[e.out.inst] : e \in Into(a, n)} BY <1>2
<1>5. QED BY <1>3, <1>4

LEMMA OneIs ==
  ASSUME NEW S, NEW x \in S
  PROVE  <<x>> \in Seq(S) /\ Len(<<x>>) = 1 /\ <<x>>[1] = x
OBVIOUS

LEMMA VisitTyped ==
  ASSUME NEW a, Drawn(a), NEW f \in [DOMAIN a.unit -> Seq(DOMAIN a.unit)], NEW n \in DOMAIN a.unit
  PROVE  VisitOf(a, f, n) \in Seq(DOMAIN a.unit)
<1>1. PICK D : D = DOMAIN a.unit OBVIOUS
<1>2. PICK T : T = {f[e.out.inst] : e \in Into(a, n)} OBVIOUS
<1>3. \A e \in Into(a, n) : f[e.out.inst] \in Seq(D) BY <1>1 DEF Into, Drawn
<1>4. T \subseteq Seq(D) BY <1>2, <1>3
<1>5. IsFiniteSet(T) BY <1>2, FedFinite
<1>6. PICK k \in Nat : SetToSeq(T) \in [1 .. k -> T] BY <1>5, ListsAll
<1>7. PICK seqs : seqs = SetToSeq(T) OBVIOUS
<1>8. seqs \in [1 .. k -> Seq(D)] BY <1>4, <1>6, <1>7
<1>9. \E h : Flattening(h, k, D, seqs) BY <1>8, FlatIs, Zenon
<1>10. FlattenSeq(seqs) \in Seq(D)
  <2>1. k \in 0 .. k OBVIOUS
  <2>2. QED BY <1>9, <2>1 DEF Flattening
<1>11. <<n>> \in Seq(D) /\ <<>> \in Seq(D) BY <1>1, OneIs, EmptySeq
<1>12. FlattenSeq(seqs) \o <<n>> \in Seq(D) BY <1>10, <1>11, ConcatProperties
<1>13. QED BY <1>1, <1>2, <1>7, <1>11, <1>12, Zenon DEF VisitOf

\* Without a loop of computing units the recursion of Visit ends.
LEMMA VisitSolved ==
  ASSUME NEW a, Drawn(a), NEW rank, Ranked(a, rank)
  PROVE  Visit(a) = [n \in DOMAIN a.unit |-> VisitOf(a, Visit(a), n)]
<1>1. PICK D : D = DOMAIN a.unit OBVIOUS
<1>2. PICK M \in Nat : M = Len(a.allocated) + 1 BY LenProperties DEF Drawn
<1>3. \A n \in D : rank[n] \in Nat /\ rank[n] < M BY <1>1, <1>2, LenProperties DEF Ranked, Drawn
<1>4. PICK F : F = [D -> Seq(D)] OBVIOUS
<1>5. PICK c : c = [n \in D |-> <<>>] OBVIOUS
<1>6. PICK step : step = [p \in F \X (1 .. M + 1) |-> [n \in D |-> VisitOf(a, p[1], n)]] OBVIOUS
<1>7. c \in F BY <1>4, <1>5, EmptySeq
<1>8. ASSUME NEW f \in F PROVE [n \in D |-> VisitOf(a, f, n)] \in F
  <2>1. \A n \in D : VisitOf(a, f, n) \in Seq(D) BY <1>1, <1>4, VisitTyped
  <2>2. QED BY <1>4, <2>1
<1>9. \A f \in F : \A i \in 1 .. M + 1 : step[<<f, i>>] = [n \in D |-> VisitOf(a, f, n)] BY <1>6
<1>10. step \in [F \X (1 .. M + 1) -> F] BY <1>6, <1>8
<1>11. PICK f : Steps(f, M + 1, F, c, step)
  <2>1. M + 1 \in Nat OBVIOUS
  <2>2. QED BY <1>7, <1>10, <2>1, Iterated, Zenon DEF StepOf
<1>12. /\ f \in [0 .. M + 1 -> F] /\ f[0] = c
       /\ \A i \in 1 .. M + 1 : f[i] = [n \in D |-> VisitOf(a, f[i - 1], n)]
  <2>1. f \in [0 .. M + 1 -> F] /\ f[0] = c /\ \A i \in 1 .. M + 1 : f[i] = step[<<f[i - 1], i>>]
    BY <1>11, Zenon DEF Steps
  <2>2. \A i \in 1 .. M + 1 : f[i - 1] \in F BY <2>1
  <2>3. QED BY <1>9, <2>1, <2>2, Zenon
<1>13. \A i \in 1 .. M + 1 : \A n \in D : f[i][n] = VisitOf(a, f[i - 1], n) BY <1>12, Zenon
\* After as many rounds as its rank a unit has what it keeps.
<1>14. PICK G : G = {k \in 0 .. M : \A n \in D : rank[n] < k => f[k + 1][n] = f[k][n]} OBVIOUS
<1>15. ASSUME NEW q \in 0 .. M, \A r \in 0 .. M : r < q => r \in G PROVE q \in G
  <2>1. CASE q = 0 BY <1>3, <1>14, <2>1
  <2>2. CASE q # 0
    <3>1. q \in 1 .. M /\ q - 1 \in 0 .. M /\ q - 1 < q /\ q \in 1 .. M + 1 /\ q + 1 \in 1 .. M + 1
          /\ (q - 1) + 1 = q /\ (q + 1) - 1 = q
      BY <2>2
    <3>2. \A n \in D : rank[n] < q - 1 => f[q][n] = f[q - 1][n] BY <1>14, <1>15, <3>1
    <3>3. ASSUME NEW n \in D, rank[n] < q PROVE f[q + 1][n] = f[q][n]
      <4>1. f[q + 1][n] = VisitOf(a, f[q], n) BY <1>13, <3>1, Zenon
      <4>2. f[q][n] = VisitOf(a, f[q - 1], n) BY <1>13, <3>1, Zenon
      <4>3. CASE a.type[n] = "COMPUTE"
        <5>1. ASSUME NEW e \in Into(a, n) PROVE f[q][e.out.inst] = f[q - 1][e.out.inst]
          <6>1. e.out.inst \in D /\ e \in a.edges /\ e.in.inst = n BY <1>1 DEF Into, Drawn
          <6>2. CASE a.type[e.out.inst] = "COMPUTE"
            <7>1. rank[e.out.inst] < rank[n] BY <4>3, <6>1, <6>2 DEF Ranked
            <7>2. rank[e.out.inst] < q - 1 BY <1>3, <3>1, <3>3, <6>1, <7>1
            <7>3. QED BY <3>2, <6>1, <7>2
          <6>3. CASE a.type[e.out.inst] # "COMPUTE"
            <7>1. f[q][e.out.inst] = <<>> BY <1>13, <3>1, <6>1, <6>3, Zenon DEF VisitOf
            <7>2. f[q - 1][e.out.inst] = <<>>
              <8>1. CASE q - 1 = 0 BY <1>5, <1>12, <6>1, <8>1
              <8>2. CASE q - 1 # 0
                <9>1. q - 1 \in 1 .. M + 1 BY <3>1, <8>2
                <9>2. QED BY <1>13, <6>1, <6>3, <9>1, Zenon DEF VisitOf
              <8>3. QED BY <8>1, <8>2
            <7>3. QED BY <7>1, <7>2
          <6>4. QED BY <6>2, <6>3
        <5>2. {f[q][e.out.inst] : e \in Into(a, n)} = {f[q - 1][e.out.inst] : e \in Into(a, n)}
          BY <5>1
        <5>3. QED BY <4>1, <4>2, <5>2, Zenon DEF VisitOf
      <4>4. CASE a.type[n] # "COMPUTE" BY <4>1, <4>2, <4>4, Zenon DEF VisitOf
      <4>5. QED BY <4>3, <4>4
    <3>4. QED BY <1>14, <3>3
  <2>3. QED BY <2>1, <2>2
<1>16. \A q \in 0 .. M : q \in G BY <1>15, UpFrom
<1>17. M \in G /\ M + 1 \in 1 .. M + 1 /\ (M + 1) - 1 = M BY <1>16
<1>18. PICK g : g = f[M] OBVIOUS
<1>19. \A n \in D : g[n] = VisitOf(a, g, n)
  <2>1. \A n \in D : f[M + 1][n] = f[M][n] BY <1>3, <1>14, <1>17
  <2>2. \A n \in D : f[M + 1][n] = VisitOf(a, f[M], n) BY <1>13, <1>17, Zenon
  <2>3. QED BY <1>18, <2>1, <2>2, Zenon
<1>20. g = [n \in D |-> VisitOf(a, g, n)]
  <2>1. g \in [D -> Seq(D)]
    <3>1. M \in 0 .. M + 1 OBVIOUS
    <3>2. QED BY <1>4, <1>12, <1>18, <3>1
  <2>2. g = [n \in D |-> g[n]] BY <2>1
  <2>3. QED BY <1>19, <2>2, Zenon
<1>21. PICK v : v = Visit(a) OBVIOUS
<1>22. v = CHOOSE before : before = [n \in DOMAIN a.unit |->
                 IF a.type[n] # "COMPUTE" THEN <<>>
                 ELSE FlattenSeq(SetToSeq({before[e.out.inst] : e \in Into(a, n)})) \o <<n>>]
  BY <1>21, Zenon DEF Visit
<1>23. v = CHOOSE before : before = [n \in DOMAIN a.unit |-> VisitOf(a, before, n)]
  BY <1>22, Zenon DEF VisitOf
<1>24. v = [n \in DOMAIN a.unit |-> VisitOf(a, v, n)] BY <1>1, <1>20, <1>23, Zenon
<1>25. QED BY <1>21, <1>24

LEMMA NothingInOrder ==
  ASSUME NEW a
  PROVE  InputsFirst(a, <<>>)
<1>1. <<>> \in Seq(DOMAIN a.unit) /\ Len(<<>>) = 0 BY EmptySeq
<1>2. ~\E i \in 1 .. 0 : TRUE OBVIOUS
<1>3. QED BY <1>1, <1>2, Zenon DEF InputsFirst

\* Each unit the walk reaches follows all that feed it, directly or through others.
LEMMA VisitInOrder ==
  ASSUME NEW a, Drawn(a), NEW rank, Ranked(a, rank)
  PROVE  \A n \in DOMAIN a.unit : /\ InputsFirst(a, Visit(a)[n])
                                  /\ a.type[n] = "COMPUTE" => n \in Range(Visit(a)[n])
<1>1. PICK D : D = DOMAIN a.unit OBVIOUS
<1>2. PICK v : v = Visit(a) OBVIOUS
<1>3. \A n \in D : v[n] = VisitOf(a, v, n)
  <2>1. v = [n \in D |-> VisitOf(a, v, n)] BY <1>1, <1>2, VisitSolved
  <2>2. QED BY <2>1, Zenon
<1>4. PICK M \in Nat : M = Len(a.allocated) BY LenProperties DEF Drawn
<1>5. PICK Right : Right = {n \in D : InputsFirst(a, v[n]) /\ (a.type[n] = "COMPUTE" => n \in Range(v[n]))}
  OBVIOUS
<1>6. PICK G : G = {q \in 0 .. M : \A n \in D : rank[n] = q => n \in Right} OBVIOUS
<1>7. ASSUME NEW q \in 0 .. M, \A r \in 0 .. M : r < q => r \in G PROVE q \in G
  <2>1. ASSUME NEW n \in D, rank[n] = q PROVE n \in Right
    <3>1. CASE a.type[n] # "COMPUTE"
      <4>1. v[n] = <<>> BY <1>3, <3>1, Zenon DEF VisitOf
      <4>2. QED BY <1>5, <3>1, <4>1, NothingInOrder
    <3>2. CASE a.type[n] = "COMPUTE"
      <4>1. PICK T : T = {v[e.out.inst] : e \in Into(a, n)} OBVIOUS
      <4>2. ASSUME NEW e \in Into(a, n)
            PROVE  /\ InputsFirst(a, v[e.out.inst])
                   /\ a.type[e.out.inst] = "COMPUTE" => e.out.inst \in Range(v[e.out.inst])
        <5>1. e.out.inst \in D /\ e \in a.edges /\ e.in.inst = n BY <1>1 DEF Into, Drawn
        <5>2. CASE a.type[e.out.inst] = "COMPUTE"
          <6>1. rank[e.out.inst] < q /\ rank[e.out.inst] \in 0 .. M
            BY <1>1, <1>4, <2>1, <3>2, <5>1, <5>2 DEF Ranked
          <6>2. e.out.inst \in Right BY <1>6, <1>7, <5>1, <6>1
          <6>3. QED BY <1>5, <6>2
        <5>3. CASE a.type[e.out.inst] # "COMPUTE"
          <6>1. v[e.out.inst] = <<>> BY <1>3, <5>1, <5>3, Zenon DEF VisitOf
          <6>2. QED BY <5>3, <6>1, NothingInOrder
        <5>4. QED BY <5>2, <5>3
      <4>3. \A t \in T : InputsFirst(a, t) /\ t \in Seq(D) BY <1>1, <4>1, <4>2 DEF InputsFirst
      <4>4. IsFiniteSet(T) BY <4>1, FedFinite
      <4>5. PICK k \in Nat : SetToSeq(T) \in [1 .. k -> T] /\ \A x \in T : \E i \in 1 .. k : SetToSeq(T)[i] = x
        BY <4>4, ListsAll
      <4>6. PICK seqs : seqs = SetToSeq(T) OBVIOUS
      <4>7. \A i \in 1 .. k : seqs[i] \in T BY <4>5, <4>6
      <4>8. seqs \in [1 .. k -> Seq(D)] /\ \A i \in 1 .. k : InputsFirst(a, seqs[i])
        <5>1. seqs \in [1 .. k -> T] BY <4>5, <4>6
        <5>2. QED BY <4>3, <4>7, <5>1
      <4>9. PICK s : s = FlattenSeq(seqs) OBVIOUS
      <4>10. InputsFirst(a, s) /\ \A i \in 1 .. k : Range(seqs[i]) \subseteq Range(s)
        BY <1>1, <4>8, <4>9, FlatInOrder, Zenon
      <4>11. \A e \in Into(a, n) : a.type[e.out.inst] = "COMPUTE" => e.out.inst \in Range(s)
        <5>1. SUFFICES ASSUME NEW e \in Into(a, n), a.type[e.out.inst] = "COMPUTE" PROVE e.out.inst \in Range(s)
          OBVIOUS
        <5>2. e.out.inst \in Range(v[e.out.inst]) BY <4>2, <5>1
        <5>3. PICK i \in 1 .. k : seqs[i] = v[e.out.inst] BY <4>1, <4>5, <4>6
        <5>4. QED BY <4>10, <5>2, <5>3, Zenon
      <4>12. InputsFirst(a, Append(s, n)) /\ Range(Append(s, n)) = Range(s) \cup {n}
        BY <1>1, <3>2, <4>10, <4>11, OneMoreInOrder
      <4>13. v[n] = Append(s, n)
        <5>1. v[n] = s \o <<n>> BY <1>3, <3>2, <4>1, <4>6, <4>9, Zenon DEF VisitOf
        <5>2. s \in Seq(D) BY <1>1, <4>10 DEF InputsFirst
        <5>3. QED BY <5>1, <5>2, AppendIsConcat
      <4>14. n \in Range(v[n]) /\ InputsFirst(a, v[n]) BY <4>12, <4>13
      <4>15. QED BY <1>5, <4>14
    <3>3. QED BY <3>1, <3>2
  <2>2. QED BY <1>6, <2>1
<1>8. \A q \in 0 .. M : q \in G BY <1>7, UpFrom
<1>9. \A n \in D : n \in Right
  <2>1. \A n \in D : rank[n] \in 0 .. M BY <1>1, <1>4 DEF Ranked
  <2>2. QED BY <1>6, <1>8, <2>1
<1>10. QED BY <1>1, <1>2, <1>5, <1>9

\* The roles of the units and what they say of the edges.
Roles(a) ==
  /\ \A n \in DOMAIN a.unit :
       /\ a.type[n] \in {"SOURCE", "COMPUTE", "SINK", "SOURCE_AND_SINK", "UNCONNECTED"}
       /\ a.type[n] \in {"SOURCE", "UNCONNECTED"} => Into(a, n) = {}
       /\ a.type[n] \in {"SINK", "SOURCE_AND_SINK"} => Into(a, n) # {}
  /\ \A e \in a.edges : a.type[e.out.inst] \in {"SOURCE", "COMPUTE", "SOURCE_AND_SINK"}

LEMMA RolesAre ==
  ASSUME NEW a, Drawn(a)
  PROVE  Roles(a)
<1>1. \A n \in DOMAIN a.unit : a.type[n] = CalculateNodeType(a, n)
  <2>1. a.type = [n \in DOMAIN a.unit |-> CalculateNodeType(a, n)] BY DEF Drawn
  <2>2. QED BY <2>1, Zenon
<1>2. ASSUME NEW n \in DOMAIN a.unit
      PROVE  /\ a.type[n] \in {"SOURCE", "COMPUTE", "SINK", "SOURCE_AND_SINK", "UNCONNECTED"}
             /\ a.type[n] \in {"SOURCE", "UNCONNECTED"} => Into(a, n) = {}
             /\ a.type[n] \in {"SINK", "SOURCE_AND_SINK"} => Into(a, n) # {}
             /\ a.type[n] \in {"SINK", "UNCONNECTED"} => OutOf(a, n) = {}
  <2>1. CASE Into(a, n) # {} /\ OutOf(a, n) # {} BY <1>1, <2>1 DEF CalculateNodeType
  <2>2. CASE Into(a, n) # {} /\ OutOf(a, n) = {} BY <1>1, <2>2 DEF CalculateNodeType
  <2>3. CASE Into(a, n) = {} /\ OutOf(a, n) # {} BY <1>1, <2>3 DEF CalculateNodeType
  <2>4. CASE Into(a, n) = {} /\ OutOf(a, n) = {} BY <1>1, <2>4 DEF CalculateNodeType
  <2>5. QED BY <2>1, <2>2, <2>3, <2>4
<1>3. ASSUME NEW e \in a.edges PROVE a.type[e.out.inst] \in {"SOURCE", "COMPUTE", "SOURCE_AND_SINK"}
  <2>1. e.out.inst \in DOMAIN a.unit BY DEF Drawn
  <2>2. OutOf(a, e.out.inst) # {} BY DEF OutOf
  <2>3. QED BY <1>2, <2>1, <2>2
<1>4. QED BY <1>2, <1>3 DEF Roles

LEMMA WalkInOrder ==
  ASSUME NEW a, Drawn(a), NEW rank, Ranked(a, rank)
  PROVE  /\ InputsFirst(a, Walk(a))
         /\ \A n \in DOMAIN a.unit : a.type[n] \in {"COMPUTE", "UNCONNECTED"} => n \in Range(Walk(a))
<1>1. PICK D : D = DOMAIN a.unit OBVIOUS
<1>2. PICK M \in Nat : M = Len(a.allocated) /\ DOMAIN a.allocated = 1 .. M
  BY LenProperties DEF Drawn
<1>3. (\A i \in 1 .. M : a.allocated[i] \in D) /\ \A n \in D : \E i \in 1 .. M : a.allocated[i] = n
  BY <1>1, <1>2 DEF Drawn, Range
<1>4. PICK seqs : seqs = [i \in 1 .. M |-> IF a.type[a.allocated[i]] = "UNCONNECTED" THEN <<a.allocated[i]>>
                                           ELSE Visit(a)[a.allocated[i]]]
  OBVIOUS
<1>5. Walk(a) = FlattenSeq(seqs) BY <1>2, <1>4, Zenon DEF Walk
<1>6. ASSUME NEW n \in D, a.type[n] = "UNCONNECTED" PROVE InputsFirst(a, <<n>>) /\ n \in Range(<<n>>)
  <2>1. Into(a, n) = {} BY <1>1, <1>6, RolesAre DEF Roles
  <2>2. InputsFirst(a, Append(<<>>, n)) /\ Range(Append(<<>>, n)) = Range(<<>>) \cup {n}
    BY <1>1, <1>6, <2>1, NothingInOrder, OneMoreInOrder
  <2>3. Append(<<>>, n) = <<n>> OBVIOUS
  <2>4. QED BY <2>2, <2>3
<1>7. ASSUME NEW i \in 1 .. M
      PROVE  /\ InputsFirst(a, seqs[i])
             /\ a.type[a.allocated[i]] \in {"COMPUTE", "UNCONNECTED"} => a.allocated[i] \in Range(seqs[i])
  <2>1. CASE a.type[a.allocated[i]] = "UNCONNECTED"
    <3>1. seqs[i] = <<a.allocated[i]>> BY <1>4, <2>1
    <3>2. QED BY <1>3, <1>6, <2>1, <3>1
  <2>2. CASE a.type[a.allocated[i]] # "UNCONNECTED"
    <3>1. seqs[i] = Visit(a)[a.allocated[i]] BY <1>4, <2>2
    <3>2. QED BY <1>1, <1>3, <2>2, <3>1, VisitInOrder
  <2>3. QED BY <2>1, <2>2
<1>8. seqs \in [1 .. M -> Seq(D)]
  <2>1. \A i \in 1 .. M : seqs[i] \in Seq(D) BY <1>1, <1>7 DEF InputsFirst
  <2>2. seqs = [i \in 1 .. M |-> seqs[i]] BY <1>4
  <2>3. QED BY <2>1, <2>2
<1>9. InputsFirst(a, Walk(a)) /\ \A i \in 1 .. M : Range(seqs[i]) \subseteq Range(Walk(a))
  BY <1>1, <1>5, <1>7, <1>8, FlatInOrder, Zenon
<1>10. ASSUME NEW n \in D, a.type[n] \in {"COMPUTE", "UNCONNECTED"} PROVE n \in Range(Walk(a))
  <2>1. PICK i \in 1 .. M : a.allocated[i] = n BY <1>3
  <2>2. n \in Range(seqs[i]) BY <1>7, <1>10, <2>1
  <2>3. QED BY <1>9, <2>2, Zenon
<1>11. QED BY <1>1, <1>9, <1>10

\* A sequence in which each member of a set is once.
Once(s, R) == s \in Seq(R) /\ IsInjective(s) /\ Range(s) = R

LEMMA OnceMore ==
  ASSUME NEW R, NEW s, Once(s, R), NEW x, x \notin R
  PROVE  Once(Append(s, x), R \cup {x})
<1>1. PICK m \in Nat : m = Len(s) /\ DOMAIN s = 1 .. m BY LenProperties DEF Once
<1>2. PICK Q : Q = R \cup {x} OBVIOUS
<1>3. \A i \in 1 .. m : s[i] \in R BY <1>1 DEF Once, Range
<1>4. s \in Seq(Q) BY <1>2, SeqMonotonic DEF Once
<1>5. PICK u : u = Append(s, x) OBVIOUS
<1>6. /\ u \in Seq(Q) /\ Len(u) = m + 1 /\ u[m + 1] = x
      /\ \A i \in 1 .. m : u[i] = s[i]
  BY <1>1, <1>2, <1>4, <1>5, AppendProperties
<1>7. DOMAIN u = 1 .. m + 1 /\ \A i \in 1 .. m + 1 : i \in 1 .. m \/ i = m + 1
  BY <1>6, LenProperties
<1>8. \A i \in 1 .. m : i \in 1 .. m + 1 OBVIOUS
<1>9. m + 1 \in 1 .. m + 1 OBVIOUS
<1>10. IsInjective(u)
  <2>1. \A i, j \in 1 .. m : s[i] = s[j] => i = j BY <1>1 DEF Once, IsInjective
  <2>2. \A i \in 1 .. m : u[i] # x BY <1>3, <1>6
  <2>3. \A i, j \in 1 .. m + 1 : u[i] = u[j] => i = j BY <1>6, <1>7, <2>1, <2>2, Zenon
  <2>4. QED BY <1>7, <2>3 DEF IsInjective
<1>11. Range(u) = Q
  <2>1. \A y \in R : \E i \in 1 .. m : s[i] = y BY <1>1 DEF Once, Range
  <2>2. \A y \in Q : \E i \in 1 .. m + 1 : u[i] = y BY <1>2, <1>6, <1>8, <1>9, <2>1
  <2>3. \A i \in 1 .. m + 1 : u[i] \in Q BY <1>2, <1>3, <1>6, <1>7, Zenon
  <2>4. QED BY <1>7, <2>2, <2>3 DEF Range
<1>12. QED BY <1>2, <1>5, <1>6, <1>10, <1>11 DEF Once

LEMMA NothingOnce == Once(<<>>, {})
<1>1. <<>> \in Seq({}) /\ Len(<<>>) = 0 BY EmptySeq
<1>2. DOMAIN <<>> = {} BY <1>1, LenProperties
<1>3. QED BY <1>1, <1>2 DEF Once, IsInjective, Range

LEMMA ContainsIs ==
  ASSUME NEW R, NEW s, Once(s, R), NEW x
  PROVE  Contains(s, x) <=> x \in R
<1>1. DOMAIN s = 1 .. Len(s) BY LenProperties DEF Once
<1>2. QED BY <1>1 DEF Contains, Once, Range

\* FirstOfEach has what the walk has, once, and still in an order.
LEMMA FirstsAre ==
  ASSUME NEW a, NEW w, InputsFirst(a, w)
  PROVE  InputsFirst(a, FirstOfEach(w)) /\ Once(FirstOfEach(w), Range(w))
<1>1. PICK D : D = DOMAIN a.unit OBVIOUS
<1>2. PICK n \in Nat : n = Len(w) /\ DOMAIN w = 1 .. n /\ \A i \in 1 .. n : w[i] \in D
  BY <1>1, LenProperties DEF InputsFirst
<1>3. PICK S : S = Seq(D) OBVIOUS
<1>4. PICK step : step = [p \in S \X (1 .. n) |-> IF Contains(p[1], w[p[2]]) THEN p[1] ELSE Append(p[1], w[p[2]])]
  OBVIOUS
<1>5. \A s \in S : \A i \in 1 .. n : step[<<s, i>>] = IF Contains(s, w[i]) THEN s ELSE Append(s, w[i])
  BY <1>4
<1>6. step \in [S \X (1 .. n) -> S]
  <2>1. \A s \in S : \A x \in D : Append(s, x) \in S BY <1>3, AppendProperties
  <2>2. QED BY <1>2, <1>4, <2>1
<1>7. PICK c : c = <<>> OBVIOUS
<1>8. PICK f : Steps(f, n, S, c, step)
  <2>1. c \in S BY <1>3, <1>7, EmptySeq
  <2>2. QED BY <1>6, <2>1, Iterated, Zenon DEF StepOf
<1>9. /\ f \in [0 .. n -> S] /\ f[0] = <<>>
      /\ \A i \in 1 .. n : f[i] = IF Contains(f[i - 1], w[i]) THEN f[i - 1] ELSE Append(f[i - 1], w[i])
  <2>1. f \in [0 .. n -> S] /\ f[0] = c /\ \A i \in 1 .. n : f[i] = step[<<f[i - 1], i>>]
    BY <1>8, Zenon DEF Steps
  <2>2. \A i \in 1 .. n : f[i - 1] \in S BY <2>1
  <2>3. QED BY <1>5, <1>7, <2>1, <2>2, Zenon
<1>10. f = [i \in 0 .. n |-> IF i = 0 THEN <<>>
                             ELSE IF Contains(f[i - 1], w[i]) THEN f[i - 1] ELSE Append(f[i - 1], w[i])]
  <2>1. \A i \in 0 .. n : i = 0 \/ i \in 1 .. n OBVIOUS
  <2>2. \A i \in 0 .. n : f[i] = IF i = 0 THEN <<>>
                             ELSE IF Contains(f[i - 1], w[i]) THEN f[i - 1] ELSE Append(f[i - 1], w[i])
    BY <1>9, <2>1, Zenon
  <2>3. f = [i \in 0 .. n |-> f[i]] BY <1>9
  <2>4. QED BY <2>2, <2>3, Zenon
<1>11. PICK h : h = CHOOSE seen : seen = [i \in 0 .. Len(w) |->
            IF i = 0 THEN <<>> ELSE IF Contains(seen[i - 1], w[i]) THEN seen[i - 1] ELSE Append(seen[i - 1], w[i])]
  OBVIOUS
<1>12. h = [i \in 0 .. n |-> IF i = 0 THEN <<>>
                             ELSE IF Contains(h[i - 1], w[i]) THEN h[i - 1] ELSE Append(h[i - 1], w[i])]
  BY <1>2, <1>10, <1>11, Zenon
<1>13. FirstOfEach(w) = h[n] BY <1>2, <1>11, Zenon DEF FirstOfEach
<1>14. PICK G : G = {q \in 0 .. n : InputsFirst(a, h[q]) /\ Once(h[q], {w[i] : i \in 1 .. q})}
  OBVIOUS
<1>15. ASSUME NEW q \in 0 .. n, \A r \in 0 .. n : r < q => r \in G PROVE q \in G
  <2>1. CASE q = 0
    <3>1. h[q] = <<>> BY <1>12, <2>1
    <3>2. {w[i] : i \in 1 .. q} = {} BY <2>1
    <3>3. QED BY <1>14, <3>1, <3>2, NothingInOrder, NothingOnce
  <2>2. CASE q # 0
    <3>1. q \in 1 .. n /\ q - 1 \in 0 .. n /\ q - 1 < q BY <2>2
    <3>2. PICK s : s = h[q - 1] OBVIOUS
    <3>3. PICK R : R = {w[i] : i \in 1 .. q - 1} OBVIOUS
    <3>4. InputsFirst(a, s) /\ Once(s, R) BY <1>14, <1>15, <3>1, <3>2, <3>3
    <3>5. h[q] = IF Contains(s, w[q]) THEN s ELSE Append(s, w[q]) BY <1>12, <2>2, <3>2, Zenon
    <3>6. {w[i] : i \in 1 .. q} = R \cup {w[q]}
      <4>1. \A i \in 1 .. q : i \in 1 .. q - 1 \/ i = q BY <3>1
      <4>2. \A i \in 1 .. q - 1 : i \in 1 .. q BY <3>1
      <4>3. q \in 1 .. q BY <3>1
      <4>4. QED BY <3>3, <4>1, <4>2, <4>3
    <3>7. Contains(s, w[q]) <=> w[q] \in R BY <3>4, ContainsIs
    <3>8. CASE w[q] \in R
      <4>1. h[q] = s /\ R \cup {w[q]} = R BY <3>5, <3>7, <3>8
      <4>2. QED BY <1>14, <3>4, <3>6, <4>1
    <3>9. CASE w[q] \notin R
      <4>1. h[q] = Append(s, w[q]) BY <3>5, <3>7, <3>9
      <4>2. Once(h[q], R \cup {w[q]}) BY <3>4, <3>9, <4>1, OnceMore
      <4>3. /\ a.type[w[q]] \in {"COMPUTE", "UNCONNECTED"}
            /\ \A e \in Into(a, w[q]) : a.type[e.out.inst] = "COMPUTE" => \E j \in 1 .. q - 1 : w[j] = e.out.inst
        BY <1>2, <3>1, Zenon DEF InputsFirst
      <4>4. \A e \in Into(a, w[q]) : a.type[e.out.inst] = "COMPUTE" => e.out.inst \in Range(s)
        BY <3>3, <3>4, <4>3 DEF Once
      <4>5. InputsFirst(a, h[q]) BY <1>1, <1>2, <3>1, <3>4, <4>1, <4>3, <4>4, OneMoreInOrder
      <4>6. QED BY <1>14, <3>6, <4>2, <4>5
    <3>10. QED BY <3>8, <3>9
  <2>3. QED BY <2>1, <2>2
<1>16. \A q \in 0 .. n : q \in G BY <1>15, UpFrom
<1>17. n \in G BY <1>16
<1>18. {w[i] : i \in 1 .. n} = Range(w) BY <1>2 DEF Range
<1>19. QED BY <1>13, <1>14, <1>17, <1>18

\* OfType has every unit of its roles, once.
LEMMA OfTypeAre ==
  ASSUME NEW a, Drawn(a), NEW types
  PROVE  Once(OfType(a, types), {n \in DOMAIN a.unit : a.type[n] \in types})
<1>1. PICK D : D = DOMAIN a.unit OBVIOUS
<1> DEFINE w == a.allocated
<1>2. w = a.allocated OBVIOUS
<1>3. PICK n \in Nat : n = Len(w) /\ DOMAIN w = 1 .. n /\ \A i \in 1 .. n : w[i] \in D
  BY <1>1, <1>2, LenProperties DEF Drawn
<1>4. PICK S : S = Seq(D) OBVIOUS
<1>5. PICK step : step = [p \in S \X (1 .. n) |-> IF a.type[w[p[2]]] \in types THEN Append(p[1], w[p[2]]) ELSE p[1]]
  OBVIOUS
<1>6. \A s \in S : \A i \in 1 .. n : step[<<s, i>>] = IF a.type[w[i]] \in types THEN Append(s, w[i]) ELSE s
  BY <1>5
<1>7. step \in [S \X (1 .. n) -> S]
  <2>1. \A s \in S : \A x \in D : Append(s, x) \in S BY <1>4, AppendProperties
  <2>2. QED BY <1>3, <1>5, <2>1
<1>8. PICK c : c = <<>> OBVIOUS
<1>9. PICK f : Steps(f, n, S, c, step)
  <2>1. c \in S BY <1>4, <1>8, EmptySeq
  <2>2. QED BY <1>7, <2>1, Iterated, Zenon DEF StepOf
<1>10. /\ f \in [0 .. n -> S] /\ f[0] = <<>>
       /\ \A i \in 1 .. n : f[i] = IF a.type[w[i]] \in types THEN Append(f[i - 1], w[i]) ELSE f[i - 1]
  <2>1. f \in [0 .. n -> S] /\ f[0] = c /\ \A i \in 1 .. n : f[i] = step[<<f[i - 1], i>>]
    BY <1>9, Zenon DEF Steps
  <2>2. \A i \in 1 .. n : f[i - 1] \in S BY <2>1
  <2>3. QED BY <1>6, <1>8, <2>1, <2>2, Zenon
<1>11. f = [i \in 0 .. n |-> IF i = 0 THEN <<>>
                             ELSE IF a.type[w[i]] \in types THEN Append(f[i - 1], w[i]) ELSE f[i - 1]]
  <2>1. \A i \in 0 .. n : i = 0 \/ i \in 1 .. n OBVIOUS
  <2>2. \A i \in 0 .. n : f[i] = IF i = 0 THEN <<>>
                             ELSE IF a.type[w[i]] \in types THEN Append(f[i - 1], w[i]) ELSE f[i - 1]
    BY <1>10, <2>1, Zenon
  <2>3. f = [i \in 0 .. n |-> f[i]] BY <1>10
  <2>4. QED BY <2>2, <2>3, Zenon
<1>12. PICK h : h = CHOOSE chosen : chosen = [i \in 0 .. Len(a.allocated) |->
            IF i = 0 THEN <<>>
            ELSE IF a.type[a.allocated[i]] \in types THEN Append(chosen[i - 1], a.allocated[i]) ELSE chosen[i - 1]]
  OBVIOUS
<1>13. h = [i \in 0 .. n |-> IF i = 0 THEN <<>>
                             ELSE IF a.type[w[i]] \in types THEN Append(h[i - 1], w[i]) ELSE h[i - 1]]
  BY <1>2, <1>3, <1>11, <1>12, Zenon
<1>14. OfType(a, types) = h[n] BY <1>2, <1>3, <1>12, Zenon DEF OfType
<1>15. PICK G : G = {q \in 0 .. n : Once(h[q], {x \in D : a.type[x] \in types /\ \E i \in 1 .. q : w[i] = x})}
  OBVIOUS
<1>16. ASSUME NEW q \in 0 .. n, \A r \in 0 .. n : r < q => r \in G PROVE q \in G
  <2>1. CASE q = 0
    <3>1. h[q] = <<>> BY <1>13, <2>1
    <3>2. {x \in D : a.type[x] \in types /\ \E i \in 1 .. q : w[i] = x} = {} BY <2>1
    <3>3. QED BY <1>15, <3>1, <3>2, NothingOnce
  <2>2. CASE q # 0
    <3>1. q \in 1 .. n /\ q - 1 \in 0 .. n /\ q - 1 < q BY <2>2
    <3>2. PICK s : s = h[q - 1] OBVIOUS
    <3>3. PICK R : R = {x \in D : a.type[x] \in types /\ \E i \in 1 .. q - 1 : w[i] = x} OBVIOUS
    <3>4. Once(s, R) BY <1>15, <1>16, <3>1, <3>2, <3>3
    <3>5. h[q] = IF a.type[w[q]] \in types THEN Append(s, w[q]) ELSE s BY <1>13, <2>2, <3>2, Zenon
    <3>6. \A i \in 1 .. q : i \in 1 .. q - 1 \/ i = q BY <3>1
    <3>7. (\A i \in 1 .. q - 1 : i \in 1 .. q) /\ q \in 1 .. q BY <3>1
    <3>8. CASE a.type[w[q]] \in types
      <4>1. w[q] \notin R
        <5>1. \A i, j \in 1 .. n : w[i] = w[j] => i = j BY <1>2, <1>3 DEF Drawn, IsInjective
        <5>2. \A i \in 1 .. q - 1 : i \in 1 .. n /\ i # q BY <3>1
        <5>3. QED BY <3>1, <3>3, <5>1, <5>2
      <4>2. Once(h[q], R \cup {w[q]}) BY <3>4, <3>5, <3>8, <4>1, OnceMore
      <4>3. {x \in D : a.type[x] \in types /\ \E i \in 1 .. q : w[i] = x} = R \cup {w[q]}
        BY <1>3, <3>1, <3>3, <3>6, <3>7, <3>8
      <4>4. QED BY <1>15, <4>2, <4>3
    <3>9. CASE a.type[w[q]] \notin types
      <4>1. {x \in D : a.type[x] \in types /\ \E i \in 1 .. q : w[i] = x} = R
        BY <3>3, <3>6, <3>7, <3>9
      <4>2. QED BY <1>15, <3>4, <3>5, <3>9, <4>1
    <3>10. QED BY <3>8, <3>9
  <2>3. QED BY <2>1, <2>2
<1>17. \A q \in 0 .. n : q \in G BY <1>16, UpFrom
<1>18. n \in G BY <1>17
<1>19. {x \in D : a.type[x] \in types /\ \E i \in 1 .. n : w[i] = x} = {x \in D : a.type[x] \in types}
  <2>1. \A x \in D : \E i \in 1 .. n : w[i] = x BY <1>1, <1>2, <1>3 DEF Drawn, Range
  <2>2. QED BY <2>1
<1>20. QED BY <1>1, <1>14, <1>15, <1>18, <1>19

-----------------------------------------------------------------------------
\* The order of a graph: each unit once, and behind all that feed it but those that take data
\* as well as give it, which send no latency.
Ordered(a, s) ==
  /\ Once(s, DOMAIN a.unit)
  /\ \A i \in 1 .. Len(s) : \A e \in Into(a, s[i]) :
       a.type[e.out.inst] # "SOURCE_AND_SINK" => \E j \in 1 .. i - 1 : s[j] = e.out.inst

LEMMA OnceJoined ==
  ASSUME NEW R, NEW s, Once(s, R), NEW Q, NEW t, Once(t, Q), R \cap Q = {}
  PROVE  Once(s \o t, R \cup Q)
<1>1. PICK S : S = R \cup Q OBVIOUS
<1>2. s \in Seq(S) /\ t \in Seq(S) BY <1>1, SeqMonotonic DEF Once
<1>3. PICK u : u = s \o t OBVIOUS
<1>4. PICK m \in Nat : m = Len(s) /\ DOMAIN s = 1 .. m BY <1>2, LenProperties
<1>5. PICK k \in Nat : k = Len(t) /\ DOMAIN t = 1 .. k BY <1>2, LenProperties
<1>6. /\ u \in Seq(S) /\ Len(u) = m + k
      /\ \A i \in 1 .. m + k : u[i] = IF i <= m THEN s[i] ELSE t[i - m]
  <2>1. m = Len(s) /\ k = Len(t) BY <1>4, <1>5
  <2>2. IsJoin(S, u, s, m, t, k) BY <1>2, <1>3, <2>1, Joined, Zenon
  <2>3. QED BY <2>2, Zenon DEF IsJoin
<1>7. DOMAIN u = 1 .. m + k BY <1>6, LenProperties
<1>8. (\A i \in 1 .. m : s[i] \in R) /\ (\A i \in 1 .. k : t[i] \in Q) BY <1>4, <1>5 DEF Once, Range
<1>9. ASSUME NEW i \in 1 .. m + k, NEW j \in 1 .. m + k, u[i] = u[j] PROVE i = j
  <2>1. CASE i <= m /\ j <= m
    <3>1. u[i] = s[i] /\ u[j] = s[j] /\ i \in 1 .. m /\ j \in 1 .. m BY <1>6, <2>1
    <3>2. QED BY <1>4, <1>9, <3>1 DEF Once, IsInjective
  <2>2. CASE i <= m /\ ~(j <= m)
    <3>1. i \in 1 .. m /\ j - m \in 1 .. k BY <2>2
    <3>2. u[i] \in R /\ u[j] \in Q BY <1>6, <1>8, <2>2, <3>1
    <3>3. QED BY <1>9, <3>2
  <2>3. CASE ~(i <= m) /\ j <= m
    <3>1. j \in 1 .. m /\ i - m \in 1 .. k BY <2>3
    <3>2. u[j] \in R /\ u[i] \in Q BY <1>6, <1>8, <2>3, <3>1
    <3>3. QED BY <1>9, <3>2
  <2>4. CASE ~(i <= m) /\ ~(j <= m)
    <3>1. u[i] = t[i - m] /\ u[j] = t[j - m] /\ i - m \in 1 .. k /\ j - m \in 1 .. k BY <1>6, <2>4
    <3>2. i - m = j - m BY <1>5, <1>9, <3>1 DEF Once, IsInjective
    <3>3. QED BY <3>2
  <2>5. QED BY <2>1, <2>2, <2>3, <2>4
<1>10. Range(u) = S
  <2>1. ASSUME NEW x \in R PROVE x \in Range(u)
    <3>1. PICK i \in 1 .. m : s[i] = x BY <1>4 DEF Once, Range
    <3>2. i \in 1 .. m + k /\ i <= m OBVIOUS
    <3>3. QED BY <1>6, <1>7, <3>1, <3>2 DEF Range
  <2>2. ASSUME NEW x \in Q PROVE x \in Range(u)
    <3>1. PICK i \in 1 .. k : t[i] = x BY <1>5 DEF Once, Range
    <3>2. m + i \in 1 .. m + k /\ ~(m + i <= m) /\ (m + i) - m = i OBVIOUS
    <3>3. QED BY <1>6, <1>7, <3>1, <3>2 DEF Range
  <2>3. \A i \in 1 .. m + k : u[i] \in S BY <1>6, ElementOfSeq
  <2>4. QED BY <1>1, <1>7, <2>1, <2>2, <2>3 DEF Range
<1>11. IsInjective(u) BY <1>7, <1>9 DEF IsInjective
<1>12. QED BY <1>1, <1>3, <1>6, <1>10, <1>11 DEF Once

\* What is before a place of the second of two sequences.
InFirst(s, u, i) == i \in 1 .. Len(s) /\ u[i] = s[i] /\ \A j \in 1 .. i - 1 : u[j] = s[j]
InSecond(s, t, u, i) ==
  \E k \in 1 .. Len(t) :
    /\ u[i] = t[k]
    /\ \A x \in Range(s) : \E j \in 1 .. i - 1 : u[j] = x
    /\ \A l \in 1 .. k - 1 : \E j \in 1 .. i - 1 : u[j] = t[l]

LEMMA BeforeSecond ==
  ASSUME NEW S, NEW s \in Seq(S), NEW t \in Seq(S), NEW u, u = s \o t, NEW i \in 1 .. Len(u)
  PROVE  InFirst(s, u, i) \/ InSecond(s, t, u, i)
<1>1. u = s \o t OBVIOUS
<1>2. PICK m \in Nat : m = Len(s) /\ DOMAIN s = 1 .. m BY LenProperties
<1>3. PICK n \in Nat : n = Len(t) /\ DOMAIN t = 1 .. n BY LenProperties
<1>4. Len(u) = m + n /\ \A j \in 1 .. m + n : u[j] = IF j <= m THEN s[j] ELSE t[j - m]
  <2>1. PICK v : v = s \o t OBVIOUS
  <2>2. Len(v) = m + n /\ \A j \in 1 .. m + n : v[j] = IF j <= m THEN s[j] ELSE t[j - m]
    BY <1>2, <1>3, <2>1, ConcatProperties, Zenon
  <2>3. QED BY <1>1, <2>1, <2>2
<1>5. i \in 1 .. m + n BY <1>1, <1>4
<1>6. CASE i <= m
  <2>1. i \in 1 .. m /\ \A j \in 1 .. i - 1 : j \in 1 .. m + n /\ j <= m BY <1>5, <1>6
  <2>2. u[i] = s[i] /\ \A j \in 1 .. i - 1 : u[j] = s[j] BY <1>4, <1>5, <1>6, <2>1
  <2>3. QED BY <1>2, <2>1, <2>2 DEF InFirst
<1>7. CASE ~(i <= m)
  <2>1. PICK k \in 1 .. n : k = i - m BY <1>5, <1>7
  <2>2. u[i] = t[k] BY <1>4, <1>5, <1>7, <2>1
  <2>3. ASSUME NEW x \in Range(s) PROVE \E j \in 1 .. i - 1 : u[j] = x
    <3>1. PICK j \in 1 .. m : s[j] = x BY <1>2 DEF Range
    <3>2. j \in 1 .. i - 1 /\ j \in 1 .. m + n /\ j <= m BY <1>5, <1>7
    <3>3. QED BY <1>4, <3>1, <3>2
  <2>4. ASSUME NEW l \in 1 .. k - 1 PROVE \E j \in 1 .. i - 1 : u[j] = t[l]
    <3>1. m + l \in 1 .. i - 1 /\ m + l \in 1 .. m + n /\ ~(m + l <= m) /\ (m + l) - m = l
      BY <1>5, <2>1
    <3>2. u[m + l] = t[l] BY <1>4, <3>1
    <3>3. QED BY <3>1, <3>2
  <2>5. QED BY <1>3, <2>2, <2>3, <2>4, Zenon DEF InSecond
<1>8. QED BY <1>6, <1>7, <1>5

\* CalculateDAGOrder has every unit once, as it asserts, and behind all that feed it, as the look
\* up in its last loop needs, on every graph without a loop of computing units
\* (accelerator.cpp:316-417).
THEOREM OrderFollowsData ==
  ASSUME NEW a, Drawn(a), NEW rank, Ranked(a, rank)
  PROVE  Ordered(a, CalculateDAGOrder(a))
<1>1. PICK D : D = DOMAIN a.unit OBVIOUS
<1>2. Roles(a) BY RolesAre
<1>3. PICK first : first = OfType(a, {"SOURCE"}) OBVIOUS
<1>4. PICK middle : middle = FirstOfEach(Walk(a)) OBVIOUS
<1>5. PICK last : last = OfType(a, {"SINK", "SOURCE_AND_SINK"}) OBVIOUS
<1>6. PICK A : A = {n \in D : a.type[n] \in {"SOURCE"}} OBVIOUS
<1>7. PICK B : B = {n \in D : a.type[n] \in {"COMPUTE", "UNCONNECTED"}} OBVIOUS
<1>8. PICK C : C = {n \in D : a.type[n] \in {"SINK", "SOURCE_AND_SINK"}} OBVIOUS
<1>9. Once(first, A) /\ Once(last, C) BY <1>1, <1>3, <1>5, <1>6, <1>8, OfTypeAre
<1>10. InputsFirst(a, Walk(a)) /\ \A n \in D : a.type[n] \in {"COMPUTE", "UNCONNECTED"} => n \in Range(Walk(a))
  BY <1>1, WalkInOrder
<1>11. InputsFirst(a, middle) /\ Once(middle, Range(Walk(a))) BY <1>4, <1>10, FirstsAre
<1>12. Range(Walk(a)) = B
  <2>1. PICK w : w = Walk(a) OBVIOUS
  <2>2. \A i \in DOMAIN w : w[i] \in B
    BY <1>1, <1>7, <1>10, <2>1, LenProperties, ElementOfSeq DEF InputsFirst
  <2>3. QED BY <1>7, <1>10, <2>1, <2>2 DEF Range
<1>13. Once(middle, B) BY <1>11, <1>12
<1>14. PICK front : front = first \o middle OBVIOUS
<1>15. Once(front, A \cup B)
  <2>1. A \cap B = {} BY <1>6, <1>7
  <2>2. QED BY <1>9, <1>13, <1>14, <2>1, OnceJoined
<1>16. PICK s : s = front \o last OBVIOUS
<1>17. Once(s, D)
  <2>1. (A \cup B) \cap C = {} BY <1>6, <1>7, <1>8
  <2>2. Once(s, (A \cup B) \cup C) BY <1>9, <1>15, <1>16, <2>1, OnceJoined
  <2>3. (A \cup B) \cup C = D BY <1>1, <1>2, <1>6, <1>7, <1>8 DEF Roles
  <2>4. QED BY <2>2, <2>3
<1>18. s = CalculateDAGOrder(a)
  <2>1. CalculateDAGOrder(a) = (first \o middle) \o last
    BY <1>3, <1>4, <1>5, Zenon DEF CalculateDAGOrder
  <2>2. QED BY <1>14, <1>16, <2>1, Zenon
<1>19. first \in Seq(D) /\ middle \in Seq(D) /\ front \in Seq(D) /\ last \in Seq(D)
  <2>1. A \subseteq D /\ B \subseteq D /\ C \subseteq D /\ A \cup B \subseteq D BY <1>6, <1>7, <1>8
  <2>2. QED BY <1>9, <1>13, <1>15, <2>1, SeqMonotonic DEF Once
<1>20. \A e \in a.edges : e.out.inst \in D /\ a.type[e.out.inst] \in {"SOURCE", "COMPUTE", "SOURCE_AND_SINK"}
  BY <1>1, <1>2 DEF Drawn, Roles
<1>21. \A x \in A : x \in Range(first) /\ Into(a, x) = {} BY <1>1, <1>2, <1>6, <1>9 DEF Once, Roles
<1>22. ASSUME NEW i \in 1 .. Len(front), NEW e \in Into(a, front[i]), a.type[e.out.inst] # "SOURCE_AND_SINK"
       PROVE  \E j \in 1 .. i - 1 : front[j] = e.out.inst
  <2>1. e \in a.edges BY DEF Into
  <2>2. CASE InFirst(first, front, i)
    <3>1. i \in 1 .. Len(first) /\ front[i] = first[i] BY <2>2 DEF InFirst
    <3>2. first[i] \in A BY <1>9, <3>1, ElementOfSeq DEF Once
    <3>3. QED BY <1>21, <1>22, <3>1, <3>2
  <2>3. CASE InSecond(first, middle, front, i)
    <3>1. PICK k \in 1 .. Len(middle) :
              /\ front[i] = middle[k]
              /\ \A x \in Range(first) : \E j \in 1 .. i - 1 : front[j] = x
              /\ \A l \in 1 .. k - 1 : \E j \in 1 .. i - 1 : front[j] = middle[l]
      BY <2>3, Zenon DEF InSecond
    <3>2. CASE a.type[e.out.inst] = "SOURCE"
      <4>1. e.out.inst \in Range(first) BY <1>6, <1>20, <1>21, <2>1, <3>2
      <4>2. QED BY <3>1, <4>1
    <3>3. CASE a.type[e.out.inst] = "COMPUTE"
      <4>1. \E l \in 1 .. k - 1 : middle[l] = e.out.inst
        BY <1>11, <3>1, <3>3, <1>22, Zenon DEF InputsFirst
      <4>2. QED BY <3>1, <4>1
    <3>4. QED BY <1>20, <1>22, <2>1, <3>2, <3>3
  <2>4. InFirst(first, front, i) \/ InSecond(first, middle, front, i)
    BY <1>14, <1>19, BeforeSecond, Zenon
  <2>5. QED BY <2>2, <2>3, <2>4
<1>23. ASSUME NEW i \in 1 .. Len(s), NEW e \in Into(a, s[i]), a.type[e.out.inst] # "SOURCE_AND_SINK"
       PROVE  \E j \in 1 .. i - 1 : s[j] = e.out.inst
  <2>1. e \in a.edges BY DEF Into
  <2>2. CASE InFirst(front, s, i)
    <3>1. i \in 1 .. Len(front) /\ s[i] = front[i] /\ \A j \in 1 .. i - 1 : s[j] = front[j]
      BY <2>2 DEF InFirst
    <3>2. \E j \in 1 .. i - 1 : front[j] = e.out.inst BY <1>22, <1>23, <3>1
    <3>3. QED BY <3>1, <3>2
  <2>3. CASE InSecond(front, last, s, i)
    <3>1. e.out.inst \in Range(front) BY <1>6, <1>7, <1>15, <1>20, <1>23, <2>1 DEF Once
    <3>2. QED BY <2>3, <3>1, Zenon DEF InSecond
  <2>4. InFirst(front, s, i) \/ InSecond(front, last, s, i) BY <1>16, <1>19, BeforeSecond, Zenon
  <2>5. QED BY <2>2, <2>3, <2>4
<1>24. QED BY <1>1, <1>17, <1>18, <1>23 DEF Ordered

-----------------------------------------------------------------------------
\* The latency of a unit: that of the latest of its edges, not less than zero.
NodeLatency(a, base, n) == MaxOf({0} \cup {Sent(a, base, e) : e \in Into(a, n)})

LEMMA NodeLatencyIs ==
  ASSUME NEW a, Drawn(a), NEW base \in [DOMAIN a.unit -> Nat], NEW n
  PROVE  /\ NodeLatency(a, base, n) \in Nat
         /\ \A e \in Into(a, n) : Sent(a, base, e) \in Int /\ Sent(a, base, e) <= NodeLatency(a, base, n)
         /\ NodeLatency(a, base, n) = 0 \/ \E e \in Into(a, n) : Sent(a, base, e) = NodeLatency(a, base, n)
<1>1. PICK E : E = Into(a, n) OBVIOUS
<1>2. \A e \in E : Sent(a, base, e) \in Int
  <2>1. SUFFICES ASSUME NEW e \in E PROVE Sent(a, base, e) \in Int OBVIOUS
  <2>2. e.out.inst \in DOMAIN a.unit /\ EdgeLatency(a, e) \in Int BY <1>1 DEF Into, Drawn
  <2>3. base[e.out.inst] \in Nat BY <2>2
  <2>4. QED BY <2>2, <2>3 DEF Sent
<1>3. PICK g : g = [e \in E |-> Sent(a, base, e)] OBVIOUS
<1>4. PICK S : S = {0} \cup {Sent(a, base, e) : e \in E} OBVIOUS
<1>5. IsFiniteSet(S)
  <2>1. IsFiniteSet(E) BY <1>1, FS_Subset DEF Into, Drawn
  <2>2. IsFiniteSet({g[e] : e \in E}) BY <2>1, ImageIsFinite
  <2>3. {g[e] : e \in E} = {Sent(a, base, e) : e \in E} BY <1>3
  <2>4. IsFiniteSet({0}) BY FS_Singleton
  <2>5. QED BY <1>4, <2>2, <2>3, <2>4, FS_Union
<1>6. S \in SUBSET Int /\ S # {} BY <1>2, <1>4
<1>7. MaxOf(S) \in S /\ \A y \in S : y <= MaxOf(S) BY <1>5, <1>6, LargestExists
<1>8. NodeLatency(a, base, n) = MaxOf(S) BY <1>1, <1>4, Zenon DEF NodeLatency
<1>9. PICK x : x = MaxOf(S) OBVIOUS
<1>10. x \in S /\ 0 <= x /\ x \in Int /\ \A e \in E : Sent(a, base, e) <= x
  BY <1>4, <1>6, <1>7, <1>9
<1>11. x = 0 \/ \E e \in E : Sent(a, base, e) = x BY <1>4, <1>10
<1>12. QED BY <1>1, <1>2, <1>8, <1>9, <1>10, <1>11

\* SendLatencyUpwards: nothing the walk does later changes what a unit was given, so that in
\* the end each has the latency its edges give it (delayCalculation.cpp:142-184).
LEMMA LatenciesSolved ==
  ASSUME NEW a, Drawn(a), NEW rank, Ranked(a, rank)
  PROVE  /\ SendLatencyUpwards(a).node \in [DOMAIN a.unit -> Nat]
         /\ \A n \in DOMAIN a.unit : SendLatencyUpwards(a).node[n] = NodeLatency(a, SendLatencyUpwards(a).node, n)
         /\ SendLatencyUpwards(a).edge = [e \in a.edges |-> Sent(a, SendLatencyUpwards(a).node, e)]
<1> DEFINE D == DOMAIN a.unit
           s == CalculateDAGOrder(a)
<1>1. D = DOMAIN a.unit OBVIOUS
<1>2. s = CalculateDAGOrder(a) OBVIOUS
<1>3. Ordered(a, s) BY <1>2, OrderFollowsData
<1>4. PICK N \in Nat : N = Len(s) /\ DOMAIN s = 1 .. N BY <1>3, LenProperties DEF Ordered, Once
<1>5. /\ \A i \in 1 .. N : s[i] \in D
      /\ \A i, j \in 1 .. N : s[i] = s[j] => i = j
      /\ \A n \in D : \E i \in 1 .. N : s[i] = n
  BY <1>1, <1>3, <1>4 DEF Ordered, Once, IsInjective, Range
<1>6. PICK F : F = [D -> Nat] OBVIOUS
<1>7. PICK c : c = [n \in D |-> 0] OBVIOUS
<1>8. PICK step : step = [p \in F \X (1 .. N) |-> [p[1] EXCEPT ![s[p[2]]] = NodeLatency(a, p[1], s[p[2]])]]
  OBVIOUS
<1>9. \A b \in F : \A i \in 1 .. N : step[<<b, i>>] = [b EXCEPT ![s[i]] = NodeLatency(a, b, s[i])]
  BY <1>8
<1>10. \A b \in F : \A n \in D : NodeLatency(a, b, n) \in Nat BY <1>1, <1>6, NodeLatencyIs
<1>11. \A b \in F : \A i \in 1 .. N : [b EXCEPT ![s[i]] = NodeLatency(a, b, s[i])] \in F
  BY <1>5, <1>6, <1>10
<1>12. step \in [F \X (1 .. N) -> F] BY <1>8, <1>11
<1>13. PICK f : Steps(f, N, F, c, step)
  <2>1. c \in F BY <1>6, <1>7
  <2>2. QED BY <1>12, <2>1, Iterated, Zenon DEF StepOf
<1>14. /\ f \in [0 .. N -> F] /\ f[0] = c
       /\ \A i \in 1 .. N : f[i] = [f[i - 1] EXCEPT ![s[i]] = NodeLatency(a, f[i - 1], s[i])]
  <2>1. f \in [0 .. N -> F] /\ f[0] = c /\ \A i \in 1 .. N : f[i] = step[<<f[i - 1], i>>]
    BY <1>13, Zenon DEF Steps
  <2>2. \A i \in 1 .. N : f[i - 1] \in F BY <2>1
  <2>3. QED BY <1>9, <2>1, <2>2, Zenon
<1>15. f = [i \in 0 .. N |-> IF i = 0 THEN [n \in D |-> 0]
                             ELSE [f[i - 1] EXCEPT ![s[i]] = NodeLatency(a, f[i - 1], s[i])]]
  <2>1. \A i \in 0 .. N : i = 0 \/ i \in 1 .. N OBVIOUS
  <2>2. \A i \in 0 .. N : f[i] = IF i = 0 THEN [n \in D |-> 0]
                             ELSE [f[i - 1] EXCEPT ![s[i]] = NodeLatency(a, f[i - 1], s[i])]
    BY <1>7, <1>14, <2>1, Zenon
  <2>3. f = [i \in 0 .. N |-> f[i]] BY <1>14
  <2>4. QED BY <2>2, <2>3, Zenon
<1>16. PICK h : h = CHOOSE b : b = [k \in 0 .. Len(s) |-> IF k = 0 THEN [n \in D |-> 0]
                             ELSE [b[k - 1] EXCEPT ![s[k]] = NodeLatency(a, b[k - 1], s[k])]]
  OBVIOUS
<1>17. h = [i \in 0 .. N |-> IF i = 0 THEN [n \in D |-> 0]
                             ELSE [h[i - 1] EXCEPT ![s[i]] = NodeLatency(a, h[i - 1], s[i])]]
  BY <1>4, <1>15, <1>16, Zenon
<1>18. PICK base : base = h[N] OBVIOUS
<1>19. SendLatencyUpwards(a) = [node |-> base, edge |-> [e \in a.edges |-> Sent(a, base, e)]]
  <2>1. \E x : /\ x = (CHOOSE b : b = [k \in 0 .. Len(s) |-> IF k = 0 THEN [n \in D |-> 0]
                     ELSE [b[k - 1] EXCEPT ![s[k]] = NodeLatency(a, b[k - 1], s[k])]])[Len(s)]
               /\ SendLatencyUpwards(a) = [node |-> x, edge |-> [e \in a.edges |-> Sent(a, x, e)]]
    BY Zenon DEF SendLatencyUpwards, NodeLatency
  <2>2. PICK x : x = h[Len(s)] /\ SendLatencyUpwards(a) = [node |-> x, edge |-> [e \in a.edges |-> Sent(a, x, e)]]
    BY <1>16, <2>1, Zenon
  <2>3. x = base BY <1>4, <1>18, <2>2, Zenon
  <2>4. QED BY <2>2, <2>3
<1>20. h[0] = c /\ \A i \in 1 .. N : h[i] = [h[i - 1] EXCEPT ![s[i]] = NodeLatency(a, h[i - 1], s[i])]
  <2>1. 0 \in 0 .. N /\ \A i \in 1 .. N : i \in 0 .. N /\ i # 0 OBVIOUS
  <2>2. QED BY <1>7, <1>17, <2>1, Zenon
<1>21. \A i \in 0 .. N : h[i] \in F
  <2>1. h[0] \in F BY <1>6, <1>7, <1>20
  <2>2. \A i \in 1 .. N : h[i - 1] \in F => h[i] \in F
    <3>1. SUFFICES ASSUME NEW i \in 1 .. N, h[i - 1] \in F PROVE h[i] \in F OBVIOUS
    <3>2. [h[i - 1] EXCEPT ![s[i]] = NodeLatency(a, h[i - 1], s[i])] \in F BY <1>11, <3>1, Zenon
    <3>3. QED BY <1>20, <3>2, Zenon
  <2>3. QED BY <2>1, <2>2, StaysIn
<1>22. \A i \in 1 .. N : /\ h[i][s[i]] = NodeLatency(a, h[i - 1], s[i])
                         /\ \A n \in D : n # s[i] => h[i][n] = h[i - 1][n]
  <2>1. SUFFICES ASSUME NEW i \in 1 .. N
                 PROVE  h[i][s[i]] = NodeLatency(a, h[i - 1], s[i]) /\ \A n \in D : n # s[i] => h[i][n] = h[i - 1][n]
    OBVIOUS
  <2>2. PICK b \in F : b = h[i - 1] BY <1>21
  <2>3. PICK x : x = NodeLatency(a, b, s[i]) OBVIOUS
  <2>4. h[i] = [b EXCEPT ![s[i]] = x] /\ s[i] \in D BY <1>5, <1>20, <2>2, <2>3
  <2>5. h[i][s[i]] = x /\ \A n \in D : n # s[i] => h[i][n] = b[n] BY <1>6, <2>2, <2>4
  <2>6. QED BY <2>2, <2>3, <2>5
<1>23. PICK G : G = {m \in 0 .. N : \A k \in 1 .. m : h[m][s[k]] = h[k][s[k]]} OBVIOUS
<1>24. ASSUME NEW q \in 0 .. N, \A r \in 0 .. N : r < q => r \in G PROVE q \in G
  <2>1. CASE q = 0 BY <1>23, <2>1
  <2>2. CASE q # 0
    <3>1. q \in 1 .. N /\ q - 1 \in 0 .. N /\ q - 1 < q BY <2>2
    <3>2. \A k \in 1 .. q - 1 : h[q - 1][s[k]] = h[k][s[k]] BY <1>23, <1>24, <3>1
    <3>3. ASSUME NEW k \in 1 .. q PROVE h[q][s[k]] = h[k][s[k]]
      <4>1. CASE k = q BY <4>1
      <4>2. CASE k # q
        <5>1. k \in 1 .. q - 1 /\ k \in 1 .. N BY <3>1, <4>2
        <5>2. s[k] # s[q] /\ s[k] \in D BY <1>5, <3>1, <4>2, <5>1
        <5>3. h[q][s[k]] = h[q - 1][s[k]] BY <1>22, <3>1, <5>2
        <5>4. QED BY <3>2, <5>1, <5>3
      <4>3. QED BY <4>1, <4>2
    <3>4. QED BY <1>23, <3>3
  <2>3. QED BY <2>1, <2>2
<1>25. \A m \in 0 .. N : \A k \in 1 .. m : h[m][s[k]] = h[k][s[k]]
  <2>1. \A q \in 0 .. N : q \in G BY <1>24, UpFrom
  <2>2. QED BY <1>23, <2>1
<1>26. \A k \in 1 .. N : base[s[k]] = h[k][s[k]]
  <2>1. N \in 0 .. N OBVIOUS
  <2>2. QED BY <1>18, <1>25, <2>1
<1>27. ASSUME NEW k \in 1 .. N PROVE base[s[k]] = NodeLatency(a, base, s[k])
  <2>1. PICK b : b = h[k - 1] OBVIOUS
  <2>2. ASSUME NEW e \in Into(a, s[k]) PROVE Sent(a, b, e) = Sent(a, base, e)
    <3>1. CASE a.type[e.out.inst] = "SOURCE_AND_SINK" BY <3>1 DEF Sent
    <3>2. CASE a.type[e.out.inst] # "SOURCE_AND_SINK"
      <4>1. PICK j \in 1 .. k - 1 : s[j] = e.out.inst BY <1>3, <1>4, <3>2, Zenon DEF Ordered
      <4>2. k - 1 \in 0 .. N /\ j \in 1 .. N BY <4>1
      <4>3. b[s[j]] = h[j][s[j]] BY <1>25, <2>1, <4>1, <4>2
      <4>4. b[e.out.inst] = base[e.out.inst] BY <1>26, <4>1, <4>2, <4>3
      <4>5. QED BY <4>4, Zenon DEF Sent
    <3>3. QED BY <3>1, <3>2
  <2>3. {Sent(a, b, e) : e \in Into(a, s[k])} = {Sent(a, base, e) : e \in Into(a, s[k])} BY <2>2
  <2>4. NodeLatency(a, b, s[k]) = NodeLatency(a, base, s[k]) BY <2>3, Zenon DEF NodeLatency
  <2>5. QED BY <1>22, <1>26, <2>1, <2>4
<1>28. \A n \in D : base[n] = NodeLatency(a, base, n) BY <1>5, <1>27
<1>29. base \in [D -> Nat] BY <1>6, <1>18, <1>21
<1>30. QED BY <1>1, <1>19, <1>28, <1>29

-----------------------------------------------------------------------------
LEMMA LatenciesAre ==
  ASSUME NEW a, Drawn(a), NEW rank, Ranked(a, rank)
  PROVE  Latencies(a, SendLatencyUpwards(a))
<1>1. PICK g : g = SendLatencyUpwards(a) OBVIOUS
<1>2. /\ g.node \in [DOMAIN a.unit -> Nat]
      /\ \A n \in DOMAIN a.unit : g.node[n] = NodeLatency(a, g.node, n)
      /\ g.edge = [e \in a.edges |-> Sent(a, g.node, e)]
  BY <1>1, LatenciesSolved, Zenon
<1>3. ASSUME NEW n \in DOMAIN a.unit, a.type[n] = "SOURCE" PROVE g.node[n] = 0
  <2>1. Into(a, n) = {} BY <1>3, RolesAre DEF Roles
  <2>2. NodeLatency(a, g.node, n) = 0 BY <1>2, <2>1, NodeLatencyIs
  <2>3. QED BY <1>2, <2>2
<1>4. g.edge = [e \in a.edges |-> IF a.type[e.out.inst] = "SOURCE_AND_SINK" THEN 0
                                  ELSE g.node[e.out.inst] + EdgeLatency(a, e)]
  BY <1>2, Zenon DEF Sent
<1>5. g.node \in [DOMAIN a.unit -> Int] BY <1>2
<1>6. QED BY <1>1, <1>3, <1>4, <1>5 DEF Latencies, Drawn

\* CalculateDelay (delayCalculation.cpp:96-445), on every graph without a loop of computing
\* units: no edge waits less than nothing, the data of two edges into one unit is taken in the
\* same cycle, and that is the cycle a computing unit starts in, if any edge into it adds no
\* less than nothing.
THEOREM DelaysMeet ==
  ASSUME NEW a, Drawn(a), NEW rank, Ranked(a, rank)
  PROVE  /\ CalculateDelay(a).edge \in [a.edges -> Nat]
         /\ \A e, f \in a.edges :
              e.in.inst = f.in.inst /\ {a.type[e.out.inst], a.type[f.out.inst]} \subseteq {"SOURCE", "COMPUTE"}
                => TakenAt(a, CalculateDelay(a), e) = TakenAt(a, CalculateDelay(a), f)
         /\ \A e \in a.edges :
              a.type[e.out.inst] \in {"SOURCE", "COMPUTE"} /\ a.type[e.in.inst] = "COMPUTE"
                /\ (\E f \in Into(a, e.in.inst) : EdgeLatency(a, f) >= 0)
                => TakenAt(a, CalculateDelay(a), e) = CalculateDelay(a).node[e.in.inst]
<1>1. PICK g : g = SendLatencyUpwards(a) OBVIOUS
<1>2. Latencies(a, g) BY <1>1, LatenciesAre
<1>3. CalculateDelay(a) = Balance(a, g) BY <1>1 DEF CalculateDelay
<1>4. /\ Balance(a, g).edge \in [a.edges -> Nat]
      /\ \A e, f \in a.edges :
           e.in.inst = f.in.inst /\ {a.type[e.out.inst], a.type[f.out.inst]} \subseteq {"SOURCE", "COMPUTE"}
             => TakenAt(a, Balance(a, g), e) = TakenAt(a, Balance(a, g), f)
  BY <1>2, DataMeets
<1>5. ASSUME NEW e \in a.edges, a.type[e.out.inst] \in {"SOURCE", "COMPUTE"}, a.type[e.in.inst] = "COMPUTE",
             NEW f \in Into(a, e.in.inst), EdgeLatency(a, f) >= 0
      PROVE  TakenAt(a, Balance(a, g), e) = Balance(a, g).node[e.in.inst]
  <2>1. PICK n \in DOMAIN a.unit : n = e.in.inst BY DEF Drawn
  <2>2. PICK E : E = Into(a, n) OBVIOUS
  <2>3. E \subseteq a.edges /\ e \in E /\ f \in E /\ \A x \in E : x.in.inst = n
    BY <1>5, <2>1, <2>2 DEF Into
  <2>4. /\ g.node \in [DOMAIN a.unit -> Nat]
        /\ g.node[n] = NodeLatency(a, g.node, n)
        /\ g.edge = [x \in a.edges |-> Sent(a, g.node, x)]
    BY <1>1, LatenciesSolved, Zenon
  <2>5. PICK L : L = g.node[n] OBVIOUS
  <2>6. /\ L \in Nat
        /\ \A x \in E : g.edge[x] \in Int /\ g.edge[x] <= L
        /\ L = 0 \/ \E x \in E : g.edge[x] = L
    <3>1. /\ L \in Nat
          /\ \A x \in E : Sent(a, g.node, x) \in Int /\ Sent(a, g.node, x) <= L
          /\ L = 0 \/ \E x \in E : Sent(a, g.node, x) = L
      BY <2>2, <2>4, <2>5, NodeLatencyIs
    <3>2. \A x \in E : g.edge[x] = Sent(a, g.node, x) BY <2>3, <2>4
    <3>3. QED BY <3>1, <3>2
  <2>7. g.edge[f] >= 0
    <3>1. f.out.inst \in DOMAIN a.unit /\ EdgeLatency(a, f) \in Int BY <2>3 DEF Drawn
    <3>2. g.node[f.out.inst] \in Nat BY <2>4, <3>1
    <3>3. g.edge[f] = Sent(a, g.node, f) BY <2>3, <2>4
    <3>4. QED BY <1>5, <3>1, <3>2, <3>3 DEF Sent
  <2>8. \E x \in E : g.edge[x] = L BY <2>3, <2>6, <2>7
  <2>9. PICK slack : slack = Slack(a, g) OBVIOUS
  <2>10. \A x \in E : slack[x] = L - g.edge[x]
    <3>1. BaseLatency(a, g)[n] = L BY <1>5, <2>1, <2>5 DEF BaseLatency
    <3>2. \A x \in E : slack[x] = BaseLatency(a, g)[x.in.inst] - g.edge[x] BY <2>3, <2>9 DEF Slack
    <3>3. QED BY <2>3, <3>1, <3>2
  <2>11. PICK S : S = {slack[x] : x \in E} OBVIOUS
  <2>12. MinOf(S) = 0
    <3>1. S \in SUBSET Int /\ 0 \in S /\ \A y \in S : 0 <= y
      <4>1. \A x \in E : slack[x] \in Int /\ 0 <= slack[x] BY <2>6, <2>10
      <4>2. \E x \in E : slack[x] = 0 BY <2>6, <2>8, <2>10
      <4>3. QED BY <2>11, <4>1, <4>2
    <3>2. IsFiniteSet(S)
      <4>1. IsFiniteSet(E) BY <2>3, FS_Subset DEF Drawn
      <4>2. QED BY <2>11, <4>1, ImageIsFinite
    <3>3. MinOf(S) \in S /\ \A y \in S : MinOf(S) <= y BY <3>1, <3>2, LeastExists
    <3>4. PICK x : x = MinOf(S) OBVIOUS
    <3>5. x \in S /\ x <= 0 BY <3>1, <3>3, <3>4
    <3>6. x = 0 BY <3>1, <3>5
    <3>7. QED BY <3>4, <3>6
  <2>13. EdgeDelays(a, slack)[e] = slack[e] - MinOf(S) BY <2>1, <2>2, <2>11 DEF EdgeDelays
  <2>14. TakenAt(a, Balance(a, g), e) = g.edge[e] + EdgeDelays(a, slack)[e]
    BY <1>2, <1>5, <2>9, TakenIs
  <2>15. TakenAt(a, Balance(a, g), e) = L
    <3>1. slack[e] = L - g.edge[e] /\ g.edge[e] \in Int BY <2>3, <2>6, <2>10
    <3>2. EdgeDelays(a, slack)[e] = L - g.edge[e] BY <2>6, <2>12, <2>13, <3>1
    <3>3. QED BY <2>6, <2>14, <3>1, <3>2
  <2>16. Balance(a, g).node[n] = L BY <1>5, <2>1, <2>5 DEF Balance, BaseLatency
  <2>17. QED BY <2>1, <2>15, <2>16
<1>6. \A e \in a.edges :
        a.type[e.out.inst] \in {"SOURCE", "COMPUTE"} /\ a.type[e.in.inst] = "COMPUTE"
          /\ (\E f \in Into(a, e.in.inst) : EdgeLatency(a, f) >= 0)
          => TakenAt(a, Balance(a, g), e) = Balance(a, g).node[e.in.inst]
  BY <1>5, Zenon
<1>7. QED BY <1>3, <1>4, <1>6, Zenon

-----------------------------------------------------------------------------
\* Every edge is between ports whose units say when data is there, and nothing loops.
Timed(a) ==
  /\ IsFiniteSet(a.edges)
  /\ \A e \in a.edges : EdgeLatency(a, e) \in Int
  /\ \E rank : Ranked(a, rank)

\* What is copied again stays as it is, and a module's circuit is a graph as it must be.
LEMMA CircuitDrawn ==
  ASSUME NEW def, WellFormed(def), NEW types
  PROVE  /\ CopyAccelerator(InstantiateModule(def, types)) = InstantiateModule(def, types)
         /\ Timed(InstantiateModule(def, types)) => Drawn(InstantiateModule(def, types))
<1>1. PICK raw : raw = [allocated |-> NamesOf(def), unit |-> [n \in Range(NamesOf(def)) |-> UnitNamed(def, n, types)],
                        edges |-> def.connections, type |-> <<>>]
  OBVIOUS
<1>2. PICK a : a = InstantiateModule(def, types) OBVIOUS
<1>3. a = CopyAccelerator(raw) BY <1>1, <1>2, Zenon DEF InstantiateModule, MakeCircuit
<1>4. PICK D : D = Range(NamesOf(def)) OBVIOUS
<1>5. /\ a = [raw EXCEPT !.type = [n \in DOMAIN raw.unit |-> CalculateNodeType(raw, n)]]
      /\ DOMAIN raw.unit = D
  BY <1>1, <1>3, <1>4 DEF CopyAccelerator
<1>6. /\ a.unit = raw.unit /\ a.edges = raw.edges /\ a.allocated = raw.allocated
      /\ a.type = [n \in D |-> CalculateNodeType(raw, n)]
  BY <1>1, <1>5
<1>7. \A n \in D : CalculateNodeType(a, n) = CalculateNodeType(raw, n)
  BY <1>6 DEF CalculateNodeType, Into, OutOf
<1>8. a.type = [n \in DOMAIN a.unit |-> CalculateNodeType(a, n)] /\ DOMAIN a.unit = D
  BY <1>5, <1>6, <1>7
<1>9. CopyAccelerator(a) = a
  <2>1. [a EXCEPT !.type = a.type] = a BY <1>1, <1>5
  <2>2. QED BY <1>8, <2>1 DEF CopyAccelerator
<1>10. ASSUME Timed(a) PROVE Drawn(a)
  <2>1. a.allocated \in Seq(D) /\ IsInjective(a.allocated) /\ Range(a.allocated) = D
    <3>1. IsSeq(NamesOf(def))
      <4>1. def.inputs \in Nat /\ IsSeq(def.instances) BY DEF WellFormed, IsSeq
      <4>2. QED BY <4>1, NamesAre
    <3>2. a.allocated = NamesOf(def) BY <1>1, <1>6
    <3>3. QED BY <1>4, <3>1, <3>2 DEF IsSeq, WellFormed
  <2>2. \A e \in a.edges : {e.out.inst, e.in.inst} \subseteq D BY <1>1, <1>4, <1>6 DEF WellFormed
  <2>3. QED BY <1>8, <1>10, <2>1, <2>2 DEF Drawn, Timed
<1>11. QED BY <1>2, <1>9, <1>10

\* The delays FixDelays still has to look at are those of the module's own graph.
DelaysInv ==
  stage = "fix" =>
    /\ edgesDelay = [e \in DOMAIN edgesDelay |-> CalculateDelay(baseCircuit).edge[e]]
    /\ Timed(baseCircuit) => Drawn(baseCircuit)

\* FixDelays gives no edge to a buffer of less than nothing, and its assertion holds
\* (accelerator.cpp:457), whatever it has met of the edges and however they are met.
NoDelayIsNegative ==
  stage = "fix" /\ Timed(baseCircuit) => \A e \in DOMAIN edgesDelay : edgesDelay[e] \in Nat

LEMMA DelaysStart ==
  ASSUME IInv, Instantiate
  PROVE  DelaysInv'
<1>1. PICK def : def = Head(todo) OBVIOUS
<1>2. def \in Modules BY <1>1 DEF IInv, TodoInv, Instantiate
<1>3. WellFormed(def) BY <1>2, ProgramsAssumption
<1>4. circuit' = InstantiateModule(def, library) /\ baseCircuit' = CopyAccelerator(circuit')
      /\ edgesDelay' = CalculateDelay(circuit').edge
  BY <1>1 DEF Instantiate
<1>5. baseCircuit' = circuit' /\ (Timed(baseCircuit') => Drawn(baseCircuit'))
  BY <1>3, <1>4, CircuitDrawn
<1>6. edgesDelay' = CalculateDelay(baseCircuit').edge BY <1>4, <1>5
<1>7. edgesDelay' = [e \in DOMAIN edgesDelay' |-> edgesDelay'[e]]
  BY <1>4 DEF CalculateDelay, Balance
<1>8. edgesDelay' = [e \in DOMAIN edgesDelay' |-> CalculateDelay(baseCircuit').edge[e]]
  BY <1>6, <1>7, Zenon
<1>9. QED BY <1>5, <1>8, Zenon DEF DelaysInv

LEMMA NextDelays == IInv /\ DelaysInv /\ [Next]_vars => DelaysInv'
<1> SUFFICES ASSUME IInv, DelaysInv, [Next]_vars PROVE DelaysInv' OBVIOUS
<1>1. CASE Instantiate BY <1>1, DelaysStart
<1>2. CASE FixDelays
  <2>1. /\ stage = "fix" /\ baseCircuit' = baseCircuit
        /\ \E edge \in DOMAIN edgesDelay : edgesDelay' = [e \in DOMAIN edgesDelay \ {edge} |-> edgesDelay[e]]
    BY <1>2 DEF FixDelays
  <2>2. PICK g : g = CalculateDelay(baseCircuit).edge OBVIOUS
  <2>3. edgesDelay = [e \in DOMAIN edgesDelay |-> g[e]] /\ (Timed(baseCircuit) => Drawn(baseCircuit))
    BY <2>1, <2>2, Zenon DEF DelaysInv
  <2>4. edgesDelay' = [e \in DOMAIN edgesDelay' |-> g[e]] BY <2>1, <2>3
  <2>5. QED BY <2>1, <2>2, <2>3, <2>4 DEF DelaysInv
<1>3. CASE Register
  <2>1. stage' # "fix" BY <1>3 DEF Register
  <2>2. QED BY <2>1 DEF DelaysInv
<1>4. CASE UNCHANGED vars BY <1>4 DEF vars, DelaysInv
<1>5. QED BY <1>1, <1>2, <1>3, <1>4 DEF Next

\* On every program in whose modules each loop has a unit that starts on its own, FixDelays
\* never meets a delay less than nothing (accelerator.cpp:436-483).
THEOREM DelaysAreNotNegative == Spec => []NoDelayIsNegative
<1>1. Init => DelaysInv BY DEF Init, DelaysInv
<1>2. IInv /\ DelaysInv => NoDelayIsNegative
  <2>1. SUFFICES ASSUME IInv, DelaysInv, stage = "fix", Timed(baseCircuit), NEW e \in DOMAIN edgesDelay
                 PROVE  edgesDelay[e] \in Nat
    BY DEF NoDelayIsNegative
  <2>2. Drawn(baseCircuit) /\ \E rank : Ranked(baseCircuit, rank)
    BY <2>1, Zenon DEF DelaysInv, Timed
  <2>3. PICK g : g = CalculateDelay(baseCircuit).edge OBVIOUS
  <2>4. g \in [baseCircuit.edges -> Nat] BY <2>2, <2>3, DelaysMeet
  <2>5. edgesDelay[e] = g[e] BY <2>1, <2>3, Zenon DEF DelaysInv
  <2>6. e \in baseCircuit.edges BY <2>1 DEF IInv, EdgesInv
  <2>7. QED BY <2>4, <2>5, <2>6
<1>3. QED BY InitInv, NextInv, NextDelays, <1>1, <1>2, PTL DEF Spec
=============================================================================
