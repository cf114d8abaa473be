--------------------------- MODULE RegisterSubUnit ---------------------------
(***************************************************************************)
(* The compiler from the modules of a specification to the accelerator      *)
(* they make (main.cpp, InstantiateModule, RegisterSubUnit).                *)
(*                                                                          *)
(* Modules are registered in an order in which each comes after those it    *)
(* uses.  Of each, the circuit is built, the delays of its edges are        *)
(* calculated, every delayed edge gets a buffer (FixDelays), and what the   *)
(* other modules need to know is read off the result.  The edges are kept   *)
(* in a hash map of pointers: FixDelays meets them in any order.            *)
(***************************************************************************)
EXTENDS InstanceInfo

CONSTANTS BasicUnits,  \* the declarations of the units of the library, by name
          Programs     \* sequences of module definitions

VARIABLES library,          \* what is known of each type
          todo,             \* modules still to be registered
          circuit,          \* the graph of the module in work
          baseCircuit,      \* the same before FixDelays
          edgesDelay,       \* edges FixDelays has not met, with their delay
          buffersInserted,
          stage,            \* "module", "fix" or "done"
          info              \* the instance info of the finished accelerator

vars == <<library, todo, circuit, baseCircuit, edgesDelay, buffersInserted, stage, info>>

BufferName(k) == <<"fixedBuffer", k>>

\* A module: how many inputs it has, its instances in order, and the edges it asks for.
Module(name, inputs, instances, connections) ==
  [name |-> name, inputs |-> inputs, instances |-> instances, connections |-> connections]
Instance(name, type) ==
  [name |-> name, type |-> type, static |-> FALSE, share |-> None, unshared |-> {}]

\* The circuit a definition makes: first the output, if any connection names it, the inputs
\* in order, the instances, then the connections.
NamesOf(def) ==
  (IF \E c \in def.connections : c.in.inst = OutName THEN <<OutName>> ELSE <<>>)
    \o [k \in 1 .. def.inputs |-> InputName(k)] \o [i \in DOMAIN def.instances |-> def.instances[i].name]
UnitNamed(def, n, types) ==
  IF n = OutName THEN Unit(CircuitOutput)
  ELSE IF n \in {InputName(k) : k \in 1 .. def.inputs} THEN [Unit(CircuitInput) EXCEPT !.special = n[2]]
  ELSE LET i == def.instances[CHOOSE i \in DOMAIN def.instances : def.instances[i].name = n]
       IN  [decl |-> types[i.type], special |-> 0, static |-> i.static, share |-> i.share, unshared |-> i.unshared]
InstantiateModule(def, types) ==
  MakeCircuit(NamesOf(def), [n \in Range(NamesOf(def)) |-> UnitNamed(def, n, types)], def.connections)

\* What the front end refuses otherwise: a connection is between instances of the module, and
\* names are given once (PushEntity); and what it makes sure of: a share(config) is of instances
\* of one type, each with an index of its own (versatSpecificationParser.cpp:178-184).  None has
\* a name FixDelays gives (the code does not look for one called fixedBuffer0), nor is one a group.
WellFormed(def) ==
  /\ def.inputs \in Nat
  /\ def.instances \in Seq(Range(def.instances))
  /\ \A c \in def.connections : {c.out.inst, c.in.inst} \subseteq Range(NamesOf(def))
  /\ IsInjective(NamesOf(def))
  /\ \A n \in Range(NamesOf(def)) : n[1] \notin {"fixedBuffer", "share"}
  /\ \A i, j \in Range(def.instances) : i.share = j.share /\ i.share # None => i.type = j.type
Modules == UNION {Range(program) : program \in Programs}
TypesOf(def) == {i.type : i \in Range(def.instances)}

\* A module comes after those it uses (CalculateDAG, main.cpp:804).
ASSUME ProgramsAssumption ==
  /\ \A program \in Programs : program \in Seq(Modules) \ {<<>>}
  /\ \A def \in Modules : WellFormed(def)
  /\ \A program \in Programs : \A k \in DOMAIN program :
       TypesOf(program[k]) \subseteq DOMAIN BasicUnits \cup {program[j].name : j \in 1 .. k - 1}

\* A unit of the library has nothing inside.
ASSUME UnitsAssumption ==
  \A type \in DOMAIN BasicUnits :
    LET decl == BasicUnits[type]
    IN  ~decl.composite /\ decl.info = <<>> /\ {decl.configs, decl.states} \subseteq Nat

\* The top of the accelerator: one instance of the last module, with an input for each of
\* its inputs and the output for all of its outputs.
TopModule(type) ==
  LET inputs == DOMAIN type.inputDelays
      outputs == DOMAIN type.outputLatencies
  IN  Module("TOP", Len(type.inputDelays), <<Instance(Name("TOP"), type.name)>>,
             {Edge(Port(InputName(k), 1), Port(Name("TOP"), k), 0) : k \in inputs}
               \cup {Edge(Port(Name("TOP"), k), Port(OutName, k), 0) : k \in outputs})

Init ==
  /\ library = BasicUnits
  /\ todo \in Programs
  /\ circuit = NoAccel
  /\ baseCircuit = NoAccel
  /\ edgesDelay = <<>>
  /\ buffersInserted = 0
  /\ stage = "module"
  /\ info = <<>>

\* InstantiateModule and the first half of RegisterSubUnit.
Instantiate ==
  /\ stage = "module" /\ todo # <<>>
  /\ circuit' = InstantiateModule(Head(todo), library)
  /\ baseCircuit' = CopyAccelerator(circuit')
  /\ edgesDelay' = CalculateDelay(circuit').edge
  /\ buffersInserted' = 0
  /\ stage' = "fix"
  /\ UNCHANGED <<library, todo, info>>

\* An edge without a delay, one into the output of the module, and one out of a variable
\* buffer stay as they are.
Skipped(edge) ==
  \/ edgesDelay[edge] = 0
  \/ circuit.unit[edge.in.inst].decl.name = "CircuitOutput"
  \/ circuit.unit[edge.out.inst].decl.name = "Buffer"

SkipEdge(edge) ==
  /\ Skipped(edge)
  /\ UNCHANGED <<circuit, buffersInserted>>

\* Mutated: the cycle a buffer takes anyway is not taken off.
BufferOf_Longer(delay) == [Unit(FixedBuffer) EXCEPT !.special = delay]

\* A fixed buffer delays by one cycle and "special" more.
BufferOf(delay) == [Unit(FixedBuffer) EXCEPT !.special = delay - FixedBuffer.outputLatencies[1]]

BufferEdge(edge) ==
  /\ ~Skipped(edge)
  /\ LET buffer == BufferName(buffersInserted)
     IN  circuit' = InsertUnit(CreateFUInstance(circuit, buffer, BufferOf(edgesDelay[edge])),
                               edge.out, edge.in, Port(buffer, 1), Port(buffer, 1), 0)
  /\ buffersInserted' = buffersInserted + 1

FixDelays ==
  /\ stage = "fix"
  /\ \E edge \in DOMAIN edgesDelay :
       /\ edgesDelay' = [e \in DOMAIN edgesDelay \ {edge} |-> edgesDelay[e]]
       /\ SkipEdge(edge) \/ BufferEdge(edge)
  /\ UNCHANGED <<library, todo, baseCircuit, stage, info>>

\* The second half of RegisterSubUnit.
Register ==
  /\ stage = "fix" /\ DOMAIN edgesDelay = {}
  /\ LET name == Head(todo).name
     IN  library' = [t \in DOMAIN library \cup {name} |->
                       IF t = name THEN DeclarationOf(name, circuit) ELSE library[t]]
  /\ IF Len(todo) > 1
     THEN stage' = "module" /\ todo' = Tail(todo) /\ UNCHANGED <<circuit, info>>
     ELSE /\ stage' = "done"
          /\ circuit' = InstantiateModule(TopModule(library'[Head(todo).name]), library')
          /\ info' = CalculateAcceleratorInfo(circuit', "TOP")
          /\ UNCHANGED todo
  /\ UNCHANGED <<baseCircuit, edgesDelay, buffersInserted>>

Next == Instantiate \/ FixDelays \/ Register

Spec == Init /\ [][Next]_vars

-----------------------------------------------------------------------------
\* The graph the buffers of FixDelays were put into: what a unit outside the base circuit
\* sits between is one edge of it.
IsBuffer(n) == n \notin DOMAIN baseCircuit.unit
Ends(edges) == {<<e.out, e.in>> : e \in edges}
ThroughBuffers ==
  {pair \in circuit.edges \X circuit.edges :
     pair[1].in.inst = pair[2].out.inst /\ IsBuffer(pair[1].in.inst)}
Contracted ==
  {pair \in Ends(circuit.edges) : ~IsBuffer(pair[1].inst) /\ ~IsBuffer(pair[2].inst)}
    \cup {<<pair[1].out, pair[2].in>> : pair \in ThroughBuffers}

\* The buffers are in the middle of edges of the module's graph, and nothing else of it changes,
\* whichever edges FixDelays has met so far.
BuffersKeepTheGraph == stage = "fix" => Contracted = Ends(baseCircuit.edges)
=============================================================================
