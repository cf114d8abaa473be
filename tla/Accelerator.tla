----------------------------- MODULE Accelerator -----------------------------
(***************************************************************************)
(* The graph of an accelerator (accelerator.cpp) as a value.                *)
(*                                                                          *)
(* An accelerator is a record: "allocated", its instances by name in the    *)
(* order of their creation; "unit", what each is; "edges", the connections  *)
(* from an output port to an input port; "type", the role CalculateNodeType *)
(* last gave an instance.  The role is stored, since the code recomputes it *)
(* when units are connected and not when a connection is removed.           *)
(*                                                                          *)
(* A unit is [decl, special, static, share, unshared]: its declaration, the *)
(* port of an input or the length of a buffer, whether it is static, the    *)
(* group it shares its configuration with (or None), and the wires left out *)
(* of the sharing.  A declaration is a record with at least the fields of   *)
(* Declaration below.  Ports are counted from 1.  A name is a pair of a     *)
(* text and a number, so that what the compiler adds has names of its own.  *)
(***************************************************************************)
EXTENDS Integers, Sequences, FiniteSets

None == -1
Name(text) == <<text, 0>>
InputName(k) == <<"in", k>>
OutName == Name("out")

NoAccel == [allocated |-> <<>>, unit |-> <<>>, edges |-> {}, type |-> <<>>]

\* A declaration of the library: a unit of its own, or what RegisterSubUnit made of a
\* circuit.  configs, states and delays count wires; memMap is the width of the addresses of
\* a memory mapped unit, or None; memSize counts the interfaces to it.
Declaration(name, inputDelays, outputLatencies) ==
  [name |-> name, inputDelays |-> inputDelays, outputLatencies |-> outputLatencies,
   isSource |-> FALSE, delays |-> 0, configs |-> 0, states |-> 0, memMap |-> None, memSize |-> 0,
   composite |-> FALSE, info |-> <<>>, circuit |-> NoAccel]

MaxOutputs == 4   \* 50 in the code (versat.cpp)
CircuitInput == Declaration("CircuitInput", <<>>, <<0>>)
CircuitOutput == Declaration("CircuitOutput", [p \in 1 .. MaxOutputs |-> 0], <<>>)
FixedBuffer == Declaration("FixedBuffer", <<0>>, <<1>>)

Unit(decl) == [decl |-> decl, special |-> 0, static |-> FALSE, share |-> None, unshared |-> {}]

Port(inst, port) == [inst |-> inst, port |-> port]
Edge(out, in, delay) == [out |-> out, in |-> in, delay |-> delay]
Into(a, n) == {e \in a.edges : e.in.inst = n}
OutOf(a, n) == {e \in a.edges : e.out.inst = n}

\* The role of an instance.  isSource of a module sets SINK_DELAY, and SOURCE_DELAY is never set.
CalculateNodeType(a, n) ==
  CASE Into(a, n) # {} /\ OutOf(a, n) # {} -> IF a.unit[n].decl.isSource THEN "SOURCE_AND_SINK" ELSE "COMPUTE"
    [] Into(a, n) # {} /\ OutOf(a, n) = {} -> "SINK"
    [] Into(a, n) = {} /\ OutOf(a, n) # {} -> "SOURCE"
    [] OTHER                               -> "UNCONNECTED"

CreateFUInstance(a, name, unit) ==
  [a EXCEPT !.allocated = Append(@, name),
            !.unit = [n \in DOMAIN @ \cup {name} |-> IF n = name THEN unit ELSE @[n]],
            !.type = [n \in DOMAIN @ \cup {name} |-> IF n = name THEN "UNCONNECTED" ELSE @[n]]]

ConnectUnits(a, out, in, delay) ==
  LET joined == [a EXCEPT !.edges = @ \cup {Edge(out, in, delay)}]
  IN  [joined EXCEPT !.type = [n \in DOMAIN @ |-> IF n \in {out.inst, in.inst}
                                                  THEN CalculateNodeType(joined, n) ELSE @[n]]]

\* Mutated: every connection of the output goes.
RemoveConnection_FanOut(a, out, in) == [a EXCEPT !.edges = {e \in @ : e.out # out}]

\* Every connection between the two ports goes, whatever its delay; the roles stay as they were.
RemoveConnection(a, out, in) == [a EXCEPT !.edges = {e \in @ : e.out # out \/ e.in # in}]

\* The delay goes to the edge into the new unit.
InsertUnit(a, before, after, newOutput, newInput, delay) ==
  ConnectUnits(ConnectUnits(RemoveConnection(a, before, after), newOutput, after, 0), before, newInput, delay)

\* Every instance is created anew and every edge connected, so that the roles are those of the edges.
CopyAccelerator(a) == [a EXCEPT !.type = [n \in DOMAIN a.unit |-> CalculateNodeType(a, n)]]

\* CreateFUInstance for each name in order, then ConnectUnits for each edge.
MakeCircuit(names, unit, edges) ==
  CopyAccelerator([allocated |-> names, unit |-> unit, edges |-> edges, type |-> <<>>])
=============================================================================
