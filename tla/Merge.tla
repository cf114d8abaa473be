--------------------------------- MODULE Merge ---------------------------------
(***************************************************************************)
(* The merge of modules that are never at work at once (merge.cpp, Merge2): *)
(* one graph that can be each of them, which one by multiplexers.           *)
(*                                                                          *)
(* Of every module a second graph is kept, its recon, which gets the        *)
(* multiplexers and buffers that lie on the module's own paths.  Modules    *)
(* are folded into the merged graph one by one along a mapping of units;    *)
(* inputs that then have several drivers get a multiplexer; and the recons  *)
(* are balanced in turn until none of them needs a buffer, since a buffer   *)
(* one of them needs lies on the paths of others too.                       *)
(*                                                                          *)
(* A unit of the merged graph is named by the module and the unit it was    *)
(* made for.  The modules contain no merged units themselves.               *)
(***************************************************************************)
EXTENDS DelayCalculation

CONSTANT Families   \* sequences of the flattened graphs to merge

VARIABLES modifier,   \* "NONE" or "NO_UNIT_MERGED"
          inputs, merged, recons,
          toMerged,   \* of each recon, the unit of the merged graph each of its units is
          stage,      \* "map", "multiplex", "balance" or "done"
          at,         \* the module to be mapped, the recon in balance
          pending,    \* edges of that recon still to be delayed
          buffers,    \* buffers inserted so far
          attempt,    \* those inserted before this turn over the recons
          partition   \* what is known of each module in the end

vars == <<modifier, inputs, merged, recons, toMerged, stage, at, pending, buffers, attempt, partition>>

MuxPorts == 8
Mux == [Declaration("Mux8", [k \in 1 .. MuxPorts |-> 0], <<1>>) EXCEPT !.configs = 1]
VariableBuffer == Declaration("Buffer", <<0>>, <<1>>)
MergedName(i, n) == <<"unit", <<i, n>>>>
MuxName(in) == <<"mux", in>>
MergeBuffer(k) == <<"buffer", k>>
IsMux(a, n) == a.unit[n].decl.name = "Mux8"
IsVariable(a, n) == a.unit[n].decl.name = "Buffer"

Mapped(i, port) == Port(toMerged[i][port.inst], port.port)

Init ==
  /\ modifier \in {"NONE", "NO_UNIT_MERGED"}
  /\ inputs \in Families
  /\ merged = NoAccel
  /\ recons = inputs
  /\ toMerged = [i \in DOMAIN inputs |-> <<>>]
  /\ stage = "map"
  /\ at = 1
  /\ pending = {}
  /\ buffers = 0
  /\ attempt = 0
  /\ partition = <<>>

-----------------------------------------------------------------------------
\* What can be mapped on what: a unit on one of its kind, or an edge on an edge of which both
\* ends can.  A mapping has the edges it maps, if it does, and the pairs of units, each of the
\* merged graph and of the module.
NodeConflict(unit) == unit.static \/ unit.share # None
EqualPortMapping(u, v) ==
  u.decl.name = v.decl.name /\ (u.decl.name = "CircuitInput" => u.special = v.special)
IsInOut(unit) == unit.decl.name \in {"CircuitInput", "CircuitOutput"}

Specifics(flat) ==
  {p \in (DOMAIN merged.unit) \X (DOMAIN flat.unit) :
     IsInOut(merged.unit[p[1]]) /\ EqualPortMapping(merged.unit[p[1]], flat.unit[p[2]])}

EdgeMappings(flat) ==
  LET equal(m, n) == /\ EqualPortMapping(merged.unit[m], flat.unit[n])
                     /\ ~NodeConflict(merged.unit[m]) /\ ~NodeConflict(flat.unit[n])
  IN  {[edges |-> p, units |-> {<<p[1].out.inst, p[2].out.inst>>, <<p[1].in.inst, p[2].in.inst>>}] :
         p \in {q \in merged.edges \X flat.edges : /\ equal(q[1].out.inst, q[2].out.inst)
                                                   /\ equal(q[1].in.inst, q[2].in.inst)
                                                   /\ q[1].delay = q[2].delay}}

NodeMappings(flat) ==
  {[edges |-> <<>>, units |-> {p}] :
     p \in {q \in (DOMAIN merged.unit) \X (DOMAIN flat.unit) :
              ~IsInOut(merged.unit[q[1]]) /\ EqualPortMapping(merged.unit[q[1]], flat.unit[q[2]])}}

MappingConflict(flat, map1, map2) ==
  \/ \E p \in map1.units \cup map2.units : NodeConflict(merged.unit[p[1]]) \/ NodeConflict(flat.unit[p[2]])
  \/ \E p \in map1.units, q \in map2.units : (p[1] = q[1]) # (p[2] = q[2])

\* MaxClique of the consolidation graph: its largest sets of mappings that go together.  Which of
\* several it returns is a matter of the order in which edges were connected: any of them here.
Cliques(flat) ==
  LET grow(node, found) == found \cup {c \cup {node} : c \in {d \in found :
                                         \A map \in d : ~MappingConflict(flat, map, node)}}
      found == FoldSet(grow, {{}}, EdgeMappings(flat) \cup NodeMappings(flat))
      size  == MaxOf({Cardinality(c) : c \in found})
  IN  {c \in found : Cardinality(c) = size}

Mappings(flat) ==
  IF at = 1 \/ modifier = "NO_UNIT_MERGED" THEN {{}}
  ELSE {Specifics(flat) \cup UNION {map.units : map \in c} : c \in Cliques(flat)}

-----------------------------------------------------------------------------
\* Units that are mapped become one, the others and the edges are added where they miss.
AddModule ==
  /\ stage = "map"
  /\ \E map \in Mappings(inputs[at]) :
       LET flat   == inputs[at]
           target == [n \in DOMAIN flat.unit |-> IF \E p \in map : p[2] = n THEN (CHOOSE p \in map : p[2] = n)[1]
                                                 ELSE MergedName(at, n)]
           new    == SelectSeq(flat.allocated, LAMBDA n : target[n] = MergedName(at, n))
           units  == [m \in DOMAIN merged.unit \cup Range(target) |->
                        IF m \in DOMAIN merged.unit THEN merged.unit[m] ELSE flat.unit[m[2][2]]]
           edges  == {Edge(Port(target[e.out.inst], e.out.port), Port(target[e.in.inst], e.in.port), e.delay) :
                        e \in flat.edges}
       IN  /\ merged' = MakeCircuit(merged.allocated \o [k \in DOMAIN new |-> MergedName(at, new[k])], units,
                                    merged.edges \cup edges)
           /\ toMerged' = [toMerged EXCEPT ![at] = target]
  /\ IF at < Len(inputs) THEN at' = at + 1 /\ UNCHANGED stage
                         ELSE stage' = "multiplex" /\ at' = 0
  /\ UNCHANGED <<modifier, inputs, recons, pending, buffers, attempt, partition>>

-----------------------------------------------------------------------------
\* The drivers of an input in the order in which the recons use them; a recon that uses the
\* input gets the multiplexer too, with the one connection it needs.
Drives(i, in) == {e \in recons[i].edges : Mapped(i, e.in) = in}
Crowded == {in \in {e.in : e \in merged.edges} : Cardinality({e \in merged.edges : e.in = in}) > 1}

Drivers(in) ==
  FoldLeft(LAMBDA seen, i : seen \o SelectSeq(SetToSeq({<<Mapped(i, e.out), e.delay>> : e \in Drives(i, in)}),
                                              LAMBDA d : ~Contains(seen, d)),
           <<>>, [i \in DOMAIN recons |-> i])

\* Mutated: the ports are counted from the other end.
DriverPort_FromLast(i, in, edge) ==
  CHOOSE k \in DOMAIN Drivers(in) : Reverse(Drivers(in))[k] = <<Mapped(i, edge.out), edge.delay>>

\* The port of the multiplexer for an edge of a recon, which others may have asked for before.
DriverPort(i, in, edge) ==
  CHOOSE k \in DOMAIN Drivers(in) : Drivers(in)[k] = <<Mapped(i, edge.out), edge.delay>>

InsertMultiplexer(in) ==
  LET mux     == MuxName(in)
      drivers == Drivers(in)
      open    == [CreateFUInstance(merged, mux, Unit(Mux)) EXCEPT !.edges = {e \in @ : e.in # in}]
  IN  /\ merged' = FoldLeft(LAMBDA a, k : ConnectUnits(a, drivers[k][1], Port(mux, k), drivers[k][2]),
                            ConnectUnits(open, Port(mux, 1), in, 0), [k \in DOMAIN drivers |-> k])
      /\ recons' = [i \in DOMAIN recons |->
                      FoldSet(LAMBDA e, a : InsertUnit(CreateFUInstance(a, mux, Unit(Mux)), e.out, e.in, Port(mux, 1),
                                                       Port(mux, DriverPort(i, in, e)), e.delay),
                              recons[i], Drives(i, in))]
      /\ toMerged' = [i \in DOMAIN recons |-> IF Drives(i, in) = {} THEN toMerged[i]
                                              ELSE toMerged[i] @@ (mux :> mux)]

\* Edges that wait, but for those a variable buffer already lets wait as long as it takes.
GenerateFixDelays(a) ==
  LET delay == CalculateDelay(a).edge IN {e \in a.edges : delay[e] # 0 /\ ~IsAny(a, e)}

Multiplex ==
  /\ stage = "multiplex"
  /\ IF Crowded # {}
     THEN /\ \E in \in Crowded : InsertMultiplexer(in)
          /\ UNCHANGED <<stage, at, pending>>
     ELSE /\ stage' = "balance" /\ at' = 1
          /\ pending' = GenerateFixDelays(recons[1])
          /\ UNCHANGED <<merged, recons, toMerged>>
  /\ UNCHANGED <<modifier, inputs, buffers, attempt, partition>>

\* Mutated: a buffer is not put into the other recons.
EndsIn_OwnRecon(i, before, after) ==
  IF i # at THEN {}
  ELSE {p \in (DOMAIN toMerged[i]) \X (DOMAIN toMerged[i]) :
          toMerged[i][p[1]] = before.inst /\ toMerged[i][p[2]] = after.inst}

\* The units of recon i that are the ends of an edge of the merged graph, if it has both; whether
\* it has the edge is not asked.
EndsIn(i, before, after) ==
  {p \in (DOMAIN toMerged[i]) \X (DOMAIN toMerged[i]) :
     toMerged[i][p[1]] = before.inst /\ toMerged[i][p[2]] = after.inst}

\* The buffer goes into the merged graph and into every recon that has both ends.
InsertNewUnit(edge) ==
  LET buffer == MergeBuffer(buffers)
      before == Mapped(at, edge.out)
      after  == Mapped(at, edge.in)
      insert(a, out, in) == InsertUnit(CreateFUInstance(a, buffer, [Unit(VariableBuffer) EXCEPT !.static = TRUE]),
                                       out, in, Port(buffer, 1), Port(buffer, 1), 0)
  IN  /\ merged' = insert(merged, before, after)
      /\ recons' = [i \in DOMAIN recons |->
                      FoldSet(LAMBDA p, a : insert(a, Port(p[1], before.port), Port(p[2], after.port)),
                              recons[i], EndsIn(i, before, after))]
      /\ toMerged' = [i \in DOMAIN recons |-> IF EndsIn(i, before, after) = {} THEN toMerged[i]
                                              ELSE toMerged[i] @@ (buffer :> buffer)]

BufferEdge ==
  /\ stage = "balance"
  /\ \E edge \in pending : InsertNewUnit(edge) /\ pending' = pending \ {edge}
  /\ buffers' = buffers + 1
  /\ UNCHANGED <<modifier, inputs, stage, at, attempt, partition>>

\* What is known of a module in the end: when its units start, how long the buffers wait, and
\* the ports of the multiplexers on its paths.
Partition(a) ==
  LET delay == CalculateDelay(a)
  IN  [base |-> delay.node,
       variableBufferDelay |-> [n \in {m \in DOMAIN a.unit : IsVariable(a, m)} |->
                                  delay.edge[CHOOSE e \in OutOf(a, n) : TRUE]],
       mergePort |-> [n \in {m \in DOMAIN a.unit : IsMux(a, m)} |-> (CHOOSE e \in Into(a, n) : TRUE).in.port]]

NextRecon ==
  /\ stage = "balance" /\ pending = {}
  /\ LET next == IF at < Len(recons) THEN at + 1 ELSE 1
         over == next = 1 /\ buffers = attempt
     IN  /\ at' = next
         /\ attempt' = IF next = 1 THEN buffers ELSE attempt
         /\ pending' = IF over THEN {} ELSE GenerateFixDelays(recons[next])
         /\ stage' = IF over THEN "done" ELSE stage
         /\ partition' = IF over THEN [i \in DOMAIN recons |-> Partition(recons[i])] ELSE partition
  /\ UNCHANGED <<modifier, inputs, merged, recons, toMerged, buffers>>

Next == AddModule \/ Multiplex \/ BufferEdge \/ NextRecon

Spec == Init /\ [][Next]_vars

-----------------------------------------------------------------------------
\* What drives an input of the merged graph while module i is at work, seen through the
\* multiplexers and the buffers, and the cycles this takes.
DrivenBy(i, in) ==
  LET info == partition[i]
      Out(out, cycles) == [out |-> out, cycles |-> cycles]
      edge(port) == CHOOSE e \in merged.edges : e.in = port
      Behind[n \in DOMAIN info.mergePort \cup DOMAIN info.variableBufferDelay] ==
        LET mux == n \in DOMAIN info.mergePort
            e   == edge(Port(n, IF mux THEN info.mergePort[n] ELSE 1))
            own == 1 + (IF mux THEN 0 ELSE info.variableBufferDelay[n])
        IN  IF e.out.inst \in DOMAIN Behind THEN [Behind[e.out.inst] EXCEPT !.cycles = @ + own] ELSE Out(e.out, own)
      e == edge(in)
  IN  IF e.out.inst \in DOMAIN Behind THEN Behind[e.out.inst] ELSE Out(e.out, 0)

\* The merged graph is each of the modules: with its multiplexers set every connection of the
\* module is there, and every input has one driver, whatever the search mapped (merge.cpp).
MergedIsEachModule ==
  stage = "done" =>
    /\ Crowded = {}
    /\ \A i \in DOMAIN inputs : \A e \in inputs[i].edges : DrivenBy(i, Mapped(i, e.in)).out = Mapped(i, e.out)

\* The loop over the recons ends: no buffer is ever put behind another, so an edge gets one at most
\* (merge.cpp:2885-2933, "while(true)").
NoBufferTwice == ~ \E e \in merged.edges : IsVariable(merged, e.out.inst) /\ IsVariable(merged, e.in.inst)

\* Each module's data still arrives together, though buffers the others needed lie on its paths:
\* "whenever multiple paths converge on a single unit, every one of its inputs carries valid data on
\* the same cycle" (document/tsrc/data_validity.tex:7-9).
EachModuleInTime ==
  stage = "done" =>
    \A i \in DOMAIN inputs :
      LET flat == inputs[i]
          driven == [e \in flat.edges |-> DrivenBy(i, Mapped(i, e.in)).cycles]
          decl(n) == flat.unit[n].decl
          transit(e) == decl(e.out.inst).outputLatencies[e.out.port] + driven[e]
                          - decl(e.in.inst).inputDelays[e.in.port]
          Start[n \in DOMAIN flat.unit] ==
            IF decl(n).delays > 0 \/ Into(flat, n) = {} THEN partition[i].base[n]
            ELSE MaxOf({Start[e.out.inst] + transit(e) : e \in Into(flat, n)})
      IN  \A e \in flat.edges : decl(e.in.inst).name # "CircuitOutput" =>
            Start[e.out.inst] + transit(e) = Start[e.in.inst]
=============================================================================
