--------------------------- MODULE DelayCalculation ---------------------------
(***************************************************************************)
(* CalculateDelay (delayCalculation.cpp) as an operator on an accelerator,  *)
(* with the order of the units it walks (CalculateDAGOrder).                *)
(*                                                                          *)
(* The latency of a unit is the cycle its data is there, counted from a     *)
(* start in which nothing is delayed; the delay of an edge is what its data *)
(* waits for, that of a unit what the unit itself waits for.                *)
(***************************************************************************)
EXTENDS Accelerator, SequencesExt

\* The units of one role, in the order of their creation.
OfType(a, types) ==
  LET Chosen[i \in 0 .. Len(a.allocated)] ==
        LET n == a.allocated[i]
        IN  IF i = 0 THEN <<>> ELSE IF a.type[n] \in types THEN Append(Chosen[i - 1], n) ELSE Chosen[i - 1]
  IN  Chosen[Len(a.allocated)]

\* A computing unit follows what feeds it: the walk visits the inputs first and keeps the
\* first place of a unit it meets again.  The graph must have no loop of computing units.
Visit(a) ==
  LET Before[n \in DOMAIN a.unit] ==
        IF a.type[n] # "COMPUTE" THEN <<>>
        ELSE FlattenSeq(SetToSeq({Before[e.out.inst] : e \in Into(a, n)})) \o <<n>>
  IN  Before

Walk(a) ==
  LET visit == Visit(a)
  IN  FlattenSeq([i \in DOMAIN a.allocated |->
                    IF a.type[a.allocated[i]] = "UNCONNECTED" THEN <<a.allocated[i]>> ELSE visit[a.allocated[i]]])

FirstOfEach(walk) ==
  LET Seen[i \in 0 .. Len(walk)] ==
        LET before == Seen[i - 1]
        IN  IF i = 0 THEN <<>> ELSE IF Contains(before, walk[i]) THEN before ELSE Append(before, walk[i])
  IN  Seen[Len(walk)]

CalculateDAGOrder(a) ==
  OfType(a, {"SOURCE"}) \o FirstOfEach(Walk(a)) \o OfType(a, {"SINK", "SOURCE_AND_SINK"})

\* Mutated: the length of a buffer is not counted.
EdgeLatency_ShortBuffers(a, e) ==
  a.unit[e.out.inst].decl.outputLatencies[e.out.port] + e.delay - a.unit[e.in.inst].decl.inputDelays[e.in.port]

\* What an edge adds to the latency of the unit it leaves.
EdgeLatency(a, e) ==
  LET from == a.unit[e.out.inst]
  IN  from.decl.outputLatencies[e.out.port] + e.delay - a.unit[e.in.inst].decl.inputDelays[e.in.port]
        + (IF from.decl.name = "FixedBuffer" THEN from.special ELSE 0)

MaxOf(S) == CHOOSE x \in S : \A y \in S : y <= x
MinOf(S) == CHOOSE x \in S : \A y \in S : x <= y

\* The latency of every unit, units of the order one after the other: a unit that takes
\* and gives data sends none, its edges keep the zero they were made with.
Sent(a, base, e) ==
  IF a.type[e.out.inst] = "SOURCE_AND_SINK" THEN 0 ELSE base[e.out.inst] + EdgeLatency(a, e)

SendLatencyUpwards(a) ==
  LET order == CalculateDAGOrder(a)
      Base[k \in 0 .. Len(order)] ==
        LET before == Base[k - 1]
        IN  IF k = 0 THEN [n \in DOMAIN a.unit |-> 0]
            ELSE [before EXCEPT ![order[k]] = MaxOf({0} \cup {Sent(a, before, e) : e \in Into(a, order[k])})]
      base == Base[Len(order)]
  IN  [node |-> base, edge |-> [e \in a.edges |-> Sent(a, base, e)]]

\* Mutated: a variable buffer is like any other unit.
IsAny_Never(a, edge) == FALSE

\* Edges whose delay a variable buffer before them takes: of a buffer, and of a unit all of
\* whose edges are such.
IsAny(a, edge) ==
  LET base == SendLatencyUpwards(a).node
      Varies[n \in DOMAIN a.unit] ==
        /\ a.type[n] # "SOURCE_AND_SINK"
        /\ \/ a.unit[n].decl.name = "Buffer"
           \/ base[n] # 0 /\ \A e \in Into(a, n) : Varies[e.out.inst]
  IN  Varies[edge.out.inst]

\* A unit that only takes data starts with its first edge.
BaseLatency(a, global) ==
  [n \in DOMAIN a.unit |-> IF a.type[n] \in {"SINK", "SOURCE_AND_SINK"} THEN MinOf({global.edge[e] : e \in Into(a, n)})
                           ELSE global.node[n]]

\* The edges into one unit keep the differences between them; the least has no delay.
EdgeDelays(a, slack) == [e \in a.edges |-> slack[e] - MinOf({slack[f] : f \in Into(a, e.in.inst)})]

\* A unit that only gives data starts as late as all its edges allow, and they wait less.
SourceLatency(a, delay) ==
  [n \in DOMAIN a.unit |-> IF a.type[n] = "SOURCE" THEN MinOf({delay[e] : e \in OutOf(a, n)}) ELSE 0]

\* From the latencies of all units and edges to the delays.
Balance(a, global) ==
  LET base  == BaseLatency(a, global)
      delay == EdgeDelays(a, [e \in a.edges |-> base[e.in.inst] - global.edge[e]])
      late  == SourceLatency(a, delay)
  IN  [node |-> [n \in DOMAIN a.unit |-> IF a.type[n] = "SOURCE" THEN late[n] ELSE base[n]],
       edge |-> [e \in a.edges |-> delay[e] - late[e.out.inst]],
       port |-> [p \in {e.in : e \in a.edges} |-> global.edge[CHOOSE e \in a.edges : e.in = p]]]

CalculateDelay(a) == Balance(a, SendLatencyUpwards(a))
=============================================================================
