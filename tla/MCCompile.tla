------------------------------- MODULE MCCompile -------------------------------
(***************************************************************************)
(* The compiler on small specifications, in two parts of which a behaviour  *)
(* exercises one: modules compiled to an accelerator, with every way to     *)
(* connect a few units and modules within modules with every way to share a *)
(* configuration; and small modules merged, two sources, a register, an     *)
(* adder and a store connected in every way, modules with inputs and an     *)
(* output, and three modules at once.  Or one after the other.              *)
(***************************************************************************)
EXTENDS CompiledAccelerator

CONSTANTS Parts,      \* of {"compile", "merge", "both"}
          Families    \* what is merged

VARIABLES part,
          modifier, inputs, merged, recons, toMerged, mergeStage, at, pending, buffers, attempt,
          partition

compileVars == vars
mergeVars == <<modifier, inputs, merged, recons, toMerged, mergeStage, at, pending, buffers, attempt,
               partition>>

Merging == INSTANCE Merge WITH stage <- mergeStage

\* A library with a unit of each kind that matters: with or without a delay, a state, a memory,
\* one or two inputs.  Wires and latencies are small.
MCBasicUnits ==
  [t \in {"Const", "Load", "Reg", "Add", "Mul", "Mem", "Store"} |->
     CASE t = "Const" -> [Declaration(t, <<>>, <<0>>) EXCEPT !.delays = 1, !.configs = 1]
       [] t = "Load"  -> [Declaration(t, <<>>, <<2>>) EXCEPT !.delays = 1, !.configs = 2, !.states = 1]
       [] t = "Reg"   -> Declaration(t, <<0>>, <<1>>)
       [] t = "Mul"   -> Declaration(t, <<0, 0>>, <<4>>)
       [] t = "Add"   -> Declaration(t, <<0, 0>>, <<2>>)
       [] t = "Mem"   -> [Declaration(t, <<0, 0>>, <<3, 3>>) EXCEPT !.delays = 2, !.isSource = TRUE,
                                                                   !.configs = 1, !.memMap = 4]
       [] t = "Store" -> [Declaration(t, <<0>>, <<>>) EXCEPT !.delays = 1, !.configs = 2, !.states = 1, !.memMap = 3]]

W(out, in, port) == Edge(Port(Name(out), 1), Port(Name(in), port), 0)
FromInput(k, in, port) == Edge(Port(InputName(k), 1), Port(Name(in), port), 0)
Later(wire, delay) == [wire EXCEPT !.delay = delay]

-----------------------------------------------------------------------------
(* What is compiled.                                                        *)

I(text, type) == Instance(Name(text), type)

\* ---- Two sources, an adder and a register, a store and a memory with two inputs.
Flat(c1, c2, d1, delay, t1, s1, s2) ==
  <<Module("T", 0,
      <<I("a", "Const"), I("b", "Load"), I("c", "Add"), I("d", "Reg"), I("t", "Store"), I("s", "Mem")>>,
      {W(c1, "c", 1), W(c2, "c", 2), Later(W(d1, "d", 1), delay), W(t1, "t", 1), W(s1, "s", 1), W(s2, "s", 2)})>>
Sources == {"a", "b"}

FlatPrograms ==
  {Flat(c1, c2, d1, delay, t1, s1, s2) :
     c1 \in Sources, c2 \in Sources, d1 \in Sources \cup {"c"}, delay \in {0, 1}, t1 \in {"a", "b", "c", "d"},
     s1 \in {"c", "d"}, s2 \in {"c", "d"}}

\* ---- A module of two inputs with units that keep a configuration, a delay, a state and a
\* memory, some of them shared or static; a module of two of these; and a top of two of those.
Shared(unit, group, unshared) == [unit EXCEPT !.share = group, !.unshared = unshared]
Static(unit) == [unit EXCEPT !.static = TRUE]
Pairs(type, how) ==
  LET x == I("x", type) y == I("y", type)
  IN  CASE how = "own"     -> <<x, y>>
        [] how = "share"   -> <<Shared(x, 0, {}), Shared(y, 0, {})>>
        [] how = "partial" -> <<Shared(x, 0, {1}), Shared(y, 0, {1})>>
        [] how = "last"    -> <<Shared(x, 0, {2}), Shared(y, 0, {2})>>
        [] how = "static"  -> <<x, Static(y)>>
InnerModule(how, first) ==
  Module("A", 2, <<I("k", "Const"), I("c", "Add"), I("d", "Reg")>> \o Pairs("Store", how) \o <<I("e", "Add")>>,
    {FromInput(1, "c", 1), FromInput(2, "d", 1), W("d", "c", 2), W("k", "e", 2), W("c", "e", 1),
     W(first, "x", 1), W("e", "y", 1), Edge(Port(Name("e"), 1), Port(OutName, 1), 0)})
MiddleModule(how) ==
  Module("B", 2, Pairs("A", how) \o <<I("m", "Mem")>>,
    {FromInput(2, "x", 1), FromInput(1, "x", 2), W("x", "y", 1), FromInput(1, "y", 2),
     W("x", "m", 1), W("y", "m", 2), Edge(Port(Name("y"), 1), Port(OutName, 1), 0)})
OuterModule(how) ==
  Module("T", 0, <<I("a", "Const"), I("b", "Load")>> \o Pairs("B", how) \o <<I("t", "Store")>>,
    {W("a", "x", 2), W("b", "x", 1), W("x", "y", 1), W("b", "y", 2), W("y", "t", 1)})
NestedPrograms ==
  {<<InnerModule(how, first), MiddleModule(next), OuterModule(last)>> :
     how \in {"own", "share", "partial", "last", "static"}, first \in {"c", "d"},
     next \in {"own", "share"}, last \in {"own", "share"}}
MCPrograms == FlatPrograms \cup NestedPrograms

\* One circuit in which the delays go wrong in two places.  Both edges of the source a wait, by
\* different amounts, so that one of them keeps its buffer and a should start later; and the
\* memory s has one input from a source that starts later than the others, and one that takes
\* its time.
LateSources ==
  {<<Module("T", 0,
      <<I("a", "Const"), I("b", "Load"), I("k", "Const"), I("c", "Add"), I("e", "Add"), I("t", "Reg"),
        I("r", "Reg"), I("s", "Mem")>>,
      {W("a", "c", 1), W("b", "c", 2), W("c", "e", 1), W("a", "e", 2), W("e", "t", 1),
       W("b", "r", 1), W("r", "s", 1), W("k", "s", 2)})>>}

-----------------------------------------------------------------------------
(* What is merged.                                                          *)

Types == [a |-> "Load", b |-> "Const", c |-> "Add", d |-> "Reg", e |-> "Add", k |-> "Const", m |-> "Mul", n |-> "Mul",
          r |-> "Reg", t |-> "Store"]
UnitFor(n) ==
  CASE n = OutName -> Unit(CircuitOutput)
    [] n[1] = "in" -> [Unit(CircuitInput) EXCEPT !.special = n[2]]
    [] OTHER       -> Unit(MCBasicUnits[Types[n[1]]])
Flattened(names, wires) == MakeCircuit(names, [n \in Range(names) |-> UnitFor(n)], wires)
Named(texts) == [k \in DOMAIN texts |-> Name(texts[k])]

\* Two sources to choose from and a register behind one of them, added and stored.
Adding(c1, c2, d1) ==
  LET reg  == "d" \in {c1, c2}
      used == {"c", "t"} \cup {c1, c2} \cup (IF reg THEN {d1} ELSE {})
  IN  Flattened(Named(SelectSeq(<<"a", "b", "d", "c", "t">>, LAMBDA x : x \in used)),
                {W(c1, "c", 1), W(c2, "c", 2), W("c", "t", 1)} \cup (IF reg THEN {W(d1, "d", 1)} ELSE {}))
MergePairs ==
  LET Some == {"a", "b", "d"}
  IN  {<<Adding(p[1], p[2], p[3]), Adding(q[1], q[2], q[3])>> :
         p \in Some \X Some \X {"a"}, q \in Some \X Some \X {"a", "b"}}

\* Two inputs, one of them through a register, added.
FromInputs(k, p) ==
  Flattened(<<OutName, InputName(1), InputName(2)>> \o Named(<<"d", "c">>),
            {FromInput(k, "d", 1), FromInput(3 - k, "c", p), W("d", "c", 3 - p), Edge(Port(Name("c"), 1), Port(OutName, 1), 0)})
\* Two inputs, both through a register.
Registered ==
  Flattened(<<OutName, InputName(1), InputName(2)>> \o Named(<<"d", "r", "c">>),
            {FromInput(1, "d", 1), FromInput(2, "r", 1), W("d", "c", 1), W("r", "c", 2), Edge(Port(Name("c"), 1), Port(OutName, 1), 0)})
InputPairs ==
  {<<FromInputs(1, 1), FromInputs(k, p)>> : k \in {1, 2}, p \in {1, 2}} \cup {<<FromInputs(2, 1), Registered>>}

Triples == {<<Adding("a", "d", "a"), Adding("d", "b", "b"), Adding("a", c2, "a")>> : c2 \in {"a", "b"}}

MCFamilies == MergePairs \cup InputPairs \cup Triples

\* Three modules that share an adder: the largest clique maps the adders c of the first two on
\* each other, with the register before them, and both adders of the third on those of the second,
\* and it is the only one.  The first needs a buffer before one input of c and the second before
\* the other, so that of the third, which adds the sum to a product that comes later, both inputs
\* of c pass a buffer.
AddedToProduct ==
  {FromInput(1, x, k) : x \in {"c", "m"}, k \in {1, 2}} \cup {W("m", "n", k) : k \in {1, 2}}
    \cup {W("c", "e", 1), W("n", "e", 2), Edge(Port(Name("e"), 1), Port(OutName, 1), 0)}

SharedAdder ==
  {<<Flattened(Named(<<"a", "d", "c", "t">>), {W("a", "c", 1), W("a", "d", 1), W("d", "c", 2), W("c", "t", 1)}),
     Flattened(<<OutName>> \o Named(<<"b", "k", "d", "c", "e">>),
               {W("b", "c", 2), W("b", "d", 1), W("d", "c", 1), W("c", "e", 1), W("k", "e", 2),
                Edge(Port(Name("e"), 1), Port(OutName, 1), 0)}),
     Flattened(<<OutName, InputName(1)>> \o Named(<<"c", "m", "n", "e">>), AddedToProduct)>>}

-----------------------------------------------------------------------------
NothingMerged ==
  /\ modifier = "NONE" /\ mergeStage = "map" /\ at = 1
  /\ inputs = <<>> /\ merged = NoAccel /\ recons = <<>> /\ toMerged = <<>> /\ partition = <<>>
  /\ pending = {} /\ buffers = 0 /\ attempt = 0

PartsInit ==
  /\ part \in Parts
  /\ Init
  /\ part # "merge" \/ todo = CHOOSE p \in Programs : TRUE
  /\ IF part = "compile" THEN NothingMerged ELSE Merging!Init

PartsNext ==
  /\ UNCHANGED part
  /\ \/ /\ part # "merge"
        /\ Next
        /\ UNCHANGED mergeVars
     \/ /\ part = "both" => stage = "done"
        /\ part # "compile"
        /\ Merging!Next
        /\ UNCHANGED compileVars

PartsSpec == PartsInit /\ [][PartsNext]_<<part, compileVars, mergeVars>>

\* Set for a module, the merged accelerator is that module (merge.cpp:2771-2884).
MergedIsEachModule == Merging!MergedIsEachModule

\* No buffer is put behind another, so the loop over the modules ends (merge.cpp:2885-2933).
NoBufferTwice == Merging!NoBufferTwice

\* The data of each merged module still arrives together (merge.cpp:2885-2933).
EachModuleInTime == Merging!EachModuleInTime

\* "whenever multiple paths converge on a single unit, every one of its inputs carries valid data
\* on the same cycle" (document/tsrc/data_validity.tex:7-9): at least in some circuit.
SomeCircuitInTime == SomeDataArrivesTogether \/ EachModuleInTime
================================================================================
