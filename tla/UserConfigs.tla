------------------------------ MODULE UserConfigs ------------------------------
(***************************************************************************)
(* User configuration functions (compiler/userConfigs.cpp and the part of    *)
(* compiler/codeGeneration.cpp that emits them).  The compiler takes the     *)
(* functions one after the other, each leaf statement on its own and once    *)
(* for every turn of the gen loops around it; it then emits C for those of    *)
(* the accelerator, which the program calls.                                 *)
(*                                                                         *)
(* A statement is [type, var, start, end, body, unit, index, wire, pointer,  *)
(* expr, func, args]: FOR and GEN have a variable, bounds and a body, WIRE    *)
(* sets a wire of a unit, ADDRESS its address generator, with the pointer    *)
(* of an array access, and CALL runs a function of an inner module.           *)
(***************************************************************************)
EXTENDS AddressGen

CONSTANTS Units,      \* what a unit of the accelerator or of its modules is, by its name
          Programs    \* the functions a compilation is given, with the arguments of the last

VARIABLES source,      \* the program
          stage,       \* "instantiate", "emit", "ready", "exit" or "called"
          functions,   \* the functions instantiated so far
          stuff,       \* what the function at hand consists of so far
          statement,   \* the statement at hand
          gens,        \* the values of the gen loops around it
          code,        \* the C of the accelerator's function
          next,        \* the part of it that runs next
          arguments,   \* what it was called with
          writes       \* the registers it wrote, in order

vars == <<source, stage, functions, stuff, statement, gens, code, next, arguments, writes>>

\* ---- Expressions of a specification: [op, name, value, args].
NoGens == [name \in {} |-> 0]

\* (made tells this call from others, for the function nodes it makes.)
RECURSIVE SymbolicFromMathExpression(_, _, _)
SymbolicFromMathExpression(math, values, made) ==
  LET left  == SymbolicFromMathExpression(math.args[1], values, Append(made, 1))
      right == SymbolicFromMathExpression(math.args[2], values, Append(made, 2))
  IN  CASE math.op \in {"Minus", "Add", "Sub", "Mul", "Div"} -> Operation(math.op, left, right)
        [] math.op = "DUTY" -> SYM_Duty(left, right, made)
        [] math.op = "LITERAL" -> SYM_Lit(math.value)
        [] math.op = "NAME" -> IF math.name \in DOMAIN values THEN SYM_Lit(values[math.name]) ELSE SYM_Var(math.name)

CalculateConstantExpression(math, values) == Value(SymbolicFromMathExpression(math, values, <<>>), NoValues)

\* ---- Every leaf with the loops around it, the outermost first.
RECURSIVE IndividualStatements(_, _)
IndividualStatements(statements, around) ==
  LET Leaf(s) == <<[loops |-> around, leaf |-> s]>>
      Below(s) == IF s.type \in {"FOR", "GEN"} THEN IndividualStatements(s.body, Append(around, s)) ELSE Leaf(s)
  IN  FlattenSeq(Each(Below, statements))

Body(k) == IndividualStatements(source.functions[k].body, <<>>)

\* The function, the statement of it and its loops at hand; the gen loops are passed outwards.
Current   == Len(functions) + 1
Statement == Body(Current)[statement]
LoopsOf(s, type) == SelectSeq(s.loops, LAMBDA loop : loop.type = type)
GenLoops  == LoopsOf(Statement, "GEN")
ForLoops  == LoopsOf(Statement, "FOR")

\* The bounds of all gen loops are computed before the first turn, from the starts of those
\* around them.
GenStart(values, loop) == (loop.var :> CalculateConstantExpression(loop.start, values)) @@ values
GenStarts(s) == FoldLeft(GenStart, NoGens, LoopsOf(s, "GEN"))
GenEnd(loop) == CalculateConstantExpression(loop.end, GenStarts(Statement))

\* Increments the gen loops, the last one first; false where all turns are done.
RECURSIVE Increment(_, _)
Increment(values, i) ==
  LET var == GenLoops[i].var
  IN  IF i = 0 THEN <<FALSE, values>>
      ELSE IF values[var] + 1 < GenEnd(GenLoops[i]) THEN <<TRUE, [values EXCEPT ![var] = @ + 1]>>
      ELSE Increment([values EXCEPT ![var] = GenStarts(Statement)[var]], i - 1)

-----------------------------------------------------------------------------
\* ---- What a leaf becomes: assignments of wires and address generators.  Its expressions have
\* places: its own is at 1, arguments and the bounds of the loops around it are at others.
Sym(math, place) == SymbolicFromMathExpression(math, gens, <<Current, statement, gens, place>>)
LhsName(leaf) == <<leaf.unit, CalculateConstantExpression(leaf.index, gens)>>

NoAccess == [internal |-> LinearSum(<<>>, SYM_0), external |-> LinearSum(<<>>, SYM_0), dutyDiv |-> SYM_1]
Assignment(lhs, wire, expr) ==
  [kind |-> "ASSIGNMENT", lhs |-> lhs, wire |-> wire, expr |-> expr, access |-> NoAccess, pointer |-> NoName]
AddressGeneration(lhs, access, pointer) ==
  [kind |-> "ADDRESS_GEN", lhs |-> lhs, wire |-> "", expr |-> SYM_0, access |-> access, pointer |-> pointer]

\* A function of an inner module with the arguments put into what it consists of.
Invoke(function, lhs, args) ==
  LET Arguments == [v \in ToSet(function.variables) |-> args[SelectInSeq(function.variables, LAMBDA w : w = v)]]
      Invoked(s) ==
        IF s.kind = "ASSIGNMENT" THEN Assignment(lhs \o s.lhs, s.wire, SYM_Replace(s.expr, Arguments))
        ELSE AddressGeneration(lhs \o s.lhs, ReplaceVariables(s.access, Arguments), NoName)
  IN  Each(Invoked, function.stuff)

AddressAccessOf(leaf) ==
  LET Loop(i) == LET l == ForLoops[i] IN [var |-> l.var, start |-> Sym(l.start, 2 * i), end |-> Sym(l.end, 2 * i + 1)]
  IN  CompileAddressGen(Each(Loop, [i \in DOMAIN ForLoops |-> i]), Sym(leaf.expr, 1))

StuffOf(leaf) ==
  LET lhs == <<LhsName(leaf)>>
      Argument(i) == Sym(leaf.args[i], i)
  IN  CASE leaf.type = "WIRE"    -> <<Assignment(lhs, leaf.wire, Sym(leaf.expr, 1))>>
        [] leaf.type = "ADDRESS" -> <<AddressGeneration(lhs, AddressAccessOf(leaf), leaf.pointer)>>
        [] leaf.type = "CALL"    -> Invoke(functions[leaf.func], lhs, Each(Argument, [i \in DOMAIN leaf.args |-> i]))

\* The unit at the end of a name through the modules it is in.
UnitOf(lhs) == Units[Last(lhs)[1]]

-----------------------------------------------------------------------------
Init ==
  /\ source \in Programs
  /\ stage = "instantiate"
  /\ functions = <<>>
  /\ stuff = <<>>
  /\ statement = 1
  /\ gens = GenStarts(IndividualStatements(source.functions[1].body, <<>>)[1])
  /\ code = <<>>
  /\ next = 1
  /\ arguments = NoGens
  /\ writes = <<>>

\* One turn of the gen loops around the statement at hand, then the next turn, the next
\* statement or the next function.
InstantiateConfigFunction ==
  LET step == Increment(gens, Len(GenLoops))
      done == stuff \o StuffOf(Statement.leaf)
      GoTo(k, n) == statement' = n /\ gens' = GenStarts(Body(k)[n])
  IN
  /\ stage = "instantiate"
  /\ \/ /\ step[1]
        /\ stuff' = done /\ gens' = step[2]
        /\ UNCHANGED <<stage, functions, statement>>
     \/ /\ ~step[1] /\ statement < Len(Body(Current))
        /\ stuff' = done /\ GoTo(Current, statement + 1)
        /\ UNCHANGED <<stage, functions>>
     \/ /\ ~step[1] /\ statement = Len(Body(Current))
        /\ functions' = Append(functions, [variables |-> source.functions[Current].variables, stuff |-> done])
        /\ stuff' = <<>>
        /\ IF Current < Len(source.functions) THEN GoTo(Current + 1, 1) /\ UNCHANGED stage
           ELSE stage' = "emit" /\ UNCHANGED <<statement, gens>>
  /\ UNCHANGED <<source, code, next, arguments, writes>>

\* The C of the accelerator's own function, the last; the compiler stops where a unit has not
\* enough loops.
EmitConfigFunction ==
  LET parts == Last(functions).stuff
      Emitted(s) == IF s.kind = "ASSIGNMENT" THEN <<>> ELSE EmitStatements(s.access, UnitOf(s.lhs), s.pointer)
      Stops(s) == s.kind = "ADDRESS_GEN" /\ TooManyLoops(s.access, UnitOf(s.lhs))
  IN
  /\ stage = "emit"
  /\ IF \E i \in DOMAIN parts : Stops(parts[i]) THEN stage' = "exit" /\ UNCHANGED code
     ELSE stage' = "ready" /\ code' = Each(Emitted, parts)
  /\ UNCHANGED <<source, functions, stuff, statement, gens, next, arguments, writes>>

\* The program calls the function, as often as it likes.
CallConfigFunction(inputs) ==
  /\ stage = "ready"
  /\ stage' = "called" /\ arguments' = inputs /\ next' = 1 /\ writes' = <<>>
  /\ UNCHANGED <<source, functions, stuff, statement, gens, code>>

\* The C of one part runs.
RunConfigFunction ==
  LET part == Last(functions).stuff[next]
      written == IF part.kind = "ASSIGNMENT" THEN <<<<<<part.wire, 0>>, Value(part.expr, arguments)>>>>
                 ELSE Execute(code[next], UnitOf(part.lhs), arguments)
      Named(w) == <<part.lhs, w[1], w[2]>>
  IN
  /\ stage = "called"
  /\ writes' = writes \o Each(Named, written)
  /\ next' = next + 1
  /\ stage' = IF next = Len(code) THEN "ready" ELSE "called"
  /\ UNCHANGED <<source, functions, stuff, statement, gens, code, arguments>>

Next ==
  \/ InstantiateConfigFunction
  \/ EmitConfigFunction
  \/ \E inputs \in source.inputs : CallConfigFunction(inputs)
  \/ RunConfigFunction

Spec == Init /\ [][Next]_vars

-----------------------------------------------------------------------------
\* ---- What the source says, without symbols: every unit a call of the last function sets, with
\* the value of a wire or the addresses in the order of the loops.
RECURSIVE MathValue(_, _)
MathValue(math, values) ==
  LET left  == MathValue(math.args[1], values)
      right == MathValue(math.args[2], values)
  IN  CASE math.op = "Minus" -> -left
        [] math.op = "Add" -> left + right
        [] math.op = "Sub" -> left - right
        [] math.op = "Mul" -> left * right
        [] math.op = "Div" -> Quotient(left, right)
        [] math.op = "LITERAL" -> math.value
        [] math.op = "NAME"    -> values[math.name]

\* The turns of a loop, as the values its variable has in them.
Turns(loop, values) ==
  LET start == MathValue(loop.start, values)
  IN  [i \in 1 .. MathValue(loop.end, values) - start |-> start + i - 1]

RECURSIVE Visits(_, _, _)
Visits(loops, math, values) ==
  LET turns == Turns(loops[1], values)
      Below(v) == Visits(Tail(loops), math, (loops[1].var :> v) @@ values)
  IN  IF loops # <<>> THEN FlattenSeq(Each(Below, turns))
      ELSE IF math.op # "DUTY" THEN <<MathValue(math, values)>>
      ELSE [i \in 1 .. MathValue(math.args[2], values) |-> MathValue(math.args[1], values)]

RECURSIVE Asked(_, _, _, _)
Asked(statements, loops, within, values) ==
  LET Lhs(s) == Append(within, <<s.unit, MathValue(s.index, values)>>)
      Pointer(s) == IF s.pointer = NoName THEN 0 ELSE values[s.pointer]
      Values(s) == IF s.type = "WIRE" THEN <<MathValue(s.expr, values)>>
                   ELSE LET visits == Visits(loops, s.expr, values)
                        IN  [i \in DOMAIN visits |-> visits[i] + Pointer(s)]
      Given(s) == [v \in ToSet(source.functions[s.func].variables) |->
                     MathValue(s.args[SelectInSeq(source.functions[s.func].variables, LAMBDA w : w = v)], values)]
      One(s) ==
        CASE s.type = "GEN"  -> UNION {Asked(s.body, loops, within, (s.var :> v) @@ values) : v \in ToSet(Turns(s, values))}
          [] s.type = "FOR"  -> Asked(s.body, Append(loops, s), within, values)
          [] s.type = "CALL" -> Asked(source.functions[s.func].body, <<>>, Lhs(s), Given(s))
          [] OTHER           -> {[lhs |-> Lhs(s), wire |-> s.wire, values |-> Values(s)]}
  IN  UNION {One(statements[i]) : i \in DOMAIN statements}

AskedFor == Asked(Last(source.functions).body, <<>>, <<>>, arguments)

\* ---- What the units do with their registers.  Levels count once where they have no period.
Nests == INSTANCE AddressAccess

WritesOf(lhs) == SelectSeq(writes, LAMBDA w : w[1] = lhs)
Register(lhs, register) == LET set == SelectSeq(WritesOf(lhs), LAMBDA w : w[2] = register)
                           IN  IF set = <<>> THEN 0 ELSE Last(set)[3]
Reg(lhs, name) == Register(lhs, <<name, 1>>)

Times(n) == IF n = 0 THEN 1 ELSE n
GeneratorLoops(lhs) ==
  LET At(name, k) == Register(lhs, <<name, k>>)
      Level(k) == <<<<At("incr", k), Times(At("per", k))>>,
                    <<At("shift", k) + At("incr", k) * (At("per", k) - 1), Times(At("iter", k))>>>>
  IN  FlattenSeq([k \in 1 .. UnitOf(lhs).maxLoops |-> Level(k)])

\* The addresses of the generator; a unit that fetches finds a word of the memory there.
Fetched(lhs, position) ==
  LET length == Reg(lhs, "length")
  IN  Reg(lhs, "ext_addr") + (position % length) + (position \div length) * Reg(lhs, "addr_shift")
Visited(lhs) ==
  LET loops == GeneratorLoops(lhs)
      Address(i) == Reg(lhs, "start") + Nests!Addresses(loops, i - 1)
  IN  [i \in 1 .. (IF Reg(lhs, "per") = 0 THEN 0 ELSE Nests!Points(loops)) |->
         IF UnitOf(lhs).type = "READ" THEN Fetched(lhs, Address(i)) ELSE Address(i)]

\* The words that are fetched.
WordsFetched(lhs) == Reg(lhs, "length") * (Reg(lhs, "amount_minus_one") + 1)

Done(asked) == IF asked.wire # "" THEN <<Register(asked.lhs, <<asked.wire, 0>>)>> ELSE Visited(asked.lhs)

-----------------------------------------------------------------------------
Returned == stage = "ready" /\ next > Len(code)

\* Symbols, sums over loops, levels and run-time choices together: after a call every unit is
\* configured for what the function says, word by word and in order (CompileAddressGen and
\* EmitStatements, addressGen.cpp:494-973).
AsWritten(asked) ==
  /\ Done(asked) = asked.values
  /\ asked.values = <<>> => WordsFetched(asked.lhs) = 0
AddressesAsWritten == Returned => \A asked \in AskedFor : AsWritten(asked)

\* What does not hold of every program: a call configures some unit as its function says.
SomeUnitAsWritten == Returned => \E asked \in AskedFor : AsWritten(asked)

\* Whichever conditions hold, a call writes every register of an address generator exactly
\* once: nothing is left from the call before, or written again behind its condition
\* (InstantiateIndividualAssignments and PullUp, addressGen.cpp:252-492, 840-969).
RegistersOf(unit) ==
  LET levels == {"per", "incr", "iter", "shift"} \X (1 .. unit.maxLoops)
      own == CASE unit.type = "READ" -> {"extra_delay", "ext_addr", "length", "amount_minus_one", "addr_shift"}
               [] unit.type = "MEM"  -> {"start", "wr"}
               [] unit.type = "GEN"  -> {"start"}
  IN  levels \cup ((own \cup {"duty"}) \X {1})
OneAssignmentEach ==
  Returned => \A asked \in {a \in AskedFor : a.wire = ""} :
                LET names == Each(LAMBDA w : w[2], WritesOf(asked.lhs))
                IN  IsInjective(names) /\ ToSet(names) = RegistersOf(UnitOf(asked.lhs))

\* No more words are fetched than lie between the first and the last one asked for: there is
\* "No point in reading thousands of bytes when we only care about the first and the last
\* bytes" (addressGen.cpp:762).
ReadsAtMostTheSpan ==
  Returned => \A asked \in {a \in AskedFor : a.wire = "" /\ UnitOf(a.lhs).type = "READ"} :
                WordsFetched(asked.lhs) <= Max(ToSet(asked.values)) - Min(ToSet(asked.values)) + 1

\* The operands of sums and products exchanged, everywhere.
RECURSIVE Exchanged(_)
Exchanged(math) ==
  LET args == Each(Exchanged, math.args)
  IN  [math EXCEPT !.args = IF math.op \in {"Add", "Mul"} THEN Reverse(args) ELSE args]

RECURSIVE HasDuty(_)
HasDuty(math) == math.op = "DUTY" \/ \E i \in DOMAIN math.args : HasDuty(math.args[i])

\* Two expressions that differ in the order of their operands, each made by itself, become the
\* same node, which is all that the comparison of assignments and of terms looks at
\* (GetOrAllocateOp, symbolic.cpp:538-573) -- but for a Duty, which is a node of its own even
\* where it is written the same (GetOrAllocateFunc, symbolic.cpp:470-502).  What a Duty is broken
\* into, an address and a division that are compiled by themselves, is shared again.
SameNode ==
  stage = "instantiate" /\ Statement.leaf.type # "CALL" =>
    LET expr  == Statement.leaf.expr
        one   == Sym(expr, 1)
        other == Sym(Exchanged(expr), 0)
    IN  /\ (one = other) <=> ~HasDuty(expr)
        /\ SYM_BreakDuty(one) = SYM_BreakDuty(other)
===============================================================================
