------------------------------ MODULE AddressGen ------------------------------
(***************************************************************************)
(* The compilation of an address expression (compiler/addressGen.cpp):       *)
(* "for x 0..a  for y 0..b  u = A[c + n*y + x]" becomes a sum of a term per   *)
(* loop, the sum becomes assignments to the registers of the unit's address  *)
(* generator, and for a unit that reads memory, C code that chooses at run    *)
(* time how the words are fetched.                                           *)
(*                                                                         *)
(* A register is a pair <<name, level>>, the level 1 where there is one.      *)
(* Lengths and addresses count words; enabled and pingPong, which are always *)
(* set, and the comments in the code are left out.                           *)
(***************************************************************************)
EXTENDS Symbolic

\* An operator applied to every element.
Each(Op(_), s) == Computed([i \in DOMAIN s |-> Op(s[i])])

\* ---- Sums over loops, the innermost loop first.
Term(var, term, end) == [var |-> var, term |-> term, end |-> end]
LinearSum(terms, free) == [terms |-> terms, free |-> free]

\* All loops start at zero.
GetLoopSize(term) == Sub(term.end, SYM_0)

AddAll(s) == FoldLeft(Add, SYM_0, s)
MulAll(s) == FoldLeft(Mul, SYM_1, s)

TransformIntoSymbolicExpression(sum) ==
  Add(AddAll([i \in DOMAIN sum.terms |-> Mul(sum.terms[i].term, SYM_Var(sum.terms[i].var))]), sum.free)

GetLoopLinearSumTotalSize(sum) == MulAll(Each(GetLoopSize, sum.terms))

EvaluateMaxLinearSumValue(sum) ==
  FoldLeft(LAMBDA val, t : Add(val, Mul(t.term, Sub(t.end, SYM_1))), sum.free, sum.terms)

\* Names the compiler makes up.
NameX == <<24>>
NameY == <<25>>
NoName == <<>>
DutyLoop == <<0>>
DoubleSize == <<4, 27>>
SingleSize == <<19, 27>>

\* ---- CompileAddressGen.  A loop is [var, start, end], the outermost first; it is moved to zero.
\* Mutated: the end is moved and the address is not.
MoveToZero_EndOnly(done, loop) ==
  [done EXCEPT !.ends = Append(@, Sub(loop.end, loop.start))]

MoveToZero(done, loop) ==
  IF loop.start = SYM_0 THEN [done EXCEPT !.ends = Append(@, loop.end)]
  ELSE [addr |-> SYM_Replace(done.addr, loop.var :> Add(SYM_Var(loop.var), loop.start)),
        ends |-> Append(done.ends, Sub(loop.end, loop.start))]

CompileAddressGen(loops, addr) ==
  LET moved == FoldLeft(MoveToZero, [addr |-> addr, ends |-> <<>>], loops)
      broken == SYM_BreakDuty(moved.addr)
      TermOf(i) == Term(loops[i].var, SYM_Factor(broken[1], SYM_Var(loops[i].var)), moved.ends[i])
      constant == FoldLeft(LAMBDA e, loop : SYM_Replace(e, loop.var :> SYM_0), broken[1], loops)
  IN  [internal |-> LinearSum(<<Term(NameX, SYM_1, MulAll(moved.ends))>>, SYM_0),
       external |-> LinearSum(Reverse([i \in DOMAIN loops |-> TermOf(i)]), Add(SYM_0, constant)),
       dutyDiv  |-> broken[2]]

\* The same access with arguments for its inputs; the names of the loops are not carried over.
ReplaceVariables(access, arguments) ==
  LET Replace(e) == SYM_Replace(e, arguments)
      InTerm(t) == Term(NoName, Replace(t.term), Replace(t.end))
      InSum(sum) == LinearSum(Each(InTerm, sum.terms), Replace(sum.free))
  IN  [internal |-> InSum(access.internal), external |-> InSum(access.external), dutyDiv |-> Replace(access.dutyDiv)]

-----------------------------------------------------------------------------
\* ---- How the words of a memory are fetched: all between the first and the last, or a run of
\* words for each turn of the loop with this index.
ConvertAccessTo1External(access) ==
  LET inside == [access.external EXCEPT !.free = SYM_0]
      length == Add(EvaluateMaxLinearSumValue(inside), SYM_1)
  IN  [access EXCEPT !.internal = inside,
                     !.external = LinearSum(<<Term(NameX, SYM_1, length)>>, access.external.free)]

ConvertAccessTo2External(access, index) ==
  LET inside == [access.external EXCEPT !.free = SYM_0]
      biggest == inside.terms[index]
      oneSort == LinearSum(RemoveAt(inside.terms, index), SYM_0)
      length == Add(EvaluateMaxLinearSumValue(oneSort), SYM_1)
  IN  [access EXCEPT !.internal = [inside EXCEPT !.terms[index].term = length],
                     !.external = LinearSum(<<Term(NameX, SYM_1, length), Term(NameY, biggest.term, biggest.end)>>,
                                            access.external.free)]

\* ---- CompileAccess: two loops a level, as in AddressAccess, over expressions.
CompileAccess(sum, dutyDiv) ==
  LET loops == IF SYM_IsOneValue(dutyDiv) THEN sum.terms ELSE <<Term(DutyLoop, SYM_1, dutyDiv)>> \o sum.terms
      expr  == TransformIntoSymbolicExpression(sum)
      Level(i) ==
        LET inner == loops[2 * i - 1]
            outer == loops[2 * i]
            incr  == SYM_Derivate(expr, inner.var)
            two   == 2 * i <= Len(loops)
        IN  [per   |-> GetLoopSize(inner),
             incr  |-> incr,
             iter  |-> IF two THEN GetLoopSize(outer) ELSE SYM_0,
             shift |-> IF two THEN Add(Minus(Mul(incr, Sub(inner.end, SYM_1))), SYM_Derivate(expr, outer.var)) ELSE SYM_0,
             duty  |-> IF SYM_IsOneValue(dutyDiv) THEN GetLoopSize(inner) ELSE Div(GetLoopSize(inner), dutyDiv)]
  IN  [i \in 1 .. (Len(loops) + 1) \div 2 |-> Level(i)]

\* ---- The assignments to the registers, in order.  A unit is READ (it fetches the words and
\* hands them out), GEN (it hands out addresses) or a port of a MEM.
Assign(name, level, expr) == <<<<name, level>>, expr>>

LevelAssigns(i, l) ==
  <<Assign("per", i, l.per), Assign("incr", i, l.incr), Assign("iter", i, l.iter), Assign("shift", i, l.shift)>>
NoLevel == [per |-> SYM_0, incr |-> SYM_0, iter |-> SYM_0, shift |-> SYM_0, duty |-> SYM_0]
OneElement == [NoLevel EXCEPT !.per = SYM_1, !.incr = SYM_1, !.duty = SYM_1]

\* Mutated: levels the access does not use are left as they are.
LevelsAssigned_Used(unit, levels) ==
  LET first == IF levels # <<>> THEN levels[1] ELSE IF unit.type = "MEM" THEN OneElement ELSE NoLevel
  IN  <<Assign("duty", 1, first.duty)>>
        \o FlattenSeq([i \in DOMAIN levels |-> LevelAssigns(i, levels[i])])

\* Levels the unit has and the access does not use are set to zero; of a port only two are set.
LevelsAssigned(unit, levels) ==
  LET known == IF unit.type = "MEM" THEN 2 ELSE 4
      used  == IF Len(levels) > unit.maxLoops THEN Len(levels) ELSE unit.maxLoops
      last  == IF used < known THEN used ELSE known
      first == IF levels # <<>> THEN levels[1] ELSE IF unit.type = "MEM" THEN OneElement ELSE NoLevel
      LevelAt(i) == IF i <= Len(levels) THEN levels[i] ELSE IF i = 1 THEN first ELSE NoLevel
  IN  <<Assign("duty", 1, first.duty)>>
        \o FlattenSeq([i \in 1 .. (IF last < 1 THEN 1 ELSE last) |-> LevelAssigns(i, LevelAt(i))])

ExternalAssigns(external, dutyDiv, pointer) ==
  LET inner == external.terms[1]
      outer == external.terms[Len(external.terms)]
      two   == Len(external.terms) = 2
  IN  <<Assign("extra_delay", 1, Sub(dutyDiv, SYM_1)),
        Assign("ext_addr", 1, SYM_Var(pointer)),
        Assign("length", 1, GetLoopSize(inner)),
        Assign("amount_minus_one", 1, IF two THEN Sub(GetLoopSize(outer), SYM_1) ELSE SYM_0),
        Assign("addr_shift", 1,
               IF two THEN SYM_Derivate(TransformIntoSymbolicExpression(external), outer.var) ELSE SYM_0)>>

InstantiateIndividualAssignments(access, unit, pointer) ==
  LET sum == IF unit.type = "READ" THEN access.internal ELSE access.external
      free == IF access.external.free = SYM_0 THEN access.internal.free ELSE access.external.free
  IN  <<Assign("start", 1, free)>>
        \o (IF unit.type = "MEM" THEN <<Assign("wr", 1, IF unit.input THEN SYM_1 ELSE SYM_0)>> ELSE <<>>)
        \o (IF unit.type = "READ" THEN ExternalAssigns(access.external, access.dutyDiv, pointer) ELSE <<>>)
        \o LevelsAssigned(unit, CompileAccess(sum, access.dutyDiv))

\* "Address gen contains more loops than the unit is capable of handling": the compiler stops.
TooManyLoops(access, unit) ==
  LET duty == IF SYM_IsOneValue(access.dutyDiv) THEN 0 ELSE 1
  IN  (Len(access.external.terms) + duty + 1) \div 2 > unit.maxLoops

-----------------------------------------------------------------------------
\* ---- EmitStatements: the code of an access, a list of declarations, assignments to registers
\* and conditions with a list of their own.
NoRegister == <<"", 0>>
Code(type, expr) == [type |-> type, register |-> NoRegister, name |-> NoName, expr |-> expr, child |-> <<>>]
AssignNode(assign) == [Code("ASSIGN", assign[2]) EXCEPT !.register = assign[1]]
Declare(name, expr) == [Code("DECLARE", expr) EXCEPT !.name = name]
If(condition, child) == [Code("IF", condition) EXCEPT !.child = child]

\* The two ways to fetch: split by the loop with this index, and all words in between.
Ways(access, index) == <<ConvertAccessTo2External(access, index), ConvertAccessTo1External(access)>>
Sizes(ways) == <<Declare(DoubleSize, GetLoopLinearSumTotalSize(ways[1].external)),
                 Declare(SingleSize, GetLoopLinearSumTotalSize(ways[2].external))>>
AssignmentsOf(access, unit, pointer) == Each(AssignNode, InstantiateIndividualAssignments(access, unit, pointer))

\* Mutated: the way that fetches more words is taken.
EmitDoubleOrSingleLoopCode_Crossed(access, index, unit, pointer) ==
  Sizes(Ways(access, index))
    \o [k \in 1 .. 2 |-> If(IF k = 1 THEN GetOrAllocateComp(LT, SYM_Var(SingleSize), SYM_Var(DoubleSize))
                           ELSE GetOrAllocateComp(LE, SYM_Var(DoubleSize), SYM_Var(SingleSize)),
                         AssignmentsOf(Ways(access, index)[k], unit, pointer))]

\* Whichever of the two ways fetches fewer words is taken, at run time.
EmitDoubleOrSingleLoopCode(access, index, unit, pointer) ==
  Sizes(Ways(access, index))
    \o [k \in 1 .. 2 |-> If(IF k = 1 THEN GetOrAllocateComp(LT, SYM_Var(DoubleSize), SYM_Var(SingleSize))
                           ELSE GetOrAllocateComp(LE, SYM_Var(SingleSize), SYM_Var(DoubleSize)),
                         AssignmentsOf(Ways(access, index)[k], unit, pointer))]

And(l, r) == SYM_Normalize(GetOrAllocateOp("AND", l, r))

\* That this loop has the largest term, the first of those where several do.
Largest(terms, top) ==
  LET Beats(i) == GetOrAllocateComp(IF i <= top THEN GE ELSE GT, terms[top].term, terms[i].term)
      others == SelectSeq([i \in DOMAIN terms |-> i], LAMBDA i : i # top)
  IN  SYM_Reduce(FoldLeft(And, SYM_1, Each(Beats, others)))

\* A unit that fetches its words splits the fetch by the loop with the largest term, which is
\* found at run time unless the terms tell.
Chain(access, unit, pointer) ==
  [top \in DOMAIN access.external.terms |->
     If(Largest(access.external.terms, top), EmitDoubleOrSingleLoopCode(access, top, unit, pointer))]

\* A condition that is known is decided by the compiler.
Decided(node) ==
  IF ConstantFalse(node.expr) THEN <<>> ELSE IF ConstantTrue(node.expr) THEN node.child ELSE <<node>>

RECURSIVE PullUp(_, _), PullUpAll(_, _)

\* From this place of a list on: what all conditions there assign alike is assigned behind them.
PullUp(list, place) ==
  LET s == [list EXCEPT ![place].child = PullUpAll(@, 1)]
      ifs == {i \in place .. Len(s) : s[i].type = "IF"}
      Alike(n, i) == Contains(s[i].child, n)
      pulled == SelectSeq(s[Min(ifs)].child, LAMBDA n : n.type = "ASSIGN" /\ \A i \in ifs : Alike(n, i))
      Rest(child) == SelectSeq(child, LAMBDA n : ~Contains(pulled, n))
  IN  IF list[place].child = <<>> THEN list
      ELSE IF Cardinality(ifs) < 2 THEN s
      ELSE [i \in DOMAIN s |-> IF i \in ifs THEN [s[i] EXCEPT !.child = Rest(@)] ELSE s[i]] \o pulled

\* At every condition of a list in turn.
PullUpAll(list, place) ==
  IF place > Len(list) THEN list
  ELSE PullUpAll(IF list[place].type = "IF" THEN PullUp(list, place) ELSE list, place + 1)

\* One pass over the code after another.
RECURSIVE Pass(_, _, _, _)
Pass(number, access, unit, pointer) ==
  CASE number = 0 -> Chain(access, unit, pointer)
    [] number = 1 -> FlattenSeq(Each(Decided, Pass(0, access, unit, pointer)))
    [] number > 1 -> PullUpAll(Pass(number - 1, access, unit, pointer), 1)

EmitStatements(access, unit, pointer) ==
  IF unit.type = "READ" THEN Pass(4, access, unit, pointer)
  ELSE AssignmentsOf(access, unit, pointer)

-----------------------------------------------------------------------------
\* ---- Running the code: the writes to the registers, in order.  Where words are fetched the
\* start is not written but added to the address they are fetched from.
RECURSIVE Execute(_, _, _)
Execute(list, unit, values) ==
  LET fetches == unit.type = "READ"
      starts == SelectSeq(list, LAMBDA n : n.register = <<"start", 1>>)
      shift == IF fetches /\ starts # <<>> THEN Value(Last(starts).expr, values) ELSE 0
      Written(node, scope) ==
        Value(node.expr, scope) + (IF fetches /\ node.register = <<"ext_addr", 1>> THEN shift ELSE 0)
      Run(done, node) ==
        CASE node.type = "DECLARE" -> [done EXCEPT !.scope = (node.name :> Value(node.expr, @)) @@ @]
          [] node.type = "IF" /\ Value(node.expr, done.scope) # 0 ->
               [done EXCEPT !.writes = @ \o Execute(node.child, unit, done.scope)]
          [] node.type = "ASSIGN" /\ ~(fetches /\ node.register = <<"start", 1>>) ->
               [done EXCEPT !.writes = Append(@, <<node.register, Written(node, done.scope)>>)]
          [] OTHER -> done
  IN  FoldLeft(Run, [scope |-> values, writes |-> <<>>], list).writes
===============================================================================
