------------------------------- MODULE Symbolic -------------------------------
(***************************************************************************)
(* Symbolic expressions of the compiler (software/common/symbolic.cpp):      *)
(* they are normalised by every operation, and nodes are shared, so that two *)
(* expressions are the same when they are the same node.  Here a node is a   *)
(* record and the same node an equal record; a function node, which the code  *)
(* never shares, also says which call made it.  Functions that build a node   *)
(* are named as in the code; Add, Sub, Mul, Div and And stand for operators.  *)
(***************************************************************************)
EXTENDS Integers, Sequences, SequencesExt

\* ---- Nodes.  A negation is a mark on the reference, not a node of its own.
Node(type, args) == [type |-> type, neg |-> FALSE, value |-> 0, name |-> <<>>, args |-> args]

Negate(e) == [e EXCEPT !.neg = ~@]
CondNegate(e, negate) == IF negate THEN Negate(e) ELSE e
Abs(e) == [e EXCEPT !.neg = FALSE]

SYM_Lit(n) == [Node("LITERAL", <<>>) EXCEPT !.value = IF n < 0 THEN -n ELSE n, !.neg = n < 0]
\* A name is the sequence of its letters, each a number in the order of the alphabet.
SYM_Var(name) == [Node("VARIABLE", <<>>) EXCEPT !.name = name]
SYM_0 == SYM_Lit(0)
SYM_1 == SYM_Lit(1)

Is(e, type) == e.type = type
LiteralValue(e) == IF e.neg THEN -e.value ELSE e.value
IsLiteralZero(e) == Abs(e) = SYM_0

\* The kinds of a comparison, the only function the model needs, and the order of the types.
GT == 2
GE == 3
LT == 4
LE == 5
GetOrAllocateComp(kind, l, r) == [Node("COMP", <<l, r>>) EXCEPT !.value = kind]

\* A function node is looked for among the variables and never found: each call makes another.
\* Its name says which: what was being made, then the passes that made the node again.
FuncNode(args, made) == [Node("FUNC", args) EXCEPT !.name = made]
SYM_Duty(e, duty, made) == FuncNode(<<e, duty>>, made)
ByNormalize == 3
ByOrder     == 4
ByReplace   == 5

Types == <<"LITERAL", "VARIABLE", "SUM", "MUL", "DIV", "AND", "COMP", "FUNC">>
Rank(type) == CHOOSE k \in DOMAIN Types : Types[k] = type

-----------------------------------------------------------------------------
RECURSIVE Leaves(_, _, _), SortFrom(_, _, _), Operation(_, _, _), Value(_, _), HasVariable(_), SYM_Reduce(_)

\* (Appending nothing has TLC compute the elements once.)
Computed(s) == s \o <<>>

\* The elements at these places of a sequence.
RECURSIVE Kept(_, _)
Kept(s, places) ==
  IF s = <<>> THEN <<>> ELSE Kept(Front(s), places) \o (IF Len(s) \in places THEN <<Last(s)>> ELSE <<>>)

\* The operations call each other.  They do so through one operator, at the end.
Compare(l, r) == Operation("Compare", l, r)
DoAdd(l, r) == Operation("DoAdd", l, r)
DoMul(l, r) == Operation("DoMul", l, r)
DoDiv(l, r) == Operation("DoDiv", l, r)
RemoveParenthesis(e) == Operation("RemoveParenthesis", e, e)
NormalizeLiterals(e) == Operation("NormalizeLiterals", e, e)
OrderTerms(e) == Operation("OrderTerms", e, e)
DoAddAll(s) == Operation("DoAddAll", s, s)
DoMulAll(s) == Operation("DoMulAll", s, s)
LikeTerms(s) == Operation("LikeTerms", s, s)
GetChildrenOfSum(e) == Operation("GetChildrenOfSum", e, e)
GetChildrenOfMul(e) == Operation("GetChildrenOfMul", e, e)
SortInPlace(s) == Operation("SortInPlace", s, s)
SYM_Normalize(e) == Operation("SYM_Normalize", e, e)
Add(l, r) == Operation("Add", l, r)
Mul(l, r) == Operation("Mul", l, r)
Div(l, r) == Operation("Div", l, r)
Sub(l, r) == Operation("Sub", l, r)
Minus(e) == Operation("Minus", e, e)
GetOrAllocateFunc(args, made) == Operation("GetOrAllocateFunc", args, made)
SYM_Replace(e, replacements) == Operation("SYM_Replace", e, replacements)
SYM_Derivate(e, var) == Operation("SYM_Derivate", e, var)
SYM_Factor(e, var) == Operation("SYM_Factor", e, var)

\* The operands of nested sums or products; a negated sum negates each of them, a negated
\* product is counted by Parity.
Leaves(type, e, negate) ==
  IF ~Is(e, type) THEN <<CondNegate(e, negate)>>
  ELSE LET down == type = "SUM" /\ negate # e.neg
       IN  Leaves(type, e.args[1], down) \o Leaves(type, e.args[2], down)

RECURSIVE Parity(_)
Parity(e) == Is(e, "MUL") /\ ((e.neg # Parity(e.args[1])) # Parity(e.args[2]))

\* strncmp over the length of the shorter name.
CompareNames(a, b) ==
  LET differ == {i \in DOMAIN a \cap DOMAIN b : a[i] # b[i]}
  IN  IF differ = {} THEN 0 ELSE LET i == Min(differ) IN a[i] - b[i]

\* Exchange sort, the larger first.
SortFrom(s, i, j) ==
  IF i >= Len(s) THEN s
  ELSE IF j > Len(s) THEN SortFrom(s, i + 1, i + 2)
  ELSE SortFrom(IF Compare(s[i], s[j]) < 0 THEN [s EXCEPT ![i] = s[j], ![j] = s[i]] ELSE s, i, j + 1)

NegateFirst(s, negate) == [s EXCEPT ![1] = CondNegate(@, negate)]

\* Mutated: only the first terms are compared.
CompareTerms_First(ls, rs) ==
  IF Len(ls) # Len(rs) THEN Len(ls) - Len(rs) ELSE Compare(ls[1], rs[1])

FirstOf(compared) == IF \A i \in DOMAIN compared : compared[i] = 0 THEN 0
                     ELSE compared[Min({i \in DOMAIN compared : compared[i] # 0})]
CompareTerms(ls, rs) ==
  IF Len(ls) # Len(rs) THEN Len(ls) - Len(rs)
  ELSE FirstOf(Computed([i \in DOMAIN ls |-> Compare(ls[i], rs[i])]))

OrderOf(l, r) ==
  IF l = r THEN 0
  ELSE IF l.type # r.type THEN Rank(l.type) - Rank(r.type)
  ELSE CASE Is(l, "LITERAL")  -> LiteralValue(r) - LiteralValue(l)
         [] Is(l, "VARIABLE") -> IF l.neg # r.neg THEN (IF l.neg THEN -1 ELSE 1) ELSE CompareNames(l.name, r.name)
         [] Is(l, "SUM")      -> CompareTerms(GetChildrenOfSum(l), GetChildrenOfSum(r))
         [] Is(l, "MUL")      -> CompareTerms(GetChildrenOfMul(l), GetChildrenOfMul(r))
         [] l.type \in {"DIV", "AND", "COMP"} -> Compare(l.args[1], r.args[1])
         [] Is(l, "FUNC")     -> 0

LessThan(l, r) == Compare(l, r) < 0
GreaterThan(l, r) == Compare(l, r) > 0
Larger(l, r)  == IF GreaterThan(r, l) THEN r ELSE l
Smaller(l, r) == IF GreaterThan(r, l) THEN l ELSE r

\* The smaller operand of a sum or a product is its first.
GetOrAllocateOp(type, l, r) ==
  Node(type, IF type \in {"SUM", "MUL"} /\ GreaterThan(l, r) THEN <<r, l>> ELSE <<l, r>>)

-----------------------------------------------------------------------------
\* The operand of a division above it, the sign of the division on it.
Top(e) == IF Is(e, "DIV") THEN CondNegate(e.args[1], e.neg) ELSE e
Bottom(e) == IF Is(e, "DIV") THEN e.args[2] ELSE SYM_1
Summand(e, k) == CondNegate(e.args[k], e.neg)

\* Both come with the larger operand first.
SumOfSorted(l, r) ==
  IF IsLiteralZero(l) THEN r
  ELSE IF IsLiteralZero(r) THEN l
  ELSE IF Is(l, "LITERAL") /\ Is(r, "LITERAL") THEN SYM_Lit(LiteralValue(l) + LiteralValue(r))
  ELSE IF Is(l, "DIV") /\ Is(r, "DIV")
    THEN Div(Add(Mul(Top(l), Bottom(r)), Mul(Top(r), Bottom(l))), Mul(Bottom(l), Bottom(r)))
  ELSE IF Is(l, "DIV") THEN Div(Add(Mul(r, Bottom(l)), Top(l)), Bottom(l))
  ELSE IF Is(r, "DIV") THEN Div(Add(Mul(l, Bottom(r)), Top(r)), Bottom(r))
  ELSE GetOrAllocateOp("SUM", l, r)

DoSub(l, r) ==
  IF IsLiteralZero(l) THEN Negate(r) ELSE IF IsLiteralZero(r) THEN l ELSE DoAdd(l, Negate(r))

Distributed(sum, e) == Add(Mul(Summand(sum, 1), e), Mul(Summand(sum, 2), e))

ProductOfSorted(l, r) ==
  IF IsLiteralZero(l) \/ IsLiteralZero(r) THEN SYM_0
  ELSE IF l = SYM_1 THEN r
  ELSE IF r = SYM_1 THEN l
  ELSE IF r = Negate(SYM_1) THEN Negate(l)
  ELSE IF l = Negate(SYM_1) THEN Negate(r)
  ELSE IF Is(l, "LITERAL") /\ Is(r, "LITERAL") THEN SYM_Lit(LiteralValue(l) * LiteralValue(r))
  ELSE IF Is(l, "SUM") /\ ~Is(r, "SUM") THEN Distributed(l, r)
  ELSE IF ~Is(l, "SUM") /\ Is(r, "SUM") THEN Distributed(r, l)
  ELSE IF Is(l, "SUM")
    THEN Add(Add(Distributed(l, Summand(r, 1)), Mul(Summand(l, 1), Summand(r, 2))), Mul(Summand(l, 2), Summand(r, 2)))
  ELSE IF Is(l, "DIV") /\ Is(r, "DIV") THEN Div(Mul(Top(l), Top(r)), Mul(Bottom(l), Bottom(r)))
  ELSE IF Is(l, "DIV") THEN Div(Mul(CondNegate(r, l.neg), l.args[1]), Bottom(l))
  ELSE IF Is(r, "DIV") THEN Div(Mul(CondNegate(l, r.neg), r.args[1]), Bottom(r))
  ELSE GetOrAllocateOp("MUL", l, r)

\* Any division moves to the top, the negation of the bottom with it.
Quotients(top, bottom) ==
  LET flip == bottom.neg
      t == IF flip THEN Negate(top) ELSE top
      b == Abs(bottom)
      exact == /\ Is(top, "LITERAL") /\ Is(bottom, "LITERAL")
               /\ bottom.value # 0 /\ top.value % bottom.value = 0
  IN  IF IsLiteralZero(top) THEN SYM_0
      ELSE IF bottom = SYM_1 THEN top
      ELSE IF bottom = Negate(SYM_1) THEN Negate(top)
      ELSE IF exact THEN CondNegate(SYM_Lit(top.value \div bottom.value), top.neg # bottom.neg)
      ELSE IF Abs(t) = b THEN CondNegate(SYM_1, t.neg)
      ELSE IF Is(t, "DIV") THEN CondNegate(Div(t.args[1], Mul(t.args[2], b)), t.neg)
      ELSE IF Is(b, "DIV") THEN Div(Mul(t, b.args[2]), b.args[1])
      ELSE GetOrAllocateOp("DIV", t, b)

\* ---- The three passes of the normal form.
\* Pushes negations downwards.
Distribute(e) ==
  LET l == RemoveParenthesis(CondNegate(e.args[1], e.neg))
  IN  CASE Is(e, "SUM") -> DoAdd(l, RemoveParenthesis(CondNegate(e.args[2], e.neg)))
        [] Is(e, "MUL") -> DoMul(l, RemoveParenthesis(e.args[2]))
        [] Is(e, "DIV") -> DoDiv(l, RemoveParenthesis(e.args[2]))
        [] OTHER        -> e

EachNormalized(s) == Computed([i \in DOMAIN s |-> NormalizeLiterals(s[i])])
EachOrdered(s) == Computed([i \in DOMAIN s |-> OrderTerms(s[i])])

RECURSIVE SumOf(_), ProductOf(_)
SumOf(s)     == IF s = <<>> THEN 0 ELSE SumOf(Tail(s)) + LiteralValue(Head(s))
ProductOf(s) == IF s = <<>> THEN 1 ELSE ProductOf(Tail(s)) * LiteralValue(Head(s))
Literals(s)    == Kept(s, {i \in DOMAIN s : Is(s[i], "LITERAL")})
NonLiterals(s) == Kept(s, {i \in DOMAIN s : ~Is(s[i], "LITERAL")})

\* A product as its literal, with the sign, and its sorted factors.
Partition(literals, others, negate) ==
  [literal |-> CondNegate(SYM_Lit(ProductOf(literals)), (Cardinality({i \in DOMAIN others : others[i].neg}) % 2 = 1) # negate),
   mults   |-> SortInPlace(Computed([i \in DOMAIN others |-> Abs(others[i])]))]
GetMultPartition(e) ==
  Partition(Literals(Leaves("MUL", e, FALSE)), NonLiterals(Leaves("MUL", e, FALSE)), Parity(e))

\* The products with the same factors are one, their literals added up.
Collect(parts, part) ==
  IF \A i \in DOMAIN parts : parts[i].mults # part.mults THEN Append(parts, part)
  ELSE [i \in DOMAIN parts |-> IF parts[i].mults # part.mults THEN parts[i]
                               ELSE [parts[i] EXCEPT !.literal = DoAdd(@, part.literal)]]
Collected(s) == IF s = <<>> THEN <<>> ELSE Collect(LikeTerms(Front(s)), GetMultPartition(Last(s)))

\* A factor of top and bottom is left out of both; what is left is multiplied up, equal
\* factors together.
RECURSIVE Grouped(_), Without(_, _)
Removed(s, places) == IF places = {} THEN s ELSE RemoveAt(s, Min(places))
Grouped(s) ==
  IF s = <<>> THEN <<>>
  ELSE Kept(s, {i \in DOMAIN s : s[i] = s[1]}) \o Grouped(Kept(s, {i \in DOMAIN s : s[i] # s[1]}))
Without(s, out) ==
  IF out = <<>> THEN s ELSE Without(Removed(s, {i \in DOMAIN s : s[i] = Head(out)}), Tail(out))

NormalizeDiv(tops, bottoms) ==
  DoDiv(DoMulAll(Grouped(Reverse(Without(Reverse(tops), bottoms)))), DoMulAll(Grouped(Without(bottoms, tops))))

ProductOfPart(part) == DoMulAll(<<NormalizeLiterals(part.literal)>> \o part.mults)
ProductsOf(parts) == Computed([i \in DOMAIN parts |-> ProductOfPart(parts[i])])

NormalizeSum(children) ==
  DoAdd(SYM_Lit(SumOf(Literals(children))), DoAddAll(ProductsOf(LikeTerms(NonLiterals(children)))))

NormalizeProduct(children) ==
  DoMul(SYM_Lit(ProductOf(Literals(children))), DoMulAll(NonLiterals(children)))

\* Adds up literals and like terms, multiplies literals, cancels common factors.
Combine(e) ==
  CASE Is(e, "SUM")  -> NormalizeSum(EachNormalized(GetChildrenOfSum(e)))
    [] Is(e, "MUL")  -> NormalizeProduct(EachNormalized(GetChildrenOfMul(e)))
    [] Is(e, "DIV")  -> NormalizeDiv(GetChildrenOfMul(NormalizeLiterals(e.args[1])),
                                     GetChildrenOfMul(NormalizeLiterals(e.args[2])))
    [] Is(e, "FUNC") -> GetOrAllocateFunc(EachNormalized(e.args), Append(e.name, ByNormalize))
    [] OTHER         -> e

\* Puts the terms of every sum and product in order.
Order(e) ==
  CASE Is(e, "SUM") -> DoAddAll(SortInPlace(EachOrdered(GetChildrenOfSum(e))))
    [] Is(e, "MUL") -> DoMulAll(SortInPlace(EachOrdered(GetChildrenOfMul(e))))
    [] Is(e, "DIV") -> DoDiv(OrderTerms(e.args[1]), OrderTerms(e.args[2]))
    [] Is(e, "FUNC") -> GetOrAllocateFunc(EachOrdered(e.args), Append(e.name, ByOrder))
    [] OTHER        -> [e EXCEPT !.args = EachOrdered(@)]

-----------------------------------------------------------------------------
\* ---- What the address compiler asks of an expression.
\* Replaces variables by expressions, which are given by name; a negated variable is another
\* reference, and stays.
Replaced(e, replacements) ==
  LET l == SYM_Replace(e.args[1], replacements)
      r == SYM_Replace(e.args[2], replacements)
      res == CASE Is(e, "MUL") -> Mul(l, r)
               [] Is(e, "DIV") -> Div(l, r)
               [] Is(e, "SUM") -> Add(l, r)
               [] Is(e, "FUNC") -> GetOrAllocateFunc(<<l, r>>, Append(e.name, ByReplace))
               [] OTHER        -> [Abs(e) EXCEPT !.args = <<l, r>>]
  IN  IF Is(e, "VARIABLE") /\ ~e.neg /\ e.name \in DOMAIN replacements THEN replacements[e.name]
      ELSE IF e.type \in {"LITERAL", "VARIABLE"} THEN e
      ELSE CondNegate(res, e.neg)

Derivative(e, var) ==
  LET l == e.args[1]
      r == e.args[2]
      dl == SYM_Derivate(l, var)
      dr == SYM_Derivate(r, var)
      res == CASE Is(e, "VARIABLE") /\ e.name = var -> SYM_1
               [] Is(e, "SUM") -> Add(dl, dr)
               [] Is(e, "MUL") -> Add(Mul(dl, r), Mul(dr, l))
               [] Is(e, "DIV") -> Div(Add(Mul(dl, r), Mul(dr, l)), Mul(r, r))
               [] OTHER        -> SYM_0
  IN  CondNegate(res, e.neg)

\* What a variable is multiplied with, in a sum of products.
FactorOfProduct(children, at) == CondNegate(SYM_Normalize(DoMulAll(RemoveAt(children, at))), children[at].neg)
FactorOfSorted(children, var) ==
  IF \E i \in DOMAIN children : Abs(children[i]) = var
  THEN FactorOfProduct(children, Min({i \in DOMAIN children : Abs(children[i]) = var})) ELSE SYM_0
Factor(e, var) ==
  CASE Is(e, "SUM") -> Add(SYM_Factor(e.args[1], var), SYM_Factor(e.args[2], var))
    [] Is(e, "MUL") -> FactorOfSorted(GetChildrenOfMul(e), var)
    [] OTHER        -> IF e = var THEN SYM_1 ELSE SYM_0

Operation(name, l, r) ==
  CASE name = "Compare" -> OrderOf(l, r)
    [] name = "SortInPlace"      -> SortFrom(l, 1, 2)
    [] name = "GetChildrenOfSum" -> SortInPlace(Leaves("SUM", l, FALSE))
    [] name = "GetChildrenOfMul" -> NegateFirst(SortInPlace(Leaves("MUL", l, FALSE)), Parity(l))
    [] name = "DoAdd" -> SumOfSorted(Larger(l, r), Smaller(l, r))
    [] name = "DoMul" -> ProductOfSorted(Larger(l, r), Smaller(l, r))
    [] name = "DoDiv" -> Quotients(l, r)
    [] name = "RemoveParenthesis" -> Distribute(l)
    [] name = "NormalizeLiterals" -> CondNegate(Combine(Abs(l)), l.neg)
    [] name = "OrderTerms"        -> CondNegate(Order(Abs(l)), l.neg)
    [] name = "DoAddAll"  -> IF l = <<>> THEN SYM_0 ELSE DoAdd(DoAddAll(Front(l)), Last(l))
    [] name = "DoMulAll"  -> IF l = <<>> THEN SYM_1 ELSE DoMul(DoMulAll(Front(l)), Last(l))
    [] name = "LikeTerms" -> Collected(l)
    [] name = "SYM_Normalize"     -> OrderTerms(NormalizeLiterals(RemoveParenthesis(l)))
    [] name = "Add" -> SYM_Normalize(DoAdd(l, r))
    [] name = "Sub" -> SYM_Normalize(DoSub(l, r))
    [] name = "Minus" -> SYM_Normalize(Negate(l))
    [] name = "Mul" -> SYM_Normalize(DoMul(l, r))
    [] name = "Div" -> SYM_Normalize(DoDiv(l, r))
    [] name = "GetOrAllocateFunc" -> FuncNode(l, r)
    [] name = "SYM_Replace"  -> Replaced(l, r)
    [] name = "SYM_Derivate" -> Derivative(l, r)
    [] name = "SYM_Factor"   -> CondNegate(Factor(Abs(l), r), l.neg)

\* An expression and its duty division, which only the outermost node may be.
SYM_BreakDuty(e) == IF Is(e, "FUNC") THEN <<CondNegate(e.args[1], e.neg), e.args[2]>> ELSE <<e, SYM_1>>

SYM_IsOneValue(e) == SYM_Normalize(e) = SYM_1

-----------------------------------------------------------------------------
\* ---- Values.  The quotient of integers as in C, towards zero.
Quotient(a, b) ==
  LET q == (IF a < 0 THEN -a ELSE a) \div (IF b < 0 THEN -b ELSE b) IN IF (a < 0) = (b < 0) THEN q ELSE -q

Holds(kind, a, b) == CASE kind = GT -> a > b [] kind = GE -> a >= b [] kind = LT -> a < b [] kind = LE -> a <= b
Truth(b) == IF b THEN 1 ELSE 0

\* The value where the variables have these: of the generated C, whose text brackets what the
\* node brackets, and with none that of a constant expression.
Value(e, values) ==
  LET a == Value(e.args[1], values)
      b == Value(e.args[2], values)
      absolute == CASE Is(e, "LITERAL")  -> e.value
                    [] Is(e, "VARIABLE") -> values[e.name]
                    [] Is(e, "SUM")      -> a + b
                    [] Is(e, "MUL")      -> a * b
                    [] Is(e, "DIV")      -> Quotient(a, b)
                    [] Is(e, "AND")      -> Truth(a # 0 /\ b # 0)
                    [] Is(e, "COMP")     -> Truth(Holds(e.value, a, b))
  IN  IF ~e.neg THEN absolute ELSE IF Is(e, "COMP") THEN 1 - absolute ELSE -absolute

HasVariable(e) == e.type \in {"VARIABLE", "FUNC"} \/ \E i \in DOMAIN e.args : HasVariable(e.args[i])

\* Whether a constant expression is not zero, or is zero.
NoValues == [name \in {} |-> 0]
ConstantTrue(e)  == ~HasVariable(e) /\ Value(e, NoValues) # 0
ConstantFalse(e) == ~HasVariable(e) /\ Value(e, NoValues) = 0

\* Conditions become 0 or 1, or lose a part, where they are constant.
SYM_Reduce(e) ==
  LET l == SYM_Reduce(e.args[1])
      r == SYM_Reduce(e.args[2])
      both == ~HasVariable(l) /\ ~HasVariable(r)
  IN  CASE Is(e, "AND") ->
             CondNegate(IF both THEN SYM_Lit(Truth(ConstantTrue(l) /\ ConstantTrue(r)))
                        ELSE IF ConstantTrue(l) THEN r
                        ELSE IF ConstantTrue(r) THEN l
                        ELSE IF ConstantFalse(l) \/ ConstantFalse(r) THEN SYM_0
                        ELSE IF l = r THEN l ELSE Abs(e), e.neg)
        [] Is(e, "COMP") ->
             IF l = r THEN SYM_Lit(Truth(e.value \in {LE, GE}))
             ELSE IF both THEN SYM_Lit(Truth(Holds(e.value, Value(l, NoValues), Value(r, NoValues)))) ELSE e
        [] OTHER -> e
===============================================================================
