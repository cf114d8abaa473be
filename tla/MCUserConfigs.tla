---------------------------- MODULE MCUserConfigs ----------------------------
(***************************************************************************)
(* Configuration functions of a few statements over units of each kind.      *)
(***************************************************************************)
EXTENDS UserConfigs

\* Names of one letter, by its place in the alphabet.
a == <<1>>
b == <<2>>
c == <<3>>
i == <<9>>
j == <<10>>
m == <<13>>
n == <<14>>
p == <<16>>
x == <<24>>
y == <<25>>
z == <<26>>

M(op, name, value, args) == [op |-> op, name |-> name, value |-> value, args |-> args]
Nm(name) == M("NAME", name, 0, <<>>)
Lit(v) == M("LITERAL", NoName, v, <<>>)
Op(op, l, r) == M(op, NoName, 0, <<l, r>>)
Plus(l, r) == Op("Add", l, r)
Less(l, r) == Op("Sub", l, r)
Mult(l, r) == Op("Mul", l, r)
Over(l, r) == Op("Div", l, r)
Neg(e) == M("Minus", NoName, 0, <<e>>)
Duty(e, d) == Op("DUTY", e, d)

Statement0 == [type |-> "", var |-> NoName, start |-> Lit(0), end |-> Lit(0), body |-> <<>>, unit |-> "", index |-> Lit(0),
               wire |-> "", pointer |-> NoName, expr |-> Lit(0), func |-> 0, args |-> <<>>]
Loop(type, var, start, end, body) ==
  [Statement0 EXCEPT !.type = type, !.var = var, !.start = start, !.end = end, !.body = body]
For(var, start, end, body) == Loop("FOR", var, start, end, body)
Gen(var, start, end, body) == Loop("GEN", var, start, end, body)
Set(unit, expr) == [Statement0 EXCEPT !.type = "ADDRESS", !.unit = unit, !.expr = expr]
SetAt(unit, index, expr) == [Set(unit, expr) EXCEPT !.index = index]
Read(unit, pointer, expr) == [Set(unit, expr) EXCEPT !.pointer = pointer]
Wire(unit, wire, expr) == [Statement0 EXCEPT !.type = "WIRE", !.unit = unit, !.wire = wire, !.expr = expr]
Call(unit, func, args) == [Statement0 EXCEPT !.type = "CALL", !.unit = unit, !.func = func, !.args = args]

Unit(type, maxLoops, input) == [type |-> type, maxLoops |-> maxLoops, input |-> input]
MCUnits == [u \in {"read", "long", "gen", "gens", "in0", "out0", "const", "inner"} |->
  CASE u = "read" -> Unit("READ", 1, TRUE)
    [] u = "long" -> Unit("READ", 2, TRUE)
    [] u = "gen" -> Unit("GEN", 2, TRUE)
    [] u = "gens" -> Unit("GEN", 1, TRUE)
    [] u = "in0" -> Unit("MEM", 2, TRUE)
    [] u = "out0" -> Unit("MEM", 1, FALSE)
    [] OTHER -> Unit("NONE", 0, TRUE)]

Function(variables, body) == [variables |-> variables, body |-> body]
Program(body, variables, inputs) == [functions |-> <<Function(variables, body)>>, inputs |-> inputs]

\* Loops over x, y and z, the outermost first, each with its bounds.
RECURSIVE Around(_, _, _)
Around(names, bounds, s) ==
  IF names = <<>> THEN s
  ELSE For(names[1], bounds[1][1], bounds[1][2], <<Around(Tail(names), Tail(bounds), s)>>)

UpTo(e) == <<Lit(0), e>>
From1(e) == <<Lit(1), Plus(e, Lit(1))>>
Moved(start, size) == <<start, Plus(start, size)>>

\* ---- One statement.  Sizes are at least one and read terms are not negative.
OneLoop(s, inputs) ==
  {[s |-> Around(<<x>>, <<bound>>, s), inputs |-> inputs] :
     bound \in {UpTo(Nm(n)), From1(Nm(n)), Moved(Nm(a), Nm(n)), UpTo(Over(Mult(Nm(n), Lit(4)), Lit(2)))}}
TwoLoops(s, inputs) ==
  {[s |-> Around(<<x, y>>, bounds, s), inputs |-> inputs] :
     bounds \in {<<UpTo(Nm(n)), UpTo(Lit(2))>>, <<Moved(Nm(a), Lit(2)), UpTo(Nm(n))>>, <<From1(Nm(n)), Moved(Nm(b), Nm(a))>>}}

Inputs == [{n, a, b} -> 1 .. 3]

ReadOne == {Plus(Nm(x), Nm(a)), Mult(Lit(3), Nm(x)), Plus(Mult(Plus(Nm(a), Lit(1)), Nm(x)), Mult(Nm(a), Nm(b)))}
ReadTwo ==
  {Plus(Plus(Mult(Nm(a), Nm(x)), Nm(y)), Lit(1)),
   Mult(Plus(Nm(x), Mult(Nm(y), Nm(a))), Lit(2)),
   Less(Plus(Mult(Nm(x), Plus(Nm(a), Nm(b))), Mult(Nm(b), Nm(y))), Mult(Nm(b), Nm(x))),
   Plus(Mult(Lit(5), Nm(x)), Mult(Nm(b), Nm(y))),
   Plus(Mult(Lit(2), Nm(x)), Mult(Lit(7), Nm(y))),
   Plus(Mult(Mult(Nm(a), Nm(b)), Nm(y)), Mult(Nm(x), Mult(Nm(b), Nm(a))))}
WalkOne == {Duty(Mult(Lit(3), Nm(x)), Lit(2)), Less(Nm(b), Mult(Lit(2), Nm(x))), Less(Nm(x), Mult(Nm(a), Lit(2)))}
WalkTwo == {Less(Mult(Nm(x), Nm(a)), Mult(Lit(2), Nm(y))), Duty(Plus(Nm(x), Mult(Nm(b), Nm(y))), Lit(2))}

Small == [{n, a, b} -> 1 .. 2]
Statements ==
  UNION ({OneLoop(Read("read", p, e), Inputs) : e \in ReadOne}
    \cup {TwoLoops(Read("read", p, e), Inputs) : e \in ReadTwo}
    \cup {OneLoop(Set(u, e), Small) : u \in {"gen", "in0", "out0"}, e \in WalkOne}
    \cup {TwoLoops(Set(u, e), Small) : u \in {"gen", "in0"}, e \in WalkTwo})

Alone == {Program(<<t.s>>, <<n, a, b, p>>, t.inputs) : t \in Statements}

\* Three loops around a fetch, whose terms are known, and more around an address generator.
Three == <<UpTo(Lit(2)), UpTo(Nm(n)), UpTo(Nm(a))>>
Deep ==
  {Program(<<Around(<<x, y, z>>, Three, Read("long", p, Plus(Plus(Mult(Lit(t), Nm(x)), Mult(Lit(3), Nm(y))), Nm(z))))>>,
           <<n, a, p>>, [{n, a} -> 1 .. 3]) : t \in {2, 9}}
  \cup {Program(<<Around(<<x, y, z>>, Three, Set("gen", Less(Plus(Mult(Nm(n), Nm(x)), Nm(z)), Mult(Lit(2), Nm(y)))))>>,
           <<n, a, p>>, [{n, a} -> 1 .. 3])}

\* Generators set in gen loops, inside and around a loop, with the other kinds of statement.
Array ==
  {Program(<<Gen(i, Lit(0), Lit(2), <<Around(<<x>>, <<UpTo(Nm(n))>>, SetAt("gens", Nm(i), Plus(Mult(Nm(i), Nm(x)), Nm(a))))>>),
             Wire("const", "constant", Less(Mult(Nm(a), Nm(n)), Lit(3)))>>, <<n, a>>, [{n, a} -> 1 .. 3]),
   Program(<<For(x, Lit(0), Nm(n), <<Gen(i, Lit(0), Lit(2), <<Gen(j, Lit(0), Lit(3),
               <<SetAt("gens", Plus(Mult(Nm(i), Lit(3)), Nm(j)), Plus(Mult(Nm(a), Nm(x)), Mult(Nm(i), Nm(j))))>>)>>),
               Read("read", p, Plus(Nm(x), Nm(a)))>>)>>, <<n, a, p>>, [{n, a} -> 1 .. 2])}

\* A function of an inner module, called for two of them.
Inner == Function(<<a, b>>,
  <<For(x, Lit(0), Nm(a), <<Set("gen", Plus(Mult(Nm(b), Nm(x)), Nm(b)))>>), Wire("const", "constant", Mult(Nm(a), Nm(b)))>>)
Called ==
  {[functions |-> <<Inner, Function(<<n, m>>,
      <<Gen(i, Lit(0), Lit(2), <<[Call("inner", 1, <<Plus(Nm(n), Nm(i)), e>>) EXCEPT !.index = Nm(i)]>>),
        For(x, Lit(0), Nm(n), <<Set("gen", Mult(Nm(x), Nm(m)))>>)>>)>>,
    inputs |-> [{n, m} -> 1 .. 3]] : e \in {Nm(m), Plus(Nm(m), Nm(n)), Lit(2)}}

\* A unit of one level cannot do three loops: the compiler stops.
TooDeep == {Program(<<Around(<<x, y, z>>, Three, Set("out0", Plus(Nm(x), Plus(Nm(y), Nm(z)))))>>, <<n, a>>, [{n, a} -> {1}])}

\* Wires set to sums and products of sums and products.
Flat == {Nm(a), Nm(b), Lit(2)} \cup {Op(op, l, r) : op \in {"Add", "Sub", "Mul"}, l \in {Nm(a), Lit(2)}, r \in {Nm(a), Nm(b)}}
Wires == {Program(<<Wire("const", "constant", Op(op, l, r))>>, <<a, b>>, [{a, b} -> {1, 3}]) :
            op \in {"Add", "Sub", "Mul"}, l \in Flat, r \in Flat}

MCPrograms ==
  {[q EXCEPT !.inputs = {(p :> 50) @@ v : v \in q.inputs}] : q \in Alone \cup Deep \cup Array \cup Called \cup TooDeep \cup Wires}

\* ---- A function none of whose units is configured as written.
Variable == Around(<<x, y, z>>, <<UpTo(Lit(2)), UpTo(Lit(2)), UpTo(Lit(2))>>,
                   Read("long", p, Plus(Plus(Mult(Nm(n), Nm(x)), Mult(Nm(m), Nm(y))), Mult(Nm(a), Nm(z)))))
Empty == Around(<<x>>, <<UpTo(Nm(b))>>, Read("read", p, Mult(Lit(2), Nm(x))))
TwoInside == Function(<<a, b>>, <<Around(<<x, y>>, <<UpTo(Nm(a)), UpTo(Nm(b))>>, Set("gen", Plus(Mult(Nm(b), Nm(x)), Nm(y))))>>)

Unconfigured ==
  {[functions |-> <<TwoInside, Function(<<n, m, a, b, p>>, <<Variable, Empty, Call("inner", 1, <<Nm(n), Nm(m)>>)>>)>>,
    inputs |-> {(b :> 0) @@ (p :> 50) @@ v : v \in [{n, m, a} -> 1 .. 5]}]}
===============================================================================
