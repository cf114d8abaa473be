---------------------------- MODULE AddressAccess ----------------------------
(***************************************************************************)
(* CompileAccess of software/compiler/addressGen.cpp: what an address       *)
(* generator is configured with so that it visits a nest of loops.          *)
(*                                                                         *)
(* An access is the symbolic sum start + term1 * x1 + term2 * x2 + ... with  *)
(* x1 the innermost loop; the compiler has already moved every loop to start *)
(* at zero.  Two loops share a level of the generator: a period, entered     *)
(* size times with incr between, and an iteration of it, with shift between. *)
(***************************************************************************)
EXTENDS Integers, Sequences

Levels == 1 .. 4      \* a generator has at most four

\* A nest of loops: [start, loops, dutyDiv], loops being pairs <<term, size>>
\* from the innermost to the outermost.
TermOf(loop) == loop[1]
SizeOf(loop) == loop[2]

\* A duty division gives every address dutyDiv turns: a loop of its own, which
\* does not occur in the sum.
Nest(access) ==
  IF access.dutyDiv = 1 THEN access.loops ELSE <<<<0, access.dutyDiv>>>> \o access.loops

\* The two loops of a level, where there are two.
Inner(nest, level) == nest[2 * level - 1]
Outer(nest, level) == nest[2 * level]
HasInner(nest, level) == 2 * level - 1 <= Len(nest)
HasOuter(nest, level) == 2 * level <= Len(nest)

CompileAccess(access) ==
  LET nest == Nest(access) IN
  [start |-> access.start,
   duty  |-> IF access.dutyDiv = 1 THEN SizeOf(nest[1]) ELSE SizeOf(nest[1]) \div access.dutyDiv,
   per   |-> [k \in Levels |-> IF HasInner(nest, k) THEN SizeOf(Inner(nest, k)) ELSE 0],
   incr  |-> [k \in Levels |-> IF HasInner(nest, k) THEN TermOf(Inner(nest, k)) ELSE 0],
   iter  |-> [k \in Levels |-> IF HasOuter(nest, k) THEN SizeOf(Outer(nest, k)) ELSE 0],
   shift |-> [k \in Levels |->
     IF HasOuter(nest, k)
       THEN TermOf(Outer(nest, k)) - TermOf(Inner(nest, k)) * (SizeOf(Inner(nest, k)) - 1)
       ELSE 0]]

-----------------------------------------------------------------------------
\* The reference, loop by loop: the points of the loops from the k-th outwards.
PointsFrom(nest) ==
  LET from[k \in 1 .. Len(nest) + 1] ==
        IF k > Len(nest) THEN 1 ELSE SizeOf(nest[k]) * from[k + 1]
  IN  from

\* The sum of their terms when they are entered the n-th time, counting from 0.
SumsFrom(nest) ==
  LET from[k \in 1 .. Len(nest) + 1] ==
        [n \in Nat |-> IF k > Len(nest) THEN 0
                       ELSE TermOf(nest[k]) * (n % SizeOf(nest[k]))
                              + from[k + 1][n \div SizeOf(nest[k])]]
  IN  from

\* The number of points of a nest, and the sum of the terms at its n-th point.
Points(nest)       == PointsFrom(nest)[1]
Addresses(nest, n) == SumsFrom(nest)[1][n]
=============================================================================
